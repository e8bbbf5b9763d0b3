SPECIFICATION Spec
CONSTANTS
  AccessWorkers = {"assignments", "restrictions"}
  Sweep = "invitations"
INVARIANTS
  TypeOK
  ServesWhenReady
  NothingIsLeftBehind
PROPERTIES
  DrainedBeforePlatform
  ShutdownEnds
