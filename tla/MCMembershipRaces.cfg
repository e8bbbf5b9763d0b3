SPECIFICATION Spec
CONSTANTS
  Identities = {i1}
  Tenants = {t1}
  MembershipIds = {m1, m2}
  InvitationIds = {v1, v2}
  Ops = {p1, p2}
  Workers = {w1}
  BatchSize = 1
  None = None
SYMMETRY Symmetric
INVARIANTS
  TypeOK
  RowsAreUnique
  EffectiveWasActivated
  StatusIsExplained
  RedeemedHasMembership
  AnnouncedIsStored
