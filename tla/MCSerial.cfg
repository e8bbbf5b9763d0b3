SPECIFICATION SerialSpec
CONSTANTS
  Identities = {i1}
  Tenants = {t1}
  Rights = {r1}
  AssignmentIds = {1}
  Reactions <- OverlappingEvents
  Ops = {p1}
  Workers = {p1}
  BatchSize = 1
  None = None
  People = {1, 2}
  Companies = {c1}
  MembershipIds = {1, 2}
  InvitationIds = {3, 4}
PROPERTIES
  ImplementsLifecycle
  ArchivedTenantIsFinal
  MembershipImplementsLifecycle
  RestorationIsSourceAware
INVARIANTS
  MembershipGovernsAssignments
