SPECIFICATION WorkersSpec
CONSTANTS
  Identities = {i1}
  Tenants = {t1}
  Rights = {r1, r2}
  AssignmentIds = {1, 2}
  Reactions <- WorkerEvents
  People = {i1}
  Companies = {t1}
  MembershipIds = {m1}
  InvitationIds = {v1, v2}
  Ops = {p1}
  Workers = {w1}
  BatchSize = 1
  None = None
PROPERTIES
  DueIsExpired
  LapsedIsSettled
