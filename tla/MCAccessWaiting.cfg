SPECIFICATION Spec
CONSTANTS
  Identities = {i1}
  Tenants = {t1}
  Rights = {r1}
  AssignmentIds = {1}
  Reactions <- WorkerEvents
  Ops = {p1}
  Workers = {}
  BatchSize = 1
  None = None
PROPERTIES
  WaitingAssignmentsActivate
