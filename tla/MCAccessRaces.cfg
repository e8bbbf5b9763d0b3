SPECIFICATION Spec
CONSTANTS
  Identities = {i1}
  Tenants = {t1}
  Rights = {r1}
  AssignmentIds = {1, 2}
  Reactions <- RacingCauses
  Ops = {p1, p2}
  Workers = {w1}
  BatchSize = 1
  None = None
SYMMETRY Symmetric
INVARIANTS
  TypeOK
  OneAssignmentPerRight
  SuspensionIsConsistent
