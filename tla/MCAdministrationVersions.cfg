SPECIFICATION TopicSpec
CONSTANTS
  t1 = t1
  t2 = t2
  a1 = a1
  a2 = a2
  b1 = b1
  Tenants = {t1, t2}
  Members = {a1, a2, b1}
  Home <- Homes
  RoleIds = {r1, r2}
  PolicyIds = {p1}
  RestrictionIds = {x1}
  Permissions <- Names
  Bundles <- Asked
  Seeds <- Given
  Requests = {q1, q2}
  MaxVersion = 3
  Platform = Platform
  None = None
CHECK_DEADLOCK FALSE
PROPERTIES
  VersionsGrow
