CONSTANTS
  s1 = s1  m1 = m1  m2 = m2  m3 = m3  v1 = v1  d1 = d1  d2 = d2
  ann = ann  bob = bob  plane = plane  tenant = tenant
  Sessions = {s1}
  Members = {m1, m2, m3}
  Invitations = {v1}
  Documents = {d1, d2}
  User <- MCUser
  Owner <- MCOwner
  Tenant <- MCTenant
  ControlPlane = plane
  None = None

SPECIFICATION Spec

INVARIANTS
  ActsUnderAuthority
  ReachIsConfined
