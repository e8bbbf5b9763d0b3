SPECIFICATION Spec
CONSTANTS
  Identities = {i1}
  Tenants = {t1}
  MembershipIds = {m1}
  InvitationIds = {v1}
  Ops = {p1, p2}
  Workers = {}
  BatchSize = 1
  None = None
PROPERTIES
  RevokedIsNotRedeemed
