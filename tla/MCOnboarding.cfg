SPECIFICATION Spec
CONSTANTS
  Emails = {e1}
  UserIds = {u1, u2}
  Tenants = {t1, t2}
  MembershipIds = {m1, m2}
  InvitationIds = {v1, v2}
  Requests = {q1, q2}
  Ops = {p1}
  Workers = {}
  BatchSize = 1
  None = None
SYMMETRY Symmetric
INVARIANTS
  OneIdentityPerEmail
  EffectiveMembersAreVerified
  ProjectionIsNotAhead
  RequestsAreSettled
  VerifiedMembersAreActivated
PROPERTIES
  SettledInvitationsAdmitNobody
