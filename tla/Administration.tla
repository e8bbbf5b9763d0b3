--------------------------- MODULE Administration ---------------------------
(***************************************************************************)
(* The administration of Access by the people of a tenant: roles, their    *)
(* assignments, direct grants, policies and restrictions, as the API lets  *)
(* callers change them.                                                    *)
(*                                                                         *)
(* A request passes, each in awaits of its own: the decision on the        *)
(* permission of its route, the scope check of the document it names, the  *)
(* delegation check of every permission it hands on, the read of its use   *)
(* case, and the commit.  The commit of a change replaces the whole        *)
(* document by the one that was read, changed; only the unique indexes of  *)
(* the store are checked when it is applied.                               *)
(*                                                                         *)
(* A decision may deny for reasons of module Authorization (a restriction, *)
(* a suspension, an expiry, a denial): here any request may be abandoned,  *)
(* and what is said of decisions is what an allowing one requires.         *)
(***************************************************************************)
EXTENDS Integers, FiniteSets

CONSTANTS
  Tenants,
  Members,         \* memberships, as far as Access knows them
  Home,            \* the tenant of each membership, which never changes
  RoleIds, PolicyIds, RestrictionIds,  \* ids still to be generated
  Permissions,     \* names of permissions, those of the routes among them
  Bundles,         \* the sets of permissions that callers ask for
  Seeds,           \* those that the first people of a tenant are given
  Requests,        \* requests that may be in flight
  MaxVersion,      \* bounds the updates of a policy
  Platform,        \* the trusted caller, and the tenant of its own documents
  None             \* an absent document, or a field that is not set

VARIABLES
  roles,           \* collection roles: id -> document or None
  assignments,     \* collection roleAssignments: set of documents
  grants,          \* collection permissionAssignments: set of documents
  policies,        \* collection authorizationPolicies: id -> document or None
  restrictions,    \* collection accessRestrictions: id -> document or None
  seeded,          \* history: permissions the platform put into each tenant
  work             \* what each request is doing

documents == <<roles, assignments, grants, policies, restrictions>>
vars      == <<roles, assignments, grants, policies, restrictions, seeded,
               work>>

-----------------------------------------------------------------------------
(* State. *)

RoleOperations ==
  {"createRole", "updateRole", "archiveRole", "restoreRole"}
AssignmentOperations ==
  {"assignRole", "removeRole", "grantPermission", "revokePermission"}
PolicyOperations      == {"createPolicy", "updatePolicy", "archivePolicy"}
RestrictionOperations == {"createRestriction", "removeRestriction"}
Operations ==
  RoleOperations \union AssignmentOperations \union PolicyOperations
    \union RestrictionOperations

\* Each route asks for a permission of its own.
RoutePermission(op) == op

Owners  == Tenants \union {Platform}
Callers == Members \union {Platform}

RoleDocument ==
  [tenant : Owners, status : {"active", "archived"},
   permissions : SUBSET Permissions]
AssignmentDocument ==
  [member : Members, role : RoleIds, tenant : Tenants,
   status : {"granted", "removed"}]
GrantDocument ==
  [member : Members, permission : Permissions, tenant : Tenants,
   status : {"granted", "removed"}]
PolicyDocument ==
  [tenant : Owners, status : {"draft", "archived"}, version : 1..MaxVersion]

\* A restriction on a permission or a resource has no target here.
Targets == Members \union Tenants \union RoleIds \union {None}
RestrictionDocument ==
  [tenant : Owners, status : {"active", "removed"}, target : Targets,
   by : Callers]

Documents ==
  RoleDocument \union AssignmentDocument \union GrantDocument
    \union PolicyDocument \union RestrictionDocument

Ids == RoleIds \union PolicyIds \union RestrictionIds

\* on is the document a request names, to is the membership or the target of
\* its effect, asked the permissions it mentions (None when it mentions
\* none), todo those whose delegation is still to be checked, and row the
\* document that the commit is to write.
Work ==
  [step : {"idle", "scope", "delegate", "commit"},
   op : Operations \union {None}, by : Callers \union {None},
   tenant : Owners \union {None}, on : Ids \union Documents \union {None},
   to : Targets, asked : (SUBSET Permissions) \union {None},
   todo : SUBSET Permissions, row : Documents \union {None}]

Free ==
  [step |-> "idle", op |-> None, by |-> None, tenant |-> None, on |-> None,
   to |-> None, asked |-> None, todo |-> {}, row |-> None]

ASSUME HomeIsATenant == Home \in [Members -> Tenants]
ASSUME RoutesHavePermissions == Operations \subseteq Permissions
ASSUME BundlesOfPermissions == Bundles \union Seeds \subseteq SUBSET Permissions
ASSUME PlatformIsNobody == Platform \notin Tenants \union Members
ASSUME NoneIsNothing ==
  None \notin Tenants \union Members \union {Platform} \union Ids
                \union Documents
ASSUME VersionsAreCounted == MaxVersion \in Nat \ {0}

Init ==
  /\ roles        = [r \in RoleIds |-> None]
  /\ assignments  = {}
  /\ grants       = {}
  /\ policies     = [p \in PolicyIds |-> None]
  /\ restrictions = [x \in RestrictionIds |-> None]
  /\ seeded       = [t \in Tenants |-> {}]
  /\ work         = [q \in Requests |-> Free]

Busy(q, step) == work[q].step = step
Proceed(q, w) == work' = [work EXCEPT ![q] = w]

-----------------------------------------------------------------------------
(* Decisions. *)

\* What an allowing decision about a permission requires.
Holds(m, p) ==
  \/ \E a \in assignments :
       /\ a.member = m /\ a.tenant = Home[m] /\ a.status = "granted"
       /\ roles[a.role].status = "active"
       /\ p \in roles[a.role].permissions
  \/ \E g \in grants :
       g.member = m /\ g.tenant = Home[m] /\ g.status = "granted"
         /\ g.permission = p

Allowed(by, p) == by # Platform => Holds(by, p)

\* The tenant a caller acts in; the trusted caller may act anywhere.
Within(by, tenant) == by # Platform => tenant = Home[by]

\* Mutation: what a caller hands on is not compared with what it holds.
TrustsTheCaller(w, permissions) == {}

\* Only callers of a tenant are held to what they hold themselves.
ToDelegate(w, permissions) == IF w.by = Platform THEN {} ELSE permissions

-----------------------------------------------------------------------------
(* A request arrives, and the permission of its route is decided.  Ids of  *)
(* documents that do not exist yet are random, so nobody can name them.    *)

Receive(q, w) ==
  /\ Busy(q, "idle")
  /\ Allowed(w.by, RoutePermission(w.op))
  /\ Proceed(q, w)
  /\ UNCHANGED <<documents, seeded>>

\* A caller of a tenant creates roles and policies for its own tenant only.
\* Nothing is read before the delegation checks.
CreateRole(q) ==
  \E by \in Callers, t \in Owners, asked \in Bundles :
    /\ Within(by, t)
    /\ Receive(q, [Free EXCEPT !.step = "delegate", !.op = "createRole",
                     !.by = by, !.tenant = t, !.asked = asked,
                     !.todo = ToDelegate([by |-> by], asked)])

CreatePolicy(q) ==
  \E by \in Callers, t \in Owners :
    /\ Within(by, t)
    /\ Receive(q, [Free EXCEPT !.step = "delegate", !.op = "createPolicy",
                     !.by = by, !.tenant = t])

\* Update, archive and restore a role.
ChangeRole(q) ==
  \E by \in Callers, r \in RoleIds,
     op \in RoleOperations \ {"createRole"}, asked \in Bundles \union {None} :
    /\ roles[r] # None
    /\ op # "updateRole" => asked = None
    /\ Receive(q, [Free EXCEPT !.step = "scope", !.op = op, !.by = by,
                     !.on = r, !.asked = asked])

ChangePolicy(q) ==
  \E by \in Callers, p \in PolicyIds,
     op \in PolicyOperations \ {"createPolicy"} :
    /\ policies[p] # None
    /\ Receive(q, [Free EXCEPT !.step = "scope", !.op = op, !.by = by,
                     !.on = p])

\* Memberships are administered from within their tenant, never by the
\* trusted caller.
AssignRole(q) ==
  \E by \in Members, r \in RoleIds, m \in Members :
    /\ roles[r] # None
    /\ Receive(q, [Free EXCEPT !.step = "scope", !.op = "assignRole",
                     !.by = by, !.on = r, !.to = m])

RemoveRole(q) ==
  \E by \in Members, a \in assignments :
    Receive(q, [Free EXCEPT !.step = "scope", !.op = "removeRole",
                  !.by = by, !.on = a])

GrantPermission(q) ==
  \E by \in Members, p \in UNION Bundles, m \in Members :
    Receive(q, [Free EXCEPT !.step = "scope", !.op = "grantPermission",
                  !.by = by, !.asked = {p}, !.to = m])

RevokePermission(q) ==
  \E by \in Members, g \in grants :
    Receive(q, [Free EXCEPT !.step = "scope", !.op = "revokePermission",
                  !.by = by, !.on = g])

CreateRestriction(q) ==
  \E by \in Callers, t \in Owners, x \in Targets :
    /\ Within(by, t)
    /\ x \in RoleIds => roles[x] # None
    /\ Receive(q, [Free EXCEPT !.step = "scope", !.op = "createRestriction",
                     !.by = by, !.tenant = t, !.to = x])

RemoveRestriction(q) ==
  \E by \in Callers, x \in RestrictionIds :
    /\ restrictions[x] # None
    /\ Receive(q, [Free EXCEPT !.step = "scope", !.op = "removeRestriction",
                     !.by = by, !.on = x])

-----------------------------------------------------------------------------
(* The scope checks: what a request names belongs to the caller's tenant.  *)

Scoped(q, op, inScope, todo) ==
  /\ Busy(q, "scope")
  /\ work[q].op \in op
  /\ inScope
  /\ Proceed(q, [work[q] EXCEPT !.step = "delegate", !.todo = todo])
  /\ UNCHANGED <<documents, seeded>>

\* Mutation: a role need only exist.
AnyRole(by, r) == roles[r] # None

OwnRole(by, r) == Within(by, roles[r].tenant)

\* An update names the permissions of the role anew, or leaves them alone.
ScopeRole(q) ==
  LET w == work[q] IN
  Scoped(q, RoleOperations, OwnRole(w.by, w.on),
         IF w.asked = None THEN {} ELSE ToDelegate(w, w.asked))

ScopePolicy(q) ==
  LET w == work[q] IN
  Scoped(q, PolicyOperations, Within(w.by, policies[w.on].tenant), {})

\* Mutation: a membership need only be known.
AnyMember(by, m) == m \in Members

MemberInTenant(by, m) == Within(by, Home[m])

ScopeAssign(q) ==
  LET w == work[q] IN
  Scoped(q, {"assignRole"}, MemberInTenant(w.by, w.to) /\ OwnRole(w.by, w.on),
         ToDelegate(w, roles[w.on].permissions))

\* A role is removed, and a permission revoked, only by who holds as much.
ScopeRemove(q) ==
  LET w == work[q] IN
  Scoped(q, {"removeRole"},
         Within(w.by, w.on.tenant) /\ OwnRole(w.by, w.on.role),
         ToDelegate(w, roles[w.on.role].permissions))

ScopeGrant(q) ==
  LET w == work[q] IN
  Scoped(q, {"grantPermission"}, MemberInTenant(w.by, w.to),
         ToDelegate(w, w.asked))

ScopeRevoke(q) ==
  LET w == work[q] IN
  Scoped(q, {"revokePermission"}, Within(w.by, w.on.tenant),
         ToDelegate(w, {w.on.permission}))

\* The trusted caller names any target with any tenant.
ScopeCreateRestriction(q) ==
  LET w == work[q] IN
  Scoped(q, {"createRestriction"},
         /\ w.to \in Members => MemberInTenant(w.by, w.to)
         /\ w.to \in Tenants => Within(w.by, w.to)
         /\ w.to \in RoleIds => OwnRole(w.by, w.to),
         {})

ScopeRemoveRestriction(q) ==
  LET w == work[q] IN
  Scoped(q, {"removeRestriction"},
         Within(w.by, restrictions[w.on].tenant), {})

\* One permission after the other is decided for the caller, in the order of
\* the list that names them: here any order, but always the same.
Delegate(q) ==
  LET p == CHOOSE p \in work[q].todo : TRUE IN
  /\ Busy(q, "delegate")
  /\ work[q].todo # {}
  /\ Allowed(work[q].by, p)
  /\ Proceed(q, [work[q] EXCEPT !.todo = @ \ {p}])
  /\ UNCHANGED <<documents, seeded>>

-----------------------------------------------------------------------------
(* The reads of the use cases, and the documents they decide to write. *)

Loading(q, op) ==
  Busy(q, "delegate") /\ work[q].op = op /\ work[q].todo = {}

Decide(q, row) ==
  /\ Proceed(q, [work[q] EXCEPT !.step = "commit", !.row = row])
  /\ UNCHANGED <<documents, seeded>>

NewRole(t, permissions) ==
  [tenant |-> t, status |-> "active", permissions |-> permissions]

UpdatedRole(role, asked) ==
  IF asked = None THEN role ELSE [role EXCEPT !.permissions = asked]

ArchivedRole(role) == [role EXCEPT !.status = "archived"]

RestoredRole(role) == [role EXCEPT !.status = "active"]

NewAssignment(m, r, by) ==
  [member |-> m, role |-> r, tenant |-> Home[by], status |-> "granted"]

NewGrant(m, p, by) ==
  [member |-> m, permission |-> p, tenant |-> Home[by], status |-> "granted"]

\* Of a role and of a grant alike.
Removed(assignment) == [assignment EXCEPT !.status = "removed"]

NewPolicy(t) == [tenant |-> t, status |-> "draft", version |-> 1]

UpdatedPolicy(policy) == [policy EXCEPT !.version = @ + 1]

ArchivedPolicy(policy) == [policy EXCEPT !.status = "archived"]

NewRestriction(t, target, by) ==
  [tenant |-> t, status |-> "active", target |-> target, by |-> by]

RemovedRestriction(restriction) == [restriction EXCEPT !.status = "removed"]

LoadCreateRole(q) ==
  /\ Loading(q, "createRole")
  /\ Decide(q, NewRole(work[q].tenant, work[q].asked))

LoadUpdateRole(q) ==
  LET role == roles[work[q].on] IN
  /\ Loading(q, "updateRole")
  /\ role.status = "active"
  /\ Decide(q, UpdatedRole(role, work[q].asked))

LoadArchiveRole(q) ==
  LET role == roles[work[q].on] IN
  /\ Loading(q, "archiveRole")
  /\ role.status = "active"
  /\ Decide(q, ArchivedRole(role))

LoadRestoreRole(q) ==
  LET role == roles[work[q].on] IN
  /\ Loading(q, "restoreRole")
  /\ role.status = "archived"
  /\ Decide(q, RestoredRole(role))

\* A removed assignment passes the check and is stopped by the index.
LoadAssignRole(q) ==
  LET w == work[q]
      row == NewAssignment(w.to, w.on, w.by)
  IN
  /\ Loading(q, "assignRole")
  /\ roles[w.on].status = "active"
  /\ row \notin assignments
  /\ Decide(q, row)

LoadRemoveRole(q) ==
  /\ Loading(q, "removeRole")
  /\ Decide(q, Removed(work[q].on))

LoadGrantPermission(q) ==
  LET w == work[q] IN
  /\ Loading(q, "grantPermission")
  /\ \E p \in w.asked :
       LET row == NewGrant(w.to, p, w.by)
       IN row \notin grants /\ Decide(q, row)

LoadRevokePermission(q) ==
  /\ Loading(q, "revokePermission")
  /\ Decide(q, Removed(work[q].on))

LoadCreatePolicy(q) ==
  /\ Loading(q, "createPolicy")
  /\ Decide(q, NewPolicy(work[q].tenant))

LoadUpdatePolicy(q) ==
  LET policy == policies[work[q].on] IN
  /\ Loading(q, "updatePolicy")
  /\ policy.status # "archived"
  /\ policy.version < MaxVersion
  /\ Decide(q, UpdatedPolicy(policy))

LoadArchivePolicy(q) ==
  LET policy == policies[work[q].on] IN
  /\ Loading(q, "archivePolicy")
  /\ policy.status # "archived"
  /\ Decide(q, ArchivedPolicy(policy))

LoadCreateRestriction(q) ==
  /\ Loading(q, "createRestriction")
  /\ Decide(q, NewRestriction(work[q].tenant, work[q].to, work[q].by))

LoadRemoveRestriction(q) ==
  LET restriction == restrictions[work[q].on] IN
  /\ Loading(q, "removeRestriction")
  /\ restriction.status = "active"
  /\ Decide(q, RemovedRestriction(restriction))

-----------------------------------------------------------------------------
(* The commits. *)

Committing(q, ops) ==
  /\ Busy(q, "commit")
  /\ work[q].op \in ops
  /\ Proceed(q, Free)

\* The patch of an update holds every field of the document.
Overwritten(collection, q) ==
  [collection EXCEPT ![work[q].on] = work[q].row]

\* What the platform gives a role of a tenant, its people may hand on.
GivesAway(q) ==
  LET w == work[q] IN
  seeded' = IF w.by = Platform /\ w.row.tenant \in Tenants
            THEN [seeded EXCEPT ![w.row.tenant] = @ \union w.row.permissions]
            ELSE seeded

CommitNewRole(q, r) ==
  /\ Committing(q, {"createRole"})
  /\ roles[r] = None
  /\ roles' = [roles EXCEPT ![r] = work[q].row]
  /\ GivesAway(q)
  /\ UNCHANGED <<assignments, grants, policies, restrictions>>

\* The whole document, as it was read and changed.
CommitRole(q) ==
  /\ Committing(q, RoleOperations \ {"createRole"})
  /\ roles' = Overwritten(roles, q)
  /\ GivesAway(q)
  /\ UNCHANGED <<assignments, grants, policies, restrictions>>

SameAssignment(a, b) == a.member = b.member /\ a.role = b.role
SameGrant(a, b)      == a.member = b.member /\ a.permission = b.permission

\* The unique index on membership, role and tenant.
CommitAssignRole(q) ==
  /\ Committing(q, {"assignRole"})
  /\ \A a \in assignments : ~SameAssignment(a, work[q].row)
  /\ assignments' = assignments \union {work[q].row}
  /\ UNCHANGED <<roles, grants, policies, restrictions, seeded>>

CommitRemoveRole(q) ==
  LET row == work[q].row IN
  /\ Committing(q, {"removeRole"})
  /\ assignments' =
       {a \in assignments : ~SameAssignment(a, row)} \union {row}
  /\ UNCHANGED <<roles, grants, policies, restrictions, seeded>>

CommitGrantPermission(q) ==
  /\ Committing(q, {"grantPermission"})
  /\ \A g \in grants : ~SameGrant(g, work[q].row)
  /\ grants' = grants \union {work[q].row}
  /\ UNCHANGED <<roles, assignments, policies, restrictions, seeded>>

CommitRevokePermission(q) ==
  LET row == work[q].row IN
  /\ Committing(q, {"revokePermission"})
  /\ grants' = {g \in grants : ~SameGrant(g, row)} \union {row}
  /\ UNCHANGED <<roles, assignments, policies, restrictions, seeded>>

CommitNewPolicy(q, p) ==
  /\ Committing(q, {"createPolicy"})
  /\ policies[p] = None
  /\ policies' = [policies EXCEPT ![p] = work[q].row]
  /\ UNCHANGED <<roles, assignments, grants, restrictions, seeded>>

CommitPolicy(q) ==
  /\ Committing(q, PolicyOperations \ {"createPolicy"})
  /\ policies' = Overwritten(policies, q)
  /\ UNCHANGED <<roles, assignments, grants, restrictions, seeded>>

CommitNewRestriction(q, x) ==
  /\ Committing(q, {"createRestriction"})
  /\ restrictions[x] = None
  /\ restrictions' = [restrictions EXCEPT ![x] = work[q].row]
  /\ UNCHANGED <<roles, assignments, grants, policies, seeded>>

CommitRestriction(q) ==
  /\ Committing(q, {"removeRestriction"})
  /\ restrictions' = Overwritten(restrictions, q)
  /\ UNCHANGED <<roles, assignments, grants, policies, seeded>>

\* A decision denies, a check or the commit fails, or the process dies.
Abandon(q) ==
  /\ ~Busy(q, "idle")
  /\ Proceed(q, Free)
  /\ UNCHANGED <<documents, seeded>>

\* The first administrator of a tenant is put in place from outside: the
\* API cannot assign a role before somebody may assign roles.
Provision(r, m, permissions) ==
  /\ seeded[Home[m]] = {}
  /\ roles[r] = None
  /\ roles' = [roles EXCEPT ![r] = NewRole(Home[m], permissions)]
  /\ assignments' =
       assignments \union {[member |-> m, role |-> r, tenant |-> Home[m],
                            status |-> "granted"]}
  /\ seeded' = [seeded EXCEPT ![Home[m]] = @ \union permissions]
  /\ UNCHANGED <<grants, policies, restrictions, work>>

Receives(q) ==
  \/ CreateRole(q) \/ ChangeRole(q) \/ AssignRole(q) \/ RemoveRole(q)
  \/ GrantPermission(q) \/ RevokePermission(q)
  \/ CreatePolicy(q) \/ ChangePolicy(q)
  \/ CreateRestriction(q) \/ RemoveRestriction(q)

Scopes(q) ==
  \/ ScopeRole(q) \/ ScopePolicy(q) \/ ScopeAssign(q) \/ ScopeRemove(q)
  \/ ScopeGrant(q) \/ ScopeRevoke(q)
  \/ ScopeCreateRestriction(q) \/ ScopeRemoveRestriction(q)

Loads(q) ==
  \/ LoadCreateRole(q) \/ LoadUpdateRole(q) \/ LoadArchiveRole(q)
  \/ LoadRestoreRole(q) \/ LoadAssignRole(q) \/ LoadRemoveRole(q)
  \/ LoadGrantPermission(q) \/ LoadRevokePermission(q)
  \/ LoadCreatePolicy(q) \/ LoadUpdatePolicy(q) \/ LoadArchivePolicy(q)
  \/ LoadCreateRestriction(q) \/ LoadRemoveRestriction(q)

Commits(q) ==
  \/ \E r \in RoleIds : CommitNewRole(q, r)
  \/ \E p \in PolicyIds : CommitNewPolicy(q, p)
  \/ \E x \in RestrictionIds : CommitNewRestriction(q, x)
  \/ CommitRole(q) \/ CommitAssignRole(q) \/ CommitRemoveRole(q)
  \/ CommitGrantPermission(q) \/ CommitRevokePermission(q)
  \/ CommitPolicy(q) \/ CommitRestriction(q)

Proceeds(q) ==
  Scopes(q) \/ Delegate(q) \/ Loads(q) \/ Commits(q) \/ Abandon(q)

Provisions ==
  \E r \in RoleIds, m \in Members, s \in Seeds : Provision(r, m, s)

Next == Provisions \/ \E q \in Requests : Receives(q) \/ Proceeds(q)

Spec == Init /\ [][Next]_vars

-----------------------------------------------------------------------------
(* Properties. *)

TypeOK ==
  /\ roles \in [RoleIds -> RoleDocument \union {None}]
  /\ assignments \subseteq AssignmentDocument
  /\ grants \subseteq GrantDocument
  /\ policies \in [PolicyIds -> PolicyDocument \union {None}]
  /\ restrictions \in [RestrictionIds -> RestrictionDocument \union {None}]
  /\ seeded \in [Tenants -> SUBSET Permissions]
  /\ work \in [Requests -> Work]

\* No sequence of calls by the people of a tenant, however they interleave,
\* yields them a permission that the platform has not put into the tenant:
\* a permission that is in a role or a grant was handed on, check by check,
\* from somebody who held it, although what was checked may have changed by
\* the time of the commit.
AuthorityIsDelegated ==
  /\ \A r \in RoleIds :
       roles[r] # None /\ roles[r].tenant \in Tenants =>
         roles[r].permissions \subseteq seeded[roles[r].tenant]
  /\ \A g \in grants : g.permission \in seeded[g.tenant]

\* Whoever has a role or a grant is a member of the tenant that the document
\* names and, for a role, that owns it; and who restricts somebody or
\* something from within a tenant restricts its own.
EffectsBelong ==
  /\ \A a \in assignments :
       Home[a.member] = a.tenant /\ roles[a.role].tenant = a.tenant
  /\ \A g \in grants : Home[g.member] = g.tenant
  /\ \A x \in RestrictionIds :
       restrictions[x] # None /\ restrictions[x].by \in Members =>
         LET t == Home[restrictions[x].by]  at == restrictions[x].target IN
         /\ restrictions[x].tenant = t
         /\ at \in Members => Home[at] = t
         /\ at \in Tenants => at = t
         /\ at \in RoleIds => roles[at].tenant = t

\* The documents of a tenant change by the commit of a request made within
\* it, or by the platform: what a request has found to be its tenant's when
\* its scope was checked still is when it writes, and no commit writes a
\* document of another tenant along with its own.
OfTenant(collection, t) ==
  {<<i, collection[i]>> : i \in {j \in DOMAIN collection :
     collection[j] # None /\ collection[j].tenant = t}}

DocumentsOf(t) ==
  <<OfTenant(roles, t), OfTenant(policies, t), OfTenant(restrictions, t),
    {a \in assignments : a.tenant = t}, {g \in grants : g.tenant = t}>>

TenantsStayConfined ==
  [][\/ UNCHANGED work
     \/ \E q \in Requests :
          /\ Busy(q, "commit") /\ work'[q] = Free
          /\ \A t \in Owners :
               Within(work[q].by, t) \/ DocumentsOf(t)' = DocumentsOf(t)
    ]_documents

\* An update is to "preserve Role ownership and lifecycle state": a role that
\* was archived grants again only when it is restored.
ArchivedRolesWait ==
  [][\A r \in RoleIds :
       /\ roles[r] # None /\ roles[r].status = "archived"
       /\ roles'[r].status = "active"
       => \E q \in Requests :
            work[q].op = "restoreRole" /\ work'[q] = Free]_roles

\* An update is to "increment Policy version deterministically".
VersionsGrow ==
  [][\A p \in PolicyIds :
       policies[p] # None => policies'[p].version >= policies[p].version
    ]_policies
=============================================================================
