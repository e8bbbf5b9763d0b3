------------------------------ MODULE Requests ------------------------------
(***************************************************************************)
(* How a request gets to act: one request to Membership or a query of      *)
(* Access, from the route through the session of Identity, the context of  *)
(* Membership and the decision of Access to the rows it answers with or    *)
(* changes.  Each of these is an await of its own, asked of a service      *)
(* that goes on changing: sessions end, contexts are switched, members are *)
(* suspended, and Access, which hears of it by messages, decides           *)
(* differently some time later.                                            *)
(*                                                                         *)
(* What everybody else does meanwhile is one atomic change after another   *)
(* (Membership and AccessLifecycle have the races among writers).  allows  *)
(* is what Access would decide on the permission of a route: it depends on *)
(* facts that lag and on assignments, so here it changes at any time.      *)
(* Queries for providers, health checks and the operations of module       *)
(* Administration are left out.                                            *)
(***************************************************************************)
EXTENDS FiniteSets

CONSTANTS
  Sessions, Members, Invitations, Documents,  \* ids; Documents are Access's
  User,          \* the identity of each session
  Owner,         \* the identity of each membership
  Tenant,        \* the tenant of each membership, invitation and document
  ControlPlane,  \* the tenant of the platform
  None           \* a field that is not set

VARIABLES
  sessions,      \* Identity: id -> status
  members,       \* Membership: id -> status
  invitations,   \* Membership: id -> status
  contexts,      \* Membership: identity -> the membership selected, or None
  allows,        \* Access: memberships it would allow the operation
  request,       \* the request: how far it is and what it has read
  since          \* history: what has been true at some time since it began

store == <<sessions, members, invitations, contexts, allows>>
vars  == <<sessions, members, invitations, contexts, allows, request, since>>

-----------------------------------------------------------------------------
(* The routes. *)

MemberRoutes     == {"activate", "suspend", "reactivate", "archive"}
InvitationRoutes == {"revoke", "expire", "get invitation"}
TenantRoutes     == {"create", "invite", "list members", "list invitations"}
OwnRoutes        == {"redeem", "switch", "current"}

AccessRoutes ==
  {"get role", "list roles", "list role assignments",
   "list permission assignments", "list policies", "list restrictions"}

Routes ==
  MemberRoutes \union InvitationRoutes \union TenantRoutes \union OwnRoutes
    \union {"get member"} \union AccessRoutes

-----------------------------------------------------------------------------
(* State. *)

Rows       == Members \union Invitations \union Documents
Identities == {User[s] : s \in Sessions} \union {Owner[m] : m \in Members}
Tenants    == {Tenant[r] : r \in Rows}

ASSUME IdsAreApart ==
  /\ Members \intersect (Invitations \union Documents) = {}
  /\ Invitations \intersect Documents = {}
  /\ None \notin Sessions \union Rows \union Identities \union Tenants

SessionStatuses    == {"active", "ended"}
MemberStatuses     == {"none", "pending", "active", "suspended", "archived"}
InvitationStatuses == {"none", "pending", "settled"}

\* by is the membership the actor acts by, on the row a request names or is
\* about to change, tenant the one it names, rows what it is answered with.
Request ==
  [at : {"idle", "arrived", "known", "located", "decide", "decided",
         "judged", "answered"},
   route : Routes \union {None}, session : Sessions \union {None},
   actor : Identities \union {None}, by : Members \union {None},
   on : Members \union Invitations \union {None},
   tenant : Tenants \union {None}, rows : SUBSET Rows]

Idle ==
  [at |-> "idle", route |-> None, session |-> None, actor |-> None,
   by |-> None, on |-> None, tenant |-> None, rows |-> {}]

Nothing == [session |-> FALSE, active |-> {}, allowed |-> {}]

TypeOK ==
  /\ sessions \in [Sessions -> SessionStatuses]
  /\ members \in [Members -> MemberStatuses]
  /\ invitations \in [Invitations -> InvitationStatuses]
  /\ contexts \in [Identities -> Members \union {None}]
  /\ allows \subseteq Members
  /\ request \in Request
  /\ since \in [session : BOOLEAN, active : SUBSET Members,
                allowed : SUBSET Members]

Init ==
  /\ sessions    = [s \in Sessions |-> "active"]
  /\ members     = [m \in Members |-> "none"]
  /\ invitations = [v \in Invitations |-> "none"]
  /\ contexts    = [i \in Identities |-> None]
  /\ allows      = {}
  /\ request     = Idle
  /\ since       = Nothing

Stored(m)     == members[m] # "none"
OwnMembers(i) == {m \in Members : Owner[m] = i}
OfTenant(t)   == {r \in Rows : Tenant[r] = t}

-----------------------------------------------------------------------------
(* The request: the session, the context, the decision. *)

At(place) == request.at = place

\* The body or the path names a row, or a tenant, by the schema of the route.
Arrive(s, route, on, tenant) ==
  /\ At("idle")
  /\ on \in CASE route \in MemberRoutes \union {"switch", "get member"} ->
                   {m \in Members : Stored(m)}
              [] route \in InvitationRoutes \union {"redeem"} ->
                   {v \in Invitations : invitations[v] # "none"}
              [] OTHER -> {None}
  /\ tenant \in IF route \in TenantRoutes THEN Tenants ELSE {None}
  /\ request' = [Idle EXCEPT !.at = "arrived", !.route = route,
                             !.session = s, !.on = on, !.tenant = tenant]
  /\ UNCHANGED store

\* The session has to be active when it is looked up; its user is the actor.
Authenticate ==
  /\ At("arrived")
  /\ sessions[request.session] = "active"
  /\ request' = [request EXCEPT !.at = "known",
                                !.actor = User[request.session]]
  /\ UNCHANGED store

Administrative ==
  request.route \notin OwnRoutes \union AccessRoutes \union {"get member"}

\* One may read one's own membership; another takes the permission, in the
\* tenant of the row.
ReadOwnMember ==
  /\ At("known")
  /\ request.route = "get member"
  /\ Owner[request.on] = request.actor
  /\ request' = [request EXCEPT !.at = "answered", !.rows = {request.on}]
  /\ UNCHANGED store

OthersMember ==
  request.route = "get member" /\ Owner[request.on] # request.actor

\* The membership that the actor has selected, if there is one.
Selected(place) ==
  /\ contexts[request.actor] # None
  /\ request' = [request EXCEPT !.at = place, !.by = contexts[request.actor]]
  /\ UNCHANGED store

ReadContext ==
  /\ At("known")
  /\ Administrative \/ OthersMember
  /\ Selected("located")

\* Mutation: the status of the selected membership is not looked at.
SelectedMember(m) == Owner[m] = request.actor

\* A context outlives the membership it selects.
ActiveMember(m) == Owner[m] = request.actor /\ members[m] = "active"

\* The tenant a request is about: the one it names, that of the row to be
\* read, or that of the context.
TenantOf ==
  IF OthersMember THEN Tenant[request.on]
  ELSE IF request.tenant # None THEN request.tenant
  ELSE Tenant[request.by]

ReadOwn ==
  /\ At("located")
  /\ ActiveMember(request.by)
  /\ TenantOf = Tenant[request.by]
  /\ request' = [request EXCEPT !.at = "decide"]
  /\ UNCHANGED store

\* A query of Access is resolved to the context alone, whose membership only
\* the decision looks at.
ResolveAccess ==
  /\ At("known")
  /\ request.route \in AccessRoutes
  /\ Selected("decide")

\* What Access answers is for the membership and the tenant of the context.
Allowed(m) == m \in allows

Decide ==
  /\ At("decide")
  /\ Allowed(request.by)
  /\ request' = [request EXCEPT !.at = "decided"]
  /\ UNCHANGED store

-----------------------------------------------------------------------------
(* Answers. *)

\* Mutation: the tenant of the context is looked up again.
SelectedTenant == Tenant[contexts[request.actor]]

\* The tenant the decision was about.
AuthorizedTenant == Tenant[request.by]

InAuthorizedTenant(row) == Tenant[row] = AuthorizedTenant

Answer(rows) ==
  /\ request' = [request EXCEPT !.at = "answered", !.rows = rows]
  /\ UNCHANGED store

GetMember ==
  /\ At("decided")
  /\ request.route = "get member"
  /\ Answer({request.on})

GetInvitation ==
  /\ At("decided")
  /\ request.route = "get invitation"
  /\ InAuthorizedTenant(request.on)
  /\ Answer({request.on})

ListMembers ==
  /\ At("decided")
  /\ request.route = "list members"
  /\ Answer({m \in Members \intersect OfTenant(request.tenant) : Stored(m)})

ListInvitations ==
  /\ At("decided")
  /\ request.route = "list invitations"
  /\ Answer({v \in Invitations \intersect OfTenant(request.tenant) :
               invitations[v] # "none"})

\* Of an answer of Access everything is said here that filters and pages
\* then cut down.
OwnDocuments == Documents \intersect OfTenant(AuthorizedTenant)

\* The platform sees the roles and the assignments of everybody.
PlatformSees(documents) ==
  IF AuthorizedTenant = ControlPlane THEN documents ELSE OwnDocuments

GetRole ==
  /\ At("decided")
  /\ request.route = "get role"
  /\ \E role \in OwnDocuments : Answer({role})

ListRoles ==
  /\ At("decided")
  /\ request.route = "list roles"
  /\ Answer(PlatformSees(Documents))

ListRoleAssignments ==
  /\ At("decided")
  /\ request.route = "list role assignments"
  /\ Answer(PlatformSees(Documents))

ListPermissionAssignments ==
  /\ At("decided")
  /\ request.route = "list permission assignments"
  /\ Answer(PlatformSees(Documents))

ListPolicies ==
  /\ At("decided")
  /\ request.route = "list policies"
  /\ Answer(OwnDocuments)

ListRestrictions ==
  /\ At("decided")
  /\ request.route = "list restrictions"
  /\ Answer(OwnDocuments)

ReadCurrent ==
  /\ At("known")
  /\ request.route = "current"
  /\ contexts[request.actor] # None
  /\ Answer({contexts[request.actor]})

-----------------------------------------------------------------------------
(* Changes: the last read of the use case, then its commit. *)

From(route) ==
  CASE route = "activate"   -> {"pending"}
    [] route = "suspend"    -> {"active"}
    [] route = "reactivate" -> {"suspended"}
    [] route = "archive"    -> {"pending", "active", "suspended"}

To(route) ==
  CASE route = "activate"   -> "active"
    [] route = "suspend"    -> "suspended"
    [] route = "reactivate" -> "active"
    [] route = "archive"    -> "archived"

Judge(row) ==
  /\ request' = [request EXCEPT !.at = "judged", !.on = row, !.rows = {row}]
  /\ UNCHANGED store

JudgeMember ==
  /\ At("decided")
  /\ request.route \in MemberRoutes
  /\ InAuthorizedTenant(request.on)
  /\ members[request.on] \in From(request.route)
  /\ Judge(request.on)

JudgeInvitation ==
  /\ At("decided")
  /\ request.route \in {"revoke", "expire"}
  /\ InAuthorizedTenant(request.on)
  /\ invitations[request.on] = "pending"
  /\ Judge(request.on)

\* A new row for anybody, in the tenant that the body names.
JudgeNew ==
  /\ At("decided")
  /\ \/ /\ request.route = "create"
        /\ \E m \in Members \intersect OfTenant(request.tenant) :
             ~Stored(m) /\ Judge(m)
     \/ /\ request.route = "invite"
        /\ \E v \in Invitations \intersect OfTenant(request.tenant) :
             invitations[v] = "none" /\ Judge(v)

\* Invitations are redeemed, and contexts switched, for the actor alone.
JudgeRedeem ==
  /\ At("known")
  /\ request.route = "redeem"
  /\ invitations[request.on] = "pending"
  /\ Judge(request.on)

JudgeSwitch ==
  /\ At("known")
  /\ request.route = "switch"
  /\ ActiveMember(request.on)
  /\ Judge(request.on)

\* The commit patches the row by its id, whatever has become of it since.
CommitMember ==
  /\ At("judged")
  /\ request.route \in MemberRoutes
  /\ members' = [members EXCEPT ![request.on] = To(request.route)]
  /\ request' = Idle
  /\ UNCHANGED <<sessions, invitations, contexts, allows>>

CommitInvitation ==
  /\ At("judged")
  /\ request.route \in {"revoke", "expire"}
  /\ invitations' = [invitations EXCEPT ![request.on] = "settled"]
  /\ request' = Idle
  /\ UNCHANGED <<sessions, members, contexts, allows>>

CommitNew ==
  /\ At("judged")
  /\ request' = Idle
  /\ \/ /\ request.route = "create"
        /\ ~Stored(request.on)
        /\ \E status \in {"pending", "active"} :
             members' = [members EXCEPT ![request.on] = status]
        /\ UNCHANGED invitations
     \/ /\ request.route = "invite"
        /\ invitations[request.on] = "none"
        /\ invitations' = [invitations EXCEPT ![request.on] = "pending"]
        /\ UNCHANGED members
  /\ UNCHANGED <<sessions, contexts, allows>>

\* With the invitation the actor gets a pending membership, or keeps its own.
CommitRedeem ==
  /\ At("judged")
  /\ request.route = "redeem"
  /\ invitations' = [invitations EXCEPT ![request.on] = "settled"]
  /\ \E m \in OwnMembers(request.actor) \intersect OfTenant(Tenant[request.on]) :
       members' = [members EXCEPT ![m] = IF Stored(m) THEN @ ELSE "pending"]
  /\ request' = Idle
  /\ UNCHANGED <<sessions, contexts, allows>>

CommitSwitch ==
  /\ At("judged")
  /\ request.route = "switch"
  /\ contexts' = [contexts EXCEPT ![request.actor] = request.on]
  /\ request' = Idle
  /\ UNCHANGED <<sessions, members, invitations, allows>>

\* The answer is sent; or a check has failed, an index has refused a commit,
\* or the process has died, and nothing else happens.
End ==
  /\ ~At("idle")
  /\ request' = Idle
  /\ UNCHANGED store

-----------------------------------------------------------------------------
(* Everybody else. *)

Later(status) ==
  CASE status = "none"      -> {"pending", "active"}
    [] status = "pending"   -> {"active", "archived"}
    [] status = "active"    -> {"suspended", "archived"}
    [] status = "suspended" -> {"active", "archived"}
    [] status = "archived"  -> {}

SessionEnds(s) ==
  /\ sessions[s] = "active"
  /\ sessions' = [sessions EXCEPT ![s] = "ended"]
  /\ UNCHANGED <<members, invitations, contexts, allows, request>>

MemberChanges(m) ==
  /\ \E status \in Later(members[m]) :
       members' = [members EXCEPT ![m] = status]
  /\ UNCHANGED <<sessions, invitations, contexts, allows, request>>

InvitationChanges(v) ==
  /\ \/ /\ invitations[v] = "none"
        /\ invitations' = [invitations EXCEPT ![v] = "pending"]
     \/ /\ invitations[v] = "pending"
        /\ invitations' = [invitations EXCEPT ![v] = "settled"]
  /\ UNCHANGED <<sessions, members, contexts, allows, request>>

\* A context is switched by an active session only.
ContextChanges(s) ==
  /\ sessions[s] = "active"
  /\ \E m \in OwnMembers(User[s]) :
       /\ members[m] = "active"
       /\ contexts' = [contexts EXCEPT ![User[s]] = m]
  /\ UNCHANGED <<sessions, members, invitations, allows, request>>

\* External: a fact reaches Access, or an assignment, role or restriction is
\* changed.  Access allows no membership it has not heard of, and what it
\* would allow people without a session is of no interest.
DecisionChanges(m) ==
  /\ Stored(m)
  /\ \E s \in Sessions : User[s] = Owner[m]
  /\ allows' = IF m \in allows THEN allows \ {m} ELSE allows \union {m}
  /\ UNCHANGED <<sessions, members, invitations, contexts, request>>

Others ==
  \/ \E s \in Sessions : SessionEnds(s) \/ ContextChanges(s)
  \/ \E m \in Members : MemberChanges(m) \/ DecisionChanges(m)
  \/ \E v \in Invitations : InvitationChanges(v)

Handle ==
  \/ \E s \in Sessions, route \in Routes, tenant \in Tenants \union {None},
        on \in Members \union Invitations \union {None} :
       Arrive(s, route, on, tenant)
  \/ Authenticate
  \/ ReadContext \/ ReadOwn \/ ResolveAccess \/ Decide
  \/ ReadOwnMember \/ GetMember \/ GetInvitation \/ ReadCurrent
  \/ ListMembers \/ ListInvitations
  \/ GetRole \/ ListRoles \/ ListRoleAssignments
  \/ ListPermissionAssignments \/ ListPolicies \/ ListRestrictions
  \/ JudgeMember \/ JudgeInvitation \/ JudgeNew \/ JudgeRedeem \/ JudgeSwitch
  \/ CommitMember \/ CommitInvitation \/ CommitNew \/ CommitRedeem
  \/ CommitSwitch
  \/ End

\* History of the memberships that the request may still act by or select.
Concerned ==
  CASE request.route \in {"redeem", "current"} -> {}
    [] request.route = "switch" -> {request.on}
    [] OTHER -> IF request.by # None THEN {request.by}
                ELSE OwnMembers(User[request.session])

Active == {m \in Members : members[m] = "active"}

Observe ==
  since' = IF At("idle")' THEN Nothing
           ELSE [session |-> since.session
                               \/ (sessions[request.session] = "active")',
                 active  |-> (since.active \union Active') \intersect Concerned',
                 allowed |-> (since.allowed \union allows')
                               \intersect Concerned']

Next == (Handle \/ Others) /\ Observe

Spec == Init /\ [][Next]_vars

-----------------------------------------------------------------------------
(* Properties. *)

Authorized ==
  /\ request.by \in since.allowed
  /\ request.route \notin AccessRoutes => request.by \in since.active

Done == request.at \in {"judged", "answered"}

\* Whatever a request reads or changes, its session was active at some time
\* since it began, and what is not its own it reaches by a membership of its
\* user that Access allowed and, for an operation of Membership, that was
\* active at some time since: neither a context that outlives its membership
\* nor a decision or a session of long ago lets anybody act.
ActsUnderAuthority ==
  Done =>
    /\ since.session
    /\ request.route \notin OwnRoutes
         /\ (request.route = "get member" =>
               Owner[request.on] # User[request.session])
       => Authorized
    /\ request.route = "switch" => request.on \in since.active

Own(r) == r \in Members /\ Owner[r] = User[request.session]

\* However contexts are switched meanwhile, the rows a request reaches are
\* the user's own, or in the tenant that the decision was about; except for
\* the lists of the platform, and an invitation that is redeemed.
ReachIsConfined ==
  Done =>
    \A r \in request.rows :
      \/ Own(r)
      \/ request.by # None /\ Tenant[r] = Tenant[request.by]
      \/ /\ request.route \in {"list roles", "list role assignments",
                               "list permission assignments"}
         /\ Tenant[request.by] = ControlPlane
      \/ request.route = "redeem"
=============================================================================
