--------------------------- MODULE RequestsProofs ---------------------------
(***************************************************************************)
(* Whatever sessions, members and tenants there are, and whatever happens  *)
(* to them between two steps of a request: what it reads or changes it may *)
(* and reaches.  The invariant says what a request may rely on at each     *)
(* place of its way; of what it has looked at it can only rely on that it  *)
(* has once been so, which since remembers, and on what never changes:     *)
(* owners and tenants.                                                     *)
(***************************************************************************)
EXTENDS Requests, TLAPS

\* A context selects a membership of its identity.
ContextsAreOwn ==
  \A i \in Identities :
    contexts[i] # None => contexts[i] \in Members /\ Owner[contexts[i]] = i

\* Routes that name a row.
NamesMember     == MemberRoutes \union {"switch", "get member"}
NamesInvitation == InvitationRoutes \union {"redeem"}

\* The route and what it names are known from the start, the actor once the session is.
Identified ==
  /\ ~At("idle") => request.session \in Sessions /\ request.route \in Routes
  /\ request.at \notin {"idle", "arrived"} =>
       /\ request.actor = User[request.session]
       /\ since.session
  /\ ~At("idle") /\ request.route \in TenantRoutes =>
       request.tenant \in Tenants
  /\ ~At("idle") /\ request.route \in NamesMember => request.on \in Members
  /\ ~At("idle") /\ request.route \in NamesInvitation =>
       request.on \in Invitations

\* From the context on, there is a membership to act by, and the route is not
\* one of those that need none.
Located ==
  request.at \in {"located", "decide", "decided"} =>
    /\ request.by \in Members
    /\ request.route \notin OwnRoutes
    /\ request.route = "get member" => Owner[request.on] # request.actor

\* The membership was active, and it is of the tenant the request is about.
Checked ==
  request.at \in {"decide", "decided"} =>
    /\ request.route \notin AccessRoutes => request.by \in since.active
    /\ request.route = "get member" =>
         Tenant[request.on] = Tenant[request.by]
    /\ request.route \in TenantRoutes => request.tenant = Tenant[request.by]

IsAllowed == At("decided") => request.by \in since.allowed

\* A switch that is about to be committed selects a membership of the actor.
SwitchIsOwn ==
  At("judged") /\ request.route = "switch" =>
    request.on \in Members /\ Owner[request.on] = request.actor

Guided ==
  /\ TypeOK /\ ContextsAreOwn
  /\ Identified /\ Located /\ Checked /\ IsAllowed /\ SwitchIsOwn
  /\ ActsUnderAuthority /\ ReachIsConfined

-----------------------------------------------------------------------------
(* What since remembers. *)

\* A membership that the request acts by is not forgotten.
LEMMA Remembers ==
  ASSUME TypeOK, Observe, ~At("idle")', request'.route = request.route
  PROVE  /\ since.session => since'.session
         /\ request.by # None /\ request'.by = request.by
              /\ request.route \notin {"redeem", "current", "switch"} =>
              /\ request.by \in since.active => request.by \in since'.active
              /\ request.by \in since.allowed => request.by \in since'.allowed
         /\ request.route = "switch" /\ request'.on = request.on
              /\ request.on \in since.active => request.on \in since'.active
<1>1. since' = [session |-> since.session
                              \/ (sessions[request.session] = "active")',
                active  |-> (since.active \union Active') \intersect Concerned',
                allowed |-> (since.allowed \union allows')
                              \intersect Concerned']
  BY DEF Observe
<1>2. since.session => since'.session
  BY <1>1
<1>3. since'.active = (since.active \union Active') \intersect Concerned'
  BY <1>1
<1>4. since'.allowed = (since.allowed \union allows') \intersect Concerned'
  BY <1>1
<1>5. request.by # None /\ request'.by = request.by
        /\ request.route \notin {"redeem", "current", "switch"} =>
        Concerned' = {request.by}
  BY DEF Concerned
<1>6. request.route = "switch" /\ request'.on = request.on =>
        Concerned' = {request.on}
  BY DEF Concerned
<1>7. QED
  BY <1>2, <1>3, <1>4, <1>5, <1>6

\* What is looked at in a step that changes nothing else is remembered.
LEMMA Sees ==
  ASSUME TypeOK, Observe, UNCHANGED store, ~At("idle")',
         request'.route = request.route
  PROVE  /\ sessions[request'.session] = "active" => since'.session
         /\ \A m \in Members :
              m \in Concerned' =>
                /\ members[m] = "active" => m \in since'.active
                /\ m \in allows => m \in since'.allowed
<1>1. since' = [session |-> since.session
                              \/ (sessions[request.session] = "active")',
                active  |-> (since.active \union Active') \intersect Concerned',
                allowed |-> (since.allowed \union allows')
                              \intersect Concerned']
  BY DEF Observe
<1>2. sessions[request'.session] = "active" => since'.session
  <2>1. (sessions[request.session] = "active")' =
          (sessions[request'.session] = "active")
    BY DEF store
  <2>2. QED
    BY <1>1, <2>1
<1>3. since'.active = (since.active \union Active') \intersect Concerned'
  BY <1>1
<1>4. since'.allowed = (since.allowed \union allows') \intersect Concerned'
  BY <1>1
<1>5. Active' = Active /\ allows' = allows
  BY DEF Active, store
<1>6. QED
  BY <1>2, <1>3, <1>4, <1>5 DEF Active

LEMMA ObserveType ==
  ASSUME TypeOK, Observe, request' \in Request, allows' \subseteq Members
  PROVE  since' \in [session : BOOLEAN, active : SUBSET Members,
                     allowed : SUBSET Members]
<1>1. CASE At("idle")'
  BY <1>1 DEF Observe, Nothing
<1>2. CASE ~At("idle")'
  <2>1. since' = [session |-> since.session
                                \/ (sessions[request.session] = "active")',
                  active  |-> (since.active \union Active')
                                \intersect Concerned',
                  allowed |-> (since.allowed \union allows')
                                \intersect Concerned']
    BY <1>2 DEF Observe
  <2>2. (since.session \/ (sessions[request.session] = "active")') \in BOOLEAN
    BY DEF TypeOK
  <2>3. (since.active \union Active') \intersect Concerned' \subseteq Members
    BY DEF TypeOK, Active
  <2>4. (since.allowed \union allows') \intersect Concerned' \subseteq Members
    BY DEF TypeOK
  <2>5. QED
    BY <2>1, <2>2, <2>3, <2>4
<1>3. QED
  BY <1>1, <1>2

-----------------------------------------------------------------------------
(* Everybody else. *)

Steady ==
  /\ Identified /\ Located /\ Checked /\ IsAllowed /\ SwitchIsOwn
  /\ ActsUnderAuthority /\ ReachIsConfined

\* A request may rely on the same things after a step of somebody else.
LEMMA Unmoved ==
  ASSUME Guided, Observe, request' = request
  PROVE  Steady'
<1> USE DEF Guided
<1>1. CASE At("idle")
  BY <1>1 DEF Steady, Identified, Located, Checked, IsAllowed, SwitchIsOwn,
     ActsUnderAuthority, ReachIsConfined, At, Done
<1>2. CASE ~At("idle")
  <2>1. /\ since.session => since'.session
        /\ request.by # None
             /\ request.route \notin {"redeem", "current", "switch"} =>
             /\ request.by \in since.active => request.by \in since'.active
             /\ request.by \in since.allowed =>
                  request.by \in since'.allowed
        /\ request.route = "switch" =>
             (request.on \in since.active => request.on \in since'.active)
    BY <1>2, Remembers DEF At
  <2>2. Identified'
    BY <2>1 DEF Identified, At
  <2>3. Located' /\ SwitchIsOwn'
    BY DEF Located, SwitchIsOwn, At
  <2>4. \A m \in Members : m # None
    BY IdsAreApart DEF Rows
  <2>5. Checked'
    BY <2>1, <2>4 DEF Checked, Located, OwnRoutes
  <2>6. IsAllowed'
    BY <2>1, <2>4 DEF IsAllowed, Located, OwnRoutes, At
  <2>7. ActsUnderAuthority'
    <3> SUFFICES ASSUME Done
                 PROVE  ActsUnderAuthority'
      BY DEF ActsUnderAuthority, Done
    <3>1. since'.session
      BY <2>1 DEF ActsUnderAuthority
    <3>2. ASSUME request.route \notin OwnRoutes, Authorized
          PROVE  Authorized'
      <4>1. request.by \in Members
        BY <3>2 DEF Authorized, TypeOK
      <4>2. QED
        BY <2>1, <2>4, <3>2, <4>1 DEF Authorized, OwnRoutes
    <3>3. request.route = "switch" => request.on \in since'.active
      BY <2>1 DEF ActsUnderAuthority
    <3>4. QED
      BY <3>1, <3>2, <3>3 DEF ActsUnderAuthority, Done
  <2>8. ReachIsConfined'
    BY DEF ReachIsConfined, Done, Own
  <2>9. QED
    BY <2>2, <2>3, <2>5, <2>6, <2>7, <2>8 DEF Steady
<1>3. QED
  BY <1>1, <1>2

LEMMA OthersStep ==
  ASSUME Guided, Others, Observe
  PROVE  Guided'
<1> USE DEF Guided
<1>1. request' = request
  BY DEF Others, SessionEnds, ContextChanges, MemberChanges, DecisionChanges,
         InvitationChanges
<1>2. sessions' \in [Sessions -> SessionStatuses]
  BY DEF Others, SessionEnds, ContextChanges, MemberChanges, DecisionChanges,
         InvitationChanges, TypeOK, SessionStatuses
<1>3. members' \in [Members -> MemberStatuses]
  <2>1. CASE \E m \in Members : MemberChanges(m)
    <3>1. PICK m \in Members : MemberChanges(m)
      BY <2>1
    <3>2. members[m] \in MemberStatuses
      BY DEF TypeOK
    <3>3. Later(members[m]) \subseteq MemberStatuses
      BY <3>2 DEF Later, MemberStatuses
    <3>4. QED
      BY <3>1, <3>3 DEF MemberChanges, TypeOK
  <2>2. CASE members' = members
    BY <2>2 DEF TypeOK
  <2>3. QED
    BY <2>1, <2>2 DEF Others, SessionEnds, ContextChanges, DecisionChanges,
       InvitationChanges
<1>4. invitations' \in [Invitations -> InvitationStatuses]
  BY DEF Others, SessionEnds, ContextChanges, MemberChanges, DecisionChanges,
         InvitationChanges, TypeOK, InvitationStatuses
<1>5. contexts' \in [Identities -> Members \union {None}] /\ ContextsAreOwn'
  <2>1. CASE \E s \in Sessions : ContextChanges(s)
    <3>1. PICK s \in Sessions : ContextChanges(s)
      BY <2>1
    <3>2. PICK m \in OwnMembers(User[s]) :
            contexts' = [contexts EXCEPT ![User[s]] = m]
      BY <3>1 DEF ContextChanges
    <3>3. m \in Members /\ Owner[m] = User[s]
      BY DEF OwnMembers
    <3>4. QED
      BY <3>2, <3>3 DEF TypeOK, ContextsAreOwn
  <2>2. CASE contexts' = contexts
    BY <2>2 DEF TypeOK, ContextsAreOwn
  <2>3. QED
    BY <2>1, <2>2 DEF Others, SessionEnds, MemberChanges, DecisionChanges,
       InvitationChanges
<1>6. allows' \subseteq Members
  BY DEF Others, SessionEnds, ContextChanges, MemberChanges, DecisionChanges,
         InvitationChanges, TypeOK
<1>7. request' \in Request
  BY <1>1 DEF TypeOK
<1>8. TypeOK'
  BY <1>2, <1>3, <1>4, <1>5, <1>6, <1>7, ObserveType DEF TypeOK
<1>9. QED
  BY <1>1, <1>5, <1>8, Unmoved DEF Steady

-----------------------------------------------------------------------------
(* The way of a request. *)

LEMMA NothingStored ==
  ASSUME Guided, Observe, UNCHANGED store, request' \in Request
  PROVE  TypeOK' /\ ContextsAreOwn'
<1> USE DEF Guided
<1>1. /\ sessions' = sessions /\ members' = members
      /\ invitations' = invitations /\ contexts' = contexts
      /\ allows' = allows
  BY DEF store
<1>2. allows' \subseteq Members
  BY <1>1 DEF TypeOK
<1>3. since' \in [session : BOOLEAN, active : SUBSET Members,
                  allowed : SUBSET Members]
  BY <1>2, ObserveType
<1>4. QED
  BY <1>1, <1>3 DEF TypeOK, ContextsAreOwn

LEMMA ArriveStep ==
  ASSUME Guided, Observe, NEW s \in Sessions, NEW route \in Routes,
         NEW on \in Members \union Invitations \union {None},
         NEW tenant \in Tenants \union {None}, Arrive(s, route, on, tenant)
  PROVE  Guided'
<1> USE DEF Guided
<1>1. request' = [at |-> "arrived", route |-> route, session |-> s,
                  actor |-> None, by |-> None, on |-> on, tenant |-> tenant,
                  rows |-> {}]
  BY DEF Arrive, Idle
<1>2. request' \in Request
  BY <1>1 DEF Request
<1>3. route \in TenantRoutes => tenant \in Tenants
  BY DEF Arrive
<1>4. /\ route \in NamesMember => on \in Members
      /\ route \in NamesInvitation => on \in Invitations
  BY DEF Arrive, NamesMember, NamesInvitation, MemberRoutes, InvitationRoutes
<1>5. TypeOK' /\ ContextsAreOwn'
  BY <1>2, NothingStored DEF Arrive
<1>6. Identified'
  BY <1>1, <1>3, <1>4 DEF Identified, At
<1>7. Located' /\ Checked' /\ IsAllowed' /\ SwitchIsOwn'
  BY <1>1 DEF Located, Checked, IsAllowed, SwitchIsOwn, At
<1>8. ActsUnderAuthority' /\ ReachIsConfined'
  BY <1>1 DEF ActsUnderAuthority, ReachIsConfined, Done
<1>9. QED
  BY <1>5, <1>6, <1>7, <1>8

LEMMA AuthenticateStep ==
  ASSUME Guided, Observe, Authenticate
  PROVE  Guided'
<1> USE DEF Guided
<1>1. /\ request \in Request /\ request.at = "arrived"
      /\ sessions[request.session] = "active"
      /\ request.session \in Sessions /\ request.route \in Routes
  BY DEF Authenticate, At, TypeOK, Identified
<1>2. request' = [request EXCEPT !.at = "known",
                                 !.actor = User[request.session]]
  BY DEF Authenticate
<1>3. /\ request'.at = "known" /\ request'.actor = User[request.session]
      /\ request'.session = request.session /\ request'.route = request.route
      /\ request'.tenant = request.tenant /\ request'.on = request.on
  BY <1>1, <1>2 DEF Request
<1>4. request' \in Request
  BY <1>1, <1>2 DEF Request, Identities
<1>5. TypeOK' /\ ContextsAreOwn'
  BY <1>4, NothingStored DEF Authenticate
<1>6. since'.session
  BY <1>1, <1>3, Sees DEF Authenticate, At
<1>7. Identified'
  BY <1>1, <1>3, <1>6 DEF Identified, At
<1>8. Located' /\ Checked' /\ IsAllowed' /\ SwitchIsOwn'
  BY <1>3 DEF Located, Checked, IsAllowed, SwitchIsOwn, At
<1>9. ActsUnderAuthority' /\ ReachIsConfined'
  BY <1>3 DEF ActsUnderAuthority, ReachIsConfined, Done
<1>10. QED
  BY <1>5, <1>7, <1>8, <1>9

\* A step of a request that is not done yet: what it has been identified by
\* stays, and it is not done after it.
LEMMA OnTheWay ==
  ASSUME Guided, Observe, UNCHANGED store,
         request.at \in {"known", "located", "decide", "decided"},
         NEW place \in {"located", "decide", "decided", "judged", "answered"},
         request'.at = place, request' \in Request,
         request'.route = request.route, request'.session = request.session,
         request'.actor = request.actor, request'.tenant = request.tenant,
         request.route \notin {"create", "invite"} => request'.on = request.on
  PROVE  /\ TypeOK' /\ ContextsAreOwn' /\ Identified'
         /\ since.session /\ since'.session
<1> USE DEF Guided
<1>1. TypeOK' /\ ContextsAreOwn'
  BY NothingStored
<1>2. since.session /\ since'.session
  BY Remembers DEF Identified, At
<1>3. request.route \in NamesMember \union NamesInvitation =>
        request'.on = request.on
  BY DEF NamesMember, NamesInvitation, MemberRoutes, InvitationRoutes
<1>4. Identified'
  BY <1>2, <1>3 DEF Identified, At
<1>5. QED
  BY <1>1, <1>2, <1>4

LEMMA SelectStep ==
  ASSUME Guided, Observe, ReadContext \/ ResolveAccess
  PROVE  Guided'
<1> USE DEF Guided
<1>1. PICK place \in {"located", "decide"} :
        /\ contexts[request.actor] # None
        /\ request' = [request EXCEPT !.at = place,
                                      !.by = contexts[request.actor]]
        /\ UNCHANGED store
        /\ place = "decide" <=> request.route \in AccessRoutes
  BY DEF ReadContext, ResolveAccess, Selected, Administrative, OthersMember,
         AccessRoutes
<1>2. /\ request.at = "known" /\ request \in Request
      /\ request.actor \in Identities /\ request.route \in Routes
  <2>1. request.at = "known" /\ request \in Request
    BY DEF ReadContext, ResolveAccess, At, TypeOK
  <2>2. /\ request.session \in Sessions /\ request.route \in Routes
        /\ request.actor = User[request.session]
    BY <2>1 DEF Identified, At
  <2>3. QED
    BY <2>1, <2>2 DEF Identities
<1>3. contexts[request.actor] \in Members
  BY <1>1, <1>2 DEF ContextsAreOwn
<1>4. /\ request'.at = place /\ request'.by = contexts[request.actor]
      /\ request'.route = request.route /\ request'.session = request.session
      /\ request'.actor = request.actor /\ request'.tenant = request.tenant
      /\ request'.on = request.on
  BY <1>1, <1>2 DEF Request
<1>5. request' \in Request
  BY <1>1, <1>2, <1>3 DEF Request
<1>6. TypeOK' /\ ContextsAreOwn' /\ Identified'
  BY <1>1, <1>2, <1>4, <1>5, OnTheWay
<1>7. /\ request.route \notin OwnRoutes
      /\ request.route = "get member" => Owner[request.on] # request.actor
  BY DEF ReadContext, ResolveAccess, Administrative, OthersMember, OwnRoutes,
         AccessRoutes
<1>8. Located'
  BY <1>3, <1>4, <1>7 DEF Located
<1>9. Checked' /\ IsAllowed' /\ SwitchIsOwn'
  <2>1. CASE place = "located"
    BY <1>4, <2>1 DEF Checked, IsAllowed, SwitchIsOwn, At
  <2>2. CASE place = "decide"
    <3>1. request.route \in AccessRoutes
      BY <1>1, <2>2
    <3>2. request.route \notin TenantRoutes \union {"get member"}
      BY <3>1 DEF AccessRoutes, TenantRoutes
    <3>3. QED
      BY <1>4, <2>2, <3>1, <3>2 DEF Checked, IsAllowed, SwitchIsOwn, At
  <2>3. QED
    BY <2>1, <2>2
<1>10. ActsUnderAuthority' /\ ReachIsConfined'
  BY <1>4 DEF ActsUnderAuthority, ReachIsConfined, Done
<1>11. QED
  BY <1>6, <1>8, <1>9, <1>10

\* What the request acts by is remembered once it is seen.
LEMMA ByIsConcerned ==
  ASSUME TypeOK, request'.by \in Members, request'.route \notin OwnRoutes
  PROVE  Concerned' = {request'.by}
<1>1. request'.by # None
  BY IdsAreApart DEF Rows
<1>2. request'.route \notin {"redeem", "current", "switch"}
  BY DEF OwnRoutes
<1>3. QED
  BY <1>1, <1>2 DEF Concerned

LEMMA ReadOwnStep ==
  ASSUME Guided, Observe, ReadOwn
  PROVE  Guided'
<1> USE DEF Guided
<1>1. /\ request.at = "located" /\ request \in Request
      /\ members[request.by] = "active" /\ TenantOf = Tenant[request.by]
      /\ request' = [request EXCEPT !.at = "decide"] /\ UNCHANGED store
  BY DEF ReadOwn, At, ActiveMember, TypeOK
<1>2. /\ request'.at = "decide" /\ request'.by = request.by
      /\ request'.route = request.route /\ request'.session = request.session
      /\ request'.actor = request.actor /\ request'.tenant = request.tenant
      /\ request'.on = request.on
  BY <1>1 DEF Request
<1>3. request' \in Request
  BY <1>1 DEF Request
<1>4. TypeOK' /\ ContextsAreOwn' /\ Identified'
  BY <1>1, <1>2, <1>3, OnTheWay
<1>5. /\ request.by \in Members /\ request.route \notin OwnRoutes
      /\ request.route = "get member" => Owner[request.on] # request.actor
  BY <1>1 DEF Located
<1>6. Located'
  BY <1>2, <1>5 DEF Located
<1>7. request.by \in since'.active
  <2>1. request.by \in Concerned'
    BY <1>2, <1>5, ByIsConcerned
  <2>2. ~At("idle")'
    BY <1>2 DEF At
  <2>3. QED
    BY <1>1, <1>2, <1>5, <2>1, <2>2, Sees
<1>8. request.route = "get member" => Tenant[request.on] = Tenant[request.by]
  BY <1>1, <1>5 DEF TenantOf, OthersMember
<1>9. request.route \in TenantRoutes => request.tenant = Tenant[request.by]
  <2>1. SUFFICES ASSUME request.route \in TenantRoutes
                 PROVE  request.tenant = Tenant[request.by]
    OBVIOUS
  <2>2. request.route # "get member"
    BY <2>1 DEF TenantRoutes
  <2>3. request.tenant # None
    BY <1>1, <2>1, IdsAreApart DEF Identified, At
  <2>4. QED
    BY <1>1, <2>2, <2>3 DEF TenantOf, OthersMember
<1>10. Checked' /\ IsAllowed' /\ SwitchIsOwn'
  BY <1>2, <1>7, <1>8, <1>9 DEF Checked, IsAllowed, SwitchIsOwn, At
<1>11. ActsUnderAuthority' /\ ReachIsConfined'
  BY <1>2 DEF ActsUnderAuthority, ReachIsConfined, Done
<1>12. QED
  BY <1>4, <1>6, <1>10, <1>11

LEMMA DecideStep ==
  ASSUME Guided, Observe, Decide
  PROVE  Guided'
<1> USE DEF Guided
<1>1. /\ request.at = "decide" /\ request \in Request
      /\ request.by \in allows
      /\ request' = [request EXCEPT !.at = "decided"] /\ UNCHANGED store
  BY DEF Decide, At, Allowed, TypeOK
<1>2. /\ request'.at = "decided" /\ request'.by = request.by
      /\ request'.route = request.route /\ request'.session = request.session
      /\ request'.actor = request.actor /\ request'.tenant = request.tenant
      /\ request'.on = request.on
  BY <1>1 DEF Request
<1>3. request' \in Request
  BY <1>1 DEF Request
<1>4. TypeOK' /\ ContextsAreOwn' /\ Identified'
  BY <1>1, <1>2, <1>3, OnTheWay
<1>5. request.by \in Members /\ request.route \notin OwnRoutes
  BY <1>1 DEF Located
<1>6. Located'
  BY <1>1, <1>2 DEF Located
<1>7. ~At("idle")' /\ request.by \in Concerned'
  BY <1>2, <1>5, ByIsConcerned DEF At
<1>8. request.by \in since'.allowed
  BY <1>1, <1>2, <1>5, <1>7, Sees
<1>9. request.by # None /\ request.route \notin {"redeem", "current", "switch"}
  BY <1>5, IdsAreApart DEF Rows, OwnRoutes
<1>10. request.by \in since.active => request.by \in since'.active
  BY <1>2, <1>7, <1>9, Remembers
<1>11. Checked' /\ IsAllowed' /\ SwitchIsOwn'
  BY <1>1, <1>2, <1>8, <1>10 DEF Checked, IsAllowed, SwitchIsOwn, At
<1>12. ActsUnderAuthority' /\ ReachIsConfined'
  BY <1>2 DEF ActsUnderAuthority, ReachIsConfined, Done
<1>13. QED
  BY <1>4, <1>6, <1>11, <1>12

-----------------------------------------------------------------------------
(* Answers, and the judgement of what is to be changed. *)

\* A request that the decision has been made on reaches rows of its tenant;
\* the platform's lists reach all.
LEMMA ReachStep ==
  ASSUME Guided, Observe, UNCHANGED store, At("decided"),
         request'.at \in {"judged", "answered"}, request' \in Request,
         request'.route = request.route, request'.session = request.session,
         request'.actor = request.actor, request'.tenant = request.tenant,
         request'.by = request.by,
         request.route \notin {"create", "invite"} => request'.on = request.on,
         \/ \A r \in request'.rows : Tenant[r] = Tenant[request.by]
         \/ /\ request.route \in {"list roles", "list role assignments",
                                  "list permission assignments"}
            /\ Tenant[request.by] = ControlPlane
  PROVE  Guided'
<1> USE DEF Guided
<1>1. /\ request.at = "decided"
      /\ request.by \in Members /\ request.route \notin OwnRoutes
      /\ request.by \in since.allowed
      /\ request.route \notin AccessRoutes => request.by \in since.active
  BY DEF At, Located, Checked, IsAllowed
<1>2. /\ TypeOK' /\ ContextsAreOwn' /\ Identified' /\ since'.session
  BY <1>1, OnTheWay
<1>3. request.by # None /\ request.route \notin {"redeem", "current", "switch"}
  BY <1>1, IdsAreApart DEF Rows, OwnRoutes
<1>4. ~At("idle")'
  BY DEF At
<1>5. /\ request.by \in since.active => request.by \in since'.active
      /\ request.by \in since'.allowed
  BY <1>1, <1>3, <1>4, Remembers
<1>6. Located' /\ Checked' /\ IsAllowed' /\ SwitchIsOwn'
  BY <1>3 DEF Located, Checked, IsAllowed, SwitchIsOwn, At
<1>7. ActsUnderAuthority'
  <2>1. Authorized'
    BY <1>1, <1>5 DEF Authorized
  <2>2. QED
    BY <1>2, <1>3, <2>1 DEF ActsUnderAuthority
<1>8. ReachIsConfined'
  BY <1>3 DEF ReachIsConfined
<1>9. QED
  BY <1>2, <1>6, <1>7, <1>8

LEMMA AnswerStep ==
  ASSUME Guided, Observe, At("decided"), NEW rows \in SUBSET Rows, Answer(rows),
         \/ \A r \in rows : Tenant[r] = Tenant[request.by]
         \/ /\ request.route \in {"list roles", "list role assignments",
                                  "list permission assignments"}
            /\ Tenant[request.by] = ControlPlane
  PROVE  Guided'
<1>1. request \in Request /\ UNCHANGED store
  BY DEF Guided, TypeOK, Answer
<1>2. request' = [request EXCEPT !.at = "answered", !.rows = rows]
  BY DEF Answer
<1>3. /\ request'.at = "answered" /\ request'.rows = rows
      /\ request'.by = request.by /\ request'.on = request.on
      /\ request'.route = request.route /\ request'.session = request.session
      /\ request'.actor = request.actor /\ request'.tenant = request.tenant
  BY <1>1, <1>2 DEF Request
<1>4. request' \in Request
  BY <1>1, <1>2 DEF Request
<1>5. QED
  BY <1>1, <1>3, <1>4, ReachStep

LEMMA AnswersStep ==
  ASSUME Guided, Observe,
         \/ GetMember \/ GetInvitation \/ ListMembers \/ ListInvitations
         \/ GetRole \/ ListRoles \/ ListRoleAssignments
         \/ ListPermissionAssignments \/ ListPolicies \/ ListRestrictions
  PROVE  Guided'
<1> USE DEF Guided
<1>1. At("decided")
  BY DEF GetMember, GetInvitation, ListMembers, ListInvitations, GetRole,
         ListRoles, ListRoleAssignments, ListPermissionAssignments,
         ListPolicies, ListRestrictions
<1>2. request \in Request /\ request.at = "decided"
  BY <1>1 DEF TypeOK, At
<1>3. CASE GetMember
  <2>1. /\ request.on \in Members /\ Answer({request.on})
        /\ Tenant[request.on] = Tenant[request.by]
    BY <1>2, <1>3 DEF GetMember, Identified, Checked, NamesMember, At
  <2>2. {request.on} \in SUBSET Rows
    BY <2>1 DEF Rows
  <2>3. QED
    BY <1>1, <2>1, <2>2, AnswerStep
<1>4. CASE GetInvitation
  <2>1. /\ Tenant[request.on] = Tenant[request.by] /\ Answer({request.on})
    BY <1>4 DEF GetInvitation, InAuthorizedTenant, AuthorizedTenant
  <2>2. {request.on} \in SUBSET Rows
    BY <1>2, <1>4 DEF GetInvitation, Identified, NamesInvitation,
       InvitationRoutes, Rows, At
  <2>3. QED
    BY <1>1, <2>1, <2>2, AnswerStep
<1>5. CASE ListMembers \/ ListInvitations
  <2>1. request.tenant = Tenant[request.by]
    BY <1>2, <1>5 DEF ListMembers, ListInvitations, TenantRoutes, Checked
  <2>2. PICK rows \in SUBSET Rows :
          Answer(rows) /\ rows \subseteq OfTenant(request.tenant)
    <3>1. CASE ListMembers
      <4> DEFINE M == {m \in Members \intersect OfTenant(request.tenant) :
                        Stored(m)}
      <4>1. Answer(M)
        BY <3>1 DEF ListMembers
      <4>2. M \in SUBSET Rows /\ M \subseteq OfTenant(request.tenant)
        BY DEF Rows
      <4> QED
        BY <4>1, <4>2
    <3>2. CASE ListInvitations
      <4> DEFINE V == {v \in Invitations \intersect OfTenant(request.tenant) :
                        invitations[v] # "none"}
      <4>1. Answer(V)
        BY <3>2 DEF ListInvitations
      <4>2. V \in SUBSET Rows /\ V \subseteq OfTenant(request.tenant)
        BY DEF Rows
      <4> QED
        BY <4>1, <4>2
    <3>3. QED
      BY <1>5, <3>1, <3>2
  <2>3. \A r \in rows : Tenant[r] = Tenant[request.by]
    BY <2>1, <2>2 DEF OfTenant
  <2>4. QED
    BY <1>1, <2>2, <2>3, AnswerStep
<1>6. CASE GetRole \/ ListPolicies \/ ListRestrictions
  <2>1. PICK rows \in SUBSET OwnDocuments : Answer(rows)
    BY <1>6 DEF GetRole, ListPolicies, ListRestrictions
  <2>2. rows \in SUBSET Rows /\ \A r \in rows : Tenant[r] = Tenant[request.by]
    BY <2>1 DEF OwnDocuments, OfTenant, AuthorizedTenant, Rows
  <2>3. QED
    BY <1>1, <2>1, <2>2, AnswerStep
<1>7. CASE ListRoles \/ ListRoleAssignments \/ ListPermissionAssignments
  <2>1. /\ Answer(PlatformSees(Documents))
        /\ request.route \in {"list roles", "list role assignments",
                             "list permission assignments"}
    BY <1>7 DEF ListRoles, ListRoleAssignments, ListPermissionAssignments
  <2>2. CASE Tenant[request.by] = ControlPlane
    <3>1. PlatformSees(Documents) = Documents /\ Documents \in SUBSET Rows
      BY <2>2 DEF PlatformSees, AuthorizedTenant, Rows
    <3>2. QED
      BY <1>1, <2>1, <2>2, <3>1, AnswerStep
  <2>3. CASE Tenant[request.by] # ControlPlane
    <3>1. PlatformSees(Documents) = OwnDocuments
      BY <2>3 DEF PlatformSees, AuthorizedTenant
    <3>2. /\ OwnDocuments \in SUBSET Rows
          /\ \A r \in OwnDocuments : Tenant[r] = Tenant[request.by]
      BY DEF OwnDocuments, OfTenant, AuthorizedTenant, Rows
    <3>3. QED
      BY <1>1, <2>1, <3>1, <3>2, AnswerStep
  <2>4. QED
    BY <2>2, <2>3
<1>8. QED
  BY <1>3, <1>4, <1>5, <1>6, <1>7

LEMMA JudgeStep ==
  ASSUME Guided, Observe, JudgeMember \/ JudgeInvitation \/ JudgeNew
  PROVE  Guided'
<1> USE DEF Guided
<1>1. /\ At("decided") /\ request \in Request /\ request.at = "decided"
  BY DEF JudgeMember, JudgeInvitation, JudgeNew, TypeOK, At
<1>2. PICK row \in Members \union Invitations :
        /\ Judge(row) /\ Tenant[row] = Tenant[request.by]
        /\ request.route \notin {"create", "invite"} => row = request.on
  <2>1. CASE JudgeMember
    <3>1. request.on \in Members
      BY <1>1, <2>1 DEF JudgeMember, Identified, NamesMember, At
    <3>2. QED
      BY <2>1, <3>1 DEF JudgeMember, InAuthorizedTenant, AuthorizedTenant
  <2>2. CASE JudgeInvitation
    <3>1. request.on \in Invitations
      BY <1>1, <2>2 DEF JudgeInvitation, Identified, NamesInvitation,
         InvitationRoutes, At
    <3>2. QED
      BY <2>2, <3>1 DEF JudgeInvitation, InAuthorizedTenant, AuthorizedTenant
  <2>3. CASE JudgeNew
    <3>1. request.route \in {"create", "invite"}
      BY <2>3 DEF JudgeNew
    <3>2. request.tenant = Tenant[request.by]
      BY <1>1, <3>1 DEF TenantRoutes, Checked
    <3>3. PICK row \in Members \union Invitations :
            Judge(row) /\ row \in OfTenant(request.tenant)
      BY <2>3 DEF JudgeNew
    <3>4. QED
      BY <3>1, <3>2, <3>3 DEF OfTenant
  <2>4. QED
    BY <2>1, <2>2, <2>3
<1>3. UNCHANGED store
  BY <1>2 DEF Judge
<1>4. request' = [request EXCEPT !.at = "judged", !.on = row, !.rows = {row}]
  BY <1>2 DEF Judge
<1>5. /\ request'.at = "judged" /\ request'.rows = {row}
      /\ request'.by = request.by /\ request'.on = row
      /\ request'.route = request.route /\ request'.session = request.session
      /\ request'.actor = request.actor /\ request'.tenant = request.tenant
  BY <1>1, <1>4 DEF Request
<1>6. request' \in Request
  BY <1>1, <1>4 DEF Request, Rows
<1>7. QED
  BY <1>1, <1>2, <1>3, <1>5, <1>6, ReachStep

-----------------------------------------------------------------------------
(* What the actor may do without a permission. *)

\* The actor of a request that is known is the user of its session, and it
\* selects its own memberships.
LEMMA KnownActor ==
  ASSUME Guided, At("known")
  PROVE  /\ request \in Request /\ request.at = "known"
         /\ request.session \in Sessions
         /\ request.actor = User[request.session]
         /\ request.actor \in Identities
<1>1. request \in Request /\ request.at = "known"
  BY DEF Guided, TypeOK, At
<1>2. request.session \in Sessions /\ request.actor = User[request.session]
  BY <1>1 DEF Guided, Identified, At
<1>3. QED
  BY <1>1, <1>2 DEF Identities

LEMMA OwnAnswerStep ==
  ASSUME Guided, Observe, At("known"), NEW m \in Members,
         Owner[m] = request.actor, Answer({m}),
         \/ request.route = "current"
         \/ request.route = "get member" /\ m = request.on
  PROVE  Guided'
<1> USE DEF Guided
<1>1. /\ request \in Request /\ request.at = "known"
      /\ request.actor = User[request.session]
  BY KnownActor
<1>2. request' = [request EXCEPT !.at = "answered", !.rows = {m}]
  BY DEF Answer
<1>3. /\ request'.at = "answered" /\ request'.rows = {m}
      /\ request'.by = request.by /\ request'.on = request.on
      /\ request'.route = request.route /\ request'.session = request.session
      /\ request'.actor = request.actor /\ request'.tenant = request.tenant
  BY <1>1, <1>2 DEF Request
<1>4. request' \in Request
  BY <1>1, <1>2 DEF Request, Rows
<1>5. UNCHANGED store
  BY DEF Answer
<1>6. TypeOK' /\ ContextsAreOwn' /\ Identified' /\ since'.session
  BY <1>1, <1>3, <1>4, <1>5, OnTheWay
<1>7. Located' /\ Checked' /\ IsAllowed' /\ SwitchIsOwn'
  BY <1>3 DEF Located, Checked, IsAllowed, SwitchIsOwn, At
<1>8. ActsUnderAuthority'
  <2>1. /\ request'.route \in OwnRoutes
           \/ Owner[request'.on] = User[request'.session]
        /\ request'.route # "switch"
    BY <1>1, <1>3 DEF OwnRoutes
  <2>2. request'.route \in OwnRoutes \/ request'.route = "get member"
    BY <1>3 DEF OwnRoutes
  <2>3. QED
    BY <1>6, <2>1, <2>2 DEF ActsUnderAuthority
<1>9. ReachIsConfined'
  BY <1>1, <1>3 DEF ReachIsConfined, Own
<1>10. QED
  BY <1>6, <1>7, <1>8, <1>9

LEMMA ReadStep ==
  ASSUME Guided, Observe, ReadOwnMember \/ ReadCurrent
  PROVE  Guided'
<1>1. CASE ReadOwnMember
  <2>1. /\ At("known") /\ request.route = "get member"
        /\ Owner[request.on] = request.actor
        /\ Answer({request.on})
    BY <1>1 DEF ReadOwnMember, Answer
  <2>2. request.on \in Members
    BY <2>1 DEF Guided, Identified, NamesMember, At
  <2>3. QED
    BY <2>1, <2>2, OwnAnswerStep
<1>2. CASE ReadCurrent
  <2>1. /\ At("known") /\ request.route = "current"
        /\ contexts[request.actor] # None
        /\ Answer({contexts[request.actor]})
    BY <1>2 DEF ReadCurrent
  <2>2. /\ contexts[request.actor] \in Members
        /\ Owner[contexts[request.actor]] = request.actor
    BY <2>1, KnownActor DEF Guided, ContextsAreOwn
  <2>3. QED
    BY <2>1, <2>2, OwnAnswerStep
<1>3. QED
  BY <1>1, <1>2

LEMMA JudgeOwnStep ==
  ASSUME Guided, Observe, JudgeRedeem \/ JudgeSwitch
  PROVE  Guided'
<1> USE DEF Guided
<1>1. /\ At("known") /\ request.route \in {"redeem", "switch"}
      /\ Judge(request.on)
  BY DEF JudgeRedeem, JudgeSwitch
<1>2. /\ request \in Request /\ request.at = "known"
      /\ request.actor = User[request.session]
  BY <1>1, KnownActor
<1>3. /\ request.route = "switch" => request.on \in Members
      /\ request.route = "redeem" => request.on \in Invitations
  BY <1>2 DEF Identified, NamesMember, NamesInvitation, At
<1>4. request.route = "switch" =>
        members[request.on] = "active" /\ Owner[request.on] = request.actor
  BY DEF JudgeRedeem, JudgeSwitch, ActiveMember
<1>5. /\ UNCHANGED store
      /\ request' = [request EXCEPT !.at = "judged", !.on = request.on,
                                    !.rows = {request.on}]
  BY <1>1 DEF Judge
<1>6. /\ request'.at = "judged" /\ request'.rows = {request.on}
      /\ request'.by = request.by /\ request'.on = request.on
      /\ request'.route = request.route /\ request'.session = request.session
      /\ request'.actor = request.actor /\ request'.tenant = request.tenant
  BY <1>2, <1>5 DEF Request
<1>7. request' \in Request
  BY <1>1, <1>2, <1>3, <1>5 DEF Request, Rows
<1>8. TypeOK' /\ ContextsAreOwn' /\ Identified' /\ since'.session
  BY <1>2, <1>5, <1>6, <1>7, OnTheWay
<1>9. Located' /\ Checked' /\ IsAllowed'
  BY <1>6 DEF Located, Checked, IsAllowed, At
<1>10. SwitchIsOwn'
  BY <1>3, <1>4, <1>6 DEF SwitchIsOwn
<1>11. request.route = "switch" => request.on \in since'.active
  <2>1. SUFFICES ASSUME request.route = "switch"
                 PROVE  request.on \in since'.active
    OBVIOUS
  <2>2. Concerned' = {request.on} /\ ~At("idle")'
    BY <1>6, <2>1 DEF Concerned, At
  <2>3. QED
    BY <1>3, <1>4, <1>5, <1>6, <2>1, <2>2, Sees
<1>12. ActsUnderAuthority'
  <2>1. request'.route \in OwnRoutes
    BY <1>1, <1>6 DEF OwnRoutes
  <2>2. QED
    BY <1>6, <1>8, <1>11, <2>1 DEF ActsUnderAuthority
<1>13. ReachIsConfined'
  BY <1>1, <1>2, <1>3, <1>4, <1>6 DEF ReachIsConfined, Own
<1>14. QED
  BY <1>8, <1>9, <1>10, <1>12, <1>13

-----------------------------------------------------------------------------
(* The commit, and the end. *)

\* Once the request is over, there is nothing it has to rely on.
LEMMA OverStep ==
  ASSUME Guided, Observe, request' = Idle,
         sessions' \in [Sessions -> SessionStatuses],
         members' \in [Members -> MemberStatuses],
         invitations' \in [Invitations -> InvitationStatuses],
         contexts' \in [Identities -> Members \union {None}],
         allows' \subseteq Members,
         ContextsAreOwn'
  PROVE  Guided'
<1>1. request' \in Request /\ request'.at = "idle"
  BY DEF Idle, Request
<1>2. TypeOK'
  BY <1>1, ObserveType DEF Guided, TypeOK
<1>3. /\ Identified' /\ Located' /\ Checked' /\ IsAllowed' /\ SwitchIsOwn'
      /\ ActsUnderAuthority' /\ ReachIsConfined'
  BY <1>1 DEF Identified, Located, Checked, IsAllowed, SwitchIsOwn,
     ActsUnderAuthority, ReachIsConfined, Done, At
<1>4. QED
  BY <1>2, <1>3 DEF Guided

LEMMA CommitStep ==
  ASSUME Guided, Observe,
         \/ CommitMember \/ CommitInvitation \/ CommitNew \/ CommitRedeem
         \/ CommitSwitch \/ End
  PROVE  Guided'
<1> USE DEF Guided
<1>1. request' = Idle /\ sessions' = sessions /\ allows' = allows
  BY DEF CommitMember, CommitInvitation, CommitNew, CommitRedeem,
         CommitSwitch, End, store
<1>2. members' \in [Members -> MemberStatuses]
  <2>1. CASE members' = members
    BY <2>1 DEF TypeOK
  <2>2. CASE CommitMember
    <3>1. To(request.route) \in MemberStatuses
      BY <2>2 DEF CommitMember, MemberRoutes, To, MemberStatuses
    <3>2. QED
      BY <2>2, <3>1 DEF CommitMember, TypeOK
  <2>3. CASE CommitNew
    BY <2>3 DEF CommitNew, TypeOK, MemberStatuses
  <2>4. CASE CommitRedeem
    BY <2>4 DEF CommitRedeem, TypeOK, MemberStatuses
  <2>5. QED
    BY <2>1, <2>2, <2>3, <2>4 DEF CommitInvitation, CommitSwitch, End, store
<1>3. invitations' \in [Invitations -> InvitationStatuses]
  BY DEF CommitMember, CommitInvitation, CommitNew, CommitRedeem,
         CommitSwitch, End, store, TypeOK, InvitationStatuses
<1>4. contexts' \in [Identities -> Members \union {None}] /\ ContextsAreOwn'
  <2>1. CASE CommitSwitch
    <3>1. /\ contexts' = [contexts EXCEPT ![request.actor] = request.on]
          /\ request.on \in Members /\ Owner[request.on] = request.actor
      BY <2>1 DEF CommitSwitch, SwitchIsOwn
    <3>2. QED
      BY <3>1 DEF TypeOK, ContextsAreOwn
  <2>2. CASE contexts' = contexts
    BY <2>2 DEF TypeOK, ContextsAreOwn
  <2>3. QED
    BY <2>1, <2>2 DEF CommitMember, CommitInvitation, CommitNew, CommitRedeem,
       End, store
<1>5. sessions' \in [Sessions -> SessionStatuses] /\ allows' \subseteq Members
  BY <1>1 DEF TypeOK
<1>6. QED
  BY <1>1, <1>2, <1>3, <1>4, <1>5, OverStep

-----------------------------------------------------------------------------
(* The theorems. *)

LEMMA GuidedInit == Init => Guided
<1> SUFFICES ASSUME Init
             PROVE  Guided
  OBVIOUS
<1>1. request = Idle /\ request \in Request /\ request.at = "idle"
  BY DEF Init, Idle, Request
<1>2. TypeOK
  BY <1>1 DEF Init, TypeOK, SessionStatuses, MemberStatuses,
     InvitationStatuses, Nothing
<1>3. ContextsAreOwn
  BY DEF Init, ContextsAreOwn
<1>4. /\ Identified /\ Located /\ Checked /\ IsAllowed /\ SwitchIsOwn
      /\ ActsUnderAuthority /\ ReachIsConfined
  BY <1>1 DEF Identified, Located, Checked, IsAllowed, SwitchIsOwn,
     ActsUnderAuthority, ReachIsConfined, Done, At
<1>5. QED
  BY <1>2, <1>3, <1>4 DEF Guided

LEMMA GuidedNext == Guided /\ [Next]_vars => Guided'
<1> SUFFICES ASSUME Guided, [Next]_vars
             PROVE  Guided'
  OBVIOUS
<1>1. CASE UNCHANGED vars
  <2>1. UNCHANGED <<sessions, members, invitations, contexts, allows, request,
                    since>>
    BY <1>1 DEF vars
  <2>2. TypeOK' /\ ContextsAreOwn'
    BY <2>1 DEF Guided, TypeOK, ContextsAreOwn
  <2>3. Identified' /\ Located' /\ Checked' /\ IsAllowed' /\ SwitchIsOwn'
    BY <2>1 DEF Guided, Identified, Located, Checked, IsAllowed, SwitchIsOwn,
       At
  <2>4. ActsUnderAuthority' /\ ReachIsConfined'
    BY <2>1 DEF Guided, ActsUnderAuthority, Authorized, ReachIsConfined, Done,
       Own
  <2>5. QED
    BY <2>2, <2>3, <2>4 DEF Guided
<1>2. CASE Others /\ Observe
  BY <1>2, OthersStep
<1>3. CASE Handle /\ Observe
  <2>1. CASE \E s \in Sessions, route \in Routes,
               tenant \in Tenants \union {None},
               on \in Members \union Invitations \union {None} :
               Arrive(s, route, on, tenant)
    BY <1>3, <2>1, ArriveStep
  <2>2. CASE Authenticate
    BY <1>3, <2>2, AuthenticateStep
  <2>3. CASE ReadContext \/ ResolveAccess
    BY <1>3, <2>3, SelectStep
  <2>4. CASE ReadOwn
    BY <1>3, <2>4, ReadOwnStep
  <2>5. CASE Decide
    BY <1>3, <2>5, DecideStep
  <2>6. CASE \/ GetMember \/ GetInvitation \/ ListMembers \/ ListInvitations
             \/ GetRole \/ ListRoles \/ ListRoleAssignments
             \/ ListPermissionAssignments \/ ListPolicies \/ ListRestrictions
    BY <1>3, <2>6, AnswersStep
  <2>7. CASE JudgeMember \/ JudgeInvitation \/ JudgeNew
    BY <1>3, <2>7, JudgeStep
  <2>8. CASE ReadOwnMember \/ ReadCurrent
    BY <1>3, <2>8, ReadStep
  <2>9. CASE JudgeRedeem \/ JudgeSwitch
    BY <1>3, <2>9, JudgeOwnStep
  <2>10. CASE \/ CommitMember \/ CommitInvitation \/ CommitNew
              \/ CommitRedeem \/ CommitSwitch \/ End
    BY <1>3, <2>10, CommitStep
  <2>11. QED
    BY <1>3, <2>1, <2>2, <2>3, <2>4, <2>5, <2>6, <2>7, <2>8, <2>9, <2>10
       DEF Handle
<1>4. QED
  BY <1>1, <1>2, <1>3 DEF Next

\* At every place of its way a request relies on no more than has once been
\* so since it began, and on what never changes.
THEOREM RequestsAreGuided == Spec => []Guided
<1>1. QED
  BY GuidedInit, GuidedNext, PTL DEF Spec

\* Every variable has its type.
THEOREM RequestsTypeCorrect == Spec => []TypeOK
<1>1. Guided => TypeOK
  BY DEF Guided
<1>2. QED
  BY <1>1, RequestsAreGuided, PTL

\* What a request reads or changes, its session was active for at some time
\* since it began; and what is not its own, it reaches by a membership that
\* Access allowed it and that was active.
THEOREM RequestsActUnderAuthority == Spec => []ActsUnderAuthority
<1>1. Guided => ActsUnderAuthority
  BY DEF Guided
<1>2. QED
  BY <1>1, RequestsAreGuided, PTL

\* The rows a request reaches are the user's own or in the tenant of the
\* decision; except for the platform's lists and a redemption.
THEOREM RequestsReachIsConfined == Spec => []ReachIsConfined
<1>1. Guided => ReachIsConfined
  BY DEF Guided
<1>2. QED
  BY <1>1, RequestsAreGuided, PTL
=============================================================================
