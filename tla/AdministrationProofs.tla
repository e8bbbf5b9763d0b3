------------------------ MODULE AdministrationProofs ------------------------
(***************************************************************************)
(* Whatever tenants, members, documents and requests there are: nobody of  *)
(* a tenant comes by a permission that the platform has not put into it,   *)
(* effects belong to the tenant they name, and a commit writes documents   *)
(* of the caller's tenant alone.  What makes this so under stale checks:   *)
(* documents keep their tenants and what a tenant has been given only      *)
(* grows (Moves), so that what a request has checked still fits (Fits).    *)
(***************************************************************************)
EXTENDS Administration, TLAPS

-----------------------------------------------------------------------------
(* The store. *)

StoreTyped ==
  /\ roles \in [RoleIds -> RoleDocument \union {None}]
  /\ assignments \subseteq AssignmentDocument
  /\ grants \subseteq GrantDocument
  /\ policies \in [PolicyIds -> PolicyDocument \union {None}]
  /\ restrictions \in [RestrictionIds -> RestrictionDocument \union {None}]
  /\ seeded \in [Tenants -> SUBSET Permissions]

RolesAreSeeded ==
  \A r \in RoleIds :
    roles[r] # None /\ roles[r].tenant \in Tenants =>
      roles[r].permissions \subseteq seeded[roles[r].tenant]

AssignmentBelongs(a) ==
  /\ Home[a.member] = a.tenant
  /\ roles[a.role] # None /\ roles[a.role].tenant = a.tenant

GrantBelongs(g) ==
  Home[g.member] = g.tenant /\ g.permission \in seeded[g.tenant]

RestrictionBelongs(x) ==
  x.by \in Members =>
    /\ x.tenant = Home[x.by]
    /\ x.target \in Members => Home[x.target] = Home[x.by]
    /\ x.target \in Tenants => x.target = Home[x.by]
    /\ x.target \in RoleIds =>
         roles[x.target] # None /\ roles[x.target].tenant = Home[x.by]

Belonging ==
  /\ \A a \in assignments : AssignmentBelongs(a)
  /\ \A g \in grants : GrantBelongs(g)
  /\ \A x \in RestrictionIds :
       restrictions[x] # None => RestrictionBelongs(restrictions[x])

StoreIsSound == StoreTyped /\ RolesAreSeeded /\ Belonging

-----------------------------------------------------------------------------
(* What a request relies on. *)

Asks(q) ==
  /\ work[q].by \in Callers /\ work[q].op \in Operations
  /\ work[q].op \in AssignmentOperations => work[q].by \in Members
  /\ work[q].op = "createRole" => work[q].step # "scope"

\* The document that a request names is there.
NamesRole(q) ==
  work[q].op \in {"updateRole", "archiveRole", "restoreRole", "assignRole"} =>
    work[q].on \in RoleIds /\ roles[work[q].on] # None

NamesPolicy(q) ==
  work[q].op \in {"updatePolicy", "archivePolicy"} =>
    work[q].on \in PolicyIds /\ policies[work[q].on] # None

NamesRestriction(q) ==
  work[q].op = "removeRestriction" =>
    work[q].on \in RestrictionIds /\ restrictions[work[q].on] # None

NamesAssignment(q) ==
  work[q].op = "removeRole" =>
    work[q].on \in AssignmentDocument /\ AssignmentBelongs(work[q].on)

NamesGrant(q) ==
  work[q].op = "revokePermission" =>
    work[q].on \in GrantDocument /\ GrantBelongs(work[q].on)

NamesTarget(q) ==
  /\ work[q].op \in {"assignRole", "grantPermission"} => work[q].to \in Members
  /\ work[q].op = "createRestriction" =>
       /\ work[q].to \in Targets
       /\ work[q].to \in RoleIds => roles[work[q].to] # None

NamesTenant(q) ==
  work[q].op \in {"createRole", "createPolicy", "createRestriction"} =>
    work[q].tenant \in Owners /\ Within(work[q].by, work[q].tenant)

NamesPermissions(q) ==
  work[q].op \in {"createRole", "grantPermission"} =>
    work[q].asked \in SUBSET Permissions

Names(q) ==
  /\ NamesRole(q) /\ NamesPolicy(q) /\ NamesRestriction(q)
  /\ NamesAssignment(q) /\ NamesGrant(q) /\ NamesTarget(q) /\ NamesTenant(q)
  /\ NamesPermissions(q)

\* What it names belongs to the caller's tenant.
RoleInScope(q) ==
  work[q].op \in {"updateRole", "archiveRole", "restoreRole", "assignRole"} =>
    Within(work[q].by, roles[work[q].on].tenant)

PolicyInScope(q) ==
  work[q].op \in {"updatePolicy", "archivePolicy"} =>
    Within(work[q].by, policies[work[q].on].tenant)

RestrictionInScope(q) ==
  work[q].op = "removeRestriction" =>
    Within(work[q].by, restrictions[work[q].on].tenant)

RowInScope(q) ==
  work[q].op \in {"removeRole", "revokePermission"} =>
    work[q].on.tenant = Home[work[q].by]

MemberInScope(q) ==
  work[q].op \in {"assignRole", "grantPermission"} =>
    Home[work[q].to] = Home[work[q].by]

TargetInScope(q) ==
  work[q].op = "createRestriction" /\ work[q].by # Platform =>
    /\ work[q].to \in Members => Home[work[q].to] = Home[work[q].by]
    /\ work[q].to \in Tenants => work[q].to = Home[work[q].by]
    /\ work[q].to \in RoleIds => roles[work[q].to].tenant = Home[work[q].by]

InScope(q) ==
  /\ RoleInScope(q) /\ PolicyInScope(q) /\ RestrictionInScope(q)
  /\ RowInScope(q) /\ MemberInScope(q) /\ TargetInScope(q)

Mentions(q) ==
  \/ work[q].op \in {"createRole", "grantPermission"}
  \/ work[q].op = "updateRole" /\ work[q].asked # None

\* What has been checked of the permissions asked for is in the tenant.
Delegated(q) ==
  Mentions(q) /\ work[q].by # Platform =>
    \A p \in work[q].asked :
      p \in seeded[Home[work[q].by]] \/ p \in work[q].todo

\* The document that is to be written fits the store and the caller.
DecidesRole(q) ==
  work[q].op \in RoleOperations =>
    /\ work[q].row \in RoleDocument
    /\ work[q].by # Platform =>
         /\ work[q].row.tenant = Home[work[q].by]
         /\ work[q].row.permissions \subseteq seeded[Home[work[q].by]]
    /\ work[q].op # "createRole" =>
         roles[work[q].on].tenant = work[q].row.tenant

DecidesAssignment(q) ==
  work[q].op \in {"assignRole", "removeRole"} =>
    /\ work[q].row \in AssignmentDocument /\ AssignmentBelongs(work[q].row)
    /\ work[q].row.tenant = Home[work[q].by]

DecidesGrant(q) ==
  work[q].op \in {"grantPermission", "revokePermission"} =>
    /\ work[q].row \in GrantDocument /\ GrantBelongs(work[q].row)
    /\ work[q].row.tenant = Home[work[q].by]

DecidesPolicy(q) ==
  work[q].op \in PolicyOperations =>
    /\ work[q].row \in PolicyDocument
    /\ Within(work[q].by, work[q].row.tenant)
    /\ work[q].op # "createPolicy" =>
         policies[work[q].on].tenant = work[q].row.tenant

DecidesRestriction(q) ==
  work[q].op \in RestrictionOperations =>
    /\ work[q].row \in RestrictionDocument /\ RestrictionBelongs(work[q].row)
    /\ Within(work[q].by, work[q].row.tenant)
    /\ work[q].op # "createRestriction" =>
         restrictions[work[q].on].tenant = work[q].row.tenant

Decided(q) ==
  /\ DecidesRole(q) /\ DecidesAssignment(q) /\ DecidesGrant(q)
  /\ DecidesPolicy(q) /\ DecidesRestriction(q)

Fits(q) ==
  work[q].step # "idle" =>
    /\ Asks(q) /\ Names(q)
    /\ work[q].step \in {"delegate", "commit"} => InScope(q) /\ Delegated(q)
    /\ work[q].step = "commit" => Decided(q)

Safe ==
  /\ StoreIsSound
  /\ work \in [Requests -> Work]
  /\ \A q \in Requests : Fits(q)

-----------------------------------------------------------------------------
(* What a step may do to the documents that others have read. *)

RolesMove ==
  \A r \in RoleIds :
    roles[r] # None => roles'[r] # None /\ roles'[r].tenant = roles[r].tenant

PoliciesMove ==
  \A p \in PolicyIds :
    policies[p] # None =>
      policies'[p] # None /\ policies'[p].tenant = policies[p].tenant

RestrictionsMove ==
  \A x \in RestrictionIds :
    restrictions[x] # None =>
      /\ restrictions'[x] # None
      /\ restrictions'[x].tenant = restrictions[x].tenant

SeedsMove == \A t \in Tenants : seeded[t] \subseteq seeded'[t]

Moves == RolesMove /\ PoliciesMove /\ RestrictionsMove /\ SeedsMove

LEMMA HomesAreTenants ==
  ASSUME NEW m \in Members
  PROVE  Home[m] \in Tenants /\ m # Platform
BY HomeIsATenant, PlatformIsNobody

LEMMA DocumentsAreSome ==
  ASSUME NEW row \in Documents
  PROVE  row # None
BY NoneIsNothing

\* What belonged still belongs.
LEMMA StillBelongs ==
  ASSUME RolesMove, SeedsMove
  PROVE  /\ \A a \in AssignmentDocument :
              AssignmentBelongs(a) => AssignmentBelongs(a)'
         /\ \A g \in GrantDocument : GrantBelongs(g) => GrantBelongs(g)'
         /\ \A x \in RestrictionDocument :
              RestrictionBelongs(x) => RestrictionBelongs(x)'
<1>1. ASSUME NEW a \in AssignmentDocument, AssignmentBelongs(a)
      PROVE  AssignmentBelongs(a)'
  BY <1>1 DEF AssignmentBelongs, AssignmentDocument, RolesMove
<1>2. ASSUME NEW g \in GrantDocument, GrantBelongs(g)
      PROVE  GrantBelongs(g)'
  BY <1>2 DEF GrantBelongs, GrantDocument, SeedsMove
<1>3. ASSUME NEW x \in RestrictionDocument, RestrictionBelongs(x)
      PROVE  RestrictionBelongs(x)'
  BY <1>3 DEF RestrictionBelongs, RolesMove
<1>4. QED
  BY <1>1, <1>2, <1>3

\* A request that does not move relies on the same.
LEMMA StillFits ==
  ASSUME Safe, Moves, NEW q \in Requests, work'[q] = work[q]
  PROVE  Fits(q)'
<1> SUFFICES ASSUME work[q].step # "idle"
             PROVE  Fits(q)'
  BY DEF Fits
<1>1. work[q] \in Work /\ Asks(q) /\ Names(q)
  BY DEF Safe, Fits
<1>2. Asks(q)'
  BY <1>1 DEF Asks
<1>3. Names(q)'
  <2>1. NamesRole(q)' /\ NamesPolicy(q)' /\ NamesRestriction(q)'
    BY <1>1 DEF Names, NamesRole, NamesPolicy, NamesRestriction, Moves,
       RolesMove, PoliciesMove, RestrictionsMove
  <2>2. NamesAssignment(q)'
    BY <1>1, StillBelongs DEF Names, NamesAssignment, Moves
  <2>3. NamesGrant(q)'
    BY <1>1, StillBelongs DEF Names, NamesGrant, Moves
  <2>4. NamesTarget(q)'
    BY <1>1 DEF Names, NamesTarget, Moves, RolesMove
  <2>5. NamesTenant(q)' /\ NamesPermissions(q)'
    BY <1>1 DEF Names, NamesTenant, NamesPermissions, Within
  <2>6. QED
    BY <2>1, <2>2, <2>3, <2>4, <2>5 DEF Names
<1>4. ASSUME work[q].step \in {"delegate", "commit"}
      PROVE  InScope(q)' /\ Delegated(q)'
  <2>1. InScope(q) /\ Delegated(q)
    BY <1>4 DEF Safe, Fits
  <2>2. RoleInScope(q)'
    BY <1>1, <2>1 DEF Names, NamesRole, InScope, RoleInScope, Moves, RolesMove,
       Within
  <2>3. PolicyInScope(q)'
    BY <1>1, <2>1 DEF Names, NamesPolicy, InScope, PolicyInScope, Moves,
       PoliciesMove, Within
  <2>4. RestrictionInScope(q)'
    BY <1>1, <2>1 DEF Names, NamesRestriction, InScope, RestrictionInScope,
       Moves, RestrictionsMove, Within
  <2>5. RowInScope(q)' /\ MemberInScope(q)'
    BY <2>1 DEF InScope, RowInScope, MemberInScope
  <2>6. TargetInScope(q)'
    BY <1>1, <2>1 DEF Names, NamesTarget, InScope, TargetInScope, Moves,
       RolesMove
  <2>7. Delegated(q)'
    <3>1. work[q].by # Platform => Home[work[q].by] \in Tenants
      BY <1>1, HomesAreTenants DEF Asks, Callers
    <3>2. QED
      BY <2>1, <3>1 DEF Delegated, Mentions, Moves, SeedsMove
  <2>8. QED
    BY <2>2, <2>3, <2>4, <2>5, <2>6, <2>7 DEF InScope
<1>5. ASSUME work[q].step = "commit"
      PROVE  Decided(q)'
  <2>1. Decided(q)
    BY <1>5 DEF Safe, Fits
  <2>2. DecidesRole(q)'
    <3>1. work[q].by # Platform => Home[work[q].by] \in Tenants
      BY <1>1, HomesAreTenants DEF Asks, Callers
    <3>2. work[q].op \in RoleOperations /\ work[q].op # "createRole" =>
            work[q].on \in RoleIds /\ roles[work[q].on] # None
      BY <1>1 DEF Names, NamesRole, RoleOperations
    <3>3. QED
      BY <2>1, <3>1, <3>2 DEF Decided, DecidesRole, Moves, RolesMove, SeedsMove
  <2>3. DecidesAssignment(q)'
    BY <2>1, StillBelongs DEF Decided, DecidesAssignment, Moves
  <2>4. DecidesGrant(q)'
    BY <2>1, StillBelongs DEF Decided, DecidesGrant, Moves
  <2>5. DecidesPolicy(q)'
    <3>1. work[q].op \in PolicyOperations /\ work[q].op # "createPolicy" =>
            work[q].on \in PolicyIds /\ policies[work[q].on] # None
      BY <1>1 DEF Names, NamesPolicy, PolicyOperations
    <3>2. QED
      BY <2>1, <3>1 DEF Decided, DecidesPolicy, Moves, PoliciesMove, Within
  <2>6. DecidesRestriction(q)'
    <3>1. work[q].op \in RestrictionOperations
            /\ work[q].op # "createRestriction" =>
            /\ work[q].on \in RestrictionIds
            /\ restrictions[work[q].on] # None
      BY <1>1 DEF Names, NamesRestriction, RestrictionOperations
    <3>2. QED
      BY <2>1, <3>1, StillBelongs DEF Decided, DecidesRestriction, Moves,
         RestrictionsMove, Within
  <2>7. QED
    BY <2>2, <2>3, <2>4, <2>5, <2>6 DEF Decided
<1>6. QED
  BY <1>2, <1>3, <1>4, <1>5 DEF Fits

\* A step is sound that moves the store and leaves the request that takes it
\* with what fits.
LEMMA SoundStep ==
  ASSUME Safe, Moves, StoreIsSound', NEW q \in Requests, NEW w \in Work,
         Proceed(q, w), Fits(q)'
  PROVE  Safe'
<1>1. work' = [work EXCEPT ![q] = w] /\ work \in [Requests -> Work]
  BY DEF Proceed, Safe
<1>2. work' \in [Requests -> Work]
  BY <1>1
<1>3. ASSUME NEW p \in Requests
      PROVE  Fits(p)'
  <2>1. CASE p = q
    BY <2>1
  <2>2. CASE p # q
    <3>1. work'[p] = work[p]
      BY <1>1, <2>2
    <3>2. QED
      BY <3>1, StillFits
  <2>3. QED
    BY <2>1, <2>2
<1>4. QED
  BY <1>2, <1>3 DEF Safe

LEMMA Remembers ==
  ASSUME Safe, NEW q \in Requests, NEW w, Proceed(q, w)
  PROVE  work'[q] = w /\ work[q] \in Work /\ Fits(q)
BY DEF Safe, Proceed

\* A store that stays as it is is sound.
LEMMA StoreStays ==
  ASSUME Safe, UNCHANGED <<documents, seeded>>
  PROVE  /\ Moves /\ StoreIsSound'
         /\ roles' = roles /\ assignments' = assignments /\ grants' = grants
         /\ policies' = policies /\ restrictions' = restrictions
         /\ seeded' = seeded
<1>1. /\ roles' = roles /\ assignments' = assignments /\ grants' = grants
      /\ policies' = policies /\ restrictions' = restrictions
      /\ seeded' = seeded
  BY DEF documents
<1>2. Moves
  BY <1>1 DEF Moves, RolesMove, PoliciesMove, RestrictionsMove, SeedsMove
<1>3. StoreTyped'
  BY <1>1 DEF Safe, StoreIsSound, StoreTyped
<1>4. RolesAreSeeded'
  BY <1>1 DEF Safe, StoreIsSound, RolesAreSeeded
<1>5. Belonging'
  BY <1>1 DEF Safe, StoreIsSound, Belonging, AssignmentBelongs, GrantBelongs,
     RestrictionBelongs
<1>6. QED
  BY <1>1, <1>2, <1>3, <1>4, <1>5 DEF StoreIsSound

LEMMA FreeFits ==
  ASSUME Safe, NEW q \in Requests, Proceed(q, Free)
  PROVE  Free \in Work /\ Fits(q)'
<1>1. Free \in Work
  BY DEF Free, Work, Targets
<1>2. work'[q].step = "idle"
  BY Remembers DEF Free
<1>3. QED
  BY <1>1, <1>2 DEF Fits

\* A step that only reads.
LEMMA ReadStep ==
  ASSUME Safe, UNCHANGED <<documents, seeded>>, NEW q \in Requests,
         NEW w \in Work, Proceed(q, w), Fits(q)'
  PROVE  Safe'
BY StoreStays, SoundStep

\* A permission that somebody holds has been put into the tenant.
LEMMA HoldsWhatIsSeeded ==
  ASSUME StoreIsSound, NEW m \in Members, NEW p, Holds(m, p)
  PROVE  p \in seeded[Home[m]]
<1>1. CASE \E a \in assignments :
             /\ a.member = m /\ a.tenant = Home[m] /\ a.status = "granted"
             /\ roles[a.role].status = "active"
             /\ p \in roles[a.role].permissions
  <2>1. PICK a \in assignments :
          a.tenant = Home[m] /\ p \in roles[a.role].permissions
    BY <1>1
  <2>2. /\ a.role \in RoleIds /\ roles[a.role] # None
        /\ roles[a.role].tenant = Home[m]
    BY <2>1 DEF StoreIsSound, StoreTyped, Belonging, AssignmentBelongs,
       AssignmentDocument
  <2>3. QED
    BY <2>1, <2>2, HomesAreTenants DEF StoreIsSound, RolesAreSeeded
<1>2. CASE \E g \in grants :
             g.member = m /\ g.tenant = Home[m] /\ g.status = "granted"
               /\ g.permission = p
  BY <1>2 DEF StoreIsSound, Belonging, GrantBelongs
<1>3. QED
  BY <1>1, <1>2 DEF Holds

-----------------------------------------------------------------------------
(* A request arrives. *)

\* Everything that a request asks and names at its arrival, by its operation.
LEMMA ArriveFits ==
  ASSUME Safe, NEW q \in Requests, work'[q].step = "scope", Asks(q)', Names(q)'
  PROVE  Fits(q)'
BY DEF Fits

LEMMA ReceiveStays ==
  ASSUME Safe, NEW q \in Requests, NEW w, Receive(q, w)
  PROVE  /\ Proceed(q, w) /\ work'[q] = w
         /\ UNCHANGED <<documents, seeded>>
         /\ roles' = roles /\ policies' = policies
         /\ restrictions' = restrictions /\ seeded' = seeded
<1>1. Proceed(q, w) /\ UNCHANGED <<documents, seeded>>
  BY DEF Receive
<1>2. QED
  BY <1>1, Remembers, StoreStays

LEMMA CreateRoleStep ==
  ASSUME Safe, NEW q \in Requests, CreateRole(q)
  PROVE  Safe'
<1>1. PICK by \in Callers, t \in Owners, asked \in Bundles :
        /\ Within(by, t)
        /\ Receive(q, [Free EXCEPT !.step = "delegate", !.op = "createRole",
                         !.by = by, !.tenant = t, !.asked = asked,
                         !.todo = ToDelegate([by |-> by], asked)])
  BY DEF CreateRole
<1> DEFINE todo == ToDelegate([by |-> by], asked)
           w == [Free EXCEPT !.step = "delegate", !.op = "createRole",
                   !.by = by, !.tenant = t, !.asked = asked, !.todo = todo]
<1>2. asked \in SUBSET Permissions
  BY BundlesOfPermissions
<1>3. /\ todo \in SUBSET Permissions
      /\ by # Platform => todo = asked
  BY <1>2 DEF ToDelegate
<1> HIDE DEF todo
<1>4. /\ w.step = "delegate" /\ w.op = "createRole" /\ w.by = by
      /\ w.tenant = t /\ w.asked = asked /\ w.todo = todo
  BY DEF Free
<1>5. "createRole" \in Operations
  BY DEF Operations, RoleOperations
<1>6. w \in Work
  BY <1>2, <1>3, <1>5 DEF Free, Work, Targets
<1>7. Proceed(q, w) /\ work'[q] = w /\ UNCHANGED <<documents, seeded>>
  BY <1>1, ReceiveStays DEF todo
<1> HIDE DEF w
<1>8. Asks(q)'
  BY <1>4, <1>5, <1>7 DEF Asks, AssignmentOperations
<1>9. Names(q)'
  BY <1>1, <1>2, <1>4, <1>7 DEF Names, NamesRole, NamesPolicy,
     NamesRestriction, NamesAssignment, NamesGrant, NamesTarget, NamesTenant,
     NamesPermissions, Within
<1>10. InScope(q)'
  BY <1>4, <1>7 DEF InScope, RoleInScope, PolicyInScope, RestrictionInScope,
     RowInScope, MemberInScope, TargetInScope
<1>11. Delegated(q)'
  BY <1>3, <1>4, <1>7 DEF Delegated, Mentions
<1>12. Fits(q)'
  BY <1>4, <1>7, <1>8, <1>9, <1>10, <1>11 DEF Fits
<1>13. QED
  BY <1>6, <1>7, <1>12, ReadStep

LEMMA CreatePolicyStep ==
  ASSUME Safe, NEW q \in Requests, CreatePolicy(q)
  PROVE  Safe'
<1>1. PICK by \in Callers, t \in Owners :
        /\ Within(by, t)
        /\ Receive(q, [Free EXCEPT !.step = "delegate", !.op = "createPolicy",
                         !.by = by, !.tenant = t])
  BY DEF CreatePolicy
<1> DEFINE w == [Free EXCEPT !.step = "delegate", !.op = "createPolicy",
                   !.by = by, !.tenant = t]
<1>2. /\ w.step = "delegate" /\ w.op = "createPolicy" /\ w.by = by
      /\ w.tenant = t
  BY DEF Free
<1>3. "createPolicy" \in Operations
  BY DEF Operations, PolicyOperations
<1>4. w \in Work
  BY <1>3 DEF Free, Work, Targets
<1>5. Proceed(q, w) /\ work'[q] = w /\ UNCHANGED <<documents, seeded>>
  BY <1>1, ReceiveStays
<1> HIDE DEF w
<1>6. Asks(q)'
  BY <1>2, <1>3, <1>5 DEF Asks, AssignmentOperations
<1>7. Names(q)'
  BY <1>1, <1>2, <1>5 DEF Names, NamesRole, NamesPolicy,
     NamesRestriction, NamesAssignment, NamesGrant, NamesTarget, NamesTenant,
     NamesPermissions, Within
<1>8. InScope(q)' /\ Delegated(q)'
  BY <1>2, <1>5 DEF InScope, RoleInScope, PolicyInScope, RestrictionInScope,
     RowInScope, MemberInScope, TargetInScope, Delegated, Mentions
<1>9. Fits(q)'
  BY <1>2, <1>5, <1>6, <1>7, <1>8 DEF Fits
<1>10. QED
  BY <1>4, <1>5, <1>9, ReadStep

LEMMA ChangeRoleStep ==
  ASSUME Safe, NEW q \in Requests, ChangeRole(q)
  PROVE  Safe'
<1>1. PICK by \in Callers, r \in RoleIds,
           op \in RoleOperations \ {"createRole"},
           asked \in Bundles \union {None} :
        /\ roles[r] # None
        /\ Receive(q, [Free EXCEPT !.step = "scope", !.op = op, !.by = by,
                         !.on = r, !.asked = asked])
  BY DEF ChangeRole
<1> DEFINE w == [Free EXCEPT !.step = "scope", !.op = op, !.by = by,
                   !.on = r, !.asked = asked]
<1>2. /\ w.step = "scope" /\ w.op = op /\ w.by = by /\ w.on = r
      /\ w.asked = asked
  BY DEF Free
<1>3. /\ op \in Operations
      /\ op \in {"updateRole", "archiveRole", "restoreRole"}
      /\ asked \in (SUBSET Permissions) \union {None}
  BY BundlesOfPermissions DEF Operations, RoleOperations
<1>4. w \in Work
  BY <1>3 DEF Free, Work, Targets, Ids
<1>5. /\ Proceed(q, w) /\ work'[q] = w /\ UNCHANGED <<documents, seeded>>
      /\ roles' = roles
  BY <1>1, ReceiveStays
<1> HIDE DEF w
<1>6. Asks(q)'
  BY <1>2, <1>3, <1>5 DEF Asks, AssignmentOperations
<1>7. Names(q)'
  BY <1>1, <1>2, <1>3, <1>5 DEF Names, NamesRole, NamesPolicy,
     NamesRestriction, NamesAssignment, NamesGrant, NamesTarget, NamesTenant,
     NamesPermissions
<1>8. QED
  BY <1>2, <1>4, <1>5, <1>6, <1>7, ArriveFits, ReadStep

LEMMA ChangePolicyStep ==
  ASSUME Safe, NEW q \in Requests, ChangePolicy(q)
  PROVE  Safe'
<1>1. PICK by \in Callers, p \in PolicyIds,
           op \in PolicyOperations \ {"createPolicy"} :
        /\ policies[p] # None
        /\ Receive(q, [Free EXCEPT !.step = "scope", !.op = op, !.by = by,
                         !.on = p])
  BY DEF ChangePolicy
<1> DEFINE w == [Free EXCEPT !.step = "scope", !.op = op, !.by = by, !.on = p]
<1>2. w.step = "scope" /\ w.op = op /\ w.by = by /\ w.on = p
  BY DEF Free
<1>3. op \in Operations /\ op \in {"updatePolicy", "archivePolicy"}
  BY DEF Operations, PolicyOperations
<1>4. w \in Work
  BY <1>3 DEF Free, Work, Targets, Ids
<1>5. /\ Proceed(q, w) /\ work'[q] = w /\ UNCHANGED <<documents, seeded>>
      /\ policies' = policies
  BY <1>1, ReceiveStays
<1> HIDE DEF w
<1>6. Asks(q)'
  BY <1>2, <1>3, <1>5 DEF Asks, AssignmentOperations
<1>7. Names(q)'
  BY <1>1, <1>2, <1>3, <1>5 DEF Names, NamesRole, NamesPolicy,
     NamesRestriction, NamesAssignment, NamesGrant, NamesTarget, NamesTenant,
     NamesPermissions
<1>8. QED
  BY <1>2, <1>4, <1>5, <1>6, <1>7, ArriveFits, ReadStep

LEMMA AssignRoleStep ==
  ASSUME Safe, NEW q \in Requests, AssignRole(q)
  PROVE  Safe'
<1>1. PICK by \in Members, r \in RoleIds, m \in Members :
        /\ roles[r] # None
        /\ Receive(q, [Free EXCEPT !.step = "scope", !.op = "assignRole",
                         !.by = by, !.on = r, !.to = m])
  BY DEF AssignRole
<1> DEFINE w == [Free EXCEPT !.step = "scope", !.op = "assignRole",
                   !.by = by, !.on = r, !.to = m]
<1>2. /\ w.step = "scope" /\ w.op = "assignRole" /\ w.by = by /\ w.on = r
      /\ w.to = m
  BY DEF Free
<1>3. by \in Callers /\ "assignRole" \in Operations
  BY DEF Callers, Operations, AssignmentOperations
<1>4. w \in Work
  BY <1>3 DEF Free, Work, Targets, Ids
<1>5. /\ Proceed(q, w) /\ work'[q] = w /\ UNCHANGED <<documents, seeded>>
      /\ roles' = roles
  BY <1>1, ReceiveStays
<1> HIDE DEF w
<1>6. Asks(q)'
  BY <1>2, <1>3, <1>5 DEF Asks
<1>7. Names(q)'
  BY <1>1, <1>2, <1>5 DEF Names, NamesRole, NamesPolicy,
     NamesRestriction, NamesAssignment, NamesGrant, NamesTarget, NamesTenant,
     NamesPermissions
<1>8. QED
  BY <1>2, <1>4, <1>5, <1>6, <1>7, ArriveFits, ReadStep

LEMMA RemoveRoleStep ==
  ASSUME Safe, NEW q \in Requests, RemoveRole(q)
  PROVE  Safe'
<1>1. PICK by \in Members, a \in assignments :
        Receive(q, [Free EXCEPT !.step = "scope", !.op = "removeRole",
                      !.by = by, !.on = a])
  BY DEF RemoveRole
<1> DEFINE w == [Free EXCEPT !.step = "scope", !.op = "removeRole",
                   !.by = by, !.on = a]
<1>2. w.step = "scope" /\ w.op = "removeRole" /\ w.by = by /\ w.on = a
  BY DEF Free
<1>3. by \in Callers /\ "removeRole" \in Operations
  BY DEF Callers, Operations, AssignmentOperations
<1>4. a \in AssignmentDocument /\ AssignmentBelongs(a)
  BY DEF Safe, StoreIsSound, StoreTyped, Belonging
<1>5. a \in Documents
  BY <1>4 DEF Documents
<1>6. w \in Work
  BY <1>3, <1>5 DEF Free, Work, Targets
<1>7. /\ Proceed(q, w) /\ work'[q] = w /\ UNCHANGED <<documents, seeded>>
      /\ roles' = roles
  BY <1>1, ReceiveStays
<1> HIDE DEF w
<1>8. Asks(q)'
  BY <1>2, <1>3, <1>7 DEF Asks
<1>9. Names(q)'
  BY <1>2, <1>4, <1>7 DEF Names, NamesRole, NamesPolicy,
     NamesRestriction, NamesAssignment, NamesGrant, NamesTarget, NamesTenant,
     NamesPermissions, AssignmentBelongs
<1>10. QED
  BY <1>2, <1>6, <1>7, <1>8, <1>9, ArriveFits, ReadStep

LEMMA GrantPermissionStep ==
  ASSUME Safe, NEW q \in Requests, GrantPermission(q)
  PROVE  Safe'
<1>1. PICK by \in Members, p \in UNION Bundles, m \in Members :
        Receive(q, [Free EXCEPT !.step = "scope", !.op = "grantPermission",
                      !.by = by, !.asked = {p}, !.to = m])
  BY DEF GrantPermission
<1> DEFINE w == [Free EXCEPT !.step = "scope", !.op = "grantPermission",
                   !.by = by, !.asked = {p}, !.to = m]
<1>2. /\ w.step = "scope" /\ w.op = "grantPermission" /\ w.by = by
      /\ w.asked = {p} /\ w.to = m
  BY DEF Free
<1>3. by \in Callers /\ "grantPermission" \in Operations
  BY DEF Callers, Operations, AssignmentOperations
<1>4. {p} \in SUBSET Permissions
  BY BundlesOfPermissions
<1>5. w \in Work
  BY <1>3, <1>4 DEF Free, Work, Targets
<1>6. Proceed(q, w) /\ work'[q] = w /\ UNCHANGED <<documents, seeded>>
  BY <1>1, ReceiveStays
<1> HIDE DEF w
<1>7. Asks(q)'
  BY <1>2, <1>3, <1>6 DEF Asks
<1>8. Names(q)'
  BY <1>2, <1>4, <1>6 DEF Names, NamesRole, NamesPolicy,
     NamesRestriction, NamesAssignment, NamesGrant, NamesTarget, NamesTenant,
     NamesPermissions
<1>9. QED
  BY <1>2, <1>5, <1>6, <1>7, <1>8, ArriveFits, ReadStep

LEMMA RevokePermissionStep ==
  ASSUME Safe, NEW q \in Requests, RevokePermission(q)
  PROVE  Safe'
<1>1. PICK by \in Members, g \in grants :
        Receive(q, [Free EXCEPT !.step = "scope", !.op = "revokePermission",
                      !.by = by, !.on = g])
  BY DEF RevokePermission
<1> DEFINE w == [Free EXCEPT !.step = "scope", !.op = "revokePermission",
                   !.by = by, !.on = g]
<1>2. w.step = "scope" /\ w.op = "revokePermission" /\ w.by = by /\ w.on = g
  BY DEF Free
<1>3. by \in Callers /\ "revokePermission" \in Operations
  BY DEF Callers, Operations, AssignmentOperations
<1>4. g \in GrantDocument /\ GrantBelongs(g)
  BY DEF Safe, StoreIsSound, StoreTyped, Belonging
<1>5. g \in Documents
  BY <1>4 DEF Documents
<1>6. w \in Work
  BY <1>3, <1>5 DEF Free, Work, Targets
<1>7. /\ Proceed(q, w) /\ work'[q] = w /\ UNCHANGED <<documents, seeded>>
      /\ seeded' = seeded
  BY <1>1, ReceiveStays
<1> HIDE DEF w
<1>8. Asks(q)'
  BY <1>2, <1>3, <1>7 DEF Asks
<1>9. Names(q)'
  BY <1>2, <1>4, <1>7 DEF Names, NamesRole, NamesPolicy,
     NamesRestriction, NamesAssignment, NamesGrant, NamesTarget, NamesTenant,
     NamesPermissions, GrantBelongs
<1>10. QED
  BY <1>2, <1>6, <1>7, <1>8, <1>9, ArriveFits, ReadStep

LEMMA CreateRestrictionStep ==
  ASSUME Safe, NEW q \in Requests, CreateRestriction(q)
  PROVE  Safe'
<1>1. PICK by \in Callers, t \in Owners, x \in Targets :
        /\ Within(by, t)
        /\ x \in RoleIds => roles[x] # None
        /\ Receive(q, [Free EXCEPT !.step = "scope",
                         !.op = "createRestriction",
                         !.by = by, !.tenant = t, !.to = x])
  BY DEF CreateRestriction
<1> DEFINE w == [Free EXCEPT !.step = "scope", !.op = "createRestriction",
                   !.by = by, !.tenant = t, !.to = x]
<1>2. /\ w.step = "scope" /\ w.op = "createRestriction" /\ w.by = by
      /\ w.tenant = t /\ w.to = x
  BY DEF Free
<1>3. "createRestriction" \in Operations
  BY DEF Operations, RestrictionOperations
<1>4. w \in Work
  BY <1>3 DEF Free, Work
<1>5. /\ Proceed(q, w) /\ work'[q] = w /\ UNCHANGED <<documents, seeded>>
      /\ roles' = roles
  BY <1>1, ReceiveStays
<1> HIDE DEF w
<1>6. Asks(q)'
  BY <1>2, <1>3, <1>5 DEF Asks, AssignmentOperations
<1>7. Names(q)'
  BY <1>1, <1>2, <1>5 DEF Names, NamesRole, NamesPolicy,
     NamesRestriction, NamesAssignment, NamesGrant, NamesTarget, NamesTenant,
     NamesPermissions, Within
<1>8. QED
  BY <1>2, <1>4, <1>5, <1>6, <1>7, ArriveFits, ReadStep

LEMMA RemoveRestrictionStep ==
  ASSUME Safe, NEW q \in Requests, RemoveRestriction(q)
  PROVE  Safe'
<1>1. PICK by \in Callers, x \in RestrictionIds :
        /\ restrictions[x] # None
        /\ Receive(q, [Free EXCEPT !.step = "scope",
                         !.op = "removeRestriction",
                         !.by = by, !.on = x])
  BY DEF RemoveRestriction
<1> DEFINE w == [Free EXCEPT !.step = "scope", !.op = "removeRestriction",
                   !.by = by, !.on = x]
<1>2. w.step = "scope" /\ w.op = "removeRestriction" /\ w.by = by /\ w.on = x
  BY DEF Free
<1>3. "removeRestriction" \in Operations
  BY DEF Operations, RestrictionOperations
<1>4. w \in Work
  BY <1>3 DEF Free, Work, Targets, Ids
<1>5. /\ Proceed(q, w) /\ work'[q] = w /\ UNCHANGED <<documents, seeded>>
      /\ restrictions' = restrictions
  BY <1>1, ReceiveStays
<1> HIDE DEF w
<1>6. Asks(q)'
  BY <1>2, <1>3, <1>5 DEF Asks, AssignmentOperations
<1>7. Names(q)'
  BY <1>1, <1>2, <1>5 DEF Names, NamesRole, NamesPolicy,
     NamesRestriction, NamesAssignment, NamesGrant, NamesTarget, NamesTenant,
     NamesPermissions
<1>8. QED
  BY <1>2, <1>4, <1>5, <1>6, <1>7, ArriveFits, ReadStep

-----------------------------------------------------------------------------
(* Its scope is checked. *)

LEMMA ScopeStep ==
  ASSUME Safe, NEW q \in Requests, NEW todo \in SUBSET Permissions,
         work[q].step = "scope",
         Proceed(q, [work[q] EXCEPT !.step = "delegate", !.todo = todo]),
         UNCHANGED <<documents, seeded>>,
         InScope(q),
         Mentions(q) /\ work[q].by # Platform => work[q].asked \subseteq todo
  PROVE  Safe'
<1> DEFINE w == [work[q] EXCEPT !.step = "delegate", !.todo = todo]
<1>1. work'[q] = w /\ work[q] \in Work /\ Asks(q) /\ Names(q)
  BY Remembers DEF Fits
<1>2. /\ w.step = "delegate" /\ w.op = work[q].op /\ w.by = work[q].by
      /\ w.tenant = work[q].tenant /\ w.on = work[q].on /\ w.to = work[q].to
      /\ w.asked = work[q].asked /\ w.todo = todo /\ w.row = work[q].row
  BY <1>1 DEF Work
<1>3. w \in Work
  BY <1>1 DEF Work
<1>4. Proceed(q, w)
  OBVIOUS
<1> HIDE DEF w
<1>5. /\ roles' = roles /\ policies' = policies
      /\ restrictions' = restrictions /\ seeded' = seeded
  BY StoreStays
<1>6. Asks(q)'
  BY <1>1, <1>2 DEF Asks
<1>7. Names(q)'
  BY <1>1, <1>2, <1>5 DEF Names, NamesRole, NamesPolicy,
     NamesRestriction, NamesAssignment, NamesGrant, NamesTarget, NamesTenant,
     NamesPermissions, Within, AssignmentBelongs, GrantBelongs
<1>8. InScope(q)'
  BY <1>1, <1>2, <1>5 DEF InScope, RoleInScope, PolicyInScope,
     RestrictionInScope, RowInScope, MemberInScope, TargetInScope, Within
<1>9. Delegated(q)'
  BY <1>1, <1>2 DEF Delegated, Mentions
<1>10. Fits(q)'
  BY <1>1, <1>2, <1>6, <1>7, <1>8, <1>9 DEF Fits
<1>11. QED
  BY <1>3, <1>4, <1>10, ReadStep

\* What a request relies on when its scope is to be checked.
LEMMA AtScope ==
  ASSUME Safe, NEW q \in Requests, work[q].step = "scope"
  PROVE  /\ work[q] \in Work /\ Asks(q) /\ Names(q)
         /\ work[q].asked \in (SUBSET Permissions) \union {None}
         /\ work[q].op \in AssignmentOperations =>
              work[q].by # Platform /\ work[q].by \in Members
<1>1. work[q] \in Work /\ Asks(q) /\ Names(q)
  BY DEF Safe, Fits
<1>2. QED
  BY <1>1, HomesAreTenants DEF Work, Asks

LEMMA ScopeRoleStep ==
  ASSUME Safe, NEW q \in Requests, ScopeRole(q)
  PROVE  Safe'
<1> DEFINE todo == IF work[q].asked = None THEN {}
                   ELSE ToDelegate(work[q], work[q].asked)
<1>1. /\ work[q].step = "scope" /\ work[q].op \in RoleOperations
      /\ OwnRole(work[q].by, work[q].on)
      /\ Proceed(q, [work[q] EXCEPT !.step = "delegate", !.todo = todo])
      /\ UNCHANGED <<documents, seeded>>
  BY DEF ScopeRole, Scoped, Busy
<1>2. todo \in SUBSET Permissions
  BY <1>1, AtScope DEF ToDelegate
<1>3. Mentions(q) /\ work[q].by # Platform => work[q].asked \subseteq todo
  BY <1>1, AtScope DEF ToDelegate, Mentions, Asks, RoleOperations
<1> HIDE DEF todo
<1>4. InScope(q)
  BY <1>1 DEF InScope, RoleInScope, PolicyInScope, RestrictionInScope,
     RowInScope, MemberInScope, TargetInScope, RoleOperations, OwnRole
<1>5. QED
  BY <1>1, <1>2, <1>3, <1>4, ScopeStep

LEMMA ScopePolicyStep ==
  ASSUME Safe, NEW q \in Requests, ScopePolicy(q)
  PROVE  Safe'
<1> DEFINE todo == {}
<1>1. /\ work[q].step = "scope" /\ work[q].op \in PolicyOperations
      /\ Within(work[q].by, policies[work[q].on].tenant)
      /\ Proceed(q, [work[q] EXCEPT !.step = "delegate", !.todo = todo])
      /\ UNCHANGED <<documents, seeded>>
  BY DEF ScopePolicy, Scoped, Busy
<1>0. todo \in SUBSET Permissions
  OBVIOUS
<1> HIDE DEF todo
<1>2. InScope(q)
  BY <1>1 DEF InScope, RoleInScope, PolicyInScope, RestrictionInScope,
     RowInScope, MemberInScope, TargetInScope, PolicyOperations
<1>3. ~Mentions(q)
  BY <1>1 DEF PolicyOperations, Mentions
<1>4. QED
  BY <1>0, <1>1, <1>2, <1>3, ScopeStep

LEMMA ScopeAssignStep ==
  ASSUME Safe, NEW q \in Requests, ScopeAssign(q)
  PROVE  Safe'
<1> DEFINE todo == ToDelegate(work[q], roles[work[q].on].permissions)
<1>1. /\ work[q].step = "scope" /\ work[q].op = "assignRole"
      /\ MemberInTenant(work[q].by, work[q].to)
      /\ OwnRole(work[q].by, work[q].on)
      /\ Proceed(q, [work[q] EXCEPT !.step = "delegate", !.todo = todo])
      /\ UNCHANGED <<documents, seeded>>
  BY DEF ScopeAssign, Scoped, Busy
<1>2. work[q].by # Platform /\ Names(q)
  BY <1>1, AtScope DEF AssignmentOperations
<1>3. roles[work[q].on] \in RoleDocument
  BY <1>1, <1>2 DEF Names, NamesRole, Safe, StoreIsSound, StoreTyped
<1>4. todo \in SUBSET Permissions
  BY <1>3 DEF ToDelegate, RoleDocument
<1> HIDE DEF todo
<1>5. InScope(q)
  BY <1>1, <1>2 DEF InScope, RoleInScope, PolicyInScope, RestrictionInScope,
     RowInScope, MemberInScope, TargetInScope, OwnRole, MemberInTenant, Within
<1>6. QED
  BY <1>1, <1>4, <1>5, ScopeStep DEF Mentions

LEMMA ScopeRemoveStep ==
  ASSUME Safe, NEW q \in Requests, ScopeRemove(q)
  PROVE  Safe'
<1> DEFINE todo == ToDelegate(work[q], roles[work[q].on.role].permissions)
<1>1. /\ work[q].step = "scope" /\ work[q].op = "removeRole"
      /\ Within(work[q].by, work[q].on.tenant)
      /\ Proceed(q, [work[q] EXCEPT !.step = "delegate", !.todo = todo])
      /\ UNCHANGED <<documents, seeded>>
  BY DEF ScopeRemove, Scoped, Busy
<1>2. work[q].by # Platform /\ Names(q)
  BY <1>1, AtScope DEF AssignmentOperations
<1>3. roles[work[q].on.role] \in RoleDocument
  BY <1>1, <1>2 DEF Names, NamesAssignment, AssignmentBelongs,
     AssignmentDocument, Safe, StoreIsSound, StoreTyped
<1>4. todo \in SUBSET Permissions
  BY <1>3 DEF ToDelegate, RoleDocument
<1> HIDE DEF todo
<1>5. InScope(q)
  BY <1>1, <1>2 DEF InScope, RoleInScope, PolicyInScope, RestrictionInScope,
     RowInScope, MemberInScope, TargetInScope, Within
<1>6. QED
  BY <1>1, <1>4, <1>5, ScopeStep DEF Mentions

LEMMA ScopeGrantStep ==
  ASSUME Safe, NEW q \in Requests, ScopeGrant(q)
  PROVE  Safe'
<1> DEFINE todo == ToDelegate(work[q], work[q].asked)
<1>1. /\ work[q].step = "scope" /\ work[q].op = "grantPermission"
      /\ MemberInTenant(work[q].by, work[q].to)
      /\ Proceed(q, [work[q] EXCEPT !.step = "delegate", !.todo = todo])
      /\ UNCHANGED <<documents, seeded>>
  BY DEF ScopeGrant, Scoped, Busy
<1>2. work[q].by # Platform /\ Names(q)
  BY <1>1, AtScope DEF AssignmentOperations
<1>3. todo = work[q].asked
  BY <1>2 DEF ToDelegate
<1>4. todo \in SUBSET Permissions
  BY <1>1, <1>2, <1>3 DEF Names, NamesPermissions
<1> HIDE DEF todo
<1>5. InScope(q)
  BY <1>1, <1>2 DEF InScope, RoleInScope, PolicyInScope, RestrictionInScope,
     RowInScope, MemberInScope, TargetInScope, MemberInTenant, Within
<1>6. QED
  BY <1>1, <1>3, <1>4, <1>5, ScopeStep

LEMMA ScopeRevokeStep ==
  ASSUME Safe, NEW q \in Requests, ScopeRevoke(q)
  PROVE  Safe'
<1> DEFINE todo == ToDelegate(work[q], {work[q].on.permission})
<1>1. /\ work[q].step = "scope" /\ work[q].op = "revokePermission"
      /\ Within(work[q].by, work[q].on.tenant)
      /\ Proceed(q, [work[q] EXCEPT !.step = "delegate", !.todo = todo])
      /\ UNCHANGED <<documents, seeded>>
  BY DEF ScopeRevoke, Scoped, Busy
<1>2. work[q].by # Platform /\ Names(q)
  BY <1>1, AtScope DEF AssignmentOperations
<1>3. work[q].on.permission \in Permissions
  BY <1>1, <1>2 DEF Names, NamesGrant, GrantDocument
<1>4. todo \in SUBSET Permissions
  BY <1>3 DEF ToDelegate
<1> HIDE DEF todo
<1>5. InScope(q)
  BY <1>1, <1>2 DEF InScope, RoleInScope, PolicyInScope, RestrictionInScope,
     RowInScope, MemberInScope, TargetInScope, Within
<1>6. QED
  BY <1>1, <1>4, <1>5, ScopeStep DEF Mentions

LEMMA ScopeCreateRestrictionStep ==
  ASSUME Safe, NEW q \in Requests, ScopeCreateRestriction(q)
  PROVE  Safe'
<1> DEFINE todo == {}
<1>1. /\ work[q].step = "scope" /\ work[q].op = "createRestriction"
      /\ work[q].to \in Members => MemberInTenant(work[q].by, work[q].to)
      /\ work[q].to \in Tenants => Within(work[q].by, work[q].to)
      /\ work[q].to \in RoleIds => OwnRole(work[q].by, work[q].to)
      /\ Proceed(q, [work[q] EXCEPT !.step = "delegate", !.todo = todo])
      /\ UNCHANGED <<documents, seeded>>
  BY DEF ScopeCreateRestriction, Scoped, Busy
<1>0. todo \in SUBSET Permissions
  OBVIOUS
<1> HIDE DEF todo
<1>2. InScope(q)
  BY <1>1 DEF InScope, RoleInScope, PolicyInScope, RestrictionInScope,
     RowInScope, MemberInScope, TargetInScope, MemberInTenant, OwnRole, Within
<1>3. QED
  BY <1>0, <1>1, <1>2, ScopeStep DEF Mentions

LEMMA ScopeRemoveRestrictionStep ==
  ASSUME Safe, NEW q \in Requests, ScopeRemoveRestriction(q)
  PROVE  Safe'
<1> DEFINE todo == {}
<1>1. /\ work[q].step = "scope" /\ work[q].op = "removeRestriction"
      /\ Within(work[q].by, restrictions[work[q].on].tenant)
      /\ Proceed(q, [work[q] EXCEPT !.step = "delegate", !.todo = todo])
      /\ UNCHANGED <<documents, seeded>>
  BY DEF ScopeRemoveRestriction, Scoped, Busy
<1>0. todo \in SUBSET Permissions
  OBVIOUS
<1> HIDE DEF todo
<1>2. InScope(q)
  BY <1>1 DEF InScope, RoleInScope, PolicyInScope, RestrictionInScope,
     RowInScope, MemberInScope, TargetInScope
<1>3. QED
  BY <1>0, <1>1, <1>2, ScopeStep DEF Mentions

\* A permission is taken from the list once the caller has been found to hold
\* it: by then the platform has put it into the tenant.
LEMMA DelegateStep ==
  ASSUME Safe, NEW q \in Requests, Delegate(q)
  PROVE  Safe'
<1>1. PICK p : /\ p \in work[q].todo /\ Allowed(work[q].by, p)
               /\ Proceed(q, [work[q] EXCEPT !.todo = @ \ {p}])
  BY DEF Delegate
<1> DEFINE w == [work[q] EXCEPT !.todo = @ \ {p}]
<1>2. /\ work[q].step = "delegate" /\ UNCHANGED <<documents, seeded>>
  BY DEF Delegate, Busy
<1>3. /\ work'[q] = w /\ work[q] \in Work /\ Asks(q) /\ Names(q)
      /\ InScope(q) /\ Delegated(q)
  BY <1>1, <1>2, Remembers DEF Fits
<1>4. /\ w.step = "delegate" /\ w.op = work[q].op /\ w.by = work[q].by
      /\ w.tenant = work[q].tenant /\ w.on = work[q].on /\ w.to = work[q].to
      /\ w.asked = work[q].asked /\ w.todo = work[q].todo \ {p}
  BY <1>2, <1>3 DEF Work
<1>5. w \in Work
  BY <1>3 DEF Work
<1>6. Proceed(q, w)
  BY <1>1
<1> HIDE DEF w
<1>7. /\ roles' = roles /\ policies' = policies
      /\ restrictions' = restrictions /\ seeded' = seeded
  BY <1>2, StoreStays
<1>8. Asks(q)'
  BY <1>3, <1>4 DEF Asks
<1>9. Names(q)'
  BY <1>3, <1>4, <1>7 DEF Names, NamesRole, NamesPolicy,
     NamesRestriction, NamesAssignment, NamesGrant, NamesTarget, NamesTenant,
     NamesPermissions, Within, AssignmentBelongs, GrantBelongs
<1>10. InScope(q)'
  BY <1>3, <1>4, <1>7 DEF InScope, RoleInScope, PolicyInScope,
     RestrictionInScope, RowInScope, MemberInScope, TargetInScope, Within
<1>11. Delegated(q)'
  <2>1. work[q].by # Platform => p \in seeded[Home[work[q].by]]
    BY <1>1, <1>3, HoldsWhatIsSeeded DEF Allowed, Asks, Callers, Safe
  <2>2. QED
    BY <1>3, <1>4, <1>7, <2>1 DEF Delegated, Mentions
<1>12. Fits(q)'
  BY <1>3, <1>4, <1>8, <1>9, <1>10, <1>11 DEF Fits
<1>13. QED
  BY <1>2, <1>5, <1>6, <1>12, ReadStep

-----------------------------------------------------------------------------
(* The use cases decide what to write. *)

LEMMA LoadStep ==
  ASSUME Safe, NEW q \in Requests, NEW op, NEW row \in Documents,
         Loading(q, op), Decide(q, row)
  PROVE  /\ work[q] \in Work /\ Asks(q) /\ Names(q) /\ InScope(q) /\ Delegated(q)
         /\ work[q].op = op /\ work[q].todo = {}
         /\ work'[q].op = op /\ work'[q].by = work[q].by
         /\ work'[q].on = work[q].on /\ work'[q].row = row
         /\ roles' = roles /\ policies' = policies
         /\ restrictions' = restrictions /\ seeded' = seeded
         /\ Decided(q)' => Safe'
<1> DEFINE w == [work[q] EXCEPT !.step = "commit", !.row = row]
<1>1. /\ work[q].step = "delegate" /\ work[q].op = op /\ work[q].todo = {}
      /\ Proceed(q, w) /\ UNCHANGED <<documents, seeded>>
  BY DEF Loading, Decide, Busy
<1>2. /\ work'[q] = w /\ work[q] \in Work /\ Asks(q) /\ Names(q)
      /\ InScope(q) /\ Delegated(q)
  BY <1>1, Remembers DEF Fits
<1>3. /\ w.step = "commit" /\ w.op = op /\ w.by = work[q].by
      /\ w.tenant = work[q].tenant /\ w.on = work[q].on /\ w.to = work[q].to
      /\ w.asked = work[q].asked /\ w.todo = {} /\ w.row = row
  BY <1>1, <1>2 DEF Work
<1>4. w \in Work
  BY <1>2 DEF Work
<1> HIDE DEF w
<1>5. /\ roles' = roles /\ policies' = policies
      /\ restrictions' = restrictions /\ seeded' = seeded
  BY <1>1, StoreStays
<1>6. Asks(q)'
  BY <1>1, <1>2, <1>3 DEF Asks
<1>7. Names(q)'
  BY <1>1, <1>2, <1>3, <1>5 DEF Names, NamesRole, NamesPolicy,
     NamesRestriction, NamesAssignment, NamesGrant, NamesTarget, NamesTenant,
     NamesPermissions, Within, AssignmentBelongs, GrantBelongs
<1>8. InScope(q)'
  BY <1>1, <1>2, <1>3, <1>5 DEF InScope, RoleInScope, PolicyInScope,
     RestrictionInScope, RowInScope, MemberInScope, TargetInScope, Within
<1>9. Delegated(q)'
  BY <1>1, <1>2, <1>3, <1>5 DEF Delegated, Mentions
<1>10. Decided(q)' => Fits(q)'
  BY <1>2, <1>3, <1>6, <1>7, <1>8, <1>9 DEF Fits
<1>11. Decided(q)' => Safe'
  BY <1>1, <1>4, <1>10, ReadStep
<1>12. QED
  BY <1>1, <1>2, <1>3, <1>5, <1>11

LEMMA LoadCreateRoleStep ==
  ASSUME Safe, NEW q \in Requests, LoadCreateRole(q)
  PROVE  Safe'
<1> DEFINE row == NewRole(work[q].tenant, work[q].asked)
<1>1. Loading(q, "createRole") /\ Decide(q, row)
  BY DEF LoadCreateRole
<1>2. /\ work[q].step = "delegate" /\ work[q].op = "createRole"
      /\ Names(q) /\ Asks(q)
  BY <1>1 DEF Loading, Busy, Safe, Fits
<1>3. /\ work[q].tenant \in Owners /\ Within(work[q].by, work[q].tenant)
      /\ work[q].asked \in SUBSET Permissions
  BY <1>2 DEF Names, NamesTenant, NamesPermissions
<1>4. /\ row \in RoleDocument /\ row.tenant = work[q].tenant
      /\ row.permissions = work[q].asked
  BY <1>3 DEF NewRole, RoleDocument
<1>5. row \in Documents
  BY <1>4 DEF Documents
<1> HIDE DEF row
<1>6. /\ work[q].by # Platform =>
           work[q].asked \subseteq seeded[Home[work[q].by]]
      /\ work'[q].op = "createRole" /\ work'[q].by = work[q].by
      /\ work'[q].row = row /\ seeded' = seeded
  BY <1>1, <1>5, LoadStep DEF Delegated, Mentions
<1>7. DecidesRole(q)'
  BY <1>3, <1>4, <1>6 DEF DecidesRole, Within
<1>8. Decided(q)'
  BY <1>6, <1>7 DEF Decided, DecidesAssignment, DecidesGrant, DecidesPolicy,
     DecidesRestriction, RoleOperations, PolicyOperations,
     RestrictionOperations
<1>9. QED
  BY <1>1, <1>5, <1>8, LoadStep

\* An update and the two changes of a role's status keep its tenant.
LEMMA LoadChangeRole ==
  ASSUME Safe, NEW q \in Requests,
         NEW op \in {"updateRole", "archiveRole", "restoreRole"},
         NEW row \in RoleDocument, Loading(q, op), Decide(q, row),
         row.tenant = roles[work[q].on].tenant,
         \/ row.permissions = roles[work[q].on].permissions
         \/ Mentions(q) /\ row.permissions = work[q].asked
  PROVE  Safe'
<1>1. row \in Documents
  BY DEF Documents
<1>2. /\ work[q].op = op /\ work[q].todo = {}
      /\ Asks(q) /\ Names(q) /\ InScope(q) /\ Delegated(q)
      /\ work'[q].op = op /\ work'[q].by = work[q].by
      /\ work'[q].on = work[q].on /\ work'[q].row = row
      /\ roles' = roles /\ seeded' = seeded
  BY <1>1, LoadStep
<1>3. /\ work[q].on \in RoleIds /\ roles[work[q].on] # None
      /\ Within(work[q].by, roles[work[q].on].tenant)
  BY <1>2 DEF Names, NamesRole, InScope, RoleInScope
<1>4. ASSUME work[q].by # Platform
      PROVE  /\ row.tenant = Home[work[q].by]
             /\ row.permissions \subseteq seeded[Home[work[q].by]]
  <2>1. row.tenant = Home[work[q].by] /\ Home[work[q].by] \in Tenants
    BY <1>2, <1>3, <1>4, HomesAreTenants DEF Within, Asks, Callers
  <2>2. roles[work[q].on].permissions \subseteq seeded[Home[work[q].by]]
    BY <1>3, <2>1 DEF Safe, StoreIsSound, RolesAreSeeded
  <2>3. Mentions(q) => work[q].asked \subseteq seeded[Home[work[q].by]]
    BY <1>2, <1>4 DEF Delegated
  <2>4. QED
    BY <2>1, <2>2, <2>3
<1>5. DecidesRole(q)'
  BY <1>2, <1>4 DEF DecidesRole
<1>6. Decided(q)'
  BY <1>2, <1>5 DEF Decided, DecidesAssignment, DecidesGrant, DecidesPolicy,
     DecidesRestriction, RoleOperations, PolicyOperations,
     RestrictionOperations
<1>7. QED
  BY <1>1, <1>6, LoadStep

\* The role that a request is to change.
LEMMA LoadedRole ==
  ASSUME Safe, NEW q \in Requests,
         NEW op \in {"updateRole", "archiveRole", "restoreRole"},
         Loading(q, op)
  PROVE  /\ roles[work[q].on] \in RoleDocument
         /\ work[q].asked \in (SUBSET Permissions) \union {None}
         /\ work[q].op = op
<1>1. Names(q) /\ work[q].op = op /\ work[q] \in Work
  BY DEF Loading, Busy, Safe, Fits
<1>2. QED
  BY <1>1 DEF Names, NamesRole, Safe, StoreIsSound, StoreTyped, Work

LEMMA LoadRolesStep ==
  ASSUME Safe, NEW q \in Requests,
         LoadUpdateRole(q) \/ LoadArchiveRole(q) \/ LoadRestoreRole(q)
  PROVE  Safe'
<1> DEFINE role == roles[work[q].on]
<1>1. CASE LoadUpdateRole(q)
  <2> DEFINE row == UpdatedRole(role, work[q].asked)
  <2>1. Loading(q, "updateRole") /\ Decide(q, row)
    BY <1>1 DEF LoadUpdateRole
  <2>2. /\ role \in RoleDocument /\ work[q].op = "updateRole"
        /\ work[q].asked \in (SUBSET Permissions) \union {None}
    BY <2>1, LoadedRole
  <2>3. /\ row \in RoleDocument /\ row.tenant = role.tenant
        /\ \/ row.permissions = role.permissions
           \/ Mentions(q) /\ row.permissions = work[q].asked
    BY <2>2 DEF UpdatedRole, RoleDocument, Mentions
  <2> HIDE DEF row
  <2>4. QED
    BY <2>1, <2>3, LoadChangeRole
<1>2. CASE LoadArchiveRole(q)
  <2> DEFINE row == ArchivedRole(role)
  <2>1. Loading(q, "archiveRole") /\ Decide(q, row)
    BY <1>2 DEF LoadArchiveRole
  <2>2. role \in RoleDocument
    BY <2>1, LoadedRole
  <2>3. /\ row \in RoleDocument /\ row.tenant = role.tenant
        /\ row.permissions = role.permissions
    BY <2>2 DEF ArchivedRole, RoleDocument
  <2> HIDE DEF row
  <2>4. QED
    BY <2>1, <2>3, LoadChangeRole
<1>3. CASE LoadRestoreRole(q)
  <2> DEFINE row == RestoredRole(role)
  <2>1. Loading(q, "restoreRole") /\ Decide(q, row)
    BY <1>3 DEF LoadRestoreRole
  <2>2. role \in RoleDocument
    BY <2>1, LoadedRole
  <2>3. /\ row \in RoleDocument /\ row.tenant = role.tenant
        /\ row.permissions = role.permissions
    BY <2>2 DEF RestoredRole, RoleDocument
  <2> HIDE DEF row
  <2>4. QED
    BY <2>1, <2>3, LoadChangeRole
<1>4. QED
  BY <1>1, <1>2, <1>3

LEMMA LoadAssignmentStep ==
  ASSUME Safe, NEW q \in Requests, NEW op \in {"assignRole", "removeRole"},
         NEW row \in AssignmentDocument, Loading(q, op), Decide(q, row),
         AssignmentBelongs(row), row.tenant = Home[work[q].by]
  PROVE  Safe'
<1>1. row \in Documents
  BY DEF Documents
<1>2. /\ work'[q].op = op /\ work'[q].by = work[q].by /\ work'[q].row = row
      /\ roles' = roles
  BY <1>1, LoadStep
<1>3. DecidesAssignment(q)'
  BY <1>2 DEF DecidesAssignment, AssignmentBelongs
<1>4. Decided(q)'
  BY <1>2, <1>3 DEF Decided, DecidesRole, DecidesGrant, DecidesPolicy,
     DecidesRestriction, RoleOperations, PolicyOperations,
     RestrictionOperations
<1>5. QED
  BY <1>1, <1>4, LoadStep

LEMMA LoadGrantStep ==
  ASSUME Safe, NEW q \in Requests,
         NEW op \in {"grantPermission", "revokePermission"},
         NEW row \in GrantDocument, Loading(q, op), Decide(q, row),
         GrantBelongs(row), row.tenant = Home[work[q].by]
  PROVE  Safe'
<1>1. row \in Documents
  BY DEF Documents
<1>2. /\ work'[q].op = op /\ work'[q].by = work[q].by /\ work'[q].row = row
      /\ seeded' = seeded
  BY <1>1, LoadStep
<1>3. DecidesGrant(q)'
  BY <1>2 DEF DecidesGrant, GrantBelongs
<1>4. Decided(q)'
  BY <1>2, <1>3 DEF Decided, DecidesRole, DecidesAssignment, DecidesPolicy,
     DecidesRestriction, RoleOperations, PolicyOperations,
     RestrictionOperations
<1>5. QED
  BY <1>1, <1>4, LoadStep

\* What a request relies on when its use case reads.
LEMMA AtLoad ==
  ASSUME Safe, NEW q \in Requests, NEW op, Loading(q, op)
  PROVE  /\ work[q] \in Work /\ work[q].op = op /\ work[q].todo = {}
         /\ Asks(q) /\ Names(q) /\ InScope(q) /\ Delegated(q)
         /\ work[q].op \in AssignmentOperations =>
              /\ work[q].by \in Members /\ work[q].by # Platform
              /\ Home[work[q].by] \in Tenants
<1>1. /\ work[q] \in Work /\ work[q].op = op /\ work[q].todo = {}
      /\ Asks(q) /\ Names(q) /\ InScope(q) /\ Delegated(q)
  BY DEF Loading, Busy, Safe, Fits
<1>2. QED
  BY <1>1, HomesAreTenants DEF Asks

LEMMA LoadAssignmentsStep ==
  ASSUME Safe, NEW q \in Requests,
         \/ LoadAssignRole(q) \/ LoadRemoveRole(q)
         \/ LoadGrantPermission(q) \/ LoadRevokePermission(q)
  PROVE  Safe'
<1>1. CASE LoadAssignRole(q)
  <2> DEFINE row == NewAssignment(work[q].to, work[q].on, work[q].by)
  <2>1. Loading(q, "assignRole") /\ Decide(q, row)
    BY <1>1 DEF LoadAssignRole
  <2>2. /\ work[q].by # Platform /\ Home[work[q].by] \in Tenants
        /\ work[q].to \in Members /\ work[q].on \in RoleIds
        /\ roles[work[q].on] # None
        /\ Home[work[q].to] = Home[work[q].by]
        /\ roles[work[q].on].tenant = Home[work[q].by]
    BY <2>1, AtLoad DEF AssignmentOperations, Names, NamesRole, NamesTarget,
       InScope, RoleInScope, MemberInScope, Within
  <2>3. /\ row \in AssignmentDocument /\ row.tenant = Home[work[q].by]
        /\ row.member = work[q].to /\ row.role = work[q].on
    BY <2>2 DEF NewAssignment, AssignmentDocument
  <2> HIDE DEF row
  <2>4. AssignmentBelongs(row)
    BY <2>2, <2>3 DEF AssignmentBelongs
  <2>5. QED
    BY <2>1, <2>3, <2>4, LoadAssignmentStep
<1>2. CASE LoadRemoveRole(q)
  <2> DEFINE row == Removed(work[q].on)
  <2>1. Loading(q, "removeRole") /\ Decide(q, row)
    BY <1>2 DEF LoadRemoveRole
  <2>2. /\ work[q].on \in AssignmentDocument /\ AssignmentBelongs(work[q].on)
        /\ work[q].on.tenant = Home[work[q].by]
    BY <2>1, AtLoad DEF Names, NamesAssignment, InScope, RowInScope
  <2>3. /\ row \in AssignmentDocument /\ row.tenant = work[q].on.tenant
        /\ row.member = work[q].on.member /\ row.role = work[q].on.role
    BY <2>2 DEF Removed, AssignmentDocument
  <2> HIDE DEF row
  <2>4. AssignmentBelongs(row)
    BY <2>2, <2>3 DEF AssignmentBelongs
  <2>5. QED
    BY <2>1, <2>2, <2>3, <2>4, LoadAssignmentStep
<1>3. CASE LoadGrantPermission(q)
  <2>1. PICK p \in work[q].asked :
          /\ Loading(q, "grantPermission")
          /\ Decide(q, NewGrant(work[q].to, p, work[q].by))
    BY <1>3 DEF LoadGrantPermission
  <2> DEFINE row == NewGrant(work[q].to, p, work[q].by)
  <2>2. /\ work[q].by # Platform /\ Home[work[q].by] \in Tenants
        /\ work[q].to \in Members /\ work[q].asked \in SUBSET Permissions
        /\ Home[work[q].to] = Home[work[q].by]
    BY <2>1, AtLoad DEF AssignmentOperations, Names, NamesPermissions,
       NamesTarget, InScope, MemberInScope
  <2>3. p \in seeded[Home[work[q].by]]
    BY <2>1, <2>2, AtLoad DEF Delegated, Mentions
  <2>4. /\ row \in GrantDocument /\ row.tenant = Home[work[q].by]
        /\ row.member = work[q].to /\ row.permission = p
    BY <2>2 DEF NewGrant, GrantDocument
  <2>5. Decide(q, row)
    BY <2>1
  <2> HIDE DEF row
  <2>6. GrantBelongs(row)
    BY <2>2, <2>3, <2>4 DEF GrantBelongs
  <2>7. QED
    BY <2>1, <2>4, <2>5, <2>6, LoadGrantStep
<1>4. CASE LoadRevokePermission(q)
  <2> DEFINE row == Removed(work[q].on)
  <2>1. Loading(q, "revokePermission") /\ Decide(q, row)
    BY <1>4 DEF LoadRevokePermission
  <2>2. /\ work[q].on \in GrantDocument /\ GrantBelongs(work[q].on)
        /\ work[q].on.tenant = Home[work[q].by]
    BY <2>1, AtLoad DEF Names, NamesGrant, InScope, RowInScope
  <2>3. /\ row \in GrantDocument /\ row.tenant = work[q].on.tenant
        /\ row.member = work[q].on.member
        /\ row.permission = work[q].on.permission
    BY <2>2 DEF Removed, GrantDocument
  <2> HIDE DEF row
  <2>4. GrantBelongs(row)
    BY <2>2, <2>3 DEF GrantBelongs
  <2>5. QED
    BY <2>1, <2>2, <2>3, <2>4, LoadGrantStep
<1>5. QED
  BY <1>1, <1>2, <1>3, <1>4

LEMMA LoadPolicyStep ==
  ASSUME Safe, NEW q \in Requests, NEW op \in PolicyOperations,
         NEW row \in PolicyDocument, Loading(q, op), Decide(q, row),
         Within(work[q].by, row.tenant),
         op # "createPolicy" => policies[work[q].on].tenant = row.tenant
  PROVE  Safe'
<1>1. row \in Documents
  BY DEF Documents
<1>2. /\ work'[q].op = op /\ work'[q].by = work[q].by /\ work'[q].row = row
      /\ work'[q].on = work[q].on /\ policies' = policies
  BY <1>1, LoadStep
<1>3. DecidesPolicy(q)'
  BY <1>2 DEF DecidesPolicy, Within
<1>4. Decided(q)'
  BY <1>2, <1>3 DEF Decided, DecidesRole, DecidesAssignment, DecidesGrant,
     DecidesRestriction, RoleOperations, PolicyOperations,
     RestrictionOperations
<1>5. QED
  BY <1>1, <1>4, LoadStep

LEMMA LoadPoliciesStep ==
  ASSUME Safe, NEW q \in Requests,
         LoadCreatePolicy(q) \/ LoadUpdatePolicy(q) \/ LoadArchivePolicy(q)
  PROVE  Safe'
<1> DEFINE policy == policies[work[q].on]
<1>1. CASE LoadCreatePolicy(q)
  <2> DEFINE row == NewPolicy(work[q].tenant)
  <2>1. Loading(q, "createPolicy") /\ Decide(q, row)
    BY <1>1 DEF LoadCreatePolicy
  <2>2. work[q].tenant \in Owners /\ Within(work[q].by, work[q].tenant)
    BY <2>1, AtLoad DEF Names, NamesTenant
  <2>3. row \in PolicyDocument /\ row.tenant = work[q].tenant
    BY <2>2, VersionsAreCounted DEF NewPolicy, PolicyDocument
  <2> HIDE DEF row
  <2>4. QED
    BY <2>1, <2>2, <2>3, LoadPolicyStep DEF PolicyOperations
<1>2. ASSUME Loading(q, "updatePolicy") \/ Loading(q, "archivePolicy")
      PROVE  policy \in PolicyDocument /\ Within(work[q].by, policy.tenant)
  <2>1. /\ work[q].on \in PolicyIds /\ policy # None
        /\ Within(work[q].by, policy.tenant)
    BY <1>2, AtLoad DEF Names, NamesPolicy, InScope, PolicyInScope
  <2>2. QED
    BY <2>1 DEF Safe, StoreIsSound, StoreTyped
<1>3. CASE LoadUpdatePolicy(q)
  <2> DEFINE row == UpdatedPolicy(policy)
  <2>1. /\ Loading(q, "updatePolicy") /\ Decide(q, row)
        /\ policy.version < MaxVersion
    BY <1>3 DEF LoadUpdatePolicy
  <2>2. policy \in PolicyDocument /\ Within(work[q].by, policy.tenant)
    BY <1>2, <2>1
  <2>3. policy.version + 1 \in 1..MaxVersion
    BY <2>1, <2>2, VersionsAreCounted DEF PolicyDocument
  <2>4. row \in PolicyDocument /\ row.tenant = policy.tenant
    BY <2>2, <2>3 DEF UpdatedPolicy, PolicyDocument
  <2> HIDE DEF row
  <2>5. QED
    BY <2>1, <2>2, <2>4, LoadPolicyStep DEF PolicyOperations
<1>4. CASE LoadArchivePolicy(q)
  <2> DEFINE row == ArchivedPolicy(policy)
  <2>1. Loading(q, "archivePolicy") /\ Decide(q, row)
    BY <1>4 DEF LoadArchivePolicy
  <2>2. policy \in PolicyDocument /\ Within(work[q].by, policy.tenant)
    BY <1>2, <2>1
  <2>3. row \in PolicyDocument /\ row.tenant = policy.tenant
    BY <2>2 DEF ArchivedPolicy, PolicyDocument
  <2> HIDE DEF row
  <2>4. QED
    BY <2>1, <2>2, <2>3, LoadPolicyStep DEF PolicyOperations
<1>5. QED
  BY <1>1, <1>3, <1>4

LEMMA LoadRestrictionStep ==
  ASSUME Safe, NEW q \in Requests, NEW op \in RestrictionOperations,
         NEW row \in RestrictionDocument, Loading(q, op), Decide(q, row),
         RestrictionBelongs(row), Within(work[q].by, row.tenant),
         op # "createRestriction" =>
           restrictions[work[q].on].tenant = row.tenant
  PROVE  Safe'
<1>1. row \in Documents
  BY DEF Documents
<1>2. /\ work'[q].op = op /\ work'[q].by = work[q].by /\ work'[q].row = row
      /\ work'[q].on = work[q].on /\ restrictions' = restrictions
      /\ roles' = roles
  BY <1>1, LoadStep
<1>3. DecidesRestriction(q)'
  BY <1>2 DEF DecidesRestriction, Within, RestrictionBelongs
<1>4. Decided(q)'
  BY <1>2, <1>3 DEF Decided, DecidesRole, DecidesAssignment, DecidesGrant,
     DecidesPolicy, RoleOperations, PolicyOperations, RestrictionOperations
<1>5. QED
  BY <1>1, <1>4, LoadStep

LEMMA LoadRestrictionsStep ==
  ASSUME Safe, NEW q \in Requests,
         LoadCreateRestriction(q) \/ LoadRemoveRestriction(q)
  PROVE  Safe'
<1>1. CASE LoadCreateRestriction(q)
  <2> DEFINE row == NewRestriction(work[q].tenant, work[q].to, work[q].by)
  <2>1. Loading(q, "createRestriction") /\ Decide(q, row)
    BY <1>1 DEF LoadCreateRestriction
  <2>2. /\ work[q].by \in Callers /\ work[q].to \in Targets
        /\ work[q].tenant \in Owners /\ Within(work[q].by, work[q].tenant)
        /\ work[q].to \in RoleIds => roles[work[q].to] # None
        /\ work[q].by # Platform =>
             /\ work[q].to \in Members => Home[work[q].to] = Home[work[q].by]
             /\ work[q].to \in Tenants => work[q].to = Home[work[q].by]
             /\ work[q].to \in RoleIds =>
                  roles[work[q].to].tenant = Home[work[q].by]
    BY <2>1, AtLoad DEF Asks, Names, NamesTenant, NamesTarget, InScope,
       TargetInScope
  <2>3. /\ row \in RestrictionDocument /\ row.tenant = work[q].tenant
        /\ row.target = work[q].to /\ row.by = work[q].by
    BY <2>2 DEF NewRestriction, RestrictionDocument
  <2> HIDE DEF row
  <2>4. RestrictionBelongs(row)
    BY <2>2, <2>3, HomesAreTenants DEF RestrictionBelongs, Within
  <2>5. QED
    BY <2>1, <2>2, <2>3, <2>4, LoadRestrictionStep DEF RestrictionOperations
<1>2. CASE LoadRemoveRestriction(q)
  <2> DEFINE restriction == restrictions[work[q].on]
             row == RemovedRestriction(restriction)
  <2>1. Loading(q, "removeRestriction") /\ Decide(q, row)
    BY <1>2 DEF LoadRemoveRestriction
  <2>2. /\ work[q].on \in RestrictionIds /\ restriction # None
        /\ Within(work[q].by, restriction.tenant)
    BY <2>1, AtLoad DEF Names, NamesRestriction, InScope, RestrictionInScope
  <2>3. restriction \in RestrictionDocument /\ RestrictionBelongs(restriction)
    BY <2>2 DEF Safe, StoreIsSound, StoreTyped, Belonging
  <2>4. /\ row \in RestrictionDocument /\ row.tenant = restriction.tenant
        /\ row.target = restriction.target /\ row.by = restriction.by
    BY <2>3 DEF RemovedRestriction, RestrictionDocument
  <2> HIDE DEF row
  <2>5. RestrictionBelongs(row)
    BY <2>3, <2>4 DEF RestrictionBelongs
  <2>6. QED
    BY <2>1, <2>2, <2>4, <2>5, LoadRestrictionStep DEF RestrictionOperations
<1>3. QED
  BY <1>1, <1>2

-----------------------------------------------------------------------------
(* The commits. *)

\* What a request relies on when it commits; the rest is up to the store.
LEMMA CommitStep ==
  ASSUME Safe, NEW q \in Requests, NEW ops, Committing(q, ops)
  PROVE  /\ Proceed(q, Free) /\ work[q].op \in ops
         /\ Asks(q) /\ Names(q) /\ Decided(q)
         /\ Moves /\ StoreIsSound' => Safe'
<1>1. Proceed(q, Free) /\ work[q].op \in ops /\ work[q].step = "commit"
  BY DEF Committing, Busy
<1>2. Asks(q) /\ Names(q) /\ Decided(q)
  BY <1>1 DEF Safe, Fits
<1>3. ASSUME Moves, StoreIsSound'
      PROVE  Safe'
  BY <1>1, <1>3, FreeFits, SoundStep
<1>4. QED
  BY <1>1, <1>2, <1>3

\* A role is written: a new one, or anew.
LEMMA RoleWritten ==
  ASSUME Safe, NEW q \in Requests, NEW r \in RoleIds, NEW row \in RoleDocument,
         roles' = [roles EXCEPT ![r] = row],
         roles[r] # None => roles[r].tenant = row.tenant,
         SeedsMove, seeded' \in [Tenants -> SUBSET Permissions],
         row.tenant \in Tenants => row.permissions \subseteq seeded'[row.tenant],
         UNCHANGED <<assignments, grants, policies, restrictions>>
  PROVE  Moves /\ StoreIsSound'
<1>1. roles \in [RoleIds -> RoleDocument \union {None}] /\ row # None
  BY DocumentsAreSome DEF Safe, StoreIsSound, StoreTyped, Documents
<1>2. RolesMove
  BY <1>1 DEF RolesMove
<1>3. Moves
  BY <1>2 DEF Moves, PoliciesMove, RestrictionsMove
<1>4. StoreTyped'
  BY <1>1 DEF Safe, StoreIsSound, StoreTyped
<1>5. RolesAreSeeded'
  BY <1>1 DEF Safe, StoreIsSound, RolesAreSeeded, SeedsMove
<1>6. Belonging'
  <2>1. \A a \in assignments' : AssignmentBelongs(a)'
    BY <1>2, StillBelongs DEF Safe, StoreIsSound, StoreTyped, Belonging
  <2>2. \A g \in grants' : GrantBelongs(g)'
    BY <1>2, StillBelongs DEF Safe, StoreIsSound, StoreTyped, Belonging
  <2>3. \A x \in RestrictionIds :
          restrictions'[x] # None => RestrictionBelongs(restrictions[x])'
    BY <1>2, StillBelongs DEF Safe, StoreIsSound, StoreTyped, Belonging
  <2>4. QED
    BY <2>1, <2>2, <2>3 DEF Belonging
<1>7. QED
  BY <1>3, <1>4, <1>5, <1>6 DEF StoreIsSound

\* What the platform gives away only adds to what a tenant has.
LEMMA GivesAwayMore ==
  ASSUME Safe, NEW q \in Requests, GivesAway(q), Asks(q),
         work[q].op \in RoleOperations, DecidesRole(q)
  PROVE  /\ SeedsMove /\ seeded' \in [Tenants -> SUBSET Permissions]
         /\ work[q].row.tenant \in Tenants =>
              work[q].row.permissions \subseteq seeded'[work[q].row.tenant]
<1>1. /\ seeded \in [Tenants -> SUBSET Permissions]
      /\ work[q].row \in RoleDocument
  BY DEF Safe, StoreIsSound, StoreTyped, DecidesRole
<1>2. work[q].row.permissions \in SUBSET Permissions
  BY <1>1 DEF RoleDocument
<1>3. CASE work[q].by = Platform /\ work[q].row.tenant \in Tenants
  <2>1. seeded' = [seeded EXCEPT ![work[q].row.tenant] =
                                   @ \union work[q].row.permissions]
    BY <1>3 DEF GivesAway
  <2>2. QED
    BY <1>1, <1>2, <1>3, <2>1 DEF SeedsMove
<1>4. CASE ~(work[q].by = Platform /\ work[q].row.tenant \in Tenants)
  <2>1. seeded' = seeded
    BY <1>4 DEF GivesAway
  <2>2. work[q].row.tenant \in Tenants =>
          work[q].row.permissions \subseteq seeded[work[q].row.tenant]
    BY <1>4 DEF DecidesRole
  <2>3. QED
    BY <1>1, <2>1, <2>2 DEF SeedsMove
<1>5. QED
  BY <1>3, <1>4

LEMMA CommitRolesStep ==
  ASSUME Safe, NEW q \in Requests,
         CommitRole(q) \/ \E r \in RoleIds : CommitNewRole(q, r)
  PROVE  Safe'
<1>1. CASE CommitRole(q)
  <2>1. /\ Committing(q, RoleOperations \ {"createRole"}) /\ GivesAway(q)
        /\ roles' = [roles EXCEPT ![work[q].on] = work[q].row]
        /\ UNCHANGED <<assignments, grants, policies, restrictions>>
    BY <1>1 DEF CommitRole, Overwritten
  <2>2. /\ work[q].op \in RoleOperations /\ work[q].op # "createRole"
        /\ Asks(q) /\ Names(q) /\ Decided(q)
        /\ Moves /\ StoreIsSound' => Safe'
    BY <2>1, CommitStep
  <2>3. /\ work[q].on \in RoleIds /\ work[q].row \in RoleDocument
        /\ roles[work[q].on].tenant = work[q].row.tenant /\ DecidesRole(q)
    BY <2>2 DEF Names, NamesRole, RoleOperations, Decided, DecidesRole
  <2>4. /\ SeedsMove /\ seeded' \in [Tenants -> SUBSET Permissions]
        /\ work[q].row.tenant \in Tenants =>
             work[q].row.permissions \subseteq seeded'[work[q].row.tenant]
    BY <2>1, <2>2, <2>3, GivesAwayMore
  <2>5. Moves /\ StoreIsSound'
    BY <2>1, <2>3, <2>4, RoleWritten
  <2>6. QED
    BY <2>2, <2>5
<1>2. CASE \E r \in RoleIds : CommitNewRole(q, r)
  <2>1. PICK r \in RoleIds : CommitNewRole(q, r)
    BY <1>2
  <2>2. /\ Committing(q, {"createRole"}) /\ GivesAway(q) /\ roles[r] = None
        /\ roles' = [roles EXCEPT ![r] = work[q].row]
        /\ UNCHANGED <<assignments, grants, policies, restrictions>>
    BY <2>1 DEF CommitNewRole
  <2>3. /\ work[q].op = "createRole"
        /\ Asks(q) /\ Decided(q)
        /\ Moves /\ StoreIsSound' => Safe'
    BY <2>2, CommitStep
  <2>4. /\ work[q].row \in RoleDocument /\ DecidesRole(q)
        /\ work[q].op \in RoleOperations
    BY <2>3 DEF RoleOperations, Decided, DecidesRole
  <2>5. /\ SeedsMove /\ seeded' \in [Tenants -> SUBSET Permissions]
        /\ work[q].row.tenant \in Tenants =>
             work[q].row.permissions \subseteq seeded'[work[q].row.tenant]
    BY <2>2, <2>3, <2>4, GivesAwayMore
  <2>6. Moves /\ StoreIsSound'
    BY <2>2, <2>4, <2>5, RoleWritten
  <2>7. QED
    BY <2>3, <2>6
<1>3. QED
  BY <1>1, <1>2

LEMMA AssignmentsWritten ==
  ASSUME Safe, NEW row \in AssignmentDocument, AssignmentBelongs(row),
         assignments' \subseteq assignments \union {row},
         UNCHANGED <<roles, grants, policies, restrictions, seeded>>
  PROVE  Moves /\ StoreIsSound'
<1>1. Moves
  BY DEF Moves, RolesMove, PoliciesMove, RestrictionsMove, SeedsMove
<1>2. StoreTyped'
  BY DEF Safe, StoreIsSound, StoreTyped
<1>3. RolesAreSeeded'
  BY DEF Safe, StoreIsSound, RolesAreSeeded
<1>4. Belonging'
  BY DEF Safe, StoreIsSound, Belonging, AssignmentBelongs, GrantBelongs,
     RestrictionBelongs
<1>5. QED
  BY <1>1, <1>2, <1>3, <1>4 DEF StoreIsSound

LEMMA GrantsWritten ==
  ASSUME Safe, NEW row \in GrantDocument, GrantBelongs(row),
         grants' \subseteq grants \union {row},
         UNCHANGED <<roles, assignments, policies, restrictions, seeded>>
  PROVE  Moves /\ StoreIsSound'
<1>1. Moves
  BY DEF Moves, RolesMove, PoliciesMove, RestrictionsMove, SeedsMove
<1>2. StoreTyped'
  BY DEF Safe, StoreIsSound, StoreTyped
<1>3. RolesAreSeeded'
  BY DEF Safe, StoreIsSound, RolesAreSeeded
<1>4. Belonging'
  BY DEF Safe, StoreIsSound, Belonging, AssignmentBelongs, GrantBelongs,
     RestrictionBelongs
<1>5. QED
  BY <1>1, <1>2, <1>3, <1>4 DEF StoreIsSound

LEMMA PolicyWritten ==
  ASSUME Safe, NEW p \in PolicyIds, NEW row \in PolicyDocument,
         policies' = [policies EXCEPT ![p] = row],
         policies[p] # None => policies[p].tenant = row.tenant,
         UNCHANGED <<roles, assignments, grants, restrictions, seeded>>
  PROVE  Moves /\ StoreIsSound'
<1>1. policies \in [PolicyIds -> PolicyDocument \union {None}] /\ row # None
  BY DocumentsAreSome DEF Safe, StoreIsSound, StoreTyped, Documents
<1>2. PoliciesMove
  BY <1>1 DEF PoliciesMove
<1>3. Moves
  BY <1>2 DEF Moves, RolesMove, RestrictionsMove, SeedsMove
<1>4. StoreTyped'
  BY <1>1 DEF Safe, StoreIsSound, StoreTyped
<1>5. RolesAreSeeded'
  BY DEF Safe, StoreIsSound, RolesAreSeeded
<1>6. Belonging'
  BY DEF Safe, StoreIsSound, Belonging, AssignmentBelongs, GrantBelongs,
     RestrictionBelongs
<1>7. QED
  BY <1>3, <1>4, <1>5, <1>6 DEF StoreIsSound

LEMMA RestrictionWritten ==
  ASSUME Safe, NEW x \in RestrictionIds, NEW row \in RestrictionDocument,
         RestrictionBelongs(row),
         restrictions' = [restrictions EXCEPT ![x] = row],
         restrictions[x] # None => restrictions[x].tenant = row.tenant,
         UNCHANGED <<roles, assignments, grants, policies, seeded>>
  PROVE  Moves /\ StoreIsSound'
<1>1. /\ restrictions \in [RestrictionIds -> RestrictionDocument \union {None}]
      /\ row # None
  BY DocumentsAreSome DEF Safe, StoreIsSound, StoreTyped, Documents
<1>2. RestrictionsMove
  BY <1>1 DEF RestrictionsMove
<1>3. Moves
  BY <1>2 DEF Moves, RolesMove, PoliciesMove, SeedsMove
<1>4. StoreTyped'
  BY <1>1 DEF Safe, StoreIsSound, StoreTyped
<1>5. RolesAreSeeded'
  BY DEF Safe, StoreIsSound, RolesAreSeeded
<1>6. Belonging'
  <2>1. \A z \in RestrictionIds :
          restrictions'[z] # None => RestrictionBelongs(restrictions'[z])
    BY <1>1 DEF Safe, StoreIsSound, Belonging
  <2>2. QED
    BY <2>1 DEF Safe, StoreIsSound, Belonging, AssignmentBelongs,
       GrantBelongs, RestrictionBelongs
<1>7. QED
  BY <1>3, <1>4, <1>5, <1>6 DEF StoreIsSound

LEMMA CommitAssignmentsStep ==
  ASSUME Safe, NEW q \in Requests,
         \/ CommitAssignRole(q) \/ CommitRemoveRole(q)
         \/ CommitGrantPermission(q) \/ CommitRevokePermission(q)
  PROVE  Safe'
<1>1. CASE CommitAssignRole(q) \/ CommitRemoveRole(q)
  <2>1. /\ Committing(q, {"assignRole", "removeRole"})
        /\ assignments' \subseteq assignments \union {work[q].row}
        /\ UNCHANGED <<roles, grants, policies, restrictions, seeded>>
    BY <1>1 DEF CommitAssignRole, CommitRemoveRole, Committing
  <2>2. /\ work[q].op \in {"assignRole", "removeRole"} /\ Decided(q)
        /\ Moves /\ StoreIsSound' => Safe'
    BY <2>1, CommitStep
  <2>3. /\ work[q].row \in AssignmentDocument
        /\ AssignmentBelongs(work[q].row)
    BY <2>2 DEF Decided, DecidesAssignment
  <2>4. QED
    BY <2>1, <2>2, <2>3, AssignmentsWritten
<1>2. CASE CommitGrantPermission(q) \/ CommitRevokePermission(q)
  <2>1. /\ Committing(q, {"grantPermission", "revokePermission"})
        /\ grants' \subseteq grants \union {work[q].row}
        /\ UNCHANGED <<roles, assignments, policies, restrictions, seeded>>
    BY <1>2 DEF CommitGrantPermission, CommitRevokePermission, Committing
  <2>2. /\ work[q].op \in {"grantPermission", "revokePermission"}
        /\ Decided(q) /\ (Moves /\ StoreIsSound' => Safe')
    BY <2>1, CommitStep
  <2>3. work[q].row \in GrantDocument /\ GrantBelongs(work[q].row)
    BY <2>2 DEF Decided, DecidesGrant
  <2>4. QED
    BY <2>1, <2>2, <2>3, GrantsWritten
<1>3. QED
  BY <1>1, <1>2

LEMMA CommitPoliciesStep ==
  ASSUME Safe, NEW q \in Requests,
         CommitPolicy(q) \/ \E p \in PolicyIds : CommitNewPolicy(q, p)
  PROVE  Safe'
<1>1. PICK p \in PolicyIds :
        /\ Committing(q, PolicyOperations)
        /\ policies' = [policies EXCEPT ![p] = work[q].row]
        /\ policies[p] # None => policies[p].tenant = work[q].row.tenant
        /\ UNCHANGED <<roles, assignments, grants, restrictions, seeded>>
  <2>1. CASE CommitPolicy(q)
    <3>1. Committing(q, PolicyOperations \ {"createPolicy"})
      BY <2>1 DEF CommitPolicy
    <3>2. /\ work[q].op \in PolicyOperations /\ work[q].op # "createPolicy"
          /\ Names(q) /\ Decided(q)
      BY <3>1, CommitStep
    <3>3. /\ work[q].on \in PolicyIds
          /\ policies[work[q].on].tenant = work[q].row.tenant
      BY <3>2 DEF Names, NamesPolicy, PolicyOperations, Decided, DecidesPolicy
    <3>4. QED
      BY <2>1, <3>3 DEF CommitPolicy, Overwritten, Committing
  <2>2. CASE \E p \in PolicyIds : CommitNewPolicy(q, p)
    BY <2>2 DEF CommitNewPolicy, Committing, PolicyOperations
  <2>3. QED
    BY <2>1, <2>2
<1>2. /\ work[q].op \in PolicyOperations /\ Decided(q)
      /\ Moves /\ StoreIsSound' => Safe'
  BY <1>1, CommitStep
<1>3. work[q].row \in PolicyDocument
  BY <1>2 DEF Decided, DecidesPolicy
<1>4. QED
  BY <1>1, <1>2, <1>3, PolicyWritten

LEMMA CommitRestrictionsStep ==
  ASSUME Safe, NEW q \in Requests,
         \/ CommitRestriction(q)
         \/ \E x \in RestrictionIds : CommitNewRestriction(q, x)
  PROVE  Safe'
<1>1. PICK x \in RestrictionIds :
        /\ Committing(q, RestrictionOperations)
        /\ restrictions' = [restrictions EXCEPT ![x] = work[q].row]
        /\ restrictions[x] # None =>
             restrictions[x].tenant = work[q].row.tenant
        /\ UNCHANGED <<roles, assignments, grants, policies, seeded>>
  <2>1. CASE CommitRestriction(q)
    <3>1. Committing(q, {"removeRestriction"})
      BY <2>1 DEF CommitRestriction
    <3>2. work[q].op = "removeRestriction" /\ Names(q) /\ Decided(q)
      BY <3>1, CommitStep
    <3>3. /\ work[q].on \in RestrictionIds
          /\ restrictions[work[q].on].tenant = work[q].row.tenant
      BY <3>2 DEF Names, NamesRestriction, RestrictionOperations, Decided,
         DecidesRestriction
    <3>4. QED
      BY <2>1, <3>3 DEF CommitRestriction, Overwritten, Committing,
         RestrictionOperations
  <2>2. CASE \E x \in RestrictionIds : CommitNewRestriction(q, x)
    BY <2>2 DEF CommitNewRestriction, Committing, RestrictionOperations
  <2>3. QED
    BY <2>1, <2>2
<1>2. /\ work[q].op \in RestrictionOperations /\ Decided(q)
      /\ Moves /\ StoreIsSound' => Safe'
  BY <1>1, CommitStep
<1>3. work[q].row \in RestrictionDocument /\ RestrictionBelongs(work[q].row)
  BY <1>2 DEF Decided, DecidesRestriction
<1>4. QED
  BY <1>1, <1>2, <1>3, RestrictionWritten

-----------------------------------------------------------------------------
(* The first people of a tenant, and the whole of the next-state relation. *)

LEMMA AbandonStep ==
  ASSUME Safe, NEW q \in Requests, Abandon(q)
  PROVE  Safe'
<1>1. Proceed(q, Free) /\ UNCHANGED <<documents, seeded>>
  BY DEF Abandon
<1>2. QED
  BY <1>1, FreeFits, ReadStep

LEMMA ProvisionStep ==
  ASSUME Safe, Provisions
  PROVE  Safe'
<1>1. PICK r \in RoleIds, m \in Members, s \in Seeds : Provision(r, m, s)
  BY DEF Provisions
<1> DEFINE row == NewRole(Home[m], s)
           a == [member |-> m, role |-> r, tenant |-> Home[m],
                 status |-> "granted"]
<1>2. /\ roles[r] = None /\ roles' = [roles EXCEPT ![r] = row]
      /\ assignments' = assignments \union {a}
      /\ seeded' = [seeded EXCEPT ![Home[m]] = @ \union s]
      /\ UNCHANGED <<grants, policies, restrictions, work>>
  BY <1>1 DEF Provision
<1>3. s \in SUBSET Permissions /\ Home[m] \in Tenants
  BY BundlesOfPermissions, HomesAreTenants
<1>4. /\ row \in RoleDocument /\ row.tenant = Home[m] /\ row.permissions = s
      /\ row # None
  <2>1. row \in RoleDocument /\ row.tenant = Home[m] /\ row.permissions = s
    BY <1>3 DEF NewRole, RoleDocument, Owners
  <2>2. row \in Documents
    BY <2>1 DEF Documents
  <2>3. QED
    BY <2>1, <2>2, DocumentsAreSome
<1>5. /\ a \in AssignmentDocument /\ a.member = m /\ a.role = r
      /\ a.tenant = Home[m]
  BY <1>3 DEF AssignmentDocument
<1> HIDE DEF row, a
<1>6. /\ roles \in [RoleIds -> RoleDocument \union {None}]
      /\ seeded \in [Tenants -> SUBSET Permissions]
  BY DEF Safe, StoreIsSound, StoreTyped
<1>7. RolesMove /\ SeedsMove
  BY <1>2, <1>3, <1>6 DEF RolesMove, SeedsMove
<1>8. Moves
  BY <1>2, <1>7 DEF Moves, PoliciesMove, RestrictionsMove
<1>9. StoreTyped'
  <2>1. /\ roles' \in [RoleIds -> RoleDocument \union {None}]
        /\ seeded' \in [Tenants -> SUBSET Permissions]
    BY <1>2, <1>3, <1>4, <1>6
  <2>2. QED
    BY <1>2, <1>5, <2>1 DEF Safe, StoreIsSound, StoreTyped
<1>10. RolesAreSeeded'
  BY <1>2, <1>3, <1>4, <1>6, <1>7 DEF Safe, StoreIsSound, RolesAreSeeded,
     SeedsMove
<1>11. Belonging'
  <2>1. AssignmentBelongs(a)'
    BY <1>2, <1>4, <1>5, <1>6 DEF AssignmentBelongs, a
  <2>2. \A b \in assignments : AssignmentBelongs(b)'
    BY <1>7, StillBelongs DEF Safe, StoreIsSound, StoreTyped, Belonging
  <2>3. \A b \in assignments' : AssignmentBelongs(b)'
    <3> SUFFICES ASSUME NEW b \in assignments'
                 PROVE  AssignmentBelongs(b)'
      OBVIOUS
    <3>1. CASE b \in assignments
      BY <2>2, <3>1
    <3>2. CASE b = a
      BY <1>2, <1>4, <1>5, <1>6, <3>2 DEF AssignmentBelongs
    <3>3. QED
      BY <1>2, <3>1, <3>2
  <2>4. \A g \in grants' : GrantBelongs(g)'
    BY <1>2, <1>7, StillBelongs DEF Safe, StoreIsSound, StoreTyped, Belonging
  <2>5. \A x \in RestrictionIds :
          restrictions'[x] # None => RestrictionBelongs(restrictions[x])'
    BY <1>2, <1>7, StillBelongs DEF Safe, StoreIsSound, StoreTyped, Belonging
  <2>6. QED
    BY <2>3, <2>4, <2>5 DEF Belonging
<1>12. ASSUME NEW q \in Requests
       PROVE  Fits(q)'
  BY <1>2, <1>8, StillFits
<1>13. QED
  BY <1>2, <1>9, <1>10, <1>11, <1>12 DEF Safe, StoreIsSound

LEMMA ReceivesStep ==
  ASSUME Safe, NEW q \in Requests, Receives(q)
  PROVE  Safe'
BY CreateRoleStep, ChangeRoleStep, AssignRoleStep, RemoveRoleStep,
   GrantPermissionStep, RevokePermissionStep, CreatePolicyStep,
   ChangePolicyStep, CreateRestrictionStep, RemoveRestrictionStep
   DEF Receives

LEMMA ScopesStep ==
  ASSUME Safe, NEW q \in Requests, Scopes(q)
  PROVE  Safe'
BY ScopeRoleStep, ScopePolicyStep, ScopeAssignStep, ScopeRemoveStep,
   ScopeGrantStep, ScopeRevokeStep, ScopeCreateRestrictionStep,
   ScopeRemoveRestrictionStep DEF Scopes

LEMMA LoadsStep ==
  ASSUME Safe, NEW q \in Requests, Loads(q)
  PROVE  Safe'
BY LoadCreateRoleStep, LoadRolesStep, LoadAssignmentsStep, LoadPoliciesStep,
   LoadRestrictionsStep DEF Loads

LEMMA CommitsStep ==
  ASSUME Safe, NEW q \in Requests, Commits(q)
  PROVE  Safe'
BY CommitRolesStep, CommitAssignmentsStep, CommitPoliciesStep,
   CommitRestrictionsStep DEF Commits

\* The inductive invariant.
LEMMA InitIsSafe == Init => Safe
<1> SUFFICES ASSUME Init
             PROVE  Safe
  OBVIOUS
<1>1. StoreTyped
  BY DEF Init, StoreTyped
<1>2. RolesAreSeeded /\ Belonging
  BY DEF Init, RolesAreSeeded, Belonging
<1>3. Free \in Work /\ Free.step = "idle"
  BY DEF Free, Work, Targets
<1>4. work \in [Requests -> Work] /\ \A q \in Requests : Fits(q)
  BY <1>3 DEF Init, Fits
<1>5. QED
  BY <1>1, <1>2, <1>4 DEF Safe, StoreIsSound

LEMMA NextIsSafe == Safe /\ [Next]_vars => Safe'
<1> SUFFICES ASSUME Safe, [Next]_vars
             PROVE  Safe'
  OBVIOUS
<1>1. CASE Provisions
  BY <1>1, ProvisionStep
<1>2. ASSUME NEW q \in Requests, Receives(q) \/ Proceeds(q)
      PROVE  Safe'
  BY <1>2, ReceivesStep, ScopesStep, DelegateStep, LoadsStep, CommitsStep,
     AbandonStep DEF Proceeds
<1>3. CASE UNCHANGED vars
  <2>1. UNCHANGED <<documents, seeded>> /\ work' = work
    BY <1>3 DEF vars, documents
  <2>2. Moves /\ StoreIsSound'
    BY <2>1, StoreStays
  <2>3. \A q \in Requests : Fits(q)'
    BY <2>1, <2>2, StillFits
  <2>4. QED
    BY <2>1, <2>2, <2>3 DEF Safe
<1>4. QED
  BY <1>1, <1>2, <1>3 DEF Next

-----------------------------------------------------------------------------
(* Theorems. *)

\* The store is sound, and every request in flight fits it, however its
\* checks, reads and commits interleave with those of others.
THEOREM AdministrationIsSafe == Spec => []Safe
<1>1. QED
  BY InitIsSafe, NextIsSafe, PTL DEF Spec

\* No sequence of calls yields the people of a tenant a permission that the
\* platform has not put into it.
THEOREM AuthorityStaysDelegated == Spec => []AuthorityIsDelegated
<1>1. Safe => AuthorityIsDelegated
  BY DEF Safe, StoreIsSound, RolesAreSeeded, Belonging, GrantBelongs,
     AuthorityIsDelegated
<1>2. QED
  BY <1>1, AdministrationIsSafe, PTL

\* Assignments, grants and restrictions stay within the tenant of those they
\* are about.
THEOREM EffectsStayWhereTheyBelong == Spec => []EffectsBelong
<1>1. Safe => EffectsBelong
  BY DEF Safe, StoreIsSound, Belonging, AssignmentBelongs, GrantBelongs,
     RestrictionBelongs, EffectsBelong
<1>2. QED
  BY <1>1, AdministrationIsSafe, PTL

\* The collections hold documents of their kinds, and requests work on what
\* there is.
THEOREM AdministrationTypeCorrect == Spec => []TypeOK
<1>1. Safe => TypeOK
  BY DEF Safe, StoreIsSound, StoreTyped, TypeOK
<1>2. QED
  BY <1>1, AdministrationIsSafe, PTL

-----------------------------------------------------------------------------
(* Commits are confined to the tenants of those who ask for them. *)

Confined(q) ==
  \A t \in Owners : Within(work[q].by, t) \/ DocumentsOf(t)' = DocumentsOf(t)

\* A document of another tenant is not seen in this one.
LEMMA OthersAreNotSeen ==
  ASSUME NEW S, NEW f, NEW g, NEW t, NEW i \in S,
         DOMAIN f = S, DOMAIN g = S, \A j \in S : j # i => g[j] = f[j],
         f[i] # None => f[i].tenant # t, g[i].tenant # t
  PROVE  OfTenant(g, t) = OfTenant(f, t)
<1> DEFINE J == {j \in DOMAIN f : f[j] # None /\ f[j].tenant = t}
<1>1. {j \in DOMAIN g : g[j] # None /\ g[j].tenant = t} = J
  OBVIOUS
<1>2. \A j \in J : g[j] = f[j]
  OBVIOUS
<1>3. OfTenant(g, t) = {<<j, g[j]>> : j \in J}
  BY <1>1 DEF OfTenant
<1>4. OfTenant(f, t) = {<<j, f[j]>> : j \in J}
  BY DEF OfTenant
<1> HIDE DEF J
<1>5. {<<j, g[j]>> : j \in J} = {<<j, f[j]>> : j \in J}
  BY <1>2
<1>6. QED
  BY <1>3, <1>4, <1>5

\* Callers of a tenant, and what they are to write.
LEMMA AtCommit ==
  ASSUME Safe, NEW q \in Requests, Busy(q, "commit"), work[q].by # Platform
  PROVE  /\ Asks(q) /\ Names(q) /\ Decided(q)
         /\ \A t : ~Within(work[q].by, t) => t # Home[work[q].by]
BY DEF Safe, Fits, Busy, Within

LEMMA RolesConfined ==
  ASSUME Safe, NEW q \in Requests,
         CommitRole(q) \/ \E r \in RoleIds : CommitNewRole(q, r)
  PROVE  Confined(q)
<1> SUFFICES ASSUME NEW t \in Owners, ~Within(work[q].by, t)
             PROVE  DocumentsOf(t)' = DocumentsOf(t)
  BY DEF Confined
<1>1. /\ Busy(q, "commit") /\ work[q].op \in RoleOperations
      /\ UNCHANGED <<assignments, grants, policies, restrictions>>
  BY DEF CommitRole, CommitNewRole, Committing, RoleOperations
<1>2. /\ work[q].by # Platform /\ Names(q) /\ Decided(q)
      /\ t # Home[work[q].by]
  BY <1>1, AtCommit DEF Within
<1>3. PICK r \in RoleIds :
        /\ roles' = [roles EXCEPT ![r] = work[q].row]
        /\ roles[r] # None => roles[r].tenant = work[q].row.tenant
  <2>1. CASE CommitRole(q)
    <3>1. /\ work[q].on \in RoleIds
          /\ roles[work[q].on].tenant = work[q].row.tenant
      BY <1>2, <2>1 DEF CommitRole, Committing, Names, NamesRole, Decided,
         DecidesRole, RoleOperations
    <3>2. QED
      BY <2>1, <3>1 DEF CommitRole, Overwritten
  <2>2. CASE \E r \in RoleIds : CommitNewRole(q, r)
    BY <2>2 DEF CommitNewRole
  <2>3. QED
    BY <2>1, <2>2
<1>4. work[q].row.tenant # t
  BY <1>1, <1>2 DEF Decided, DecidesRole
<1>5. DOMAIN roles = RoleIds
  BY DEF Safe, StoreIsSound, StoreTyped
<1>6. /\ DOMAIN roles' = RoleIds /\ roles'[r].tenant # t
      /\ \A j \in RoleIds : j # r => roles'[j] = roles[j]
      /\ roles[r] # None => roles[r].tenant # t
  BY <1>3, <1>4, <1>5
<1>7. OfTenant(roles', t) = OfTenant(roles, t)
  BY <1>5, <1>6, OthersAreNotSeen
<1>8. QED
  BY <1>1, <1>7 DEF DocumentsOf, OfTenant

LEMMA PoliciesConfined ==
  ASSUME Safe, NEW q \in Requests,
         CommitPolicy(q) \/ \E p \in PolicyIds : CommitNewPolicy(q, p)
  PROVE  Confined(q)
<1> SUFFICES ASSUME NEW t \in Owners, ~Within(work[q].by, t)
             PROVE  DocumentsOf(t)' = DocumentsOf(t)
  BY DEF Confined
<1>1. /\ Busy(q, "commit") /\ work[q].op \in PolicyOperations
      /\ UNCHANGED <<roles, assignments, grants, restrictions>>
  BY DEF CommitPolicy, CommitNewPolicy, Committing, PolicyOperations
<1>2. /\ work[q].by # Platform /\ Names(q) /\ Decided(q)
      /\ t # Home[work[q].by]
  BY <1>1, AtCommit DEF Within
<1>3. PICK p \in PolicyIds :
        /\ policies' = [policies EXCEPT ![p] = work[q].row]
        /\ policies[p] # None => policies[p].tenant = work[q].row.tenant
  <2>1. CASE CommitPolicy(q)
    <3>1. /\ work[q].on \in PolicyIds
          /\ policies[work[q].on].tenant = work[q].row.tenant
      BY <1>2, <2>1 DEF CommitPolicy, Committing, Names, NamesPolicy, Decided,
         DecidesPolicy, PolicyOperations
    <3>2. QED
      BY <2>1, <3>1 DEF CommitPolicy, Overwritten
  <2>2. CASE \E p \in PolicyIds : CommitNewPolicy(q, p)
    BY <2>2 DEF CommitNewPolicy
  <2>3. QED
    BY <2>1, <2>2
<1>4. work[q].row.tenant # t
  BY <1>1, <1>2 DEF Decided, DecidesPolicy, Within
<1>5. DOMAIN policies = PolicyIds
  BY DEF Safe, StoreIsSound, StoreTyped
<1>6. /\ DOMAIN policies' = PolicyIds /\ policies'[p].tenant # t
      /\ \A j \in PolicyIds : j # p => policies'[j] = policies[j]
      /\ policies[p] # None => policies[p].tenant # t
  BY <1>3, <1>4, <1>5
<1>7. OfTenant(policies', t) = OfTenant(policies, t)
  BY <1>5, <1>6, OthersAreNotSeen
<1>8. QED
  BY <1>1, <1>7 DEF DocumentsOf, OfTenant

LEMMA RestrictionsConfined ==
  ASSUME Safe, NEW q \in Requests,
         \/ CommitRestriction(q)
         \/ \E x \in RestrictionIds : CommitNewRestriction(q, x)
  PROVE  Confined(q)
<1> SUFFICES ASSUME NEW t \in Owners, ~Within(work[q].by, t)
             PROVE  DocumentsOf(t)' = DocumentsOf(t)
  BY DEF Confined
<1>1. /\ Busy(q, "commit") /\ work[q].op \in RestrictionOperations
      /\ UNCHANGED <<roles, assignments, grants, policies>>
  BY DEF CommitRestriction, CommitNewRestriction, Committing,
     RestrictionOperations
<1>2. /\ work[q].by # Platform /\ Names(q) /\ Decided(q)
      /\ t # Home[work[q].by]
  BY <1>1, AtCommit DEF Within
<1>3. PICK x \in RestrictionIds :
        /\ restrictions' = [restrictions EXCEPT ![x] = work[q].row]
        /\ restrictions[x] # None =>
             restrictions[x].tenant = work[q].row.tenant
  <2>1. CASE CommitRestriction(q)
    <3>1. /\ work[q].on \in RestrictionIds
          /\ restrictions[work[q].on].tenant = work[q].row.tenant
      BY <1>2, <2>1 DEF CommitRestriction, Committing, Names,
         NamesRestriction, Decided, DecidesRestriction, RestrictionOperations
    <3>2. QED
      BY <2>1, <3>1 DEF CommitRestriction, Overwritten
  <2>2. CASE \E x \in RestrictionIds : CommitNewRestriction(q, x)
    BY <2>2 DEF CommitNewRestriction
  <2>3. QED
    BY <2>1, <2>2
<1>4. work[q].row.tenant # t
  BY <1>1, <1>2 DEF Decided, DecidesRestriction, Within
<1>5. DOMAIN restrictions = RestrictionIds
  BY DEF Safe, StoreIsSound, StoreTyped
<1>6. /\ DOMAIN restrictions' = RestrictionIds /\ restrictions'[x].tenant # t
      /\ \A j \in RestrictionIds : j # x => restrictions'[j] = restrictions[j]
      /\ restrictions[x] # None => restrictions[x].tenant # t
  BY <1>3, <1>4, <1>5
<1>7. OfTenant(restrictions', t) = OfTenant(restrictions, t)
  BY <1>5, <1>6, OthersAreNotSeen
<1>8. QED
  BY <1>1, <1>7 DEF DocumentsOf, OfTenant

LEMMA AssignmentsConfined ==
  ASSUME Safe, NEW q \in Requests,
         \/ CommitAssignRole(q) \/ CommitRemoveRole(q)
         \/ CommitGrantPermission(q) \/ CommitRevokePermission(q)
  PROVE  Confined(q)
<1> SUFFICES ASSUME NEW t \in Owners, ~Within(work[q].by, t)
             PROVE  DocumentsOf(t)' = DocumentsOf(t)
  BY DEF Confined
<1>1. /\ Busy(q, "commit") /\ work[q].op \in AssignmentOperations
      /\ UNCHANGED <<roles, policies, restrictions>>
  BY DEF CommitAssignRole, CommitRemoveRole, CommitGrantPermission,
     CommitRevokePermission, Committing, AssignmentOperations
<1>2. Decided(q) /\ t # Home[work[q].by]
  BY <1>1, AtCommit DEF Within
<1>3. CASE CommitAssignRole(q) \/ CommitRemoveRole(q)
  <2>1. work[q].op \in {"assignRole", "removeRole"} /\ grants' = grants
    BY <1>3 DEF CommitAssignRole, CommitRemoveRole, Committing
  <2>2. /\ AssignmentBelongs(work[q].row) /\ work[q].row.tenant # t
    BY <1>2, <2>1 DEF Decided, DecidesAssignment
  <2>3. \A a \in assignments : Home[a.member] = a.tenant
    BY DEF Safe, StoreIsSound, Belonging, AssignmentBelongs
  <2>4. {a \in assignments' : a.tenant = t} =
          {a \in assignments : a.tenant = t}
    BY <1>3, <2>2, <2>3 DEF CommitAssignRole, CommitRemoveRole,
       SameAssignment, AssignmentBelongs
  <2>5. QED
    BY <1>1, <2>1, <2>4 DEF DocumentsOf, OfTenant
<1>4. CASE CommitGrantPermission(q) \/ CommitRevokePermission(q)
  <2>1. /\ work[q].op \in {"grantPermission", "revokePermission"}
        /\ assignments' = assignments
    BY <1>4 DEF CommitGrantPermission, CommitRevokePermission, Committing
  <2>2. /\ GrantBelongs(work[q].row) /\ work[q].row.tenant # t
    BY <1>2, <2>1 DEF Decided, DecidesGrant
  <2>3. \A g \in grants : Home[g.member] = g.tenant
    BY DEF Safe, StoreIsSound, Belonging, GrantBelongs
  <2>4. {g \in grants' : g.tenant = t} = {g \in grants : g.tenant = t}
    BY <1>4, <2>2, <2>3 DEF CommitGrantPermission, CommitRevokePermission,
       SameGrant, GrantBelongs
  <2>5. QED
    BY <1>1, <2>1, <2>4 DEF DocumentsOf, OfTenant
<1>5. QED
  BY <1>3, <1>4

Confines ==
  \/ UNCHANGED work
  \/ \E q \in Requests :
       Busy(q, "commit") /\ work'[q] = Free /\ Confined(q)

LEMMA NextConfines == Safe /\ [Next]_vars => [Confines]_documents
<1> SUFFICES ASSUME Safe, [Next]_vars
             PROVE  Confines \/ UNCHANGED documents
  OBVIOUS
<1>1. CASE Provisions
  BY <1>1 DEF Provisions, Provision, Confines
<1>2. CASE UNCHANGED vars
  BY <1>2 DEF vars, Confines
<1>3. ASSUME NEW q \in Requests, Receives(q) \/ Proceeds(q)
      PROVE  Confines \/ UNCHANGED documents
  <2>1. CASE Receives(q)
    BY <2>1 DEF Receives, CreateRole, ChangeRole, AssignRole, RemoveRole,
       GrantPermission, RevokePermission, CreatePolicy, ChangePolicy,
       CreateRestriction, RemoveRestriction, Receive
  <2>2. CASE Scopes(q)
    BY <2>2 DEF Scopes, ScopeRole, ScopePolicy, ScopeAssign, ScopeRemove,
       ScopeGrant, ScopeRevoke, ScopeCreateRestriction,
       ScopeRemoveRestriction, Scoped
  <2>3. CASE Delegate(q) \/ Abandon(q)
    BY <2>3 DEF Delegate, Abandon
  <2>4. CASE Loads(q)
    BY <2>4 DEF Loads, LoadCreateRole, LoadUpdateRole, LoadArchiveRole,
       LoadRestoreRole, LoadAssignRole, LoadRemoveRole, LoadGrantPermission,
       LoadRevokePermission, LoadCreatePolicy, LoadUpdatePolicy,
       LoadArchivePolicy, LoadCreateRestriction, LoadRemoveRestriction, Decide
  <2>5. CASE Commits(q)
    <3>1. PICK ops : Committing(q, ops)
      BY <2>5 DEF Commits, CommitNewRole, CommitNewPolicy,
         CommitNewRestriction, CommitRole, CommitAssignRole, CommitRemoveRole,
         CommitGrantPermission, CommitRevokePermission, CommitPolicy,
         CommitRestriction
    <3>2. Busy(q, "commit") /\ work'[q] = Free
      BY <3>1, Remembers DEF Committing
    <3>3. Confined(q)
      BY <2>5, RolesConfined, PoliciesConfined, RestrictionsConfined,
         AssignmentsConfined DEF Commits
    <3>4. QED
      BY <3>2, <3>3 DEF Confines
  <2>6. QED
    BY <1>3, <2>1, <2>2, <2>3, <2>4, <2>5 DEF Proceeds
<1>4. QED
  BY <1>1, <1>2, <1>3 DEF Next

\* A commit asked for within a tenant writes no document of another.
THEOREM CommitsAreConfined == Spec => TenantsStayConfined
<1>1. Safe /\ [Next]_vars =>
        [\/ UNCHANGED work
         \/ \E q \in Requests :
              /\ Busy(q, "commit") /\ work'[q] = Free
              /\ \A t \in Owners :
                   Within(work[q].by, t) \/ DocumentsOf(t)' = DocumentsOf(t)
        ]_documents
  BY NextConfines DEF Confines, Confined
<1>2. QED
  BY <1>1, AdministrationIsSafe, PTL DEF Spec, TenantsStayConfined
=============================================================================
