------------------------- MODULE AuthorizationProofs -------------------------
(* Authorization, for every value of its constants: types, the meaning of   *)
(* a decision, that what denies throughout an evaluation denies it, and     *)
(* that an evaluation across one change answers for one state.              *)
EXTENDS Authorization, TLAPS

-----------------------------------------------------------------------------
(* The decision. *)

\* resolvePermissionPrecedence: a direct denial among the candidates decides,
\* and without candidates nothing is granted.
LEMMA ResolvedSource ==
  ASSUME NEW C, \A c \in C : c[1] \in {"direct_deny", "direct_grant", "role_grant"}
  PROVE  /\ Resolved(C) = "direct_deny" <=> \E c \in C : c[1] = "direct_deny"
         /\ Resolved(C) = "default_deny" <=> C = {}
<1> DEFINE sources == {"default_deny"} \union {c[1] : c \in C}
           Best(x) == x \in sources /\ \A y \in sources : Precedence(x) >= Precedence(y)
<1>1. \A x \in sources :
        x \in {"direct_deny", "direct_grant", "role_grant", "default_deny"}
  OBVIOUS
<1>2. \E x : Best(x)
  <2>1. CASE "direct_deny" \in sources
    <3>1. Best("direct_deny")  BY <2>1, <1>1 DEF Precedence
    <3> QED  BY <3>1
  <2>2. CASE "direct_deny" \notin sources /\ "direct_grant" \in sources
    <3>1. Best("direct_grant")  BY <2>2, <1>1 DEF Precedence
    <3> QED  BY <3>1
  <2>3. CASE {"direct_deny", "direct_grant"} \cap sources = {} /\ "role_grant" \in sources
    <3>1. Best("role_grant")  BY <2>3, <1>1 DEF Precedence
    <3> QED  BY <3>1
  <2>4. CASE {"direct_deny", "direct_grant", "role_grant"} \cap sources = {}
    <3>1. Best("default_deny")  BY <2>4, <1>1 DEF Precedence
    <3> QED  BY <3>1
  <2> QED  BY <2>1, <2>2, <2>3, <2>4
<1>3. Resolved(C) = CHOOSE x : Best(x)
  BY DEF Resolved
<1> HIDE DEF Best
<1>4. Best(Resolved(C))
  BY <1>2, <1>3
<1>5. /\ Resolved(C) \in sources
      /\ \A y \in sources : Precedence(Resolved(C)) >= Precedence(y)
  BY <1>4 DEF Best
<1>6. "direct_deny" \in sources <=> Resolved(C) = "direct_deny"
  BY <1>5, <1>1 DEF Precedence
<1>7. Resolved(C) = "default_deny" <=> sources = {"default_deny"}
  <2>1. ASSUME Resolved(C) = "default_deny"  PROVE  sources = {"default_deny"}
    BY <2>1, <1>5, <1>1 DEF Precedence
  <2> QED  BY <2>1, <1>5
<1>8. sources = {"default_deny"} <=> C = {}
  OBVIOUS
<1> QED  BY <1>6, <1>7, <1>8

\* The candidates by their source.
LEMMA CandidateSources ==
  ASSUME NEW s, NEW q, NEW now
  PROVE  /\ \A c \in Candidates(s, q, now) :
              c[1] \in {"direct_deny", "direct_grant", "role_grant"}
         /\ (\E c \in Candidates(s, q, now) : c[1] = "direct_deny") <=>
            \E d \in Directs : /\ d.type = "deny"
                               /\ ScopeMatches(d, q)
                               /\ InForce(s.directRows[d], now)
         /\ Candidates(s, q, now) = {} <=>
              /\ GrantingRoles(s, now) = {}
              /\ \A d \in Directs :
                   ~(ScopeMatches(d, q) /\ InForce(s.directRows[d], now))
<1> DEFINE matching == {d \in Directs : InForce(s.directRows[d], now) /\ ScopeMatches(d, q)}
           roleSide == {<<"role_grant", r>> : r \in GrantingRoles(s, now)}
           directSide == {<<IF d.type = "deny" THEN "direct_deny" ELSE "direct_grant", d>> :
                            d \in matching}
<1>1. Candidates(s, q, now) = roleSide \union directSide
  BY DEF Candidates
<1>2. \A c \in roleSide : c[1] = "role_grant"
  OBVIOUS
<1>3. \A c \in directSide : \E d \in matching :
        c = <<IF d.type = "deny" THEN "direct_deny" ELSE "direct_grant", d>>
  OBVIOUS
<1>4. \A d \in matching :
        <<IF d.type = "deny" THEN "direct_deny" ELSE "direct_grant", d>> \in directSide
  OBVIOUS
<1>5. roleSide = {} <=> GrantingRoles(s, now) = {}
  OBVIOUS
<1>6. directSide = {} <=> matching = {}
  BY <1>3, <1>4
<1>7. matching = {} <=>
        \A d \in Directs : ~(ScopeMatches(d, q) /\ InForce(s.directRows[d], now))
  OBVIOUS
<1>8. (\E c \in directSide : c[1] = "direct_deny") <=> \E d \in matching : d.type = "deny"
  <2>1. ASSUME NEW d \in matching, d.type = "deny"
        PROVE  \E c \in directSide : c[1] = "direct_deny"
    <3>1. <<"direct_deny", d>> \in directSide  BY <2>1, <1>4
    <3> QED  BY <3>1
  <2>2. ASSUME NEW c \in directSide, c[1] = "direct_deny"
        PROVE  \E d \in matching : d.type = "deny"
    BY <2>2, <1>3
  <2> QED  BY <2>1, <2>2
<1>9. \A c \in directSide : c[1] \in {"direct_deny", "direct_grant"}
  BY <1>3
<1> HIDE DEF roleSide, directSide
<1>10. (\E c \in Candidates(s, q, now) : c[1] = "direct_deny") <=>
         \E d \in matching : d.type = "deny"
  BY <1>1, <1>2, <1>8
<1>11. Candidates(s, q, now) = {} <=> GrantingRoles(s, now) = {} /\ matching = {}
  BY <1>1, <1>5, <1>6
<1> QED  BY <1>1, <1>2, <1>7, <1>9, <1>10, <1>11

\* listApplicableRestrictions and restrictionMatchesRequest together: no
\* restriction matches exactly when none denies by itself or by a role held.
LEMMA NothingRestricts ==
  ASSUME NEW s \in Store, NEW q \in Question, NEW now
  PROVE  MatchingRestrictions(s, q, now) = {} <=>
           /\ \A t \in Targets \ Roles :
                ~((t \in Patterns => t \in q.resource) /\ InForce(s.restrictions[t], now))
           /\ \A r \in EffectiveRoles(s, now) : ~InForce(s.restrictions[r], now)
<1>1. EffectiveRoles(s, now) \subseteq Roles
  BY DEF EffectiveRoles
<1>2. q.resource \subseteq Patterns
  BY DEF Question
<1>3. \A t \in Targets \ Roles :
        Matches(t, s, q, now) <=> (t \in Patterns => t \in q.resource)
  BY <1>1, <1>2, TargetsDiffer DEF Matches, Targets
<1>4. \A r \in Roles : Matches(r, s, q, now) <=> r \in EffectiveRoles(s, now)
  BY <1>2, TargetsDiffer DEF Matches
<1>5. Roles \subseteq Targets
  BY DEF Targets
<1>6. MatchingRestrictions(s, q, now) = {} <=>
        \A t \in Targets : ~(InForce(s.restrictions[t], now) /\ Matches(t, s, q, now))
  BY DEF MatchingRestrictions
<1> HIDE DEF Store
<1> QED  BY <1>1, <1>3, <1>4, <1>5, <1>6

\* No blocker, condition by condition.
LEMMA NothingBlocks ==
  ASSUME NEW s \in Store, NEW q \in Question, NEW now
  PROVE  Blockers(s, q, now) = {} <=>
           /\ Participates(s)
           /\ ~\E d \in Directs : /\ d.type = "deny"
                                  /\ ScopeMatches(d, q)
                                  /\ InForce(s.directRows[d], now)
           /\ \A t \in Targets \ Roles :
                ~((t \in Patterns => t \in q.resource) /\ InForce(s.restrictions[t], now))
           /\ s.permission
           /\ ~(q.capability /\ ~s.capability)
<1>1. s.facts \subseteq Facts /\ s.permission \in BOOLEAN /\ s.capability \in BOOLEAN
  BY DEF Store
<1>2. q.capability \in BOOLEAN
  BY DEF Question
<1> DEFINE inactive == Facts \ s.facts
           denying == {e \in Directs :
             e.type = "deny" /\ ScopeMatches(e, q) /\ InForce(s.directRows[e], now)}
           restricting == {u \in Targets \ Roles :
             (u \in Patterns => u \in q.resource) /\ InForce(s.restrictions[u], now)}
           missing == {y \in {"permission", "capability"} :
             \/ y = "permission" /\ ~s.permission
             \/ y = "capability" /\ q.capability /\ ~s.capability}
<1>3. Blockers(s, q, now) =
        {<<"inactive", f>> : f \in inactive} \union {<<"denied", d>> : d \in denying} \union
        {<<"restricted", t>> : t \in restricting} \union {<<"without", x>> : x \in missing}
  BY DEF Blockers
<1>4. inactive = {} <=> Participates(s)
  BY <1>1 DEF Participates
<1>5. denying = {} <=> ~\E d \in Directs : /\ d.type = "deny"
                                         /\ ScopeMatches(d, q)
                                         /\ InForce(s.directRows[d], now)
  OBVIOUS
<1>6. restricting = {} <=> \A t \in Targets \ Roles :
        ~((t \in Patterns => t \in q.resource) /\ InForce(s.restrictions[t], now))
  OBVIOUS
<1>7. missing = {} <=> s.permission /\ ~(q.capability /\ ~s.capability)
  BY <1>1, <1>2
<1> HIDE DEF inactive, denying, restricting, missing
<1>8. Blockers(s, q, now) = {} <=>
        inactive = {} /\ denying = {} /\ restricting = {} /\ missing = {}
  BY <1>3
<1> QED  BY <1>4, <1>5, <1>6, <1>7, <1>8

\* Every gate of evaluateAuthorization against the definition.
LEMMA AllowsIsEffective ==
  ASSUME NEW s \in Store, NEW q \in Question, NEW now
  PROVE  Allows(s, q, now) <=> Effective(s, q, now)
<1> DEFINE source == Resolved(Candidates(s, q, now))
           denied == \E d \in Directs : /\ d.type = "deny"
                                        /\ ScopeMatches(d, q)
                                        /\ InForce(s.directRows[d], now)
           granted == \/ GrantingRoles(s, now) # {}
                      \/ \E d \in Directs : /\ d.type = "grant"
                                            /\ ScopeMatches(d, q)
                                            /\ InForce(s.directRows[d], now)
           unrestricted == \A t \in Targets \ Roles :
             ~((t \in Patterns => t \in q.resource) /\ InForce(s.restrictions[t], now))
           rolesFree == \A r \in EffectiveRoles(s, now) : ~InForce(s.restrictions[r], now)
<1>1. Allows(s, q, now) <=>
        /\ Participates(s) /\ s.permission
        /\ source # "direct_deny" /\ source # "default_deny"
        /\ MatchingRestrictions(s, q, now) = {}
        /\ ~(q.capability /\ ~s.capability)
  BY DEF Allows, Decision
<1>2. source = "direct_deny" <=> denied
  BY ResolvedSource, CandidateSources
<1>3. source = "default_deny" <=> Candidates(s, q, now) = {}
  BY ResolvedSource, CandidateSources
<1>4. \A d \in Directs : d.type = "deny" \/ d.type = "grant"
  BY DEF Directs
<1>5. ~denied => (Candidates(s, q, now) = {} <=> ~granted)
  BY <1>4, CandidateSources
<1>6. MatchingRestrictions(s, q, now) = {} <=> unrestricted /\ rolesFree
  BY NothingRestricts
<1>7. Effective(s, q, now) <=>
        Participates(s) /\ s.permission /\ Blockers(s, q, now) = {} /\ rolesFree /\ granted
  BY DEF Effective
<1>8. Blockers(s, q, now) = {} <=>
        /\ Participates(s) /\ ~denied /\ unrestricted /\ s.permission
        /\ ~(q.capability /\ ~s.capability)
  BY NothingBlocks
<1> HIDE DEF source, denied, granted, unrestricted, rolesFree
<1> QED  BY <1>1, <1>2, <1>3, <1>5, <1>6, <1>7, <1>8

-----------------------------------------------------------------------------
(* Types. *)

\* Times at which a new document may begin and end.
LEMMA NewRowType ==
  ASSUME NEW w \in Windows, NEW status \in {"active", "waiting"}
  PROVE  NewRow(w, status) \in Row
<1>1. w \in Instants \X (1..Never)
  BY WindowsAreTimes
<1>2. w[1] \in Instants /\ w[2] \in 1..Never
  BY <1>1
<1> QED  BY <1>2 DEF NewRow, Row, RowStatuses

LEMMA ChangedType ==
  ASSUME NEW K, NEW rows \in [K -> Row \union {None}], NEW from, NEW to \in RowStatuses
  PROVE  Changed(rows, from, to) \in [K -> Row \union {None}]
<1>1. ASSUME NEW k \in K, rows[k] # None  PROVE  [rows[k] EXCEPT !.status = to] \in Row
  <2>1. rows[k] \in Row  BY <1>1
  <2> QED  BY <2>1 DEF Row
<1> QED  BY <1>1 DEF Changed

LEMMA ResumedType ==
  ASSUME NEW K, NEW rows \in [K -> Row \union {None}], NEW back \in SUBSET Waiting(rows)
  PROVE  Resumed(rows, back) \in [K -> Row \union {None}]
<1>1. ASSUME NEW k \in back
      PROVE  k \in K /\ [rows[k] EXCEPT !.status = "active"] \in Row
  <2>1. k \in K /\ rows[k] \in Row  BY <1>1 DEF Waiting
  <2> QED  BY <2>1 DEF Row, RowStatuses
<1> QED  BY <1>1 DEF Resumed

\* A read replaces one part of what was seen by the stored one.
LEMMA SeeType ==
  ASSUME NEW seen \in Store, store \in Store, NEW r \in Reads
  PROVE  See(seen, r) \in Store
<1>1. CASE r \in Facts
  BY <1>1 DEF See, Store
<1>2. CASE r \in Roles /\ r \notin Facts
  BY <1>2, TargetsDiffer DEF See, Store, Facts
<1>3. CASE r \in {"permission", "roleRows", "directRows", "bindings", "restrictions", "capability"}
  BY <1>3 DEF See, Store
<1> QED  BY <1>1, <1>2, <1>3 DEF Reads, FirstReads, Facts

\* The first read starts from the stored documents.
LEMMA EvaluationOrIdle ==
  ASSUME TypeOK
  PROVE  /\ asked # Idle => asked \in EvaluationState
         /\ asked.step # "idle" => asked # Idle
  BY DEF TypeOK, Idle

LEMMA BlockersType ==
  ASSUME NEW s, NEW q, NEW now
  PROVE  Blockers(s, q, now) \subseteq Blocker
  BY DEF Blockers, Blocker

LEMMA WriteTypes ==
  ASSUME TypeOK, NEW new \in Store, Write(new)
  PROVE  /\ store' \in Store /\ clock' = clock
         /\ commits' \in 0..MaxCommits
         /\ asked' \in EvaluationState \union {Idle}
         /\ asked' # Idle => asked # Idle /\ asked'.now = asked.now
<1>1. store' \in Store /\ clock' = clock
  BY DEF Write
<1>2. commits' \in 0..MaxCommits
  BY NaturalBounds DEF Write, TypeOK
<1>3. CASE asked = Idle
  BY <1>1, <1>2, <1>3 DEF Write
<1>4. CASE asked # Idle
  <2>1. asked \in EvaluationState
    BY <1>4, EvaluationOrIdle
  <2>2. ChangesSince(new) \in 0..2
    BY <2>1 DEF ChangesSince, EvaluationState
  <2> DEFINE B == Blockers(new, asked.question, asked.now)
  <2>3. asked' = [asked EXCEPT
                    !.changes  = ChangesSince(new),
                    !.before   = IF ChangesSince(new) = 2 THEN new ELSE @,
                    !.enduring = @ \cap B]
    BY <1>4 DEF Write
  <2> HIDE DEF B
  <2>4. asked' \in EvaluationState /\ asked'.now = asked.now
    BY <2>1, <2>2, <2>3 DEF EvaluationState
  <2> QED  BY <1>1, <1>2, <1>4, <2>4
<1> QED  BY <1>3, <1>4

LEMMA EvaluationTypes ==
  ASSUME TypeOK, Evaluation
  PROVE  TypeOK'
<1>1. ASSUME NEW q \in Questions, Ask(q)  PROVE  TypeOK'
  <2>1. See(store, "membership") \in Store
    BY DEF TypeOK, See, Store, Facts
  <2>2. asked' \in EvaluationState
    BY <1>1, <2>1, BlockersType DEF Ask, EvaluationState, TypeOK, Reads
  <2>3. asked'.now = clock /\ clock' = clock
    BY <1>1 DEF Ask
  <2> QED  BY <1>1, <2>2, <2>3 DEF Ask, TypeOK, Instants
<1>2. ASSUME NEW r \in Reads, Read(r)  PROVE  TypeOK'
  <2>1. asked \in EvaluationState /\ asked # Idle
    BY <1>2, EvaluationOrIdle DEF Read
  <2>2. See(asked.seen, r) \in Store
    BY <2>1, SeeType DEF EvaluationState, TypeOK
  <2>3. asked' \in EvaluationState /\ asked'.now = asked.now
    BY <1>2, <2>1, <2>2 DEF Read, EvaluationState
  <2> QED  BY <1>2, <2>1, <2>3 DEF Read, TypeOK
<1>3. ASSUME ReadOn  PROVE  TypeOK'
  <2>1. asked \in EvaluationState /\ asked # Idle
    BY <1>3, EvaluationOrIdle DEF ReadOn
  <2>2. LaterReads(asked.seen) \subseteq Reads /\ LastReads(asked.question) \subseteq Reads
    BY DEF LaterReads, LastReads, Reads
  <2>3. asked' \in EvaluationState /\ asked'.now = asked.now
    BY <1>3, <2>1, <2>2 DEF ReadOn, EvaluationState
  <2> QED  BY <1>3, <2>1, <2>3 DEF ReadOn, TypeOK
<1>4. ASSUME Reply  PROVE  TypeOK'
  BY <1>4 DEF Reply, TypeOK
<1> QED  BY <1>1, <1>2, <1>3, <1>4 DEF Evaluation

\* Every commit writes documents of their types.
LEMMA CommitTypes ==
  ASSUME TypeOK, AssignmentCommit \/ LifecycleCommit
  PROVE  \E new \in Store : Write(new) /\ UNCHANGED admin
<1> USE DEF TypeOK
<1>1. ASSUME NEW r \in Roles, AssignRole(r) \/ EndRole(r)
      PROVE  \E new \in Store : Write(new) /\ UNCHANGED admin
  <2>1. CASE AssignRole(r)
    <3>1. PICK w \in Windows, status \in {"active", "waiting"} :
            Write([store EXCEPT !.roleRows[r] = NewRow(w, status)])
      BY <2>1 DEF AssignRole
    <3>2. [store EXCEPT !.roleRows[r] = NewRow(w, status)] \in Store
      BY NewRowType DEF Store
    <3> QED  BY <2>1, <3>1, <3>2 DEF AssignRole
  <2>2. CASE EndRole(r)
    <3>1. store.roleRows[r] \in Row
      BY <2>2 DEF EndRole, MayEnd, Store
    <3>2. [store.roleRows[r] EXCEPT !.status = "ended"] \in Row
      BY <3>1 DEF Row, RowStatuses
    <3>3. [store EXCEPT !.roleRows[r].status = "ended"] \in Store
      BY <3>2 DEF Store
    <3> QED  BY <2>2, <3>3 DEF EndRole
  <2> QED  BY <1>1, <2>1, <2>2
<1>2. ASSUME NEW d \in Directs, GrantPermission(d) \/ EndPermission(d)
      PROVE  \E new \in Store : Write(new) /\ UNCHANGED admin
  <2>1. CASE GrantPermission(d)
    <3>1. PICK w \in Windows, status \in {"active", "waiting"} :
            Write([store EXCEPT !.directRows[d] = NewRow(w, status)])
      BY <2>1 DEF GrantPermission
    <3>2. [store EXCEPT !.directRows[d] = NewRow(w, status)] \in Store
      BY NewRowType DEF Store
    <3> QED  BY <2>1, <3>1, <3>2 DEF GrantPermission
  <2>2. CASE EndPermission(d)
    <3>1. store.directRows[d] \in Row
      BY <2>2 DEF EndPermission, MayEnd, Store
    <3>2. [store.directRows[d] EXCEPT !.status = "ended"] \in Row
      BY <3>1 DEF Row, RowStatuses
    <3>3. [store EXCEPT !.directRows[d].status = "ended"] \in Store
      BY <3>2 DEF Store
    <3> QED  BY <2>2, <3>3 DEF EndPermission
  <2> QED  BY <1>2, <2>1, <2>2
<1>3. ASSUME NEW f \in Facts, SuspendFact(f) \/ RestoreFact(f) \/ ArchiveFact(f)
      PROVE  \E new \in Store : Write(new) /\ UNCHANGED admin
  <2>0. /\ store.roleRows \in [Roles -> Row \union {None}]
        /\ store.directRows \in [Directs -> Row \union {None}]
    BY DEF Store
  <2>1. CASE SuspendFact(f)
    <3>1. /\ Changed(store.roleRows, {"active"}, "waiting") \in [Roles -> Row \union {None}]
          /\ Changed(store.directRows, {"active"}, "waiting") \in [Directs -> Row \union {None}]
      BY <2>0, ChangedType DEF RowStatuses
    <3>2. [store EXCEPT
             !.facts      = @ \ {f},
             !.roleRows   = Changed(@, {"active"}, "waiting"),
             !.directRows = Changed(@, {"active"}, "waiting")] \in Store
      BY <3>1 DEF Store
    <3> QED  BY <2>1, <3>2 DEF SuspendFact
  <2>2. CASE ArchiveFact(f)
    <3>1. /\ Changed(store.roleRows, {"active", "waiting"}, "ended")
               \in [Roles -> Row \union {None}]
          /\ Changed(store.directRows, {"active", "waiting"}, "ended")
               \in [Directs -> Row \union {None}]
      BY <2>0, ChangedType DEF RowStatuses
    <3>2. [store EXCEPT
             !.facts      = @ \ {f},
             !.roleRows   = Changed(@, {"active", "waiting"}, "ended"),
             !.directRows = Changed(@, {"active", "waiting"}, "ended")] \in Store
      BY <3>1 DEF Store
    <3> QED  BY <2>2, <3>2 DEF ArchiveFact
  <2>3. CASE RestoreFact(f)
    <3>1. PICK roles \in SUBSET Waiting(store.roleRows),
               directs \in SUBSET Waiting(store.directRows) :
            Write([store EXCEPT
                     !.facts      = @ \union {f},
                     !.roleRows   = Resumed(@, roles),
                     !.directRows = Resumed(@, directs)])
      BY <2>3 DEF RestoreFact
    <3>2. /\ Resumed(store.roleRows, roles) \in [Roles -> Row \union {None}]
          /\ Resumed(store.directRows, directs) \in [Directs -> Row \union {None}]
      BY <2>0, ResumedType
    <3>3. [store EXCEPT
             !.facts      = @ \union {f},
             !.roleRows   = Resumed(@, roles),
             !.directRows = Resumed(@, directs)] \in Store
      BY <3>2 DEF Store
    <3> QED  BY <2>3, <3>1, <3>3 DEF RestoreFact
  <2> QED  BY <1>3, <2>1, <2>2, <2>3
<1>4. ASSUME NEW enabled \in BOOLEAN, ApplyCapabilities(enabled)
      PROVE  \E new \in Store : Write(new) /\ UNCHANGED admin
  <2>1. [store EXCEPT !.capability = enabled] \in Store
    BY DEF Store
  <2> QED  BY <1>4, <2>1 DEF ApplyCapabilities
<1> QED  BY <1>1, <1>2, <1>3, <1>4 DEF AssignmentCommit, LifecycleCommit

\* So does administration; what a handler remembers is typed as well.
LEMMA AdministrationTypes ==
  ASSUME TypeOK, Administration
  PROVE  /\ admin' \in [Admins -> Change \union {None}]
         /\ \/ \E new \in Store : Write(new)
            \/ UNCHANGED <<store, clock, commits, asked>>
<1> USE DEF TypeOK
<1>1. CASE CreatePermission
  <2>1. [store EXCEPT !.permission = TRUE] \in Store  BY DEF Store
  <2> QED  BY <1>1, <2>1 DEF CreatePermission
<1>2. ASSUME NEW r \in Roles, CreateRole(r)
      PROVE  admin' = admin /\ \E new \in Store : Write(new)
  <2>1. PICK bound \in BOOLEAN :
          Write([store EXCEPT
            !.roleStatus[r] = "active",
            !.bindings = IF bound THEN @ \union {r} ELSE @])
    BY <1>2 DEF CreateRole
  <2>2. [store EXCEPT
           !.roleStatus[r] = "active",
           !.bindings = IF bound THEN @ \union {r} ELSE @] \in Store
    BY DEF Store
  <2> QED  BY <1>2, <2>1, <2>2 DEF CreateRole
<1>3. ASSUME NEW t \in Targets, CreateRestriction(t)
      PROVE  admin' = admin /\ \E new \in Store : Write(new)
  <2>1. PICK w \in Windows :
          Write([store EXCEPT !.restrictions[t] = NewRow(w, "active")])
    BY <1>3 DEF CreateRestriction
  <2>2. [store EXCEPT !.restrictions[t] = NewRow(w, "active")] \in Store
    BY NewRowType DEF Store
  <2> QED  BY <1>3, <2>1, <2>2 DEF CreateRestriction
<1>4. ASSUME NEW h \in Admins, CommitRole(h)
      PROVE  /\ admin' \in [Admins -> Change \union {None}]
             /\ \E new \in Store : Write(new)
  <2>1. admin[h] \in [kind : {"role"}, key : Roles,
                      status : {"active", "archived"}, bound : BOOLEAN]
    BY <1>4 DEF CommitRole, Change
  <2> DEFINE new == [store EXCEPT
               !.roleStatus[admin[h].key] = admin[h].status,
               !.bindings = IF admin[h].bound THEN @ \union {admin[h].key}
                                              ELSE @ \ {admin[h].key}]
  <2>2. new \in Store
    BY <2>1 DEF Store
  <2>3. Write(new)
    BY <1>4 DEF CommitRole
  <2>4. admin' \in [Admins -> Change \union {None}]
    BY <1>4 DEF CommitRole
  <2> QED  BY <2>2, <2>3, <2>4
<1>5. ASSUME NEW h \in Admins, CommitRestriction(h)
      PROVE  /\ admin' \in [Admins -> Change \union {None}]
             /\ \E new \in Store : Write(new)
  <2>1. admin[h] \in [kind : {"restriction"}, key : Targets, row : Row]
    BY <1>5 DEF CommitRestriction, Change
  <2>2. [store EXCEPT !.restrictions[admin[h].key] = admin[h].row] \in Store
    BY <2>1 DEF Store
  <2> QED  BY <1>5, <2>2 DEF CommitRestriction
<1>6. ASSUME NEW h \in Admins, GiveUp(h)
      PROVE  /\ admin' \in [Admins -> Change \union {None}]
             /\ UNCHANGED <<store, clock, commits, asked>>
  BY <1>6 DEF GiveUp
<1>7. ASSUME NEW h \in Admins, NEW change \in Change, Remember(h, change)
      PROVE  /\ admin' \in [Admins -> Change \union {None}]
             /\ UNCHANGED <<store, clock, commits, asked>>
  BY <1>7 DEF Remember
<1>8. ASSUME NEW h \in Admins, NEW r \in Roles,
             \/ ArchiveRole(h, r) \/ RestoreRole(h, r)
             \/ \E bound \in BOOLEAN : UpdateRole(h, r, bound)
      PROVE  /\ admin' \in [Admins -> Change \union {None}]
             /\ UNCHANGED <<store, clock, commits, asked>>
  <2>1. \A status \in {"active", "archived"}, bound \in BOOLEAN :
          RoleChange(r, status, bound) \in Change
    BY DEF RoleChange, Change
  <2>2. (r \in store.bindings) \in BOOLEAN
    OBVIOUS
  <2>3. CASE ArchiveRole(h, r)
    <3>1. Remember(h, RoleChange(r, "archived", r \in store.bindings))
      BY <2>3 DEF ArchiveRole
    <3> QED  BY <3>1, <2>1, <2>2, <1>7
  <2>4. CASE RestoreRole(h, r)
    <3>1. Remember(h, RoleChange(r, "active", r \in store.bindings))
      BY <2>4 DEF RestoreRole
    <3> QED  BY <3>1, <2>1, <2>2, <1>7
  <2>5. ASSUME NEW bound \in BOOLEAN, UpdateRole(h, r, bound)
        PROVE  /\ admin' \in [Admins -> Change \union {None}]
               /\ UNCHANGED <<store, clock, commits, asked>>
    BY <2>5, <2>1, <1>7 DEF UpdateRole
  <2> QED  BY <1>8, <2>3, <2>4, <2>5
<1>9. ASSUME NEW h \in Admins, NEW t \in Targets,
             RemoveRestriction(h, t) \/ ExpireRestriction(h, t)
      PROVE  /\ admin' \in [Admins -> Change \union {None}]
             /\ UNCHANGED <<store, clock, commits, asked>>
  <2>1. store.restrictions[t] \in Row
    BY <1>9 DEF RemoveRestriction, ExpireRestriction, Store
  <2> DEFINE row == [store.restrictions[t] EXCEPT !.status = "ended"]
  <2>2. row \in Row
    BY <2>1 DEF Row, RowStatuses
  <2>3. RestrictionChange(t, row) \in Change
    BY <2>2 DEF RestrictionChange, Change
  <2>4. Remember(h, RestrictionChange(t, row))
    BY <1>9 DEF RemoveRestriction, ExpireRestriction
  <2> QED  BY <1>7, <2>3, <2>4
<1>10. admin' = admin => admin' \in [Admins -> Change \union {None}]
  OBVIOUS
<1> DEFINE Acts(h) ==
      \/ CommitRole(h) \/ CommitRestriction(h) \/ GiveUp(h)
      \/ \E r \in Roles :
           \/ ArchiveRole(h, r) \/ RestoreRole(h, r)
           \/ \E bound \in BOOLEAN : UpdateRole(h, r, bound)
      \/ \E t \in Targets : RemoveRestriction(h, t) \/ ExpireRestriction(h, t)
           Goal ==
      /\ admin' \in [Admins -> Change \union {None}]
      /\ (\E new \in Store : Write(new)) \/ UNCHANGED <<store, clock, commits, asked>>
<1>11. \/ CreatePermission \/ \E r \in Roles : CreateRole(r)
       \/ \E t \in Targets : CreateRestriction(t)
       \/ \E h \in Admins : Acts(h)
  BY DEF Administration
<1>12. ASSUME NEW h \in Admins, Acts(h)  PROVE  Goal
  <2>1. (CommitRole(h) \/ CommitRestriction(h) \/ GiveUp(h)) => Goal
    BY <1>4, <1>5, <1>6
  <2>2. ASSUME NEW r \in Roles,
               \/ ArchiveRole(h, r) \/ RestoreRole(h, r)
               \/ \E bound \in BOOLEAN : UpdateRole(h, r, bound)
        PROVE  Goal
    BY <2>2, <1>8
  <2>3. ASSUME NEW t \in Targets, RemoveRestriction(h, t) \/ ExpireRestriction(h, t)
        PROVE  Goal
    BY <2>3, <1>9
  <2> HIDE DEF Goal
  <2> QED  BY <1>12, <2>1, <2>2, <2>3
<1>13. (CreatePermission \/ (\E r \in Roles : CreateRole(r))
          \/ \E t \in Targets : CreateRestriction(t)) => Goal
  BY <1>1, <1>2, <1>3, <1>10
<1>14. Goal
  <2> HIDE DEF Goal, Acts
  <2> QED  BY <1>11, <1>12, <1>13
<1> QED  BY <1>14

\* TypeOK is inductive.
LEMMA TypesPreserved ==
  TypeOK /\ [Next]_vars => TypeOK'
<1> SUFFICES ASSUME TypeOK, [Next]_vars  PROVE TypeOK'
  OBVIOUS
<1>1. CASE Evaluation
  BY <1>1, EvaluationTypes
<1>2. CASE AssignmentCommit \/ LifecycleCommit
  <2>1. PICK new \in Store : Write(new) /\ UNCHANGED admin
    BY <1>2, CommitTypes
  <2> QED  BY <2>1, WriteTypes DEF TypeOK
<1>3. CASE Administration
  <2>1. admin' \in [Admins -> Change \union {None}]
    BY <1>3, AdministrationTypes
  <2>2. CASE \E new \in Store : Write(new)
    BY <2>1, <2>2, WriteTypes DEF TypeOK
  <2>3. CASE UNCHANGED <<store, clock, commits, asked>>
    BY <2>1, <2>3 DEF TypeOK
  <2> QED  BY <1>3, <2>2, <2>3, AdministrationTypes
<1>4. CASE Tick
  <2>1. asked # Idle => asked.now \in Instants
    BY EvaluationOrIdle DEF EvaluationState
  <2> QED  BY <1>4, <2>1, NaturalBounds DEF Tick, TypeOK, Instants
<1>5. CASE UNCHANGED vars
  BY <1>5 DEF vars, TypeOK
<1> QED  BY <1>1, <1>2, <1>3, <1>4, <1>5 DEF Next

LEMMA InitTypes == Init => TypeOK
<1> SUFFICES ASSUME Init  PROVE TypeOK
  OBVIOUS
<1>1. NewRow(<<0, Never>>, "active") \in Row
  BY NaturalBounds DEF NewRow, Row, RowStatuses, Instants, Never
<1>2. store \in Store
  BY <1>1 DEF Init, Store
<1> QED  BY <1>2, NaturalBounds DEF Init, TypeOK, Instants

\* The type invariant, for any roles, patterns, windows and handlers.
THEOREM AuthorizationTypeCorrect == Spec => []TypeOK
  BY InitTypes, TypesPreserved, PTL DEF Spec

-----------------------------------------------------------------------------
(* What denies throughout. *)

\* A blocker, by its kind.
LEMMA BlockersByKind ==
  ASSUME NEW s, NEW q, NEW now, NEW b
  PROVE  b \in Blockers(s, q, now) <=>
           \/ \E f \in Facts : b = <<"inactive", f>> /\ f \notin s.facts
           \/ \E d \in Directs : /\ b = <<"denied", d>> /\ d.type = "deny"
                                 /\ ScopeMatches(d, q) /\ InForce(s.directRows[d], now)
           \/ \E t \in Targets \ Roles : /\ b = <<"restricted", t>>
                                         /\ t \in Patterns => t \in q.resource
                                         /\ InForce(s.restrictions[t], now)
           \/ b = <<"without", "permission">> /\ ~s.permission
           \/ b = <<"without", "capability">> /\ q.capability /\ ~s.capability
  BY DEF Blockers

\* A read brings in the stored part, or leaves what was seen.
LEMMA SeeParts ==
  ASSUME NEW seen \in Store, store \in Store, NEW r \in Reads
  PROVE  /\ See(seen, r).facts \subseteq seen.facts \union store.facts
         /\ See(seen, r).directRows \in {seen.directRows, store.directRows}
         /\ See(seen, r).restrictions \in {seen.restrictions, store.restrictions}
         /\ See(seen, r).permission => seen.permission \/ store.permission
         /\ See(seen, r).capability => seen.capability \/ store.capability
<1>1. CASE r \in Facts
  BY <1>1 DEF See, Store
<1>2. CASE r \in Roles /\ r \notin Facts
  BY <1>2, TargetsDiffer DEF See, Store, Facts
<1>3. CASE r \in {"permission", "roleRows", "directRows", "bindings", "restrictions", "capability"}
  BY <1>3 DEF See, Store
<1> QED  BY <1>1, <1>2, <1>3 DEF Reads, FirstReads, Facts

LEMMA SeeKeepsBlockers ==
  ASSUME NEW seen \in Store, store \in Store, NEW r \in Reads, NEW q, NEW now, NEW b,
         b \in Blockers(store, q, now), b \in Blockers(seen, q, now)
  PROVE  b \in Blockers(See(seen, r), q, now)
<1> DEFINE next == See(seen, r)
<1>0. /\ next.facts \subseteq seen.facts \union store.facts
      /\ next.directRows \in {seen.directRows, store.directRows}
      /\ next.restrictions \in {seen.restrictions, store.restrictions}
      /\ next.permission => seen.permission \/ store.permission
      /\ next.capability => seen.capability \/ store.capability
  BY SeeParts
<1> HIDE DEF next
<1>1. CASE \E f \in Facts : b = <<"inactive", f>>
  <2>1. PICK f \in Facts : b = <<"inactive", f>>  BY <1>1
  <2>2. f \notin store.facts /\ f \notin seen.facts
    BY <2>1, BlockersByKind
  <2>3. f \notin next.facts
    BY <2>2, <1>0
  <2>4. b \in Blockers(next, q, now)
    BY <2>1, <2>3, BlockersByKind
  <2> QED  BY <2>4 DEF next
<1>2. CASE \E d \in Directs : b = <<"denied", d>>
  <2>1. PICK d \in Directs : b = <<"denied", d>>  BY <1>2
  <2>2. /\ d.type = "deny" /\ ScopeMatches(d, q)
        /\ InForce(store.directRows[d], now) /\ InForce(seen.directRows[d], now)
    BY <2>1, BlockersByKind
  <2>3. InForce(next.directRows[d], now)
    BY <2>2, <1>0
  <2>4. b \in Blockers(next, q, now)
    BY <2>1, <2>2, <2>3, BlockersByKind
  <2> QED  BY <2>4 DEF next
<1>3. CASE \E t \in Targets : b = <<"restricted", t>>
  <2>1. PICK t \in Targets : b = <<"restricted", t>>  BY <1>3
  <2>2. /\ t \in Targets \ Roles /\ t \in Patterns => t \in q.resource
        /\ InForce(store.restrictions[t], now) /\ InForce(seen.restrictions[t], now)
    BY <2>1, BlockersByKind
  <2>3. InForce(next.restrictions[t], now)
    BY <2>2, <1>0
  <2>4. b \in Blockers(next, q, now)
    BY <2>1, <2>2, <2>3, BlockersByKind
  <2> QED  BY <2>4 DEF next
<1>4. CASE b = <<"without", "permission">>
  <2>1. ~store.permission /\ ~seen.permission
    BY <1>4, BlockersByKind
  <2>2. b \in Blockers(next, q, now)
    BY <1>4, <2>1, <1>0, BlockersByKind
  <2> QED  BY <2>2 DEF next
<1>5. CASE b = <<"without", "capability">>
  <2>1. q.capability /\ ~store.capability /\ ~seen.capability
    BY <1>5, BlockersByKind
  <2>2. b \in Blockers(next, q, now)
    BY <1>5, <2>1, <1>0, BlockersByKind
  <2> QED  BY <2>2 DEF next
<1>6. \/ \E f \in Facts : b = <<"inactive", f>>
      \/ \E d \in Directs : b = <<"denied", d>>
      \/ \E t \in Targets : b = <<"restricted", t>>
      \/ b = <<"without", "permission">> \/ b = <<"without", "capability">>
  BY BlockersByKind
<1> QED  BY <1>1, <1>2, <1>3, <1>4, <1>5, <1>6

\* The inductive invariant: what has held since the evaluation began holds
\* in the store and in what was seen of it.
StillBlocked ==
  asked # Idle =>
    /\ asked.enduring \subseteq Blockers(store, asked.question, asked.now)
    /\ asked.enduring \subseteq Blockers(asked.seen, asked.question, asked.now)

LEMMA EvaluationKeepsBlocked ==
  ASSUME TypeOK, StillBlocked, Evaluation
  PROVE  StillBlocked'
<1>1. ASSUME NEW q \in Questions, Ask(q)  PROVE  StillBlocked'
  <2>1. See(store, "membership") = store
    BY DEF TypeOK, See, Store, Facts
  <2>2. /\ asked'.enduring = Blockers(store, q, clock) /\ asked'.seen = store
        /\ asked'.question = q /\ asked'.now = clock /\ store' = store
    BY <1>1, <2>1 DEF Ask
  <2> QED  BY <2>2 DEF StillBlocked
<1>2. ASSUME NEW r \in Reads, Read(r)  PROVE  StillBlocked'
  <2>1. asked \in EvaluationState /\ asked # Idle
    BY <1>2, EvaluationOrIdle DEF Read
  <2>2. /\ asked'.enduring = asked.enduring /\ asked'.seen = See(asked.seen, r)
        /\ asked'.question = asked.question /\ asked'.now = asked.now /\ store' = store
    BY <1>2, <2>1 DEF Read, EvaluationState
  <2>3. asked.seen \in Store /\ store \in Store
    BY <2>1 DEF TypeOK, EvaluationState
  <2>4. asked.enduring \subseteq Blockers(See(asked.seen, r), asked.question, asked.now)
    <3> SUFFICES ASSUME NEW b \in asked.enduring
                 PROVE  b \in Blockers(See(asked.seen, r), asked.question, asked.now)
      OBVIOUS
    <3>1. /\ b \in Blockers(store, asked.question, asked.now)
          /\ b \in Blockers(asked.seen, asked.question, asked.now)
      BY <2>1 DEF StillBlocked
    <3> QED  BY <2>3, <3>1, SeeKeepsBlockers
  <2> QED  BY <2>1, <2>2, <2>4 DEF StillBlocked
<1>3. ASSUME ReadOn  PROVE  StillBlocked'
  <2>1. asked \in EvaluationState /\ asked # Idle
    BY <1>3, EvaluationOrIdle DEF ReadOn
  <2>2. /\ asked'.enduring = asked.enduring /\ asked'.seen = asked.seen
        /\ asked'.question = asked.question /\ asked'.now = asked.now /\ store' = store
    BY <1>3, <2>1 DEF ReadOn, EvaluationState
  <2> QED  BY <2>1, <2>2 DEF StillBlocked
<1>4. ASSUME Reply  PROVE  StillBlocked'
  BY <1>4 DEF Reply, StillBlocked
<1> QED  BY <1>1, <1>2, <1>3, <1>4 DEF Evaluation

\* A commit drops the blockers that it ends.
LEMMA WriteKeepsBlocked ==
  ASSUME TypeOK, StillBlocked, NEW new, Write(new)
  PROVE  StillBlocked'
<1>1. CASE asked = Idle
  BY <1>1 DEF Write, StillBlocked
<1>2. CASE asked # Idle
  <2>1. asked \in EvaluationState
    BY <1>2, EvaluationOrIdle
  <2> DEFINE B == Blockers(new, asked.question, asked.now)
  <2>2. asked' = [asked EXCEPT
                    !.changes  = ChangesSince(new),
                    !.before   = IF ChangesSince(new) = 2 THEN new ELSE @,
                    !.enduring = @ \cap B]
    BY <1>2 DEF Write
  <2> HIDE DEF B
  <2>3. /\ asked'.enduring = asked.enduring \cap B /\ asked'.seen = asked.seen
        /\ asked'.question = asked.question /\ asked'.now = asked.now
    BY <2>1, <2>2 DEF EvaluationState
  <2>4. store' = new
    BY DEF Write
  <2>5. B = Blockers(store', asked'.question, asked'.now)
    BY <2>3, <2>4 DEF B
  <2> QED  BY <1>2, <2>3, <2>5 DEF StillBlocked
<1> QED  BY <1>1, <1>2

LEMMA StillBlockedPreserved ==
  TypeOK /\ StillBlocked /\ [Next]_vars => StillBlocked'
<1> SUFFICES ASSUME TypeOK, StillBlocked, [Next]_vars  PROVE StillBlocked'
  OBVIOUS
<1>1. CASE Evaluation
  BY <1>1, EvaluationKeepsBlocked
<1>2. CASE AssignmentCommit \/ LifecycleCommit
  BY <1>2, CommitTypes, WriteKeepsBlocked
<1>3. CASE Administration
  <2>1. CASE UNCHANGED <<store, clock, commits, asked>>
    BY <2>1 DEF StillBlocked
  <2> QED  BY <1>3, <2>1, AdministrationTypes, WriteKeepsBlocked
<1>4. CASE Tick \/ UNCHANGED vars
  BY <1>4 DEF Tick, vars, StillBlocked
<1> QED  BY <1>1, <1>2, <1>3, <1>4 DEF Next

LEMMA BlockedIsDenied ==
  TypeOK /\ StillBlocked => EnduringBlockersDeny
<1> SUFFICES ASSUME TypeOK, StillBlocked, Decided, asked.enduring # {}  PROVE ~Answer
  BY DEF EnduringBlockersDeny
<1>1. asked \in EvaluationState /\ asked # Idle
  BY EvaluationOrIdle DEF Decided
<1>2. asked.seen \in Store /\ asked.question \in Question
  BY <1>1, QuestionsAreTyped DEF EvaluationState
<1>3. Blockers(asked.seen, asked.question, asked.now) # {}
  BY <1>1 DEF StillBlocked
<1>4. ~Effective(asked.seen, asked.question, asked.now)
  BY <1>3 DEF Effective
<1> QED  BY <1>2, <1>4, AllowsIsEffective DEF Answer

\* Whatever is committed between the reads of an evaluation, what denies the
\* permission throughout is not overlooked.
THEOREM EnduringBlockersAlwaysDeny == Spec => []EnduringBlockersDeny
<1>1. Init => StillBlocked
  BY DEF Init, StillBlocked
<1> QED
  BY <1>1, InitTypes, TypesPreserved, StillBlockedPreserved, BlockedIsDenied, PTL DEF Spec

-----------------------------------------------------------------------------
(* What the decisions mean, in every reachable state. *)

\* The evaluator decides by the definition of an effective permission.
THEOREM DecisionsAreEffective == Spec => []DecisionIsEffective
<1>1. TypeOK => DecisionIsEffective
  BY AllowsIsEffective, QuestionsAreTyped DEF DecisionIsEffective, TypeOK
<1> QED  BY <1>1, AuthorizationTypeCorrect, PTL

LEMMA QueriesAgreeOnStore ==
  ASSUME NEW s, NEW q, NEW now,
         \A d \in Directs : d.scope \in Patterns => ~InForce(s.directRows[d], now)
  PROVE  CurrentlyGranted(s, now) <=>
           Decision(s, q, now) \in
             {"access_restricted", "subscription_capability_denied", "permission_granted"}
<1> DEFINE source == Resolved(Candidates(s, q, now))
           denied == \E d \in Directs : d.type = "deny" /\ InForce(s.directRows[d], now)
           granted == \E d \in Directs : d.type = "grant" /\ InForce(s.directRows[d], now)
           byRole == GrantingRoles(s, now) # {}
<1>1. \A d \in Directs : InForce(s.directRows[d], now) => ScopeMatches(d, q)
  BY DEF Directs, ScopeMatches
<1>2. \A d \in Directs : d.type = "deny" \/ d.type = "grant"
  BY DEF Directs
<1>3. source = "direct_deny" <=> denied
  BY <1>1, ResolvedSource, CandidateSources
<1>4. source = "default_deny" <=> ~byRole /\ ~denied /\ ~granted
  <2>1. source = "default_deny" <=> Candidates(s, q, now) = {}
    BY ResolvedSource, CandidateSources
  <2>2. Candidates(s, q, now) = {} <=> ~byRole /\ ~denied /\ ~granted
    BY <1>1, <1>2, CandidateSources
  <2> QED  BY <2>1, <2>2
<1>5. CurrentlyGranted(s, now) <=>
        Participates(s) /\ s.permission /\ ~denied /\ (granted \/ byRole)
  BY DEF CurrentlyGranted
<1>6. Decision(s, q, now) \in
        {"access_restricted", "subscription_capability_denied", "permission_granted"} <=>
      /\ Participates(s) /\ s.permission
      /\ source # "direct_deny" /\ source # "default_deny"
  BY DEF Decision
<1> HIDE DEF source, denied, granted, byRole
<1> QED  BY <1>3, <1>4, <1>5, <1>6

\* The list of granted permissions and the evaluator's permission gate give
\* the same answer wherever scopes play no part.
THEOREM QueriesAlwaysAgree == Spec => []QueriesAgree
<1>1. QueriesAgree
  BY QueriesAgreeOnStore DEF QueriesAgree
<1> QED  BY <1>1, PTL

-----------------------------------------------------------------------------
(* One change among the reads. *)

\* What is read element by element, the facts and the status of roles,
\* differs in at most one element.
OneElement(old, new) ==
  /\ \/ new.facts = old.facts
     \/ \E f \in Facts : new.facts \in {old.facts \ {f}, old.facts \union {f}}
  /\ \/ new.roleStatus = old.roleStatus
     \/ \E r \in Roles, status \in {"active", "archived"} :
          new.roleStatus = [old.roleStatus EXCEPT ![r] = status]

\* Two stores that differ in part k alone.
Aside(old, new, k) ==
  /\ k # "facts"        => new.facts = old.facts
  /\ k # "permission"   => new.permission = old.permission
  /\ k # "roleRows"     => new.roleRows = old.roleRows
  /\ k # "directRows"   => new.directRows = old.directRows
  /\ k # "roleStatus"   => new.roleStatus = old.roleStatus
  /\ k # "bindings"     => new.bindings = old.bindings
  /\ k # "restrictions" => new.restrictions = old.restrictions
  /\ k # "capability"   => new.capability = old.capability

OneApart(old, new) == OneElement(old, new) /\ \E k : Aside(old, new, k)

\* Every commit in flight writes one document of those.
LEMMA CommitsOneElement ==
  ASSUME TypeOK, AssignmentCommit \/ LifecycleCommit \/ Administration
  PROVE  OneElement(store, store') \/ UNCHANGED <<store, asked>>
<1>0. store \in Store
  BY DEF TypeOK
<1>1. ASSUME NEW r \in Roles, AssignRole(r) \/ EndRole(r)  PROVE  OneElement(store, store')
  <2>1. CASE AssignRole(r)
    BY <1>0, <2>1 DEF AssignRole, Write, OneElement, Store
  <2>2. CASE EndRole(r)
    BY <1>0, <2>2 DEF EndRole, Write, OneElement, Store
  <2> QED  BY <1>1, <2>1, <2>2
<1>2. ASSUME NEW d \in Directs, GrantPermission(d) \/ EndPermission(d)  PROVE  OneElement(store, store')
  <2>1. CASE GrantPermission(d)
    BY <1>0, <2>1 DEF GrantPermission, Write, OneElement, Store
  <2>2. CASE EndPermission(d)
    BY <1>0, <2>2 DEF EndPermission, Write, OneElement, Store
  <2> QED  BY <1>2, <2>1, <2>2
<1>3. ASSUME NEW f \in Facts, SuspendFact(f) \/ RestoreFact(f) \/ ArchiveFact(f)
      PROVE  OneElement(store, store')
  <2>1. store'.roleStatus = store.roleStatus
    BY <1>0, <1>3 DEF SuspendFact, RestoreFact, ArchiveFact, Write, Store
  <2>2. store'.facts \in {store.facts \ {f}, store.facts \union {f}}
    BY <1>0, <1>3 DEF SuspendFact, RestoreFact, ArchiveFact, Write, Store
  <2> QED  BY <2>1, <2>2 DEF OneElement
<1>4. ASSUME NEW enabled \in BOOLEAN, ApplyCapabilities(enabled)  PROVE  OneElement(store, store')
  BY <1>0, <1>4 DEF ApplyCapabilities, Write, OneElement, Store
<1>5. ASSUME CreatePermission  PROVE  OneElement(store, store')
  BY <1>0, <1>5 DEF CreatePermission, Write, OneElement, Store
<1>6. ASSUME NEW r \in Roles, CreateRole(r)  PROVE  OneElement(store, store')
  <2>1. /\ store'.roleStatus = [store.roleStatus EXCEPT ![r] = "active"]
        /\ store'.facts = store.facts
    BY <1>0, <1>6 DEF CreateRole, Write, Store
  <2> QED  BY <2>1 DEF OneElement
<1>7. ASSUME NEW t \in Targets, CreateRestriction(t)  PROVE  OneElement(store, store')
  BY <1>0, <1>7 DEF CreateRestriction, Write, OneElement, Store
<1>8. ASSUME NEW h \in Admins, CommitRole(h)  PROVE  OneElement(store, store')
  <2>1. admin[h] \in Change /\ admin[h].kind = "role"
    BY <1>8 DEF CommitRole, TypeOK
  <2>2. admin[h].key \in Roles /\ admin[h].status \in {"active", "archived"}
    BY <2>1 DEF Change
  <2>3. /\ store'.roleStatus = [store.roleStatus EXCEPT ![admin[h].key] = admin[h].status]
        /\ store'.facts = store.facts
    BY <1>0, <1>8 DEF CommitRole, Write, Store
  <2> QED  BY <2>2, <2>3 DEF OneElement
<1>9. ASSUME NEW h \in Admins, CommitRestriction(h)  PROVE  OneElement(store, store')
  BY <1>0, <1>9 DEF CommitRestriction, Write, OneElement, Store
<1>10. ASSUME NEW h \in Admins,
              \/ GiveUp(h)
              \/ \E r \in Roles :
                   \/ ArchiveRole(h, r) \/ RestoreRole(h, r)
                   \/ \E bound \in BOOLEAN : UpdateRole(h, r, bound)
              \/ \E t \in Targets : RemoveRestriction(h, t) \/ ExpireRestriction(h, t)
       PROVE  UNCHANGED <<store, asked>>
  BY <1>10 DEF GiveUp, ArchiveRole, RestoreRole, UpdateRole, RemoveRestriction,
               ExpireRestriction, Remember
<1> HIDE DEF OneElement
<1>11. CASE AssignmentCommit
  BY <1>11, <1>1, <1>2 DEF AssignmentCommit
<1>12. CASE LifecycleCommit
  BY <1>12, <1>3, <1>4 DEF LifecycleCommit
<1>13. CASE Administration
  BY <1>13, <1>5, <1>6, <1>7, <1>8, <1>9, <1>10 DEF Administration
<1> QED  BY <1>11, <1>12, <1>13

\* What a read brings in, by what is read.
LEMMA SeeIsOneOf ==
  ASSUME NEW seen, NEW r \in Reads \union {"membership"}
  PROVE  \/ r \in Facts /\
            See(seen, r) = [seen EXCEPT !.facts = (@ \ {r}) \union (store.facts \cap {r})]
         \/ r \in Roles /\
            See(seen, r) = [seen EXCEPT !.roleStatus[r] = store.roleStatus[r]]
         \/ \/ See(seen, r) = [seen EXCEPT !.permission = store.permission]
            \/ See(seen, r) = [seen EXCEPT !.roleRows = store.roleRows]
            \/ See(seen, r) = [seen EXCEPT !.directRows = store.directRows]
            \/ See(seen, r) = [seen EXCEPT !.bindings = store.bindings]
            \/ See(seen, r) = [seen EXCEPT !.restrictions = store.restrictions]
            \/ See(seen, r) = [seen EXCEPT !.capability = store.capability]
<1>1. CASE r \in Facts
  BY <1>1 DEF See
<1>2. CASE r \in Roles /\ r \notin Facts
  BY <1>2, TargetsDiffer DEF See, Facts
<1>3. CASE r \in {"permission", "roleRows", "directRows", "bindings", "restrictions", "capability"}
           /\ r \notin Facts \union Roles
  BY <1>3 DEF See
<1> QED  BY <1>1, <1>2, <1>3 DEF Reads, FirstReads, Facts

\* A read of what is seen already changes nothing.
LEMMA SeeAgain ==
  ASSUME store \in Store, NEW r \in Reads \union {"membership"}
  PROVE  See(store, r) = store
<1>1. ASSUME r \in Facts,
             See(store, r) = [store EXCEPT !.facts = (@ \ {r}) \union (store.facts \cap {r})]
      PROVE  See(store, r) = store
  <2>1. (store.facts \ {r}) \union (store.facts \cap {r}) = store.facts
    OBVIOUS
  <2>2. See(store, r) = [store EXCEPT !.facts = store.facts]
    BY <1>1, <2>1
  <2> QED  BY <2>2 DEF Store
<1>2. ASSUME r \in Roles,
             See(store, r) = [store EXCEPT !.roleStatus[r] = store.roleStatus[r]]
      PROVE  See(store, r) = store
  <2>1. [store.roleStatus EXCEPT ![r] = store.roleStatus[r]] = store.roleStatus
    BY DEF Store
  <2>2. See(store, r) = [store EXCEPT !.roleStatus = store.roleStatus]
    BY <1>2, <2>1
  <2> QED  BY <2>2 DEF Store
<1>3. ASSUME \/ See(store, r) = [store EXCEPT !.permission = store.permission]
             \/ See(store, r) = [store EXCEPT !.roleRows = store.roleRows]
             \/ See(store, r) = [store EXCEPT !.directRows = store.directRows]
             \/ See(store, r) = [store EXCEPT !.bindings = store.bindings]
             \/ See(store, r) = [store EXCEPT !.restrictions = store.restrictions]
             \/ See(store, r) = [store EXCEPT !.capability = store.capability]
      PROVE  See(store, r) = store
  BY <1>3 DEF Store
<1> QED  BY <1>1, <1>2, <1>3, SeeIsOneOf

\* A change of one part, as the history counts it.
LEMMA OneDiffers ==
  ASSUME store \in Store, NEW new \in Store, ChangesOne(new)
  PROVE  \E k : Aside(store, new, k)
<1>1. DOMAIN store = {"facts", "permission", "roleRows", "directRows", "roleStatus",
                      "bindings", "restrictions", "capability"}
  BY DEF Store
<1>2. PICK k \in DOMAIN store : \A j \in DOMAIN store \ {k} : new[j] = store[j]
  BY DEF ChangesOne
<1>3. Aside(store, new, k)
  BY <1>1, <1>2 DEF Aside
<1> QED  BY <1>3

\* A read between two stores that differ in one element.
LEMMA ReadAcrossOneChange ==
  ASSUME NEW old \in Store, store \in Store, OneApart(old, store), NEW r \in Reads
  PROVE  See(old, r) \in {old, store}
<1>0. PICK k : Aside(old, store, k)
  BY DEF OneApart
<1>1. ASSUME NEW s \in Store, NEW t \in Store,
             s.facts = t.facts, s.permission = t.permission, s.roleRows = t.roleRows,
             s.directRows = t.directRows, s.roleStatus = t.roleStatus,
             s.bindings = t.bindings, s.restrictions = t.restrictions,
             s.capability = t.capability
      PROVE  s = t
  BY <1>1 DEF Store
<1>2. See(old, r) \in Store
  BY SeeType
<1>3. ASSUME r \in Facts,
             See(old, r) = [old EXCEPT !.facts = (@ \ {r}) \union (store.facts \cap {r})]
      PROVE  See(old, r) \in {old, store}
  <2> DEFINE part == (old.facts \ {r}) \union (store.facts \cap {r})
  <2>1. See(old, r) = [old EXCEPT !.facts = part]
    BY <1>3
  <2>2. part \in {old.facts, store.facts}
    <3>1. CASE store.facts = old.facts
      BY <3>1
    <3>2. ASSUME NEW f \in Facts, store.facts \in {old.facts \ {f}, old.facts \union {f}}
          PROVE  part \in {old.facts, store.facts}
      <4>1. CASE f = r
        <5>1. part = store.facts  BY <3>2, <4>1
        <5> QED  BY <5>1
      <4>2. CASE f # r
        <5>1. part = old.facts  BY <3>2, <4>2
        <5> QED  BY <5>1
      <4> QED  BY <4>1, <4>2
    <3> QED  BY <3>1, <3>2 DEF OneApart, OneElement
  <2> HIDE DEF part
  <2>3. CASE part = old.facts
    BY <2>1, <2>3 DEF Store
  <2>4. CASE part # old.facts
    <3>1. part = store.facts /\ k = "facts"
      BY <1>0, <2>2, <2>4 DEF Aside
    <3>2. See(old, r) = store
      BY <1>0, <1>1, <1>2, <2>1, <3>1 DEF Aside, Store
    <3> QED  BY <3>2
  <2> QED  BY <2>3, <2>4
<1>4. ASSUME r \in Roles,
             See(old, r) = [old EXCEPT !.roleStatus[r] = store.roleStatus[r]]
      PROVE  See(old, r) \in {old, store}
  <2> DEFINE part == [old.roleStatus EXCEPT ![r] = store.roleStatus[r]]
  <2>1. See(old, r) = [old EXCEPT !.roleStatus = part]
    BY <1>4
  <2>0. /\ old.roleStatus \in [Roles -> {"active", "archived", None}]
        /\ store.roleStatus \in [Roles -> {"active", "archived", None}]
    BY DEF Store
  <2>2. part \in {old.roleStatus, store.roleStatus}
    <3>1. CASE store.roleStatus = old.roleStatus
      BY <2>0, <3>1
    <3>2. ASSUME NEW x \in Roles, NEW status \in {"active", "archived"},
                 store.roleStatus = [old.roleStatus EXCEPT ![x] = status]
          PROVE  part \in {old.roleStatus, store.roleStatus}
      <4>1. CASE x = r
        <5>1. part = store.roleStatus  BY <2>0, <3>2, <4>1
        <5> QED  BY <5>1
      <4>2. CASE x # r
        <5>1. part = old.roleStatus  BY <2>0, <3>2, <4>2, <1>4
        <5> QED  BY <5>1
      <4> QED  BY <4>1, <4>2
    <3> QED  BY <3>1, <3>2 DEF OneApart, OneElement
  <2> HIDE DEF part
  <2>3. CASE part = old.roleStatus
    BY <2>1, <2>3 DEF Store
  <2>4. CASE part # old.roleStatus
    <3>1. part = store.roleStatus /\ k = "roleStatus"
      BY <1>0, <2>2, <2>4 DEF Aside
    <3>2. See(old, r) = store
      BY <1>0, <1>1, <1>2, <2>1, <3>1 DEF Aside, Store
    <3> QED  BY <3>2
  <2> QED  BY <2>3, <2>4
<1>5. ASSUME \/ See(old, r) = [old EXCEPT !.permission = store.permission]
             \/ See(old, r) = [old EXCEPT !.roleRows = store.roleRows]
             \/ See(old, r) = [old EXCEPT !.directRows = store.directRows]
             \/ See(old, r) = [old EXCEPT !.bindings = store.bindings]
             \/ See(old, r) = [old EXCEPT !.restrictions = store.restrictions]
             \/ See(old, r) = [old EXCEPT !.capability = store.capability]
      PROVE  See(old, r) \in {old, store}
  <2>1. ASSUME See(old, r) # old  PROVE  See(old, r) = store
    <3>1. \/ See(old, r) = [old EXCEPT !.permission = store.permission] /\ k = "permission"
          \/ See(old, r) = [old EXCEPT !.roleRows = store.roleRows] /\ k = "roleRows"
          \/ See(old, r) = [old EXCEPT !.directRows = store.directRows] /\ k = "directRows"
          \/ See(old, r) = [old EXCEPT !.bindings = store.bindings] /\ k = "bindings"
          \/ See(old, r) = [old EXCEPT !.restrictions = store.restrictions] /\ k = "restrictions"
          \/ See(old, r) = [old EXCEPT !.capability = store.capability] /\ k = "capability"
      BY <1>0, <1>5, <2>1 DEF Aside, Store
    <3> QED  BY <1>0, <1>1, <1>2, <3>1 DEF Aside, Store
  <2> QED  BY <2>1
<1> QED  BY <1>3, <1>4, <1>5, SeeIsOneOf

\* The inductive invariant.  What was seen is one store, not a mixture, as
\* long as one part of one has changed at most.
SeesOneState ==
  asked # Idle /\ asked.changes <= 1 =>
    /\ asked.seen \in {asked.before, store}
    /\ asked.changes = 0 => asked.before = store
    /\ OneApart(asked.before, store)

LEMMA EvaluationSeesOneState ==
  ASSUME TypeOK, SeesOneState, Evaluation
  PROVE  SeesOneState'
<1>1. ASSUME NEW q \in Questions, Ask(q)  PROVE  SeesOneState'
  <2>1. See(store, "membership") = store
    BY SeeAgain DEF TypeOK
  <2>2. asked'.before = store /\ asked'.seen = store /\ store' = store
    BY <1>1, <2>1 DEF Ask
  <2>3. OneApart(store, store)
    BY DEF OneApart, OneElement, Aside
  <2> HIDE DEF OneApart
  <2>4. OneApart(asked'.before, store')
    BY <2>2, <2>3
  <2> QED  BY <2>2, <2>4 DEF SeesOneState
<1>2. ASSUME NEW r \in Reads, Read(r)  PROVE  SeesOneState'
  <2>1. asked \in EvaluationState /\ asked # Idle
    BY <1>2, EvaluationOrIdle DEF Read
  <2>2. /\ asked'.before = asked.before /\ asked'.changes = asked.changes
        /\ asked'.seen = See(asked.seen, r) /\ store' = store
    BY <1>2, <2>1 DEF Read, EvaluationState
  <2>3. asked.before \in Store /\ store \in Store
    BY <2>1 DEF TypeOK, EvaluationState
  <2>4. See(store, r) = store
    BY <2>3, SeeAgain
  <2>5. ASSUME asked.changes <= 1
        PROVE  See(asked.seen, r) \in {asked.before, store}
    <3>1. asked.seen \in {asked.before, store} /\ OneApart(asked.before, store)
      BY <2>1, <2>5 DEF SeesOneState
    <3>2. See(asked.before, r) \in {asked.before, store}
      BY <2>3, <3>1, ReadAcrossOneChange
    <3> QED  BY <2>4, <3>1, <3>2
  <2> QED  BY <2>1, <2>2, <2>5 DEF SeesOneState
<1>3. ASSUME ReadOn  PROVE  SeesOneState'
  <2>1. asked \in EvaluationState /\ asked # Idle
    BY <1>3, EvaluationOrIdle DEF ReadOn
  <2>2. /\ asked'.before = asked.before /\ asked'.changes = asked.changes
        /\ asked'.seen = asked.seen /\ store' = store
    BY <1>3, <2>1 DEF ReadOn, EvaluationState
  <2> QED  BY <2>1, <2>2 DEF SeesOneState
<1>4. ASSUME Reply  PROVE  SeesOneState'
  BY <1>4 DEF Reply, SeesOneState
<1> QED  BY <1>1, <1>2, <1>3, <1>4 DEF Evaluation

\* A commit: the first that changes anything is the one change, if it
\* changes one part; with any other the comparison is over.
LEMMA WriteSeesOneState ==
  ASSUME TypeOK, SeesOneState, NEW new \in Store, Write(new), OneElement(store, store')
  PROVE  SeesOneState'
<1>1. CASE asked = Idle
  BY <1>1 DEF Write, SeesOneState
<1>2. CASE asked # Idle
  <2>1. asked \in EvaluationState /\ store \in Store
    BY <1>2, EvaluationOrIdle DEF TypeOK
  <2> DEFINE B == Blockers(new, asked.question, asked.now)
  <2>2. asked' = [asked EXCEPT
                    !.changes  = ChangesSince(new),
                    !.before   = IF ChangesSince(new) = 2 THEN new ELSE @,
                    !.enduring = @ \cap B]
    BY <1>2 DEF Write
  <2> HIDE DEF B
  <2>3. /\ asked'.changes = ChangesSince(new) /\ asked'.seen = asked.seen
        /\ ChangesSince(new) # 2 => asked'.before = asked.before
    BY <2>1, <2>2 DEF EvaluationState
  <2>4. store' = new
    BY DEF Write
  <2>5. asked.changes \in 0..2
    BY <2>1 DEF EvaluationState
  <2>6. CASE new = store
    <3>1. asked'.changes = asked.changes /\ store' = store
      BY <2>3, <2>4, <2>6 DEF ChangesSince
    <3>2. asked.changes <= 1 => asked'.before = asked.before
      BY <2>3, <3>1
    <3> QED  BY <1>2, <2>3, <3>1, <3>2 DEF SeesOneState
  <2>7. CASE new # store /\ asked.changes = 0 /\ ChangesOne(new)
    <3>1. asked'.changes = 1 /\ asked'.before = asked.before
      BY <2>3, <2>7 DEF ChangesSince
    <3>2. asked.before = store /\ asked.seen = store
      BY <1>2, <2>7 DEF SeesOneState
    <3>3. \E k : Aside(store, new, k)
      BY <2>1, <2>7, OneDiffers
    <3>4. OneApart(store, store')
      BY <2>4, <3>3 DEF OneApart
    <3> QED  BY <2>3, <3>1, <3>2, <3>4 DEF SeesOneState
  <2>8. CASE new # store /\ ~(asked.changes = 0 /\ ChangesOne(new))
    <3>1. asked'.changes = 2
      BY <2>3, <2>8 DEF ChangesSince
    <3> QED  BY <3>1 DEF SeesOneState
  <2> QED  BY <2>6, <2>7, <2>8
<1> QED  BY <1>1, <1>2

LEMMA SeesOneStatePreserved ==
  TypeOK /\ SeesOneState /\ [Next]_vars => SeesOneState'
<1> SUFFICES ASSUME TypeOK, SeesOneState, [Next]_vars  PROVE SeesOneState'
  OBVIOUS
<1>1. CASE Evaluation
  BY <1>1, EvaluationSeesOneState
<1>2. CASE UNCHANGED <<store, asked>>
  BY <1>2 DEF SeesOneState
<1>3. CASE AssignmentCommit \/ LifecycleCommit
  <2>1. PICK new \in Store : Write(new)
    BY <1>3, CommitTypes
  <2>2. CASE OneElement(store, store')
    BY <2>1, <2>2, WriteSeesOneState
  <2> QED  BY <1>2, <1>3, <2>2, CommitsOneElement
<1>4. CASE Administration
  <2>1. CASE UNCHANGED <<store, clock, commits, asked>>
    BY <1>2, <2>1
  <2>2. ASSUME NEW new \in Store, Write(new)  PROVE  SeesOneState'
    <3>1. CASE OneElement(store, store')
      BY <2>2, <3>1, WriteSeesOneState
    <3> QED  BY <1>2, <1>4, <3>1, CommitsOneElement
  <2> QED  BY <1>4, <2>1, <2>2, AdministrationTypes
<1>5. CASE Tick \/ UNCHANGED vars
  BY <1>2, <1>5 DEF Tick, vars
<1> QED  BY <1>1, <1>3, <1>4, <1>5 DEF Next

\* As long as the commits between the first read of AuthorizeActionUseCase
\* and its answer change one part of what it reads at most, the answer is that
\* of one state, before the change or after it, however the reads interleave.
THEOREM AnswersAreOfOneState == Spec => []AnswerIsOfOneState
<1>1. Init => SeesOneState
  BY DEF Init, SeesOneState
<1>2. TypeOK /\ SeesOneState => AnswerIsOfOneState
  <2> SUFFICES ASSUME TypeOK, SeesOneState, Decided, asked.changes <= 1
               PROVE  Answer \in {Allows(asked.before, asked.question, asked.now),
                                  Allows(store, asked.question, asked.now)}
    BY DEF AnswerIsOfOneState
  <2>1. asked # Idle
    BY EvaluationOrIdle DEF Decided
  <2>2. asked.seen \in {asked.before, store}
    BY <2>1 DEF SeesOneState
  <2> QED  BY <2>2 DEF Answer
<1> QED
  BY <1>1, <1>2, InitTypes, TypesPreserved, SeesOneStatePreserved, PTL DEF Spec
=============================================================================
