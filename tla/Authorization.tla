---------------------------- MODULE Authorization ----------------------------
(***************************************************************************)
(* The authorization decision of the Access service: may this membership   *)
(* use this permission on this resource?  An evaluation reads about ten    *)
(* documents, one store read each and many of them concurrently, while     *)
(* other handlers commit, and then applies the evaluator to what it saw.   *)
(*                                                                         *)
(* The state is what the decisions about ONE membership and ONE permission *)
(* look at.  Roles and restrictions are administered here, by handlers     *)
(* that read a document and later replace it whole.  Assignments and known *)
(* facts change by the commits that AssignmentLifecycle promises.          *)
(*                                                                         *)
(* A timed document is in force from one instant until another, whatever   *)
(* the expiration workers have done: the evaluator compares both with the  *)
(* time at which the evaluation began.                                     *)
(***************************************************************************)
EXTENDS Integers

CONSTANTS
  Roles,
  Patterns,      \* resource types and instances a scope or restriction names
  Questions,     \* evaluations asked: [resource, capability]
  Contexts,      \* facts read beside the membership: its identity, its tenant
  Admins,        \* administration handlers that may be in flight
  MaxTime,       \* last instant of the clock: bounds the behaviours
  Windows,       \* <<from, until>> given to new documents
  MaxCommits,    \* commits of other handlers: bounds the behaviours
  None           \* an absent document

VARIABLES
  store,         \* the documents
  clock,
  commits,       \* commits so far, up to MaxCommits
  admin,         \* what each administration handler is going to write
  asked          \* the evaluation in progress

vars == <<store, clock, commits, admin, asked>>

-----------------------------------------------------------------------------
(* State. *)

\* Pending and suspended assignments do not count and may come (back) into
\* force; ended ones were removed, revoked, expired or archived.
RowStatuses == {"active", "waiting", "ended"}
Instants    == 0..MaxTime
Never       == MaxTime + 1
Row == [status : RowStatuses, from : Instants, until : 1..Never]

\* Direct assignments of the permission: one of each type and scope.
\* A restriction on the membership, its tenant or the permission concerns
\* everything that is asked here: the three count as one target, "whole".
Directs == [type : {"grant", "deny"}, scope : Patterns \union {"tenant"}]
Targets == Roles \union Patterns \union {"whole"}
Facts   == {"membership"} \union Contexts

\* facts holds the subjects known as active.  A role is its status and
\* whether it binds the permission.
Store ==
  [facts        : SUBSET Facts,
   permission   : BOOLEAN,
   roleRows     : [Roles -> Row \union {None}],
   directRows   : [Directs -> Row \union {None}],
   roleStatus   : [Roles -> {"active", "archived", None}],
   bindings     : SUBSET Roles,
   restrictions : [Targets -> Row \union {None}],
   capability   : BOOLEAN]

Question == [resource : SUBSET Patterns, capability : BOOLEAN]

ASSUME NaturalBounds == MaxTime \in Nat /\ MaxCommits \in Nat
ASSUME WindowsAreTimes == Windows \subseteq Instants \X (1..Never)
ASSUME QuestionsAreTyped == Questions \subseteq Question
ASSUME TargetsDiffer ==
  /\ Roles \cap Patterns = {}
  /\ {"whole", "tenant"} \cap (Roles \union Patterns) = {}
  /\ Contexts \cap (Roles \union {"membership"}) = {}

-----------------------------------------------------------------------------
(* The evaluator, applied to documents s at the time now. *)

Participates(s) == s.facts = Facts

InForce(row, now) ==
  row # None /\ row.status = "active" /\ row.from <= now /\ now < row.until

EffectiveRoles(s, now) == {r \in Roles : InForce(s.roleRows[r], now)}

GrantingRoles(s, now) ==
  {r \in EffectiveRoles(s, now) \intersect s.bindings : s.roleStatus[r] = "active"}

ScopeMatches(d, q) == d.scope = "tenant" \/ d.scope \in q.resource

Candidates(s, q, now) ==
  {<<"role_grant", r>> : r \in GrantingRoles(s, now)} \union
  {<<IF d.type = "deny" THEN "direct_deny" ELSE "direct_grant", d>> :
     d \in {e \in Directs : InForce(s.directRows[e], now) /\ ScopeMatches(e, q)}}

\* Mutation: a direct grant wins over a direct denial.
GrantFirst(source) ==
  CASE source = "direct_deny"  -> 300
    [] source = "direct_grant" -> 400
    [] source = "role_grant"   -> 200
    [] OTHER -> 100

Precedence(source) ==
  CASE source = "direct_deny"  -> 400
    [] source = "direct_grant" -> 300
    [] source = "role_grant"   -> 200
    [] OTHER -> 100

\* The source that decides among the candidates.
Resolved(candidates) ==
  LET sources == {"default_deny"} \union {c[1] : c \in candidates} IN
  CHOOSE x \in sources : \A y \in sources : Precedence(x) >= Precedence(y)

\* Mutation: only what the restriction names is compared.
MatchesNamed(target, s, q, now) ==
  target \in EffectiveRoles(s, now) \/ target \in q.resource

Matches(target, s, q, now) ==
  \/ target = "whole"
  \/ target \in EffectiveRoles(s, now)
  \/ target \in q.resource

MatchingRestrictions(s, q, now) ==
  {t \in Targets : InForce(s.restrictions[t], now) /\ Matches(t, s, q, now)}

\* The reason code of the decision: the first check that denies.
Decision(s, q, now) ==
  LET source == Resolved(Candidates(s, q, now)) IN
  IF ~Participates(s) THEN "membership_invalid"
  ELSE IF ~s.permission THEN "permission_not_found"
  ELSE IF source = "direct_deny" THEN "permission_denied"
  ELSE IF source = "default_deny" THEN "default_deny"
  ELSE IF MatchingRestrictions(s, q, now) # {} THEN "access_restricted"
  ELSE IF q.capability /\ ~s.capability THEN "subscription_capability_denied"
  ELSE "permission_granted"

Allows(s, q, now) == Decision(s, q, now) = "permission_granted"

\* Mutation: a denial only takes away what was granted directly.
CurrentlyGrantedByRole(s, now) ==
  LET direct(type) ==
        \E d \in Directs : d.type = type /\ InForce(s.directRows[d], now) IN
  /\ Participates(s) /\ s.permission
  /\ (direct("grant") /\ ~direct("deny")) \/ GrantingRoles(s, now) # {}

\* The second query, written separately in the code: whether the permission
\* is listed as granted to the membership, in whatever scope.
CurrentlyGranted(s, now) ==
  LET direct(type) ==
        \E d \in Directs : d.type = type /\ InForce(s.directRows[d], now) IN
  /\ Participates(s)
  /\ s.permission
  /\ ~direct("deny")
  /\ direct("grant") \/ GrantingRoles(s, now) # {}

-----------------------------------------------------------------------------
(* Evaluations. *)

\* Facts, permission and both assignment collections are read concurrently,
\* after the membership; then roles and restrictions; then the capability.
\* A role is read once for its status, and once more with the others of the
\* membership for what they bind.
FirstReads == Contexts \union {"permission", "roleRows", "directRows"}
LaterReads(seen) ==
  LET assigned == {r \in Roles : seen.roleRows[r] # None} IN
  assigned \union {"restrictions"} \union
    (IF assigned = {} THEN {} ELSE {"bindings"})
LastReads(question) == IF question.capability THEN {"capability"} ELSE {}
Reads == FirstReads \union {"bindings", "restrictions", "capability"} \union Roles

\* Mutation: the results of two of the reads are taken in the wrong order.
SeeSwapped(seen, read) ==
  CASE read = "roleRows"   -> [seen EXCEPT !.directRows = store.roleRows]
    [] read = "directRows" -> [seen EXCEPT !.roleRows = store.directRows]
    [] OTHER -> seen

\* Every document as it was seen by its read.
See(seen, read) ==
  CASE read \in Facts ->
         [seen EXCEPT !.facts = (@ \ {read}) \union (store.facts \cap {read})]
    [] read = "permission" -> [seen EXCEPT !.permission = store.permission]
    [] read = "roleRows"   -> [seen EXCEPT !.roleRows = store.roleRows]
    [] read = "directRows" -> [seen EXCEPT !.directRows = store.directRows]
    [] read \in Roles     ->
         [seen EXCEPT !.roleStatus[read] = store.roleStatus[read]]
    [] read = "bindings"   -> [seen EXCEPT !.bindings = store.bindings]
    [] read = "restrictions" ->
         [seen EXCEPT !.restrictions = store.restrictions]
    [] read = "capability" -> [seen EXCEPT !.capability = store.capability]

\* What denies by itself, whatever else there is.
Blocker ==
  {<<"inactive", f>> : f \in Facts} \union {<<"denied", d>> : d \in Directs} \union
  {<<"restricted", t>> : t \in Targets} \union
  {<<"without", x>> : x \in {"permission", "capability"}}
Blockers(s, q, now) ==
  {<<"inactive", f>> : f \in Facts \ s.facts} \union
  {<<"denied", d>> : d \in {e \in Directs :
     e.type = "deny" /\ ScopeMatches(e, q) /\ InForce(s.directRows[e], now)}} \union
  {<<"restricted", t>> : t \in {u \in Targets \ Roles :
     (u \in Patterns => u \in q.resource) /\ InForce(s.restrictions[u], now)}} \union
  {<<"without", x>> : x \in {y \in {"permission", "capability"} :
     \/ y = "permission" /\ ~s.permission
     \/ y = "capability" /\ q.capability /\ ~s.capability}}

Idle == [step |-> "idle"]

EvaluationState ==
  [step     : {"first", "later", "last"},
   todo     : SUBSET Reads,
   question : Questions,
   now      : Instants,
   seen     : Store,
   before   : Store,
   changes  : 0..2,
   enduring : SUBSET Blocker]

\* seen starts as the store of the beginning, and every field is read before
\* it is used.  before, changes and enduring are history: the store at the
\* beginning (as long as it is compared), the documents changed since (two
\* stand for more) and the blockers that have held ever since.
Ask(q) ==
  /\ asked = Idle
  /\ asked' = [step |-> "first", todo |-> FirstReads, question |-> q,
               now |-> clock, seen |-> See(store, "membership"),
               before |-> store, changes |-> 0,
               enduring |-> Blockers(store, q, clock)]
  /\ UNCHANGED <<store, clock, commits, admin>>

Read(r) ==
  /\ asked.step \in {"first", "later", "last"}
  /\ r \in asked.todo
  /\ asked' = [asked EXCEPT !.todo = @ \ {r}, !.seen = See(@, r)]
  /\ UNCHANGED <<store, clock, commits, admin>>

\* The next reads wait for all of the ones before.
ReadOn ==
  /\ asked.step \in {"first", "later"}
  /\ asked.todo = {}
  /\ asked' = IF asked.step = "first"
              THEN [asked EXCEPT !.step = "later", !.todo = LaterReads(asked.seen)]
              ELSE [asked EXCEPT !.step = "last", !.todo = LastReads(asked.question)]
  /\ UNCHANGED <<store, clock, commits, admin>>

\* The answer: nothing is written.
Decided == asked.step = "last" /\ asked.todo = {}
\* Mutation: the time is taken after the reads.
LateAnswer == Allows(asked.seen, asked.question, clock)
Answer  == Allows(asked.seen, asked.question, asked.now)

Reply ==
  /\ Decided
  /\ asked' = Idle
  /\ UNCHANGED <<store, clock, commits, admin>>

-----------------------------------------------------------------------------
(* Commits of other handlers. *)

\* A commit changes one, or several, of the parts that are read separately.
ChangesOne(new) ==
  \E k \in DOMAIN store : \A j \in DOMAIN store \ {k} : new[j] = store[j]

ChangesSince(new) ==
  IF new = store THEN asked.changes
  ELSE IF asked.changes = 0 /\ ChangesOne(new) THEN 1 ELSE 2

Write(new) ==
  /\ commits < MaxCommits
  /\ commits' = commits + 1
  /\ store' = new
  /\ asked' = IF asked = Idle THEN Idle
              ELSE [asked EXCEPT
                      !.changes  = ChangesSince(new),
                      !.before   = IF ChangesSince(new) = 2 THEN new ELSE @,
                      !.enduring = @ \cap Blockers(new, asked.question, asked.now)]
  /\ UNCHANGED clock

\* A new timed document; it may be dated back or ahead.  An assignment waits
\* if its membership was pending when the handler read it.
NewRow(window, status) ==
  [status |-> status, from |-> window[1], until |-> window[2]]

MayAssign(row) == row = None
AssignRole(r) ==
  /\ MayAssign(store.roleRows[r])
  /\ store.roleStatus[r] = "active"
  /\ \E w \in Windows, status \in {"active", "waiting"} :
       Write([store EXCEPT !.roleRows[r] = NewRow(w, status)])
  /\ UNCHANGED admin

GrantPermission(d) ==
  /\ MayAssign(store.directRows[d])
  /\ store.permission
  /\ \E w \in Windows, status \in {"active", "waiting"} :
       Write([store EXCEPT !.directRows[d] = NewRow(w, status)])
  /\ UNCHANGED admin

\* Removal, revocation, expiration: an assignment ends.
MayEnd(row) == row # None /\ row.status # "ended"
EndRole(r) ==
  /\ MayEnd(store.roleRows[r])
  /\ Write([store EXCEPT !.roleRows[r].status = "ended"])
  /\ UNCHANGED admin
EndPermission(d) ==
  /\ MayEnd(store.directRows[d])
  /\ Write([store EXCEPT !.directRows[d].status = "ended"])
  /\ UNCHANGED admin

\* A lifecycle reaction: the fact of one subject, and with it the
\* assignments.  Those that a restoration brings back depend on their other
\* causes, which are not modelled here.
Changed(rows, from, to) ==
  [k \in DOMAIN rows |->
     IF rows[k] # None /\ rows[k].status \in from
     THEN [rows[k] EXCEPT !.status = to] ELSE rows[k]]

SuspendFact(f) ==
  /\ Write([store EXCEPT
       !.facts      = @ \ {f},
       !.roleRows   = Changed(@, {"active"}, "waiting"),
       !.directRows = Changed(@, {"active"}, "waiting")])
  /\ UNCHANGED admin

ArchiveFact(f) ==
  /\ Write([store EXCEPT
       !.facts      = @ \ {f},
       !.roleRows   = Changed(@, {"active", "waiting"}, "ended"),
       !.directRows = Changed(@, {"active", "waiting"}, "ended")])
  /\ UNCHANGED admin

Waiting(rows) == {k \in DOMAIN rows : rows[k] # None /\ rows[k].status = "waiting"}
Resumed(rows, back) ==
  [k \in DOMAIN rows |->
     IF k \in back THEN [rows[k] EXCEPT !.status = "active"] ELSE rows[k]]

RestoreFact(f) ==
  /\ \E roles \in SUBSET Waiting(store.roleRows),
        directs \in SUBSET Waiting(store.directRows) :
       Write([store EXCEPT
         !.facts      = @ \union {f},
         !.roleRows   = Resumed(@, roles),
         !.directRows = Resumed(@, directs)])
  /\ UNCHANGED admin

ApplyCapabilities(enabled) ==
  Write([store EXCEPT !.capability = enabled]) /\ UNCHANGED admin

CreatePermission ==
  /\ ~store.permission
  /\ Write([store EXCEPT !.permission = TRUE])
  /\ UNCHANGED admin

CreateRole(r) ==
  /\ store.roleStatus[r] = None
  /\ \E bound \in BOOLEAN :
       /\ bound => store.permission
       /\ Write([store EXCEPT
            !.roleStatus[r] = "active",
            !.bindings = IF bound THEN @ \union {r} ELSE @])
  /\ UNCHANGED admin

CreateRestriction(t) ==
  /\ store.restrictions[t] = None
  /\ \E w \in Windows :
       Write([store EXCEPT !.restrictions[t] = NewRow(w, "active")])
  /\ UNCHANGED admin

-----------------------------------------------------------------------------
(* Administration: a handler reads, then replaces the whole document. *)

Change ==
  [kind : {"role"}, key : Roles, status : {"active", "archived"}, bound : BOOLEAN]
    \union [kind : {"restriction"}, key : Targets, row : Row]

ASSUME NoneIsNoDocument == None \notin Row \union {"active", "archived"} \union Change

RoleChange(r, status, bound) ==
  [kind |-> "role", key |-> r, status |-> status, bound |-> bound]
RestrictionChange(t, row) == [kind |-> "restriction", key |-> t, row |-> row]

Remember(h, change) ==
  /\ admin[h] = None
  /\ admin' = [admin EXCEPT ![h] = change]
  /\ UNCHANGED <<store, clock, commits, asked>>

UpdateRole(h, r, bound) ==
  /\ store.roleStatus[r] = "active"
  /\ bound => store.permission
  /\ Remember(h, RoleChange(r, "active", bound))

ArchiveRole(h, r) ==
  /\ store.roleStatus[r] = "active"
  /\ Remember(h, RoleChange(r, "archived", r \in store.bindings))

RestoreRole(h, r) ==
  /\ store.roleStatus[r] = "archived"
  /\ Remember(h, RoleChange(r, "active", r \in store.bindings))

RemoveRestriction(h, t) ==
  LET row == store.restrictions[t] IN
  /\ row # None
  /\ row.status = "active"
  /\ Remember(h, RestrictionChange(t, [row EXCEPT !.status = "ended"]))

\* The expiration worker; it takes what is due.
ExpireRestriction(h, t) ==
  LET row == store.restrictions[t] IN
  /\ row # None
  /\ row.status = "active"
  /\ row.until <= clock
  /\ Remember(h, RestrictionChange(t, [row EXCEPT !.status = "ended"]))

CommitRole(h) ==
  /\ admin[h] # None
  /\ admin[h].kind = "role"
  /\ LET c == admin[h] IN
     Write([store EXCEPT
       !.roleStatus[c.key] = c.status,
       !.bindings = IF c.bound THEN @ \union {c.key} ELSE @ \ {c.key}])
  /\ admin' = [admin EXCEPT ![h] = None]

CommitRestriction(h) ==
  /\ admin[h] # None
  /\ admin[h].kind = "restriction"
  /\ Write([store EXCEPT !.restrictions[admin[h].key] = admin[h].row])
  /\ admin' = [admin EXCEPT ![h] = None]

\* The commit is rejected, or the process dies.
GiveUp(h) ==
  /\ admin[h] # None
  /\ admin' = [admin EXCEPT ![h] = None]
  /\ UNCHANGED <<store, clock, commits, asked>>

Tick ==
  /\ clock < MaxTime
  /\ clock' = clock + 1
  /\ UNCHANGED <<store, commits, admin, asked>>

-----------------------------------------------------------------------------

\* Either nothing has been set up for an active membership yet, or it may
\* use the permission through every role.
Init ==
  /\ \E setUp \in BOOLEAN :
       store =
         [facts        |-> Facts,
          permission   |-> setUp,
          roleRows     |-> [r \in Roles |->
                              IF setUp THEN NewRow(<<0, Never>>, "active") ELSE None],
          directRows   |-> [d \in Directs |-> None],
          roleStatus   |-> [r \in Roles |-> IF setUp THEN "active" ELSE None],
          bindings     |-> IF setUp THEN Roles ELSE {},
          restrictions |-> [t \in Targets |-> None],
          capability   |-> setUp]
  /\ clock = 0
  /\ commits = 0
  /\ admin = [h \in Admins |-> None]
  /\ asked = Idle

Evaluation ==
  \/ \E q \in Questions : Ask(q)
  \/ \E r \in Reads : Read(r)
  \/ ReadOn \/ Reply

AssignmentCommit ==
  \/ \E r \in Roles : AssignRole(r) \/ EndRole(r)
  \/ \E d \in Directs : GrantPermission(d) \/ EndPermission(d)

LifecycleCommit ==
  \/ \E f \in Facts : SuspendFact(f) \/ RestoreFact(f) \/ ArchiveFact(f)
  \/ \E enabled \in BOOLEAN : ApplyCapabilities(enabled)

Administration ==
  \/ CreatePermission
  \/ \E r \in Roles : CreateRole(r)
  \/ \E t \in Targets : CreateRestriction(t)
  \/ \E h \in Admins :
       \/ CommitRole(h) \/ CommitRestriction(h) \/ GiveUp(h)
       \/ \E r \in Roles :
            \/ ArchiveRole(h, r) \/ RestoreRole(h, r)
            \/ \E bound \in BOOLEAN : UpdateRole(h, r, bound)
       \/ \E t \in Targets : RemoveRestriction(h, t) \/ ExpireRestriction(h, t)

Next ==
  \/ Evaluation
  \/ AssignmentCommit \/ LifecycleCommit \/ Administration
  \/ Tick

Spec == Init /\ [][Next]_vars

-----------------------------------------------------------------------------
(* Properties. *)

\* Every document has its type, also as an evaluation saw it: the results
\* of concurrent reads (Promise.all in AuthorizeActionUseCase) are not mixed
\* up, and an evaluation never looks ahead of the clock.
TypeOK ==
  /\ store \in Store
  /\ clock \in Instants
  /\ commits \in 0..MaxCommits
  /\ admin \in [Admins -> Change \union {None}]
  /\ asked \in EvaluationState \union {Idle}
  /\ asked # Idle => asked.now <= clock

\* AuthorizeActionUseCase spreads its reads over the commits of others.  As
\* long as those change at most one of the documents it reads, the answer is
\* right: it is that of the store before the change or after it.  (A commit
\* that changes several, such as the suspension of a membership together
\* with a denial of it, can be seen in part.)
AnswerIsOfOneState ==
  Decided /\ asked.changes <= 1 =>
    Answer \in {Allows(asked.before, asked.question, asked.now),
               Allows(store, asked.question, asked.now)}

\* However many commits fall between the reads of AuthorizeActionUseCase: an
\* inactive subject, a denial, a restriction, or a missing permission or
\* capability that lasts from its first read to its answer is not overlooked.
EnduringBlockersDeny == Decided /\ asked.enduring # {} => ~Answer

\* "Effective Permission" by definition: the membership participates, a
\* grant in force applies and no denial does, and nothing restricts it.
Effective(s, q, now) ==
  /\ Participates(s) /\ s.permission
  /\ Blockers(s, q, now) = {}
  /\ \A r \in EffectiveRoles(s, now) : ~InForce(s.restrictions[r], now)
  /\ \/ GrantingRoles(s, now) # {}
     \/ \E d \in Directs :
          d.type = "grant" /\ ScopeMatches(d, q) /\ InForce(s.directRows[d], now)

\* evaluateAuthorization, with its gates, candidates and precedence, decides
\* what the definition says, at every instant and for every store that the
\* handlers and the workers produce.
DecisionIsEffective ==
  \A q \in Questions : Allows(store, q, clock) <=> Effective(store, q, clock)

\* The two queries agree, though each has its own code: CurrentAuthorization-
\* UseCase lists a permission as granted exactly when the evaluator gets past
\* its permission gate, as long as no direct assignment in force is limited
\* to a resource (the list ignores scopes).
QueriesAgree ==
  (\A d \in Directs : d.scope \in Patterns => ~InForce(store.directRows[d], clock)) =>
    \A q \in Questions :
      CurrentlyGranted(store, clock) <=>
        Decision(store, q, clock) \in
          {"access_restricted", "subscription_capability_denied",
           "permission_granted"}
=============================================================================
