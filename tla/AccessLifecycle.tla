--------------------------- MODULE AccessLifecycle ---------------------------
(***************************************************************************)
(* The Access service's authorization lifecycle: what Access knows of      *)
(* identities, memberships and tenants (its known facts), the assignments  *)
(* of roles and permissions to memberships, the reactions that carry the   *)
(* lifecycle events of other services over to the assignments, and the     *)
(* worker that expires them.                                               *)
(*                                                                         *)
(* A role assignment and a direct permission assignment go through the     *)
(* same statuses by the same rules; here a right is either, and "removed"  *)
(* stands for a removed role and a revoked permission.                     *)
(*                                                                         *)
(* A reaction reads the fact, then reads the assignments it affects, and   *)
(* ends in one atomic commit of the fact and every changed assignment.     *)
(* Each change is a patch of the WHOLE document as it was read, with no    *)
(* expected version, so what other handlers committed in between is        *)
(* overwritten.  Only the unique indexes are checked by the commit.        *)
(*                                                                         *)
(* Events of other services are delivered at least once and in any order:  *)
(* a published event may start its reaction at any time, and again.        *)
(***************************************************************************)
EXTENDS Integers, FiniteSets

CONSTANTS
  Identities,
  Tenants,
  Rights,          \* roles and permissions that can be assigned
  AssignmentIds,   \* ids the service can still generate: bounds the rows
  Reactions,       \* the events other services publish: bounds the behaviours
  Ops,             \* request handlers and reactions that may be in flight
  Workers,         \* assignment expiration workers, one per server process
                   \* (a process in both takes requests and runs in turn)
  BatchSize,       \* rows one run of a worker takes
  None             \* an absent document, or a field that is not set

VARIABLES
  known,           \* known facts: subject -> status or None
  assignments,     \* both assignment collections: id -> row or None
  due,             \* assignments whose expiresAt the clock has passed
  published,       \* <<subject, event>> of other services' outboxes
  op               \* the handler each process is running

db   == <<known, assignments>>
vars == <<known, assignments, due, published, op>>

Processes == Ops \union Workers

-----------------------------------------------------------------------------
(* State. *)

\* An identity has one membership of a tenant (Membership, OneMembership).
Memberships == Identities \X Tenants
Subjects    == Identities \union Memberships \union Tenants

FactStatuses ==
  {"pending", "provisioning", "active", "disabled", "suspended", "archived"}

\* Each suspension names the lifecycle that caused it.  No commit of the
\* service writes the fourth source of the code, security_policy.
Sources  == {"identity", "membership", "tenant"}
Terminal == {"expired", "archived", "removed"}

AssignmentStatuses == {"pending", "active", "suspended"} \union Terminal

AssignmentRow ==
  [mem : Memberships, right : Rights, status : AssignmentStatuses,
   sources : SUBSET Sources]

IdentityEvents ==
  {"identity.activated", "identity.disabled", "identity.restored",
   "identity.archived"}
MembershipEvents ==
  {"membership.created", "membership.activated", "membership.suspended",
   "membership.reactivated", "membership.archived"}
TenantEvents ==
  {"tenant.created", "tenant.activated", "tenant.suspended",
   "tenant.reactivated", "tenant.archived"}
Events == IdentityEvents \union MembershipEvents \union TenantEvents

Suspends == {"identity.disabled", "membership.suspended", "tenant.suspended"}
Restores == {"identity.restored", "membership.activated",
             "membership.reactivated", "tenant.reactivated"}
Archives == {"identity.archived", "membership.archived", "tenant.archived"}
FactOnly == Events \ (Suspends \union Restores \union Archives)

SourceOf(e) ==
  IF e \in IdentityEvents THEN "identity"
  ELSE IF e \in MembershipEvents THEN "membership" ELSE "tenant"

\* What a handler remembers between its awaits.  status is what it will
\* write: the fact's, or None if the fact stays, or the new assignment's.
Handler ==
  [step    : {"idle", "load", "commit", "check", "insert", "sweep"},
   subject : Subjects \union {None},
   event   : Events \union {None},
   right   : Rights \union {None},
   status  : FactStatuses \union {None},
   insert  : BOOLEAN,
   patch   : [AssignmentIds -> AssignmentRow \union {None}],
   todo    : SUBSET AssignmentIds]

NoPatch == [a \in AssignmentIds |-> None]

Idle ==
  [step |-> "idle", subject |-> None, event |-> None, right |-> None,
   status |-> None, insert |-> FALSE, patch |-> NoPatch, todo |-> {}]

ASSUME IdsAreNumbers == AssignmentIds \subseteq Nat
ASSUME ReactionsAreEvents == Reactions \subseteq Events
ASSUME BatchIsPositive == BatchSize \in Nat \ {0}
ASSUME NoneIsNothing ==
  /\ None \notin AssignmentRow \union FactStatuses \union Events
  /\ None \notin Subjects \union Rights

Init ==
  /\ known       = [s \in Subjects |-> None]
  /\ assignments = [a \in AssignmentIds |-> None]
  /\ due         = {}
  /\ published   = {}
  /\ op          = [p \in Processes |-> Idle]

-----------------------------------------------------------------------------
(* Reads of the store. *)

Assigned == {a \in AssignmentIds : assignments[a] # None}

\* An assignment is listed through its membership: for an identity, through
\* the memberships of it that Access knows.
Affected(s) ==
  {a \in Assigned :
     LET m == assignments[a].mem IN
     \/ m = s
     \/ m[1] = s /\ known[m] # None
     \/ m[2] = s}

Holding(m, r) ==
  {a \in Assigned : assignments[a].mem = m /\ assignments[a].right = r}

DueActive == {a \in Assigned \cap due : assignments[a].status = "active"}

\* Sorted by id, the first batch.
FirstDue ==
  {a \in DueActive : Cardinality({b \in DueActive : b < a}) < BatchSize}

-----------------------------------------------------------------------------
(* Business rules. *)

\* Mutation: a fact is replaced whatever it is.
Replaced(fact, kept, next) == next

\* A fact with one of the kept statuses ignores the event.
Unless(fact, kept, next) == IF fact \in kept THEN fact ELSE next

\* The known facts: the status each lifecycle leaves behind.
ActivateKnownIdentity(fact)  == "active"
SuspendKnownIdentity(fact)   == "disabled"
ArchiveKnownIdentity(fact)   == "archived"
RestoreKnownIdentity(fact)   == "active"
RecordKnownMembership(fact)  == Unless(fact, FactStatuses, "pending")
ActivateKnownMembership(fact)   == "active"
SuspendKnownMembership(fact)    == "suspended"
ReactivateKnownMembership(fact) == "active"
ArchiveKnownMembership(fact)    == "archived"
ProvisionKnownTenant(fact)   == Unless(fact, FactStatuses, "provisioning")
ActivateKnownTenant(fact)    == Unless(fact, {"suspended", "archived"}, "active")
SuspendKnownTenant(fact)     == Unless(fact, {"archived"}, "suspended")
ReactivateKnownTenant(fact)  ==
  Unless(fact, {"provisioning", "archived"}, "active")
ArchiveKnownTenant(fact)     == "archived"

\* The fact a reaction computes from the one it read.
NextFact(e, fact) ==
  CASE e = "identity.activated"     -> ActivateKnownIdentity(fact)
    [] e = "identity.disabled"      -> SuspendKnownIdentity(fact)
    [] e = "identity.archived"      -> ArchiveKnownIdentity(fact)
    [] e = "identity.restored"      -> RestoreKnownIdentity(fact)
    [] e = "membership.created"     -> RecordKnownMembership(fact)
    [] e = "membership.activated"   -> ActivateKnownMembership(fact)
    [] e = "membership.suspended"   -> SuspendKnownMembership(fact)
    [] e = "membership.reactivated" -> ReactivateKnownMembership(fact)
    [] e = "membership.archived"    -> ArchiveKnownMembership(fact)
    [] e = "tenant.created"         -> ProvisionKnownTenant(fact)
    [] e = "tenant.activated"       -> ActivateKnownTenant(fact)
    [] e = "tenant.suspended"       -> SuspendKnownTenant(fact)
    [] e = "tenant.reactivated"     -> ReactivateKnownTenant(fact)
    [] e = "tenant.archived"        -> ArchiveKnownTenant(fact)

\* A membership event refreshes the timestamps of its fact even when the
\* status is the same, so the fact is written; others only when it changes.
WritesFact(e, fact) ==
  \/ NextFact(e, fact) # fact
  \/ e \in MembershipEvents \ {"membership.created"}

SuspendAssignment(row, source) ==
  IF row.status \in Terminal \/ source \in row.sources THEN row
  ELSE [row EXCEPT !.status = IF @ = "active" THEN "suspended" ELSE @,
                   !.sources = @ \union {source}]

\* Mutation: the assignment is restored although other sources remain.
RestoreRegardless(row, source) ==
  IF source \notin row.sources THEN row
  ELSE [row EXCEPT !.status = IF @ = "suspended" THEN "active" ELSE @,
                   !.sources = @ \ {source}]

RestoreAssignment(row, source) ==
  IF source \notin row.sources THEN row
  ELSE [row EXCEPT !.status = IF @ = "suspended" /\ row.sources = {source}
                              THEN "active" ELSE @,
                   !.sources = @ \ {source}]

ArchiveAssignment(row) ==
  IF row.status \in Terminal THEN row ELSE [row EXCEPT !.status = "archived"]

\* The use cases: what each makes of an assignment of its subject.
SuspendIdentityAccess(row)             == SuspendAssignment(row, "identity")
RestoreIdentityAuthorization(row)      == RestoreAssignment(row, "identity")
ArchiveIdentityAccess(row)             == ArchiveAssignment(row)
ActivateMembershipAuthorization(row)   == RestoreAssignment(row, "membership")
SuspendMembershipAuthorization(row)    == SuspendAssignment(row, "membership")
ReactivateMembershipAuthorization(row) == RestoreAssignment(row, "membership")
ArchiveMembershipAuthorization(row)    == ArchiveAssignment(row)
SuspendTenantAuthorization(row)        == SuspendAssignment(row, "tenant")
ReactivateTenantAuthorization(row)     == RestoreAssignment(row, "tenant")
ArchiveTenantAuthorization(row)        == ArchiveAssignment(row)

\* The assignment as the reaction to e leaves it.
Transition(e, row) ==
  CASE e = "identity.disabled"      -> SuspendIdentityAccess(row)
    [] e = "identity.restored"      -> RestoreIdentityAuthorization(row)
    [] e = "identity.archived"      -> ArchiveIdentityAccess(row)
    [] e = "membership.activated"   -> ActivateMembershipAuthorization(row)
    [] e = "membership.suspended"   -> SuspendMembershipAuthorization(row)
    [] e = "membership.reactivated" -> ReactivateMembershipAuthorization(row)
    [] e = "membership.archived"    -> ArchiveMembershipAuthorization(row)
    [] e = "tenant.suspended"       -> SuspendTenantAuthorization(row)
    [] e = "tenant.reactivated"     -> ReactivateTenantAuthorization(row)
    [] e = "tenant.archived"        -> ArchiveTenantAuthorization(row)
    [] e \in FactOnly -> row

\* Mutation: the ending is recorded among the causes of a suspension.
EndRecorded(row, status) ==
  [row EXCEPT !.status = status, !.sources = @ \union {status}]

\* Removal, revocation and expiration.
EndAssignment(row, status) == [row EXCEPT !.status = status, !.sources = {}]

\* Mutations: the guards of the rules widened.
EndsAgain(row) == row.status # "removed"
DueOrNot(a)    == assignments[a].status \notin Terminal /\ a \notin due

Eligible(m)  == known[m] \in {"pending", "active"}
MayEnd(row)  == row.status \notin Terminal
MayExpire(a) == assignments[a].status \notin Terminal /\ a \in due

NewAssignment(m, r, status) ==
  [mem |-> m, right |-> r, status |-> status, sources |-> {}]

-----------------------------------------------------------------------------
(* Handlers. *)

At(p, step)    == op[p].step = step
Goto(p, state) == op' = [op EXCEPT ![p] = state]
Begin(p, state) ==
  /\ At(p, "idle")
  /\ Goto(p, state)
  /\ UNCHANGED <<db, due, published>>

\* A worker goes on with its list, any other handler is done.
Continue(p) ==
  Goto(p, IF op[p].todo = {} THEN Idle
          ELSE [Idle EXCEPT !.step = "sweep", !.todo = op[p].todo])

Written(p) == IF op[p].status = None THEN known
              ELSE [known EXCEPT ![op[p].subject] = op[p].status]

\* Mutation: the commit carries the fact alone.
FactAlone(patch) == assignments

\* Every row of the patch replaced by the document that was computed.
Patched(patch) ==
  [a \in AssignmentIds |->
     IF patch[a] = None THEN assignments[a] ELSE patch[a]]

\* One engine commit: a known fact and any number of assignments.  A fact
\* that was absent when it was read is inserted, and the unique index on the
\* subject's id rejects the whole commit when another handler inserted it.
Commit(p) ==
  /\ At(p, "commit")
  /\ op[p].insert => known[op[p].subject] = None
  /\ known' = Written(p)
  /\ assignments' = Patched(op[p].patch)
  /\ Continue(p)
  /\ UNCHANGED <<due, published>>

\* A reaction reads the fact of its subject; with nothing to write it ends.
ReactRead(p, s, e) ==
  LET writes == WritesFact(e, known[s]) IN
  /\ <<s, e>> \in published
  /\ e \in FactOnly => writes
  /\ Begin(p, [Idle EXCEPT
       !.step    = IF e \in FactOnly THEN "commit" ELSE "load",
       !.subject = s,
       !.event   = e,
       !.status  = IF writes THEN NextFact(e, known[s]) ELSE None,
       !.insert  = known[s] = None])

\* The changes a reaction to e makes to the assignments it reads.
Changes(e, s) ==
  [a \in AssignmentIds |->
     IF a \in Affected(s) /\ Transition(e, assignments[a]) # assignments[a]
     THEN Transition(e, assignments[a]) ELSE None]

ReactLoad(p) ==
  LET patch == Changes(op[p].event, op[p].subject) IN
  /\ At(p, "load")
  /\ Goto(p, IF op[p].status = None /\ patch = NoPatch THEN Idle
             ELSE [op[p] EXCEPT !.step = "commit", !.patch = patch])
  /\ UNCHANGED <<db, due, published>>

\* The reactions, one for each subject the service subscribes to.
OnUserActivated(p) ==
  \E i \in Identities : ReactRead(p, i, "identity.activated")

\* Suspending an archived identity throws.
OnUserDisabled(p) ==
  \E i \in Identities :
    known[i] # "archived" /\ ReactRead(p, i, "identity.disabled")

OnUserArchived(p) ==
  \E i \in Identities : ReactRead(p, i, "identity.archived")
OnUserRestored(p) ==
  \E i \in Identities : ReactRead(p, i, "identity.restored")
OnMembershipCreated(p) ==
  \E m \in Memberships : ReactRead(p, m, "membership.created")
OnMembershipActivated(p) ==
  \E m \in Memberships : ReactRead(p, m, "membership.activated")
OnMembershipSuspended(p) ==
  \E m \in Memberships : ReactRead(p, m, "membership.suspended")
OnMembershipReactivated(p) ==
  \E m \in Memberships : ReactRead(p, m, "membership.reactivated")
OnMembershipArchived(p) ==
  \E m \in Memberships : ReactRead(p, m, "membership.archived")
OnTenantCreated(p) ==
  \E t \in Tenants : ReactRead(p, t, "tenant.created")
OnTenantActivated(p) ==
  \E t \in Tenants : ReactRead(p, t, "tenant.activated")
OnTenantSuspended(p) ==
  \E t \in Tenants : ReactRead(p, t, "tenant.suspended")
OnTenantReactivated(p) ==
  \E t \in Tenants : ReactRead(p, t, "tenant.reactivated")
OnTenantArchived(p) ==
  \E t \in Tenants : ReactRead(p, t, "tenant.archived")

\* Assigning a role and granting a permission.
AssignRead(p, m, r) ==
  /\ Eligible(m)
  /\ Begin(p, [Idle EXCEPT !.step = "check", !.subject = m, !.right = r,
                           !.status = known[m]])

\* Only an active assignment of the right counts as a duplicate.
AssignCheck(p) ==
  /\ At(p, "check")
  /\ \A a \in Holding(op[p].subject, op[p].right) :
       assignments[a].status # "active"
  /\ Goto(p, [op[p] EXCEPT !.step = "insert"])
  /\ UNCHANGED <<db, due, published>>

\* Mutation: the insertion without the unique index.
InsertAny(a, row) ==
  /\ assignments[a] = None
  /\ assignments' = [assignments EXCEPT ![a] = row]

\* The unique index on membership and right has no filter on the status.
InsertAssignment(a, row) ==
  /\ assignments[a] = None
  /\ Holding(row.mem, row.right) = {}
  /\ assignments' = [assignments EXCEPT ![a] = row]

AssignCommit(p, a) ==
  /\ At(p, "insert")
  /\ InsertAssignment(a,
       NewAssignment(op[p].subject, op[p].right, op[p].status))
  /\ Goto(p, Idle)
  /\ UNCHANGED <<known, due, published>>

RemoveRead(p, a) ==
  /\ a \in Assigned
  /\ MayEnd(assignments[a])
  /\ Begin(p, [Idle EXCEPT
       !.step  = "commit",
       !.patch = [NoPatch EXCEPT ![a] =
                    EndAssignment(assignments[a], "removed")]])

-----------------------------------------------------------------------------
(* The expiration worker: one run at a time, row by row, rows that fail    *)
(* skipped.                                                                *)

SweepRead(w) ==
  /\ DueActive # {}
  /\ Begin(w, [Idle EXCEPT !.step = "sweep", !.todo = FirstDue])

SweepNext(w, a) ==
  /\ At(w, "sweep")
  /\ a \in op[w].todo
  /\ MayExpire(a)
  /\ Goto(w, [op[w] EXCEPT
       !.step  = "commit",
       !.patch = [NoPatch EXCEPT ![a] =
                    EndAssignment(assignments[a], "expired")],
       !.todo  = @ \ {a}])
  /\ UNCHANGED <<db, due, published>>

SweepSkip(w, a) ==
  /\ At(w, "sweep")
  /\ a \in op[w].todo
  /\ ~MayExpire(a)
  /\ Goto(w, IF op[w].todo = {a} THEN Idle
             ELSE [op[w] EXCEPT !.todo = @ \ {a}])
  /\ UNCHANGED <<db, due, published>>

SweepFail(w) ==
  /\ At(w, "commit")
  /\ Continue(w)
  /\ UNCHANGED <<db, due, published>>

-----------------------------------------------------------------------------
(* Environment. *)

\* The lifecycles of the services that publish: an event follows those it
\* continues, and after archival only an identity goes on, by restoration.
Follows(e) ==
  CASE e \in {"identity.disabled", "identity.archived"} -> {"identity.activated"}
    [] e = "identity.restored"  -> {"identity.disabled", "identity.archived"}
    [] e \in {"membership.activated", "membership.archived"} ->
         {"membership.created"}
    [] e = "membership.suspended"   -> {"membership.activated"}
    [] e = "membership.reactivated" -> {"membership.suspended"}
    [] e \in {"tenant.activated", "tenant.archived"} -> {"tenant.created"}
    [] e = "tenant.suspended"   -> {"tenant.activated"}
    [] e = "tenant.reactivated" -> {"tenant.suspended"}
    [] OTHER -> {}

Publish(s, e) ==
  LET before == {f \in Events : <<s, f>> \in published} IN
  /\ e \in Reactions
  /\ Follows(e) # {} => Follows(e) \cap before # {}
  /\ before \cap Archives # {} => e = "identity.restored"
  /\ published' = published \union {<<s, e>>}
  /\ UNCHANGED <<db, due, op>>

\* The clock passes the expiresAt of an assignment.
Lapse(a) ==
  /\ a \in Assigned \ due
  /\ due' = due \union {a}
  /\ UNCHANGED <<db, published, op>>

\* The engine rejects the commit, a read fails, or the process dies.
Abandon(p) ==
  /\ ~At(p, "idle")
  /\ Goto(p, Idle)
  /\ UNCHANGED <<db, due, published>>

ReactStep(p) ==
  \/ OnUserActivated(p) \/ OnUserDisabled(p)
  \/ OnUserArchived(p)  \/ OnUserRestored(p)
  \/ OnMembershipCreated(p)   \/ OnMembershipActivated(p)
  \/ OnMembershipSuspended(p) \/ OnMembershipReactivated(p)
  \/ OnMembershipArchived(p)
  \/ OnTenantCreated(p)   \/ OnTenantActivated(p)
  \/ OnTenantSuspended(p) \/ OnTenantReactivated(p)
  \/ OnTenantArchived(p)
  \/ ReactLoad(p)

AssignStep(p) ==
  \/ \E m \in Memberships, r \in Rights : AssignRead(p, m, r)
  \/ AssignCheck(p)
  \/ \E a \in AssignmentIds : AssignCommit(p, a) \/ RemoveRead(p, a)

WorkerStep(w) ==
  \/ SweepRead(w) \/ SweepFail(w)
  \/ \E a \in AssignmentIds : SweepNext(w, a) \/ SweepSkip(w, a)

EnvironmentStep ==
  \/ \E i \in Identities, e \in IdentityEvents : Publish(i, e)
  \/ \E m \in Memberships, e \in MembershipEvents : Publish(m, e)
  \/ \E t \in Tenants, e \in TenantEvents : Publish(t, e)
  \/ \E a \in AssignmentIds : Lapse(a)

Next ==
  \/ \E p \in Ops : ReactStep(p) \/ AssignStep(p)
  \/ \E w \in Workers : WorkerStep(w)
  \/ \E p \in Processes : Commit(p) \/ Abandon(p)
  \/ EnvironmentStep

Spec == Init /\ [][Next]_vars

-----------------------------------------------------------------------------
(* Properties. *)

TypeOK ==
  /\ known \in [Subjects -> FactStatuses \union {None}]
  /\ assignments \in [AssignmentIds -> AssignmentRow \union {None}]
  /\ due \subseteq AssignmentIds
  /\ published \subseteq Subjects \X Events
  /\ op \in [Processes -> Handler]

\* What stale reads still guarantee when they are used: a document that is
\* going to be replaced is there and belongs to the same membership and
\* right, a membership that was eligible is still known (with any status),
\* and every assignment's membership is known, so the lifecycle events of
\* its identity find it.
StaleReadsHold ==
  /\ \A a \in Assigned : known[assignments[a].mem] # None
  /\ \A p \in Processes :
       /\ op[p].step \in {"check", "insert"} => known[op[p].subject] # None
       /\ op[p].todo \subseteq Assigned
       /\ \A a \in AssignmentIds :
            op[p].patch[a] # None =>
              /\ a \in Assigned
              /\ op[p].patch[a].mem = assignments[a].mem
              /\ op[p].patch[a].right = assignments[a].right

\* Two requests that both found no active assignment cannot both grant the
\* right, although the check of either only looks for active ones.
OneAssignmentPerRight ==
  \A m \in Memberships, r \in Rights : \A a, b \in Holding(m, r) : a = b

\* "The assignment may return to Active only when no suspension sources
\* remain", and no assignment is suspended with nothing left to lift: with
\* any mixture of patches that overwrite each other.
Consistent(row) ==
  /\ row.status = "active" => row.sources = {}
  /\ row.status = "suspended" => row.sources # {}

SuspensionIsConsistent == \A a \in Assigned : Consistent(assignments[a])

-----------------------------------------------------------------------------
(* What holds of one handler at a time. *)

\* The fact and the assignments move together: while Access knows a
\* membership as suspended it has no active assignment, and while it knows
\* it as archived none that could become active.
MembershipGovernsAssignments ==
  \A a \in Assigned :
    LET fact == known[assignments[a].mem] IN
    /\ fact = "suspended" => assignments[a].status # "active"
    /\ fact = "archived" => assignments[a].status \in Terminal

\* A tenant that was archived stays archived for Access, whatever late or
\* repeated tenant events say.
ArchivedTenantIsFinal ==
  [][\A t \in Tenants : known[t] = "archived" => known'[t] = "archived"]_known

-----------------------------------------------------------------------------
(* What the source says of the lifecycle, and the code refutes. *)

\* "Activate Access assignments waiting for valid Membership participation":
\* after the reaction to the activation none is still pending.
WaitingAssignmentsActivate ==
  [][\A p \in Ops, a \in Assigned :
       Commit(p) /\ op[p].event = "membership.activated"
                /\ op[p].subject = assignments[a].mem =>
         assignments'[a].status # "pending"]_vars

\* "Prevents duplicate active or pending Role assignments": an assignment
\* that ended does not stop the right from being granted again.
EndedRightsCanBeGranted ==
  \A p \in Ops :
    At(p, "insert") =>
      \A a \in Holding(op[p].subject, op[p].right) :
        assignments[a].status \notin Terminal

\* "Permanently exclude the Membership from authorization evaluation": the
\* fact of an archived membership does not change again.
ArchivedMembershipExcluded ==
  [][\A m \in Memberships :
       known[m] = "archived" => known'[m] = "archived"]_known

-----------------------------------------------------------------------------
(* Liveness. *)

\* A server keeps its interval timer and the store answers a commit that is
\* retried for ever; users and other services owe nothing.
WorkerFairness ==
  \A w \in Workers :
    /\ WF_vars(SweepRead(w))
    /\ \A a \in AssignmentIds :
         /\ SF_vars(SweepNext(w, a))
         /\ WF_vars(SweepSkip(w, a))
         /\ SF_vars(Commit(w) /\ op[w].patch[a] # None)

FairSpec == Spec /\ WorkerFairness

\* An assignment past its expiry does not stay active.
DueIsExpired ==
  \A a \in AssignmentIds : a \in DueActive ~> a \notin DueActive
=============================================================================
