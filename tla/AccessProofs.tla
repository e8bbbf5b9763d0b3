---------------------------- MODULE AccessProofs ----------------------------
(***************************************************************************)
(* The safety invariants of AccessLifecycle, for any number of subjects,   *)
(* assignments, handlers and workers.  A handler is described by what its  *)
(* stale reads still guarantee (Fits); a commit keeps that for all the     *)
(* others because no document is removed and none changes its key (Grows). *)
(*                                                                         *)
(* The second half proves that one handler at a time implements            *)
(* AssignmentLifecycle: with no other handler, only publications and the   *)
(* clock move between its steps, so what it read is still so (Fresh).      *)
(* Only that half assumes OneHandler.                                      *)
(***************************************************************************)
EXTENDS AccessSerial, TLAPS

-----------------------------------------------------------------------------
(* The business rules. *)

\* A row computed from another is about the same membership and right, and
\* its status agrees with its suspension causes.
Replaces(new, row) ==
  /\ new \in AssignmentRow
  /\ new.mem = row.mem
  /\ new.right = row.right
  /\ Consistent(new)

LEMMA SuspensionReplaces ==
  ASSUME NEW row \in AssignmentRow, Consistent(row), NEW source \in Sources
  PROVE  Replaces(SuspendAssignment(row, source), row)
<1>1. CASE row.status \in Terminal \/ source \in row.sources
  BY <1>1 DEF SuspendAssignment, Replaces
<1>2. CASE ~(row.status \in Terminal \/ source \in row.sources)
  <2>1. SuspendAssignment(row, source) =
          [row EXCEPT !.status = IF @ = "active" THEN "suspended" ELSE @,
                      !.sources = @ \union {source}]
    BY <1>2 DEF SuspendAssignment
  <2>2. QED
    BY <2>1 DEF Replaces, Consistent, AssignmentRow, AssignmentStatuses
<1>3. QED
  BY <1>1, <1>2

LEMMA RestorationReplaces ==
  ASSUME NEW row \in AssignmentRow, Consistent(row), NEW source \in Sources
  PROVE  Replaces(RestoreAssignment(row, source), row)
<1>1. CASE source \notin row.sources
  BY <1>1 DEF RestoreAssignment, Replaces
<1>2. CASE source \in row.sources
  <2>1. RestoreAssignment(row, source) =
          [row EXCEPT !.status = IF @ = "suspended" /\ row.sources = {source}
                                 THEN "active" ELSE @,
                      !.sources = @ \ {source}]
    BY <1>2 DEF RestoreAssignment
  <2>2. row.status # "active"
    BY <1>2 DEF Consistent
  <2>3. row.sources # {source} => row.sources \ {source} # {}
    BY <1>2
  <2>4. row.sources = {source} => row.sources \ {source} = {}
    OBVIOUS
  <2>5. QED
    BY <2>1, <2>2, <2>3, <2>4
    DEF Replaces, Consistent, AssignmentRow, AssignmentStatuses
<1>3. QED
  BY <1>1, <1>2

LEMMA ArchivalReplaces ==
  ASSUME NEW row \in AssignmentRow, Consistent(row)
  PROVE  Replaces(ArchiveAssignment(row), row)
BY DEF ArchiveAssignment, Replaces, Consistent, AssignmentRow,
       AssignmentStatuses, Terminal

LEMMA EndingReplaces ==
  ASSUME NEW row \in AssignmentRow, Consistent(row), NEW status \in Terminal
  PROVE  Replaces(EndAssignment(row, status), row)
BY DEF EndAssignment, Replaces, Consistent, AssignmentRow,
       AssignmentStatuses, Terminal

\* The use cases by what they do to an assignment.
LEMMA TransitionByKind ==
  ASSUME NEW row, NEW e \in Events
  PROVE  /\ SourceOf(e) \in Sources
         /\ e \in Suspends =>
              Transition(e, row) = SuspendAssignment(row, SourceOf(e))
         /\ e \in Restores =>
              Transition(e, row) = RestoreAssignment(row, SourceOf(e))
         /\ e \in Archives => Transition(e, row) = ArchiveAssignment(row)
         /\ e \in FactOnly => Transition(e, row) = row
<1>1. SourceOf(e) \in Sources
  BY DEF SourceOf, Sources
<1>2. \A x \in Suspends \union Restores \union Archives : x \notin FactOnly
  BY DEF FactOnly
<1>3. CASE e \in Suspends
  <2>1. e \notin Restores \union Archives \union FactOnly
    BY <1>2, <1>3 DEF Suspends, Restores, Archives
  <2>2. Transition(e, row) = SuspendAssignment(row, SourceOf(e))
    BY <1>3, <2>1
    DEF Suspends, Transition, SourceOf, IdentityEvents, MembershipEvents,
        SuspendIdentityAccess, SuspendMembershipAuthorization,
        SuspendTenantAuthorization
  <2>3. QED
    BY <1>1, <2>1, <2>2
<1>4. CASE e \in Restores
  <2>1. e \notin Suspends \union Archives \union FactOnly
    BY <1>2, <1>4 DEF Suspends, Restores, Archives
  <2>2. Transition(e, row) = RestoreAssignment(row, SourceOf(e))
    BY <1>4, <2>1
    DEF Restores, Transition, SourceOf, IdentityEvents, MembershipEvents,
        RestoreIdentityAuthorization, ActivateMembershipAuthorization,
        ReactivateMembershipAuthorization, ReactivateTenantAuthorization
  <2>3. QED
    BY <1>1, <2>1, <2>2
<1>5. CASE e \in Archives
  <2>1. e \notin Suspends \union Restores \union FactOnly
    BY <1>2, <1>5 DEF Suspends, Restores, Archives
  <2>2. Transition(e, row) = ArchiveAssignment(row)
    BY <1>5, <2>1
    DEF Archives, Transition, ArchiveIdentityAccess,
        ArchiveMembershipAuthorization, ArchiveTenantAuthorization
  <2>3. QED
    BY <1>1, <2>1, <2>2
<1>6. CASE e \in FactOnly
  <2>1. e \notin Suspends \union Restores \union Archives
    BY <1>2, <1>6
  <2>2. Transition(e, row) = row
    BY <1>6, <2>1 DEF Suspends, Restores, Archives, Transition
  <2>3. QED
    BY <1>1, <2>1, <2>2
<1>7. QED
  BY <1>3, <1>4, <1>5, <1>6 DEF FactOnly

\* The reaction to any event leaves a consistent row of the same key.
LEMMA TransitionReplaces ==
  ASSUME NEW row \in AssignmentRow, Consistent(row), NEW e \in Events
  PROVE  Replaces(Transition(e, row), row)
<1>1. SourceOf(e) \in Sources
  BY TransitionByKind
<1>2. Replaces(row, row)
  BY DEF Replaces
<1>3. /\ Replaces(SuspendAssignment(row, SourceOf(e)), row)
      /\ Replaces(RestoreAssignment(row, SourceOf(e)), row)
      /\ Replaces(ArchiveAssignment(row), row)
  BY <1>1, SuspensionReplaces, RestorationReplaces, ArchivalReplaces
<1>4. \/ Transition(e, row) = SuspendAssignment(row, SourceOf(e))
      \/ Transition(e, row) = RestoreAssignment(row, SourceOf(e))
      \/ Transition(e, row) = ArchiveAssignment(row)
      \/ Transition(e, row) = row
  BY TransitionByKind DEF FactOnly
<1>5. QED
  BY <1>2, <1>3, <1>4

\* A reaction computes a status for the fact, absent or not.
LEMMA FactTypes ==
  ASSUME NEW fact \in FactStatuses \union {None}, NEW e \in Events
  PROVE  NextFact(e, fact) \in FactStatuses
<1>1. ASSUME NEW kept, kept \subseteq FactStatuses, NEW next \in FactStatuses
      PROVE  Unless(fact, kept, next) \in FactStatuses
  BY <1>1 DEF Unless
<1>2. CASE e \in IdentityEvents
  BY <1>2
  DEF IdentityEvents, NextFact, ActivateKnownIdentity, SuspendKnownIdentity,
      ArchiveKnownIdentity, RestoreKnownIdentity, FactStatuses
<1>3. CASE e \in MembershipEvents
  BY <1>1, <1>3
  DEF MembershipEvents, NextFact, RecordKnownMembership,
      ActivateKnownMembership, SuspendKnownMembership,
      ReactivateKnownMembership, ArchiveKnownMembership, FactStatuses
<1>4. CASE e \in TenantEvents
  <2>1. /\ ProvisionKnownTenant(fact)  \in FactStatuses
        /\ ActivateKnownTenant(fact)   \in FactStatuses
        /\ SuspendKnownTenant(fact)    \in FactStatuses
        /\ ReactivateKnownTenant(fact) \in FactStatuses
        /\ ArchiveKnownTenant(fact)    \in FactStatuses
    BY <1>1
    DEF ProvisionKnownTenant, ActivateKnownTenant, SuspendKnownTenant,
        ReactivateKnownTenant, ArchiveKnownTenant, FactStatuses
  <2>2. QED
    BY <1>4, <2>1 DEF TenantEvents, NextFact
<1>5. QED
  BY <1>2, <1>3, <1>4 DEF Events

-----------------------------------------------------------------------------
(* The inductive invariant. *)

\* The store: typed, its rows consistent and of memberships Access knows,
\* at most one for a membership and a right.
StoreSafe ==
  /\ known \in [Subjects -> FactStatuses \union {None}]
  /\ assignments \in [AssignmentIds -> AssignmentRow \union {None}]
  /\ due \subseteq AssignmentIds
  /\ published \subseteq Subjects \X Events
  /\ \A a \in Assigned : /\ known[assignments[a].mem] # None
                         /\ Consistent(assignments[a])
  /\ OneAssignmentPerRight

\* A handler's memory: every document it is going to write replaces the one
\* that is stored now, whatever that has become, and a grant that passed its
\* check is for a membership that is known.
Fits(o) ==
  /\ o \in Handler
  /\ o.todo \subseteq Assigned
  /\ \A a \in AssignmentIds :
       o.patch[a] # None => a \in Assigned /\ Replaces(o.patch[a], assignments[a])
  /\ o.step \in {"check", "insert"} =>
       /\ o.subject \in Memberships
       /\ o.right \in Rights
       /\ o.status \in {"pending", "active"}
       /\ known[o.subject] # None
  /\ o.step = "load" => o.event \in Events

Safe ==
  /\ StoreSafe
  /\ op \in [Processes -> Handler]
  /\ \A p \in Processes : Fits(op[p])

LEMMA NoneIsNoRow == None \notin AssignmentRow /\ None \notin FactStatuses
BY NoneIsNothing

LEMMA IdleFits == Fits(Idle)
BY DEF Fits, Idle, NoPatch, Handler

\* The store may move on under a handler as long as nothing disappears and
\* no row changes its key.
Grows ==
  /\ \A s \in Subjects : known[s] # None => known'[s] # None
  /\ \A a \in Assigned : /\ assignments'[a] # None
                         /\ assignments'[a].mem = assignments[a].mem
                         /\ assignments'[a].right = assignments[a].right

LEMMA FitsStays ==
  ASSUME NEW o, Fits(o), Grows
  PROVE  Fits(o)'
<1>1. Assigned \subseteq Assigned'
  BY DEF Grows, Assigned
<1>2. ASSUME NEW a \in AssignmentIds, o.patch[a] # None
      PROVE  a \in Assigned' /\ Replaces(o.patch[a], assignments'[a])
  BY <1>1, <1>2 DEF Fits, Grows, Replaces
<1>3. Memberships \subseteq Subjects
  BY DEF Subjects
<1>4. o.todo \subseteq Assigned'
  BY <1>1 DEF Fits
<1>5. QED
  BY <1>2, <1>3, <1>4 DEF Fits, Grows

LEMMA UnchangedGrows == UNCHANGED db => Grows
BY DEF db, Grows, Assigned

\* A step that moves one handler and leaves the store safe and growing.
LEMMA HandlerStep ==
  ASSUME Safe, StoreSafe', Grows, NEW p \in Processes, NEW h,
         Fits(h)', op' = [op EXCEPT ![p] = h]
  PROVE  Safe'
<1>1. h \in Handler
  BY DEF Fits
<1>2. op' \in [Processes -> Handler]
  BY <1>1 DEF Safe
<1>3. ASSUME NEW q \in Processes
      PROVE  Fits(op[q])'
  <2>1. CASE q = p
    <3>1. op'[q] = h
      BY <2>1 DEF Safe
    <3>2. QED
      BY <3>1 DEF Fits
  <2>2. CASE q # p
    <3>1. PICK o : o = op[q]
      OBVIOUS
    <3>2. op'[q] = o
      BY <2>2, <3>1 DEF Safe
    <3>3. Fits(o)
      BY <3>1 DEF Safe
    <3>4. Fits(o)'
      BY <3>3, FitsStays
    <3>5. QED
      BY <3>2, <3>4 DEF Fits
  <2>3. QED
    BY <2>1, <2>2
<1>4. QED
  BY <1>2, <1>3 DEF Safe

\* The special case of a step that only moves a handler.
LEMMA MoveStep ==
  ASSUME Safe, NEW p \in Processes, NEW h, Fits(h),
         op' = [op EXCEPT ![p] = h], UNCHANGED <<db, due, published>>
  PROVE  Safe'
<1>1. Grows
  BY UnchangedGrows
<1>2. StoreSafe'
  BY DEF Safe, StoreSafe, db, Assigned, OneAssignmentPerRight, Holding
<1>3. Fits(h)'
  BY <1>1, FitsStays
<1>4. QED
  BY <1>1, <1>2, <1>3, HandlerStep

-----------------------------------------------------------------------------
(* Every step keeps the invariant. *)

LEMMA InitIsSafe == Init => Safe
<1> SUFFICES ASSUME Init PROVE Safe
  OBVIOUS
<1>1. Assigned = {}
  BY DEF Init, Assigned
<1>2. Idle \in Handler
  BY IdleFits DEF Fits
<1>3. StoreSafe
  BY <1>1 DEF Init, StoreSafe, OneAssignmentPerRight, Holding
<1>4. QED
  BY <1>2, <1>3, IdleFits DEF Init, Safe

\* What a worker goes on with after a commit, or any handler after its last.
LEMMA ContinueFits ==
  ASSUME NEW o, Fits(o)
  PROVE  Fits(IF o.todo = {} THEN Idle
              ELSE [Idle EXCEPT !.step = "sweep", !.todo = o.todo])
<1>1. o.todo \subseteq AssignmentIds /\ o.todo \subseteq Assigned
  BY DEF Fits, Handler
<1>2. QED
  BY <1>1, IdleFits DEF Fits, Idle, NoPatch, Handler

LEMMA CommitIsSafe ==
  ASSUME Safe, NEW p \in Processes, Commit(p)
  PROVE  Safe'
<1> DEFINE next == IF op[p].todo = {} THEN Idle
                   ELSE [Idle EXCEPT !.step = "sweep", !.todo = op[p].todo]
<1>1. PICK o : o = op[p]
  OBVIOUS
<1>2. o \in Handler /\ Fits(o)
  BY <1>1 DEF Safe
<1>3. /\ o.status \in FactStatuses \union {None}
      /\ o.patch \in [AssignmentIds -> AssignmentRow \union {None}]
  BY <1>2 DEF Handler
<1>4. /\ known' \in [Subjects -> FactStatuses \union {None}]
      /\ \A s \in Subjects : known[s] # None => known'[s] # None
  <2>1. known' = IF o.status = None THEN known
                 ELSE [known EXCEPT ![o.subject] = o.status]
    BY <1>1 DEF Commit, Written
  <2>2. QED
    BY <1>3, <2>1 DEF Safe, StoreSafe
<1>5. \A a \in AssignmentIds :
        assignments'[a] = IF o.patch[a] = None THEN assignments[a]
                          ELSE o.patch[a]
  BY <1>1 DEF Commit, Patched
<1>6. assignments' \in [AssignmentIds -> AssignmentRow \union {None}]
  <2>1. assignments' = [a \in AssignmentIds |->
          IF o.patch[a] = None THEN assignments[a] ELSE o.patch[a]]
    BY <1>1 DEF Commit, Patched
  <2>2. QED
    BY <1>3, <2>1 DEF Safe, StoreSafe
<1>7. Assigned' = Assigned
  BY <1>2, <1>5 DEF Assigned, Fits
<1>8. \A a \in Assigned : /\ assignments'[a] # None
                          /\ assignments'[a].mem = assignments[a].mem
                          /\ assignments'[a].right = assignments[a].right
                          /\ Consistent(assignments'[a])
  BY <1>2, <1>5 DEF Assigned, Fits, Replaces, Safe, StoreSafe
<1>9. Grows
  BY <1>4, <1>8 DEF Grows
<1>10. StoreSafe'
  <2>1. \A a \in Assigned' : /\ known'[assignments'[a].mem] # None
                             /\ Consistent(assignments'[a])
    <3>1. \A a \in Assigned : assignments[a].mem \in Subjects
      BY DEF Assigned, Safe, StoreSafe, AssignmentRow, Subjects
    <3>2. QED
      BY <1>4, <1>7, <1>8, <3>1 DEF Safe, StoreSafe
  <2>2. OneAssignmentPerRight'
    BY <1>7, <1>8 DEF Safe, StoreSafe, OneAssignmentPerRight, Holding
  <2>3. due' \subseteq AssignmentIds /\ published' \subseteq Subjects \X Events
    BY DEF Commit, Safe, StoreSafe
  <2>4. (\A a \in Assigned : /\ known[assignments[a].mem] # None
                             /\ Consistent(assignments[a]))'
    BY <2>1 DEF Consistent
  <2>5. QED
    BY <1>4, <1>6, <2>2, <2>3, <2>4 DEF StoreSafe
<1>11. PICK h : h = next
  OBVIOUS
<1>12. Fits(h)
  BY <1>1, <1>2, <1>11, ContinueFits
<1>13. Fits(h)'
  BY <1>9, <1>12, FitsStays
<1>14. op' = [op EXCEPT ![p] = h]
  BY <1>11 DEF Commit, Continue, Goto
<1>15. QED
  BY <1>9, <1>10, <1>13, <1>14, HandlerStep

LEMMA AssignCommitIsSafe ==
  ASSUME Safe, NEW p \in Processes, NEW a \in AssignmentIds, AssignCommit(p, a)
  PROVE  Safe'
<1>1. PICK row : row = NewAssignment(op[p].subject, op[p].right, op[p].status)
  OBVIOUS
<1>2. /\ op[p].subject \in Memberships
      /\ op[p].right \in Rights
      /\ op[p].status \in {"pending", "active"}
      /\ known[op[p].subject] # None
  BY DEF Safe, Fits, AssignCommit, At
<1>3. /\ row \in AssignmentRow
      /\ row.mem = op[p].subject
      /\ row.right = op[p].right
      /\ Consistent(row)
  BY <1>1, <1>2
  DEF NewAssignment, AssignmentRow, AssignmentStatuses, Consistent
<1>4. /\ assignments[a] = None
      /\ Holding(row.mem, row.right) = {}
      /\ assignments' = [assignments EXCEPT ![a] = row]
      /\ known' = known
  BY <1>1 DEF AssignCommit, InsertAssignment
<1>5. row # None
  BY <1>3, NoneIsNoRow
<1>6. /\ Assigned' = Assigned \union {a}
      /\ \A b \in Assigned : assignments'[b] = assignments[b]
      /\ assignments'[a] = row
  BY <1>4, <1>5 DEF Assigned, Safe, StoreSafe
<1>7. Grows
  BY <1>4, <1>6 DEF Grows, Assigned
<1>8. StoreSafe'
  <2>1. OneAssignmentPerRight'
    <3>1. \A b \in Assigned :
            ~(assignments[b].mem = row.mem /\ assignments[b].right = row.right)
      BY <1>4 DEF Holding
    <3>2. QED
      BY <1>6, <3>1 DEF Safe, StoreSafe, OneAssignmentPerRight, Holding
  <2>2. (\A b \in Assigned : /\ known[assignments[b].mem] # None
                             /\ Consistent(assignments[b]))'
    BY <1>2, <1>3, <1>4, <1>6 DEF Safe, StoreSafe, Consistent
  <2>3. assignments' \in [AssignmentIds -> AssignmentRow \union {None}]
    BY <1>3, <1>4 DEF Safe, StoreSafe
  <2>4. QED
    BY <1>4, <2>1, <2>2, <2>3 DEF AssignCommit, Safe, StoreSafe
<1>9. Fits(Idle)'
  BY <1>7, IdleFits, FitsStays
<1>10. QED
  BY <1>7, <1>8, <1>9, HandlerStep DEF AssignCommit, Goto

\* A single-row patch of an assignment that is there.
LEMMA EndingFits ==
  ASSUME Safe, NEW a \in Assigned, NEW status \in Terminal
  PROVE  Fits([Idle EXCEPT
           !.step  = "commit",
           !.patch = [NoPatch EXCEPT ![a] = EndAssignment(assignments[a], status)]])
<1>1. Replaces(EndAssignment(assignments[a], status), assignments[a])
  BY EndingReplaces DEF Safe, StoreSafe, Assigned
<1>2. a \in AssignmentIds
  BY DEF Assigned
<1>3. QED
  BY <1>1, <1>2 DEF Fits, Idle, NoPatch, Handler, Replaces

\* Handlers that only remember what they read.
LEMMA ReactReadIsSafe ==
  ASSUME Safe, NEW p \in Processes, NEW s \in Subjects,
         NEW e \in Events, ReactRead(p, s, e)
  PROVE  Safe'
<1>1. PICK h : h = [Idle EXCEPT
        !.step    = IF e \in FactOnly THEN "commit" ELSE "load",
        !.subject = s,
        !.event   = e,
        !.status  = IF WritesFact(e, known[s]) THEN NextFact(e, known[s]) ELSE None,
        !.insert  = known[s] = None]
  OBVIOUS
<1>3. NextFact(e, known[s]) \in FactStatuses \union {None}
  BY FactTypes DEF Safe, StoreSafe
<1>4. h \in Handler
  <2>1. /\ (IF e \in FactOnly THEN "commit" ELSE "load") \in
              {"idle", "load", "commit", "check", "insert", "sweep"}
        /\ (IF WritesFact(e, known[s]) THEN NextFact(e, known[s]) ELSE None)
             \in FactStatuses \union {None}
        /\ (known[s] = None) \in BOOLEAN
    BY <1>3
  <2>2. QED
    BY <1>1, <2>1 DEF Idle, NoPatch, Handler
<1>5. h.patch = NoPatch /\ h.todo = {} /\ h.step \in {"commit", "load"}
  BY <1>1 DEF Idle
<1>e. h.event = e
  BY <1>1 DEF Idle
<1>6. Fits(h)
  BY <1>4, <1>5, <1>e DEF Fits, NoPatch
<1>7. QED
  BY <1>1, <1>6, MoveStep DEF ReactRead, Begin, Goto

LEMMA ReactLoadIsSafe ==
  ASSUME Safe, NEW p \in Processes, ReactLoad(p)
  PROVE  Safe'
<1>1. PICK o : o = op[p]
  OBVIOUS
<1>2. PICK patch : patch = Changes(o.event, o.subject)
  OBVIOUS
<1>3. o \in Handler /\ o.event \in Events
  BY <1>1 DEF Safe, Fits, ReactLoad, At
<1>4. ASSUME NEW a \in AssignmentIds, patch[a] # None
      PROVE  a \in Assigned /\ Replaces(patch[a], assignments[a])
  <2>1. a \in Affected(o.subject) /\ patch[a] = Transition(o.event, assignments[a])
    BY <1>2, <1>4 DEF Changes
  <2>2. a \in Assigned
    BY <2>1 DEF Affected
  <2>3. assignments[a] \in AssignmentRow /\ Consistent(assignments[a])
    BY <2>2 DEF Assigned, Safe, StoreSafe
  <2>4. QED
    BY <1>3, <2>1, <2>2, <2>3, TransitionReplaces
<1>5. patch \in [AssignmentIds -> AssignmentRow \union {None}]
  <2>1. \A a \in AssignmentIds : patch[a] \in AssignmentRow \union {None}
    BY <1>4 DEF Replaces
  <2>2. QED
    BY <1>2, <2>1 DEF Changes
<1>6. Fits([o EXCEPT !.step = "commit", !.patch = patch])
  <2>1. o.todo \subseteq Assigned
    BY <1>1 DEF Safe, Fits
  <2>2. QED
    BY <1>3, <1>4, <1>5, <2>1 DEF Fits, Handler
<1>7. PICK h : h = IF o.status = None /\ patch = NoPatch THEN Idle
                   ELSE [o EXCEPT !.step = "commit", !.patch = patch]
  OBVIOUS
<1>8. Fits(h)
  BY <1>6, <1>7, IdleFits
<1>9. op' = [op EXCEPT ![p] = h] /\ UNCHANGED <<db, due, published>>
  BY <1>1, <1>2, <1>7 DEF ReactLoad, Goto
<1>10. QED
  BY <1>8, <1>9, MoveStep

\* Whichever reaction reads, its event is about one of the subjects.
LEMMA ReactStepReads ==
  ASSUME NEW p, ReactStep(p), ~ReactLoad(p)
  PROVE  \E s \in Subjects, e \in Events : ReactRead(p, s, e)
<1>1. /\ Identities \subseteq Subjects
      /\ Memberships \subseteq Subjects
      /\ Tenants \subseteq Subjects
  BY DEF Subjects
<1>2. CASE \/ OnUserActivated(p) \/ OnUserDisabled(p)
           \/ OnUserArchived(p)  \/ OnUserRestored(p)
  <2>1. \E i \in Identities, e \in IdentityEvents : ReactRead(p, i, e)
    BY <1>2
    DEF OnUserActivated, OnUserDisabled, OnUserArchived, OnUserRestored,
        IdentityEvents
  <2>2. QED
    BY <1>1, <2>1 DEF Events
<1>3. CASE \/ OnMembershipCreated(p)   \/ OnMembershipActivated(p)
           \/ OnMembershipSuspended(p) \/ OnMembershipReactivated(p)
           \/ OnMembershipArchived(p)
  <2>1. \E m \in Memberships, e \in MembershipEvents : ReactRead(p, m, e)
    BY <1>3
    DEF OnMembershipCreated, OnMembershipActivated, OnMembershipSuspended,
        OnMembershipReactivated, OnMembershipArchived, MembershipEvents
  <2>2. QED
    BY <1>1, <2>1 DEF Events
<1>4. CASE \/ OnTenantCreated(p)   \/ OnTenantActivated(p)
           \/ OnTenantSuspended(p) \/ OnTenantReactivated(p)
           \/ OnTenantArchived(p)
  <2>1. \E t \in Tenants, e \in TenantEvents : ReactRead(p, t, e)
    BY <1>4
    DEF OnTenantCreated, OnTenantActivated, OnTenantSuspended,
        OnTenantReactivated, OnTenantArchived, TenantEvents
  <2>2. QED
    BY <1>1, <2>1 DEF Events
<1>5. QED
  BY <1>2, <1>3, <1>4 DEF ReactStep

LEMMA AssignReadIsSafe ==
  ASSUME Safe, NEW p \in Processes, NEW m \in Memberships,
         NEW r \in Rights, AssignRead(p, m, r)
  PROVE  Safe'
<1>1. PICK h : h = [Idle EXCEPT !.step = "check", !.subject = m,
                                !.right = r, !.status = known[m]]
  OBVIOUS
<1>2. known[m] \in {"pending", "active"} /\ m \in Subjects
  BY DEF AssignRead, Eligible, Subjects
<1>3. h \in Handler
  BY <1>1, <1>2 DEF Idle, NoPatch, Handler, FactStatuses
<1>4. known[m] # None
  BY <1>2, NoneIsNoRow DEF FactStatuses
<1>5. Fits(h)
  BY <1>1, <1>2, <1>3, <1>4 DEF Fits, Idle, NoPatch
<1>6. QED
  BY <1>1, <1>5, MoveStep DEF AssignRead, Begin, Goto

LEMMA AssignCheckIsSafe ==
  ASSUME Safe, NEW p \in Processes, AssignCheck(p)
  PROVE  Safe'
<1>1. PICK o : o = op[p]
  OBVIOUS
<1>2. Fits(o) /\ o.step = "check"
  BY <1>1 DEF Safe, AssignCheck, At
<1>3. Fits([o EXCEPT !.step = "insert"])
  BY <1>2 DEF Fits, Handler
<1>4. QED
  BY <1>1, <1>3, MoveStep DEF AssignCheck, Goto

LEMMA RemoveReadIsSafe ==
  ASSUME Safe, NEW p \in Processes, NEW a \in AssignmentIds, RemoveRead(p, a)
  PROVE  Safe'
<1>1. PICK h : h = [Idle EXCEPT
        !.step  = "commit",
        !.patch = [NoPatch EXCEPT ![a] =
                     EndAssignment(assignments[a], "removed")]]
  OBVIOUS
<1>3. a \in Assigned /\ "removed" \in Terminal
  BY DEF RemoveRead, Terminal
<1>4. Fits(h)
  BY <1>1, <1>3, EndingFits
<1>5. QED
  BY <1>1, <1>4, MoveStep DEF RemoveRead, Begin, Goto

LEMMA SweepReadIsSafe ==
  ASSUME Safe, NEW w \in Processes, SweepRead(w)
  PROVE  Safe'
<1>1. PICK h : h = [Idle EXCEPT !.step = "sweep", !.todo = FirstDue]
  OBVIOUS
<1>2. FirstDue \subseteq AssignmentIds /\ FirstDue \subseteq Assigned
  BY DEF FirstDue, DueActive, Assigned
<1>3. Fits(h)
  BY <1>1, <1>2 DEF Fits, Idle, NoPatch, Handler
<1>4. QED
  BY <1>1, <1>3, MoveStep DEF SweepRead, Begin, Goto

\* The list of a worker only holds rows that were there when it was read.
LEMMA SweepNextIsSafe ==
  ASSUME Safe, NEW w \in Processes, NEW a \in AssignmentIds, SweepNext(w, a)
  PROVE  Safe'
<1>1. PICK o : o = op[w]
  OBVIOUS
<1>2. o \in Handler
  BY <1>1 DEF Safe
<1>3. PICK row : row = EndAssignment(assignments[a], "expired")
  OBVIOUS
<1>4. PICK h : h = [o EXCEPT !.step  = "commit",
                             !.patch = [NoPatch EXCEPT ![a] = row],
                             !.todo  = @ \ {a}]
  OBVIOUS
<1>5. a \in Assigned /\ h.todo \subseteq Assigned
  BY <1>1, <1>2, <1>4 DEF SweepNext, Safe, Fits, Handler
<1>6. Replaces(row, assignments[a])
  BY <1>3, <1>5, EndingReplaces DEF Safe, StoreSafe, Assigned, Terminal
<1>7. h \in Handler
  BY <1>2, <1>4, <1>6 DEF Handler, NoPatch, Replaces
<1>8. h.patch = [NoPatch EXCEPT ![a] = row] /\ h.step = "commit"
  BY <1>2, <1>4 DEF Handler
<1>9. Fits(h)
  BY <1>5, <1>6, <1>7, <1>8 DEF Fits, NoPatch
<1>10. QED
  BY <1>1, <1>3, <1>4, <1>9, MoveStep DEF SweepNext, Goto

LEMMA SweepSkipIsSafe ==
  ASSUME Safe, NEW w \in Processes, NEW a \in AssignmentIds, SweepSkip(w, a)
  PROVE  Safe'
<1>1. PICK o : o = op[w]
  OBVIOUS
<1>2. Fits(o) /\ o.step = "sweep"
  BY <1>1 DEF Safe, SweepSkip, At
<1>3. PICK h : h = IF o.todo = {a} THEN Idle
                   ELSE [o EXCEPT !.todo = @ \ {a}]
  OBVIOUS
<1>4. Fits([o EXCEPT !.todo = @ \ {a}])
  BY <1>2 DEF Fits, Handler
<1>5. Fits(h)
  BY <1>3, <1>4, IdleFits
<1>6. QED
  BY <1>1, <1>3, <1>5, MoveStep DEF SweepSkip, Goto

LEMMA SweepFailIsSafe ==
  ASSUME Safe, NEW w \in Processes, SweepFail(w)
  PROVE  Safe'
<1>1. PICK o : o = op[w]
  OBVIOUS
<1>2. PICK h : h = IF o.todo = {} THEN Idle
                   ELSE [Idle EXCEPT !.step = "sweep", !.todo = o.todo]
  OBVIOUS
<1>3. Fits(h)
  BY <1>1, <1>2, ContinueFits DEF Safe
<1>4. QED
  BY <1>1, <1>2, <1>3, MoveStep DEF SweepFail, Continue, Goto

\* Other services, the clock and failures do not touch the store.
LEMMA EnvironmentIsSafe ==
  ASSUME Safe, EnvironmentStep
  PROVE  Safe'
<1>1. UNCHANGED <<db, op>>
  BY DEF EnvironmentStep, Publish, Lapse
<1>2. due' \subseteq AssignmentIds
  BY DEF EnvironmentStep, Publish, Lapse, Safe, StoreSafe, Assigned
<1>3. published' \subseteq Subjects \X Events
  <2>1. ASSUME NEW s \in Subjects, NEW e \in Events, Publish(s, e)
        PROVE  published' \subseteq Subjects \X Events
    BY <2>1 DEF Publish, Safe, StoreSafe
  <2>2. ASSUME NEW a \in AssignmentIds, Lapse(a)
        PROVE  published' \subseteq Subjects \X Events
    BY <2>2 DEF Lapse, Safe, StoreSafe
  <2>3. QED
    BY <2>1, <2>2 DEF EnvironmentStep, Subjects, Events
<1>4. Grows
  BY <1>1, UnchangedGrows
<1>5. StoreSafe'
  BY <1>1, <1>2, <1>3
  DEF db, Safe, StoreSafe, Assigned, OneAssignmentPerRight, Holding
<1>6. ASSUME NEW p \in Processes
      PROVE  Fits(op[p])'
  <2>1. PICK o : o = op[p]
    OBVIOUS
  <2>2. op'[p] = o
    BY <1>1, <2>1
  <2>3. Fits(o)'
    BY <1>4, <2>1, FitsStays DEF Safe
  <2>4. QED
    BY <2>2, <2>3 DEF Fits
<1>7. QED
  BY <1>1, <1>5, <1>6 DEF Safe

LEMMA StutterIsSafe ==
  ASSUME Safe, UNCHANGED vars
  PROVE  Safe'
<1>1. UNCHANGED <<known, assignments, due, published, op>>
  BY DEF vars
<1>2. QED
  BY <1>1
  DEF Safe, StoreSafe, Fits, Assigned, OneAssignmentPerRight, Holding

LEMMA NextIsSafe ==
  ASSUME Safe, [Next]_vars
  PROVE  Safe'
<1>o. Ops \subseteq Processes /\ Workers \subseteq Processes
  BY DEF Processes
<1>0. ASSUME NEW p \in Ops, ReactStep(p)
      PROVE  Safe'
  BY <1>o, <1>0, ReactStepReads, ReactReadIsSafe, ReactLoadIsSafe
<1>1. ASSUME NEW p \in Ops, AssignStep(p)
      PROVE  Safe'
  BY <1>o, <1>1, AssignReadIsSafe, AssignCheckIsSafe, AssignCommitIsSafe,
     RemoveReadIsSafe DEF AssignStep
<1>2. ASSUME NEW w \in Workers, WorkerStep(w)
      PROVE  Safe'
  BY <1>o, <1>2, SweepReadIsSafe, SweepNextIsSafe, SweepSkipIsSafe,
     SweepFailIsSafe DEF WorkerStep
<1>3. ASSUME NEW p \in Processes, Commit(p)
      PROVE  Safe'
  BY <1>3, CommitIsSafe
<1>4. ASSUME NEW p \in Processes, Abandon(p)
      PROVE  Safe'
  BY <1>4, IdleFits, MoveStep DEF Abandon, Goto
<1>5. QED
  BY <1>0, <1>1, <1>2, <1>3, <1>4, EnvironmentIsSafe, StutterIsSafe DEF Next

-----------------------------------------------------------------------------
(* Theorems. *)

\* Whatever reactions, requests and workers of however many servers do, the
\* store is safe and every handler's memory fits it.
THEOREM AccessIsSafe == Spec => []Safe
<1>1. Safe /\ [Next]_vars => Safe'
  BY NextIsSafe
<1>2. QED
  BY <1>1, InitIsSafe, PTL DEF Spec

\* Store and handlers keep their types.
THEOREM AccessTypeCorrect == Spec => []TypeOK
<1>1. Safe => TypeOK
  BY DEF Safe, StoreSafe, TypeOK
<1>2. QED
  BY <1>1, AccessIsSafe, PTL

\* What a handler read before its awaits still holds as far as its commit
\* relies on it: assignments are never deleted and never change hands, and
\* their memberships stay known.
THEOREM AccessStaleReads == Spec => []StaleReadsHold
<1>1. Safe => StaleReadsHold
  BY DEF Safe, StoreSafe, Fits, Replaces, StaleReadsHold
<1>2. QED
  BY <1>1, AccessIsSafe, PTL

\* Grants that race, and grants next to ended ones, leave at most one
\* assignment of a right to a membership.
THEOREM AtMostOneAssignment == Spec => []OneAssignmentPerRight
<1>1. Safe => OneAssignmentPerRight
  BY DEF Safe, StoreSafe
<1>2. QED
  BY <1>1, AccessIsSafe, PTL

\* Whole-document patches that overwrite each other may lose a cause, but
\* never leave an assignment active with one or suspended without one.
THEOREM SuspensionAlwaysConsistent == Spec => []SuspensionIsConsistent
<1>1. Safe => SuspensionIsConsistent
  BY DEF Safe, StoreSafe, SuspensionIsConsistent
<1>2. QED
  BY <1>1, AccessIsSafe, PTL

-----------------------------------------------------------------------------
(* One handler at a time. *)

\* An event is about a subject of the service that published it.
Concerns(s, e) ==
  /\ e \in IdentityEvents => s \in Identities
  /\ e \in MembershipEvents => s \in Memberships
  /\ e \in TenantEvents => s \in Tenants

EndPatch(a, status) == [NoPatch EXCEPT ![a] = EndAssignment(assignments[a], status)]

Fresh(o) ==
  /\ o.step \in {"load", "commit"} /\ o.event # None =>
       o.event \in Events /\ Concerns(o.subject, o.event)
  /\ o.step = "load" => o.event # None
  /\ o.step = "sweep" => o.event = None
  /\ o.step = "commit" =>
       \/ /\ o.event # None
          /\ o.patch = Changes(o.event, o.subject)
       \/ /\ o.event = None
          /\ \E a \in Assigned, status \in {"removed", "expired"} :
               MayEnd(assignments[a]) /\ o.patch = EndPatch(a, status)

PublishedFits == \A s, e : <<s, e>> \in published => Concerns(s, e)

Serial ==
  /\ OneHandler /\ SubjectsDisjoint
  /\ Safe
  /\ PublishedFits
  /\ \A p \in Processes : Fresh(op[p])

-----------------------------------------------------------------------------
(* The rules of the code and of the abstract lifecycle agree row by row.   *)

LEMMA SuspensionAgrees ==
  ASSUME NEW row \in AssignmentRow, Consistent(row), NEW source \in Sources
  PROVE  SuspendAssignment(row, source) =
           IF row.status \notin Lifecycle!Ended
           THEN [row EXCEPT !.sources = @ \union {source},
                            !.status = IF @ = "active" THEN "suspended" ELSE @]
           ELSE row
<1>1. Lifecycle!Ended = Terminal
  BY DEF Lifecycle!Ended, Terminal
<1>2. CASE row.status \in Terminal
  BY <1>1, <1>2 DEF SuspendAssignment
<1>3. CASE row.status \notin Terminal /\ source \in row.sources
  <2>1. row.status # "active" /\ row.sources \union {source} = row.sources
    BY <1>3 DEF Consistent
  <2>2. SuspendAssignment(row, source) = row
    BY <1>3 DEF SuspendAssignment
  <2>3. [row EXCEPT !.sources = @ \union {source},
                    !.status = IF @ = "active" THEN "suspended" ELSE @] = row
    BY <2>1 DEF AssignmentRow
  <2>4. QED
    BY <1>1, <1>3, <2>2, <2>3
<1>4. CASE row.status \notin Terminal /\ source \notin row.sources
  <2>1. SuspendAssignment(row, source) =
          [row EXCEPT !.status = IF @ = "active" THEN "suspended" ELSE @,
                      !.sources = @ \union {source}]
    BY <1>4 DEF SuspendAssignment
  <2>2. QED
    BY <1>1, <1>4, <2>1 DEF AssignmentRow
<1>5. QED
  BY <1>2, <1>3, <1>4

LEMMA RestorationAgrees ==
  ASSUME NEW row \in AssignmentRow, Consistent(row), NEW source \in Sources
  PROVE  RestoreAssignment(row, source) =
           [row EXCEPT !.sources = @ \ {source},
                       !.status = IF @ = "suspended" /\ row.sources \subseteq {source}
                                  THEN "active" ELSE @]
<1>1. CASE source \notin row.sources
  <2>1. row.sources \ {source} = row.sources
    BY <1>1
  <2>2. ~(row.status = "suspended" /\ row.sources \subseteq {source})
    BY <1>1 DEF Consistent
  <2>3. QED
    BY <1>1, <2>1, <2>2 DEF RestoreAssignment, AssignmentRow
<1>2. CASE source \in row.sources
  <2>1. row.sources \subseteq {source} <=> row.sources = {source}
    BY <1>2
  <2>2. RestoreAssignment(row, source) =
          [row EXCEPT !.status = IF @ = "suspended" /\ row.sources = {source}
                                 THEN "active" ELSE @,
                      !.sources = @ \ {source}]
    BY <1>2 DEF RestoreAssignment
  <2>3. QED
    BY <2>1, <2>2 DEF AssignmentRow
<1>3. QED
  BY <1>1, <1>2

\* The assignments a reaction lists are those of its subject.
LEMMA AffectedAgrees ==
  ASSUME SubjectsDisjoint, Safe, NEW s, NEW e \in Events, Concerns(s, e), NEW a \in AssignmentIds
  PROVE  a \in Affected(s) <=>
           Lifecycle!Exists(a) /\ Lifecycle!Of(a, SourceOf(e), s)
<1>1. CASE a \notin Assigned
  BY <1>1 DEF Affected, Assigned, Lifecycle!Exists
<1>2. CASE a \in Assigned
  <2>1. PICK m : m = assignments[a].mem
    OBVIOUS
  <2>2. m \in Memberships /\ known[m] # None
    BY <1>2, <2>1 DEF Safe, StoreSafe, Assigned, AssignmentRow
  <2>3. m[1] \in Identities /\ m[2] \in Tenants
    BY <2>2 DEF Memberships
  <2>4. a \in Affected(s) <=> m = s \/ m[1] = s \/ m[2] = s
    BY <1>2, <2>1, <2>2 DEF Affected
  <2>5. Lifecycle!Exists(a)
    BY <1>2 DEF Assigned, Lifecycle!Exists
  <2>6. CASE e \in IdentityEvents
    <3>1. s \in Identities /\ SourceOf(e) = "identity"
      BY <2>6 DEF Concerns, SourceOf
    <3>2. QED
      BY <2>1, <2>2, <2>3, <2>4, <2>5, <3>1 DEF Lifecycle!Of, SubjectsDisjoint
  <2>7. CASE e \in MembershipEvents
    <3>1. s \in Memberships /\ SourceOf(e) = "membership"
      BY <2>7 DEF Concerns, SourceOf, IdentityEvents, MembershipEvents
    <3>2. QED
      BY <2>1, <2>2, <2>3, <2>4, <2>5, <3>1 DEF Lifecycle!Of, SubjectsDisjoint
  <2>8. CASE e \in TenantEvents
    <3>1. s \in Tenants /\ SourceOf(e) = "tenant"
      BY <2>8
      DEF Concerns, SourceOf, IdentityEvents, MembershipEvents, TenantEvents
    <3>2. QED
      BY <2>1, <2>2, <2>3, <2>4, <2>5, <3>1 DEF Lifecycle!Of, SubjectsDisjoint
  <2>9. QED
    BY <2>6, <2>7, <2>8 DEF Events
<1>3. QED
  BY <1>1, <1>2

-----------------------------------------------------------------------------
(* A commit is a step of the abstract lifecycle. *)

LEMMA LifecycleCommit ==
  ASSUME Serial, NEW s, NEW e \in Events, Concerns(s, e),
         assignments' = Patched(Changes(e, s))
  PROVE  [Lifecycle!Next]_assignments
<1> DEFINE source == SourceOf(e)
           of(a)  == Lifecycle!Exists(a) /\ Lifecycle!Of(a, source, s)
<1>1. source \in Sources
  BY DEF SourceOf, Sources
<1>2. Safe /\ SubjectsDisjoint
  BY DEF Serial
<1>3. ASSUME NEW a \in AssignmentIds
      PROVE  assignments'[a] = IF of(a) THEN Transition(e, assignments[a])
                               ELSE assignments[a]
  <2>1. a \in Affected(s) <=> of(a)
    BY <1>2, AffectedAgrees
  <2>2. a \in Affected(s) => Transition(e, assignments[a]) # None
    <3>1. SUFFICES ASSUME a \in Affected(s)
                   PROVE  Transition(e, assignments[a]) # None
      OBVIOUS
    <3>2. assignments[a] \in AssignmentRow /\ Consistent(assignments[a])
      BY <1>2, <3>1 DEF Affected, Assigned, Safe, StoreSafe
    <3>3. QED
      BY <3>2, TransitionReplaces, NoneIsNoRow DEF Replaces
  <2>3. QED
    BY <2>1, <2>2 DEF Patched, Changes
<1>4. assignments' = [a \in AssignmentIds |-> assignments'[a]]
  BY DEF Patched
<1>5. ASSUME NEW a \in AssignmentIds, of(a)
      PROVE  assignments[a] \in AssignmentRow /\ Consistent(assignments[a])
  BY <1>2, <1>5 DEF Lifecycle!Exists, Assigned, Safe, StoreSafe
<1>6. Lifecycle!Lifecycle(source, s) => Lifecycle!Next
  <2>1. Lifecycle!Memberships = Memberships
    BY DEF Lifecycle!Memberships, Memberships
  <2>2. CASE e \in IdentityEvents
    BY <2>2 DEF SourceOf, Concerns, Lifecycle!Next
  <2>3. CASE e \in MembershipEvents
    BY <2>1, <2>3
    DEF SourceOf, Concerns, Lifecycle!Next, IdentityEvents, MembershipEvents
  <2>4. CASE e \in TenantEvents
    BY <2>4
    DEF SourceOf, Concerns, Lifecycle!Next, IdentityEvents, MembershipEvents,
        TenantEvents
  <2>5. QED
    BY <2>2, <2>3, <2>4 DEF Events
<1>t. \A a \in AssignmentIds :
        /\ e \in Suspends => Transition(e, assignments[a]) = SuspendAssignment(assignments[a], source)
        /\ e \in Restores => Transition(e, assignments[a]) = RestoreAssignment(assignments[a], source)
        /\ e \in Archives => Transition(e, assignments[a]) = ArchiveAssignment(assignments[a])
        /\ e \in FactOnly => Transition(e, assignments[a]) = assignments[a]
  BY TransitionByKind
<1>7. CASE e \in Suspends
  <2>1. ASSUME NEW a \in AssignmentIds
        PROVE  assignments'[a] =
                 IF Lifecycle!Live(a) /\ Lifecycle!Of(a, source, s)
                 THEN [assignments[a] EXCEPT
                         !.sources = @ \union {source},
                         !.status  = IF @ = "active" THEN "suspended" ELSE @]
                 ELSE assignments[a]
    <3>1. Transition(e, assignments[a]) = SuspendAssignment(assignments[a], source)
      BY <1>7, <1>t
    <3>2. CASE of(a)
      BY <1>1, <1>3, <1>5, <3>1, <3>2, SuspensionAgrees DEF Lifecycle!Live
    <3>3. CASE ~of(a)
      BY <1>3, <3>3 DEF Lifecycle!Live
    <3>4. QED
      BY <3>2, <3>3
  <2>2. Lifecycle!Suspend(source, s)
    BY <1>4, <2>1 DEF Lifecycle!Suspend
  <2>3. QED
    BY <1>6, <2>2 DEF Lifecycle!Lifecycle
<1>8. CASE e \in Restores
  <2>1. ASSUME NEW a \in AssignmentIds
        PROVE  assignments'[a] =
                 IF Lifecycle!Exists(a) /\ Lifecycle!Of(a, source, s)
                 THEN [assignments[a] EXCEPT
                         !.sources = @ \ {source},
                         !.status  = IF @ = "suspended"
                                        /\ assignments[a].sources \subseteq {source}
                                     THEN "active" ELSE @]
                 ELSE assignments[a]
    <3>1. Transition(e, assignments[a]) = RestoreAssignment(assignments[a], source)
      BY <1>8, <1>t
    <3>2. CASE of(a)
      BY <1>1, <1>3, <1>5, <3>1, <3>2, RestorationAgrees
    <3>3. CASE ~of(a)
      BY <1>3, <3>3
    <3>4. QED
      BY <3>2, <3>3
  <2>2. Lifecycle!Restore(source, s)
    BY <1>4, <2>1 DEF Lifecycle!Restore
  <2>3. QED
    BY <1>6, <2>2 DEF Lifecycle!Lifecycle
<1>9. CASE e \in Archives
  <2>1. ASSUME NEW a \in AssignmentIds
        PROVE  assignments'[a] =
                 IF Lifecycle!Live(a) /\ Lifecycle!Of(a, source, s)
                 THEN [assignments[a] EXCEPT !.status = "archived"]
                 ELSE assignments[a]
    <3>1. Transition(e, assignments[a]) = ArchiveAssignment(assignments[a])
      BY <1>9, <1>t
    <3>2. QED
      BY <1>3, <3>1
      DEF ArchiveAssignment, Lifecycle!Live, Lifecycle!Ended, Terminal
  <2>2. Lifecycle!Archive(source, s)
    BY <1>4, <2>1 DEF Lifecycle!Archive
  <2>3. QED
    BY <1>6, <2>2 DEF Lifecycle!Lifecycle
<1>10. CASE e \in FactOnly
  <2>1. \A a \in AssignmentIds : Transition(e, assignments[a]) = assignments[a]
    BY <1>10, <1>t
  <2>2. \A a \in AssignmentIds : assignments'[a] = assignments[a]
    BY <1>3, <2>1
  <2>3. assignments = [a \in AssignmentIds |-> assignments[a]]
    BY <1>2 DEF Safe, StoreSafe
  <2>4. QED
    BY <1>4, <2>2, <2>3
<1>11. QED
  BY <1>7, <1>8, <1>9, <1>10 DEF FactOnly

LEMMA EndingCommit ==
  ASSUME Serial, NEW a \in Assigned, NEW status \in {"removed", "expired"},
         MayEnd(assignments[a]), assignments' = Patched(EndPatch(a, status))
  PROVE  Lifecycle!Next
<1>1. a \in AssignmentIds /\ assignments[a] \in AssignmentRow
  BY DEF Assigned, Serial, Safe, StoreSafe
<1>2. PICK row : row = EndAssignment(assignments[a], status)
  OBVIOUS
<1>3. row # None
  <2>1. row \in AssignmentRow
    BY <1>1, <1>2
    DEF EndAssignment, AssignmentRow, AssignmentStatuses, Terminal
  <2>2. QED
    BY <2>1, NoneIsNoRow
<1>4. \A b \in AssignmentIds :
        assignments'[b] = IF b = a THEN row ELSE assignments[b]
  BY <1>1, <1>2, <1>3 DEF Patched, EndPatch, NoPatch
<1>5. assignments' = [assignments EXCEPT ![a] = row]
  <2>1. assignments' = [b \in AssignmentIds |-> assignments'[b]]
    BY DEF Patched
  <2>2. assignments \in [AssignmentIds -> AssignmentRow \union {None}]
    BY DEF Serial, Safe, StoreSafe
  <2>3. QED
    BY <1>4, <2>1, <2>2
<1>6. assignments' = [assignments EXCEPT ![a].status = status, ![a].sources = {}]
  BY <1>1, <1>2, <1>5 DEF EndAssignment, Serial, Safe, StoreSafe
<1>7. Lifecycle!Live(a)
  BY DEF Lifecycle!Live, Lifecycle!Exists, Lifecycle!Ended, MayEnd, Terminal,
         Assigned
<1>8. Lifecycle!End(a)
  BY <1>6, <1>7 DEF Lifecycle!End
<1>9. QED
  BY <1>1, <1>8 DEF Lifecycle!Next

LEMMA GrantCommit ==
  ASSUME Serial, NEW p \in Processes, NEW a \in AssignmentIds, AssignCommit(p, a)
  PROVE  Lifecycle!Next
<1>1. /\ op[p].subject \in Memberships
      /\ op[p].right \in Rights
      /\ op[p].status \in {"pending", "active"}
  BY DEF Serial, Safe, Fits, AssignCommit, At
<1>2. /\ assignments[a] = None
      /\ Holding(op[p].subject, op[p].right) = {}
      /\ assignments' = [assignments EXCEPT ![a] =
           [mem |-> op[p].subject, right |-> op[p].right,
            status |-> op[p].status, sources |-> {}]]
  BY DEF AssignCommit, InsertAssignment, NewAssignment
<1>3. \A b \in AssignmentIds :
        Lifecycle!Exists(b) =>
          ~(assignments[b].mem = op[p].subject /\ assignments[b].right = op[p].right)
  BY <1>2 DEF Holding, Assigned, Lifecycle!Exists
<1>4. Lifecycle!Grant(a)
  BY <1>1, <1>2, <1>3
  DEF Lifecycle!Grant, Lifecycle!Exists, Lifecycle!Memberships, Memberships
<1>5. QED
  BY <1>4 DEF Lifecycle!Next

-----------------------------------------------------------------------------
(* Every step keeps the invariant and is a step or a stutter of Lifecycle. *)

Refined == Serial' /\ [Lifecycle!Next]_assignments

LEMMA InitIsSerial == OneHandler /\ SubjectsDisjoint /\ Init => Serial
<1> SUFFICES ASSUME OneHandler, SubjectsDisjoint, Init PROVE Serial
  OBVIOUS
<1>1. PublishedFits
  BY DEF Init, PublishedFits
<1>2. \A p \in Processes : op[p] = Idle
  BY DEF Init
<1>3. Fresh(Idle)
  BY DEF Fresh, Idle
<1>4. QED
  BY <1>1, <1>2, <1>3, InitIsSafe DEF Serial

\* While the store stands still, what a handler read stays so.
LEMMA FreshStays ==
  ASSUME NEW h, Fresh(h), UNCHANGED <<known, assignments>>
  PROVE  Fresh(h)'
<1>1. Assigned' = Assigned
  BY DEF Assigned
<1>2. Changes(h.event, h.subject)' = Changes(h.event, h.subject)
  <2>1. Affected(h.subject)' = Affected(h.subject)
    BY <1>1 DEF Affected
  <2>2. QED
    BY <2>1 DEF Changes
<1>3. \A a, status : EndPatch(a, status)' = EndPatch(a, status)
  BY DEF EndPatch
<1>4. QED
  BY <1>1, <1>2, <1>3 DEF Fresh

\* A step of the one handler that leaves the store alone.
LEMMA MoveRefined ==
  ASSUME Serial, Safe', NEW p \in Processes, NEW h, Fresh(h),
         op' = [op EXCEPT ![p] = h], UNCHANGED <<db, due, published>>
  PROVE  Refined
<1>1. \A q \in Processes : op'[q] = h
  BY DEF Serial, Safe, OneHandler
<1>2. UNCHANGED <<known, assignments, published>>
  BY DEF db
<1>f. Fresh(h)'
  BY <1>2, FreshStays
<1>3. ASSUME NEW q \in Processes
      PROVE  Fresh(op[q])'
  <2>1. op'[q] = h
    BY <1>1
  <2>2. QED
    BY <1>f, <2>1 DEF Fresh
<1>4. (\A q \in Processes : Fresh(op[q]))'
  BY <1>3
<1>5. PublishedFits'
  BY <1>2 DEF Serial, PublishedFits
<1>6. QED
  BY <1>2, <1>4, <1>5 DEF Refined, Serial

\* A commit: the handler ends or goes on with its list, and remembers nothing.
Rests(h) == h.step \in {"idle", "sweep"} /\ h.event = None /\ h.status = None

LEMMA CommitKeepsSerial ==
  ASSUME Serial, Safe', NEW p \in Processes, NEW h, Rests(h),
         op' = [op EXCEPT ![p] = h], UNCHANGED published
  PROVE  Serial'
<1>1. \A q \in Processes : op'[q] = h
  BY DEF Serial, Safe, OneHandler
<1>2. ASSUME NEW q \in Processes
      PROVE  Fresh(op[q])'
  <2>1. op'[q] = h
    BY <1>1
  <2>2. QED
    BY <2>1 DEF Rests, Fresh
<1>3. PublishedFits'
  BY DEF Serial, PublishedFits
<1>4. QED
  BY <1>2, <1>3 DEF Serial

LEMMA CommitRefined ==
  ASSUME Serial, Safe', NEW p \in Processes, Commit(p)
  PROVE  Refined
<1>1. PICK o : o = op[p]
  OBVIOUS
<1>2. o.step = "commit" /\ assignments' = Patched(o.patch)
  BY <1>1 DEF Commit, At
<1>3. Fresh(o)
  BY <1>1 DEF Serial
<1>4. [Lifecycle!Next]_assignments
  <2>1. CASE o.event # None /\ o.patch = Changes(o.event, o.subject)
    <3>1. o.event \in Events /\ Concerns(o.subject, o.event)
      BY <1>2, <1>3, <2>1 DEF Fresh
    <3>2. QED
      BY <1>2, <2>1, <3>1, LifecycleCommit
  <2>2. CASE \E a \in Assigned, status \in {"removed", "expired"} :
               MayEnd(assignments[a]) /\ o.patch = EndPatch(a, status)
    BY <1>2, <2>2, EndingCommit
  <2>3. QED
    BY <1>2, <1>3, <2>1, <2>2 DEF Fresh
<1>5. PICK h : h = IF o.todo = {} THEN Idle
                   ELSE [Idle EXCEPT !.step = "sweep", !.todo = o.todo]
  OBVIOUS
<1>6. Rests(h)
  BY <1>5 DEF Rests, Idle
<1>7. op' = [op EXCEPT ![p] = h] /\ UNCHANGED published
  BY <1>1, <1>5 DEF Commit, Continue, Goto
<1>8. Serial'
  BY <1>6, <1>7, CommitKeepsSerial
<1>9. QED
  BY <1>4, <1>8 DEF Refined

LEMMA ReactRefined ==
  ASSUME Serial, Safe', NEW p \in Processes, ReactStep(p)
  PROVE  Refined
<1>1. ASSUME NEW s \in Subjects, NEW e \in Events, ReactRead(p, s, e)
      PROVE  Refined
  <2>1. PICK h : h = [Idle EXCEPT
          !.step    = IF e \in FactOnly THEN "commit" ELSE "load",
          !.subject = s,
          !.event   = e,
          !.status  = IF WritesFact(e, known[s]) THEN NextFact(e, known[s]) ELSE None,
          !.insert  = known[s] = None]
    OBVIOUS
  <2>2. /\ h.step = (IF e \in FactOnly THEN "commit" ELSE "load")
        /\ h.event = e /\ h.subject = s /\ h.patch = NoPatch
    BY <2>1 DEF Idle
  <2>3. e \in Events /\ e # None /\ Concerns(s, e)
    BY <1>1, NoneIsNothing
    DEF ReactRead, Serial, PublishedFits
  <2>4. e \in FactOnly => Changes(e, s) = NoPatch
    BY TransitionByKind DEF Changes, NoPatch
  <2>5. Fresh(h)
    BY <2>2, <2>3, <2>4 DEF Fresh
  <2>6. QED
    BY <1>1, <2>1, <2>5, MoveRefined DEF ReactRead, Begin, Goto
<1>2. CASE ReactLoad(p)
  <2>1. PICK o : o = op[p]
    OBVIOUS
  <2>2. o.step = "load" /\ Fresh(o) /\ o \in Handler
    BY <1>2, <2>1 DEF ReactLoad, At, Serial, Safe
  <2>3. PICK patch : patch = Changes(o.event, o.subject)
    OBVIOUS
  <2>4. PICK g : g = [o EXCEPT !.step = "commit", !.patch = patch]
    OBVIOUS
  <2>5. /\ g.step = "commit" /\ g.patch = patch
        /\ g.event = o.event /\ g.subject = o.subject
    BY <2>2, <2>4 DEF Handler
  <2>6. Fresh(g)
    BY <2>2, <2>3, <2>5 DEF Fresh
  <2>7. PICK h : h = IF o.status = None /\ patch = NoPatch THEN Idle ELSE g
    OBVIOUS
  <2>8. Fresh(h)
    BY <2>6, <2>7 DEF Fresh, Idle
  <2>9. QED
    BY <1>2, <2>1, <2>3, <2>4, <2>7, <2>8, MoveRefined DEF ReactLoad, Goto
<1>3. QED
  BY <1>1, <1>2, ReactStepReads

LEMMA AssignRefined ==
  ASSUME Serial, Safe', NEW p \in Processes, AssignStep(p)
  PROVE  Refined
<1>1. ASSUME NEW m \in Memberships, NEW r \in Rights, AssignRead(p, m, r)
      PROVE  Refined
  <2>1. PICK h : h = [Idle EXCEPT !.step = "check", !.subject = m,
                                  !.right = r, !.status = known[m]]
    OBVIOUS
  <2>2. Fresh(h)
    BY <2>1 DEF Fresh, Idle
  <2>3. QED
    BY <1>1, <2>1, <2>2, MoveRefined DEF AssignRead, Begin, Goto
<1>2. CASE AssignCheck(p)
  <2>1. PICK h : h = [op[p] EXCEPT !.step = "insert"]
    OBVIOUS
  <2>2. op[p] \in Handler
    BY DEF Serial, Safe
  <2>3. h.step = "insert"
    BY <2>1, <2>2 DEF Handler
  <2>4. Fresh(h)
    BY <2>3 DEF Fresh
  <2>5. QED
    BY <1>2, <2>1, <2>4, MoveRefined DEF AssignCheck, Goto
<1>3. ASSUME NEW a \in AssignmentIds, AssignCommit(p, a)
      PROVE  Refined
  <2>1. Lifecycle!Next
    BY <1>3, GrantCommit
  <2>2. Rests(Idle)
    BY DEF Rests, Idle
  <2>3. op' = [op EXCEPT ![p] = Idle] /\ UNCHANGED published
    BY <1>3 DEF AssignCommit, Goto
  <2>4. Serial'
    BY <2>2, <2>3, CommitKeepsSerial
  <2>5. QED
    BY <2>1, <2>4 DEF Refined
<1>4. ASSUME NEW a \in AssignmentIds, RemoveRead(p, a)
      PROVE  Refined
  <2>1. PICK h : h = [Idle EXCEPT !.step  = "commit",
                                  !.patch = EndPatch(a, "removed")]
    OBVIOUS
  <2>2. h.step = "commit" /\ h.event = None /\ h.patch = EndPatch(a, "removed")
    BY <2>1 DEF Idle
  <2>3. Fresh(h)
    BY <1>4, <2>2 DEF Fresh, RemoveRead
  <2>4. QED
    BY <1>4, <2>1, <2>3, MoveRefined DEF RemoveRead, Begin, Goto, EndPatch
<1>5. QED
  BY <1>1, <1>2, <1>3, <1>4 DEF AssignStep

LEMMA WorkerRefined ==
  ASSUME Serial, Safe', NEW w \in Processes, WorkerStep(w)
  PROVE  Refined
<1>1. PICK o : o = op[w]
  OBVIOUS
<1>2. o \in Handler /\ Fits(o)
  BY <1>1 DEF Serial, Safe
<1>3. CASE SweepRead(w)
  <2>1. PICK h : h = [Idle EXCEPT !.step = "sweep", !.todo = FirstDue]
    OBVIOUS
  <2>2. Fresh(h)
    BY <2>1 DEF Fresh, Idle
  <2>3. QED
    BY <1>3, <2>1, <2>2, MoveRefined DEF SweepRead, Begin, Goto
<1>4. CASE SweepFail(w)
  <2>1. PICK h : h = IF o.todo = {} THEN Idle
                     ELSE [Idle EXCEPT !.step = "sweep", !.todo = o.todo]
    OBVIOUS
  <2>2. h.step \in {"idle", "sweep"} /\ h.event = None
    BY <2>1 DEF Idle
  <2>3. Fresh(h)
    BY <2>2 DEF Fresh
  <2>4. QED
    BY <1>1, <1>4, <2>1, <2>3, MoveRefined DEF SweepFail, Continue, Goto
<1>5. ASSUME NEW a \in AssignmentIds, SweepNext(w, a)
      PROVE  Refined
  <2>1. PICK h : h = [o EXCEPT !.step  = "commit",
                               !.patch = EndPatch(a, "expired"),
                               !.todo  = @ \ {a}]
    OBVIOUS
  <2>2. h.step = "commit" /\ h.patch = EndPatch(a, "expired") /\ h.event = o.event
    BY <1>2, <2>1 DEF Handler
  <2>3. a \in Assigned /\ MayEnd(assignments[a])
    BY <1>1, <1>2, <1>5 DEF SweepNext, MayExpire, MayEnd, Fits
  <2>4. o.event = None
    BY <1>1, <1>5 DEF SweepNext, At, Serial, Fresh
  <2>5. Fresh(h)
    BY <2>2, <2>3, <2>4 DEF Fresh
  <2>6. QED
    BY <1>1, <1>5, <2>1, <2>5, MoveRefined DEF SweepNext, Goto, EndPatch
<1>6. ASSUME NEW a \in AssignmentIds, SweepSkip(w, a)
      PROVE  Refined
  <2>1. PICK h : h = IF o.todo = {a} THEN Idle
                     ELSE [o EXCEPT !.todo = @ \ {a}]
    OBVIOUS
  <2>2. o.step = "sweep" /\ o.event = None
    BY <1>1, <1>6 DEF SweepSkip, At, Serial, Fresh
  <2>3. h.step \in {"idle", "sweep"} /\ h.event = None
    BY <1>2, <2>1, <2>2 DEF Idle, Handler
  <2>4. Fresh(h)
    BY <2>3 DEF Fresh
  <2>5. QED
    BY <1>1, <1>6, <2>1, <2>4, MoveRefined DEF SweepSkip, Goto
<1>7. QED
  BY <1>3, <1>4, <1>5, <1>6 DEF WorkerStep

LEMMA EnvironmentRefined ==
  ASSUME Serial, Safe', EnvironmentStep
  PROVE  Refined
<1>1. UNCHANGED <<known, assignments, op>>
  BY DEF EnvironmentStep, Publish, Lapse, db
<1>2. PublishedFits'
  <2>1. ASSUME NEW s, NEW e, Publish(s, e), Concerns(s, e)
        PROVE  PublishedFits'
    BY <2>1 DEF Publish, Serial, PublishedFits
  <2>2. /\ \A i \in Identities, e \in IdentityEvents : Concerns(i, e)
        /\ \A m \in Memberships, e \in MembershipEvents : Concerns(m, e)
        /\ \A t \in Tenants, e \in TenantEvents : Concerns(t, e)
    BY DEF Concerns, IdentityEvents, MembershipEvents, TenantEvents
  <2>3. ASSUME NEW a \in AssignmentIds, Lapse(a)
        PROVE  PublishedFits'
    BY <2>3 DEF Lapse, Serial, PublishedFits
  <2>4. QED
    BY <2>1, <2>2, <2>3 DEF EnvironmentStep
<1>3. ASSUME NEW q \in Processes
      PROVE  Fresh(op[q])'
  <2>1. PICK h : h = op[q]
    OBVIOUS
  <2>2. op'[q] = h /\ Fresh(h)
    BY <1>1, <2>1 DEF Serial
  <2>3. Fresh(h)'
    BY <1>1, <2>2, FreshStays
  <2>4. QED
    BY <2>2, <2>3 DEF Fresh
<1>4. QED
  BY <1>1, <1>2, <1>3 DEF Refined, Serial

LEMMA StutterRefined ==
  ASSUME Serial, Safe', UNCHANGED vars
  PROVE  Refined
<1>1. UNCHANGED <<known, assignments, published, op>>
  BY DEF vars
<1>2. PublishedFits'
  BY <1>1 DEF Serial, PublishedFits
<1>3. ASSUME NEW q \in Processes
      PROVE  Fresh(op[q])'
  <2>1. PICK h : h = op[q]
    OBVIOUS
  <2>2. op'[q] = h /\ Fresh(h)
    BY <1>1, <2>1 DEF Serial
  <2>3. Fresh(h)'
    BY <1>1, <2>2, FreshStays
  <2>4. QED
    BY <2>2, <2>3 DEF Fresh
<1>4. QED
  BY <1>1, <1>2, <1>3 DEF Refined, Serial

LEMMA NextRefined ==
  ASSUME Serial, [Next]_vars
  PROVE  Refined
<1>o. Ops \subseteq Processes /\ Workers \subseteq Processes
  BY DEF Processes
<1>s. Safe'
  BY NextIsSafe DEF Serial
<1>1. ASSUME NEW p \in Ops, ReactStep(p) \/ AssignStep(p)
      PROVE  Refined
  BY <1>o, <1>s, <1>1, ReactRefined, AssignRefined
<1>2. ASSUME NEW w \in Workers, WorkerStep(w)
      PROVE  Refined
  BY <1>o, <1>s, <1>2, WorkerRefined
<1>3. ASSUME NEW p \in Processes, Commit(p)
      PROVE  Refined
  BY <1>s, <1>3, CommitRefined
<1>4. ASSUME NEW p \in Processes, Abandon(p)
      PROVE  Refined
  <2>1. Fresh(Idle)
    BY DEF Fresh, Idle
  <2>2. QED
    BY <1>s, <1>4, <2>1, MoveRefined DEF Abandon, Goto
<1>5. QED
  BY <1>s, <1>1, <1>2, <1>3, <1>4, EnvironmentRefined, StutterRefined DEF Next

-----------------------------------------------------------------------------
\* With one handler at a time, crashes and redeliveries included, the service
\* does to assignments what AssignmentLifecycle promises, for any identities,
\* tenants, rights and assignments, as long as ids of subjects do not clash.
THEOREM OneHandlerImplementsLifecycle ==
  ASSUME OneHandler, SubjectsDisjoint
  PROVE  Spec => ImplementsLifecycle
<1>1. Init => Lifecycle!Init
  BY DEF Init, Lifecycle!Init
<1>2. Serial /\ [Next]_vars => Serial' /\ [Lifecycle!Next]_assignments
  BY NextRefined DEF Refined
<1>3. Init => Serial
  BY InitIsSerial
<1>4. QED
  BY <1>1, <1>2, <1>3, PTL DEF Spec, ImplementsLifecycle, Lifecycle!Spec

-----------------------------------------------------------------------------
(* The known facts and the assignments move together. *)

\* What one handler knows of the fact it will write is still so.
FactFresh(o) ==
  /\ o.step \in {"load", "commit"} =>
       o.status = IF o.event = None \/ ~WritesFact(o.event, known[o.subject])
                  THEN None ELSE NextFact(o.event, known[o.subject])
  /\ o.step = "sweep" => o.status = None
  /\ o.step \in {"check", "insert"} => Eligible(o.subject)

\* The strengthening: it is the membership's own cause that keeps an
\* assignment of a suspended membership from coming back.
Governs(fact, row) ==
  /\ fact = "suspended" => row.status \in Terminal \/ "membership" \in row.sources
  /\ fact = "archived" => row.status \in Terminal

StoreGoverned ==
  \A a \in Assigned : Governs(known[assignments[a].mem], assignments[a])

Governed ==
  /\ Serial
  /\ \A p \in Processes : FactFresh(op[p])
  /\ StoreGoverned

\* The reaction of the membership itself brings its assignments in line ...
LEMMA OwnEventGoverns ==
  ASSUME NEW row \in AssignmentRow, NEW fact, NEW e \in MembershipEvents,
         Governs(fact, row)
  PROVE  Governs(NextFact(e, fact), Transition(e, row))
<1>1. CASE e = "membership.created"
  <2>1. Transition(e, row) = row
    BY <1>1, TransitionByKind
    DEF Events, FactOnly, Suspends, Restores, Archives
  <2>2. NextFact(e, fact) \in {fact, "pending"}
    BY <1>1 DEF NextFact, RecordKnownMembership, Unless
  <2>3. QED
    BY <2>1, <2>2 DEF Governs
<1>2. CASE e \in {"membership.activated", "membership.reactivated"}
  <2>1. NextFact(e, fact) = "active"
    BY <1>2
    DEF NextFact, ActivateKnownMembership, ReactivateKnownMembership
  <2>2. QED
    BY <2>1 DEF Governs
<1>3. CASE e = "membership.suspended"
  <2>1. NextFact(e, fact) = "suspended"
    BY <1>3 DEF NextFact, SuspendKnownMembership
  <2>2. Transition(e, row) = SuspendAssignment(row, "membership")
    BY <1>3, TransitionByKind
    DEF Events, Suspends, SourceOf, IdentityEvents, MembershipEvents
  <2>3. QED
    BY <2>1, <2>2 DEF Governs, SuspendAssignment, AssignmentRow
<1>4. CASE e = "membership.archived"
  <2>1. NextFact(e, fact) = "archived"
    BY <1>4 DEF NextFact, ArchiveKnownMembership
  <2>2. Transition(e, row) = ArchiveAssignment(row)
    BY <1>4, TransitionByKind DEF Events, Archives, MembershipEvents
  <2>3. QED
    BY <2>1, <2>2 DEF Governs, ArchiveAssignment, AssignmentRow, Terminal
<1>5. QED
  BY <1>1, <1>2, <1>3, <1>4 DEF MembershipEvents

\* ... and those of its identity and tenant do not undo that.
LEMMA OtherEventGoverns ==
  ASSUME NEW row \in AssignmentRow, NEW fact,
         NEW e \in Events, e \notin MembershipEvents, Governs(fact, row)
  PROVE  Governs(fact, Transition(e, row))
<1> DEFINE source == SourceOf(e)
           next == Transition(e, row)
<1>1. source # "membership"
  BY DEF SourceOf
<1>2. /\ row.status \in Terminal => next.status \in Terminal
      /\ "membership" \in row.sources =>
           "membership" \in next.sources \/ next.status \in Terminal
  <2>1. CASE e \in Suspends
    <3>1. next = SuspendAssignment(row, source)
      BY <2>1, TransitionByKind
    <3>2. QED
      BY <3>1 DEF SuspendAssignment, AssignmentRow, Terminal
  <2>2. CASE e \in Restores
    <3>1. next = RestoreAssignment(row, source)
      BY <2>2, TransitionByKind
    <3>2. QED
      BY <1>1, <3>1 DEF RestoreAssignment, AssignmentRow, Terminal
  <2>3. CASE e \in Archives
    <3>1. next = ArchiveAssignment(row)
      BY <2>3, TransitionByKind
    <3>2. QED
      BY <3>1 DEF ArchiveAssignment, AssignmentRow, Terminal
  <2>4. CASE e \in FactOnly
    <3>1. next = row
      BY <2>4, TransitionByKind
    <3>2. QED
      BY <3>1
  <2>5. QED
    BY <2>1, <2>2, <2>3, <2>4 DEF FactOnly
<1>3. QED
  BY <1>2 DEF Governs

\* A commit writes the fact that follows from the stored one.
LEMMA CommitWritesNext ==
  ASSUME Governed, NEW p \in Processes, Commit(p), NEW o, o = op[p]
  PROVE  \A t \in Subjects :
           known'[t] = IF o.event # None /\ t = o.subject
                       THEN NextFact(o.event, known[t]) ELSE known[t]
<1>1. o.step = "commit" /\ FactFresh(o) /\ o \in Handler
  BY DEF Governed, Commit, At, Serial, Safe, Fits
<1>e. o.event # None => o.event \in Events /\ o.subject \in Subjects
  BY <1>1 DEF Governed, Serial, Fresh, Concerns, Events, Subjects
<1>2. known \in [Subjects -> FactStatuses \union {None}]
  BY DEF Governed, Serial, Safe, StoreSafe
<1>3. known' = IF o.status = None THEN known
               ELSE [known EXCEPT ![o.subject] = o.status]
  BY DEF Commit, Written
<1>4. CASE o.status = None
  <2>1. o.event = None \/ NextFact(o.event, known[o.subject]) = known[o.subject]
    <3>1. SUFFICES ASSUME o.event # None
                   PROVE  NextFact(o.event, known[o.subject]) = known[o.subject]
      OBVIOUS
    <3>2. o.event \in Events /\ o.subject \in Subjects
      BY <1>e, <3>1
    <3>3. NextFact(o.event, known[o.subject]) # None
      BY <1>2, <3>2, FactTypes, NoneIsNoRow
    <3>4. QED
      BY <1>1, <1>4, <3>1, <3>3 DEF FactFresh, WritesFact
  <2>2. QED
    BY <1>3, <1>4, <2>1
<1>5. CASE o.status # None
  BY <1>1, <1>2, <1>3, <1>5, <1>e DEF FactFresh
<1>6. QED
  BY <1>4, <1>5

\* The one handler moves and the store stands still.
LEMMA MoveGoverned ==
  ASSUME Governed, Serial', NEW p \in Processes, NEW h, FactFresh(h),
         op' = [op EXCEPT ![p] = h], UNCHANGED <<db, due, published>>
  PROVE  Governed'
<1>1. \A q \in Processes : op'[q] = h
  BY DEF Governed, Serial, Safe, OneHandler
<1>2. UNCHANGED <<known, assignments>>
  BY DEF db
<1>3. FactFresh(h)'
  BY <1>2 DEF FactFresh, Eligible
<1>4. ASSUME NEW q \in Processes
      PROVE  FactFresh(op[q])'
  <2>1. op'[q] = h
    BY <1>1
  <2>2. QED
    BY <1>3, <2>1 DEF FactFresh
<1>5. (\A q \in Processes : FactFresh(op[q]))'
  BY <1>4
<1>6. QED
  BY <1>2, <1>5 DEF Governed, StoreGoverned, Assigned

\* The one handler is done with its commit.
LEMMA RestGoverned ==
  ASSUME Governed, Serial', NEW p \in Processes,
         NEW h, Rests(h), op' = [op EXCEPT ![p] = h],
         StoreGoverned'
  PROVE  Governed'
<1>1. \A q \in Processes : op'[q] = h
  BY DEF Governed, Serial, Safe, OneHandler
<1>2. ASSUME NEW q \in Processes
      PROVE  FactFresh(op[q])'
  <2>1. op'[q] = h
    BY <1>1
  <2>2. QED
    BY <2>1 DEF Rests, FactFresh
<1>3. (\A q \in Processes : FactFresh(op[q]))'
  BY <1>2
<1>4. QED
  BY <1>3 DEF Governed

LEMMA InitIsGoverned == OneHandler /\ SubjectsDisjoint /\ Init => Governed
<1> SUFFICES ASSUME OneHandler, SubjectsDisjoint, Init PROVE Governed
  OBVIOUS
<1>1. Serial /\ Assigned = {}
  BY InitIsSerial DEF Init, Assigned
<1>2. \A p \in Processes : op[p].step = "idle"
  BY DEF Init, Idle
<1>3. QED
  BY <1>1, <1>2 DEF Governed, StoreGoverned, FactFresh

\* A reaction commits the fact and the assignments of its subject together.
LEMMA ReactionGoverns ==
  ASSUME Governed, NEW s, NEW e \in Events, Concerns(s, e),
         \A t \in Subjects :
           known'[t] = IF t = s THEN NextFact(e, known[t]) ELSE known[t],
         assignments' = Patched(Changes(e, s)),
         NEW a \in Assigned'
  PROVE  Governs(known'[assignments'[a].mem], assignments'[a])
<1>1. Safe /\ SubjectsDisjoint
  BY DEF Governed, Serial
<1>2. a \in AssignmentIds
  BY DEF Assigned
<1>t. a \in Affected(s) => Transition(e, assignments[a]) # None
  <2>1. a \in Affected(s) =>
          assignments[a] \in AssignmentRow /\ Consistent(assignments[a])
    BY <1>1 DEF Affected, Assigned, Safe, StoreSafe
  <2>2. QED
    BY <2>1, TransitionReplaces, NoneIsNoRow DEF Replaces
<1>3. assignments'[a] = IF a \in Affected(s) THEN Transition(e, assignments[a])
                        ELSE assignments[a]
  BY <1>2, <1>t DEF Patched, Changes
<1>4. a \in Assigned
  BY <1>2, <1>3 DEF Affected, Assigned
<1>5. PICK row : row = assignments[a]
  OBVIOUS
<1>6. PICK m : m = row.mem
  OBVIOUS
<1>7. row \in AssignmentRow /\ Consistent(row) /\ known[m] # None
  BY <1>1, <1>4, <1>5, <1>6 DEF Safe, StoreSafe, Assigned
<1>8. m \in Memberships /\ m[1] \in Identities /\ m[2] \in Tenants
  BY <1>6, <1>7 DEF AssignmentRow, Memberships
<1>9. Transition(e, row).mem = m
  BY <1>6, <1>7, TransitionReplaces DEF Replaces
<1>10. Governs(known[m], row)
  BY <1>4, <1>5, <1>6 DEF Governed, StoreGoverned
<1>11. a \in Affected(s) <=> m = s \/ m[1] = s \/ m[2] = s
  BY <1>4, <1>5, <1>6, <1>7 DEF Affected
<1>12. m \in Subjects
  BY <1>8 DEF Subjects
<1>13. CASE m = s
  <2>1. e \in MembershipEvents
    BY <1>1, <1>8, <1>13 DEF SubjectsDisjoint, Concerns, Events
  <2>2. Governs(NextFact(e, known[m]), Transition(e, row))
    BY <1>7, <1>10, <2>1, OwnEventGoverns
  <2>3. known'[m] = NextFact(e, known[m]) /\ assignments'[a] = Transition(e, row)
    BY <1>3, <1>5, <1>11, <1>12, <1>13
  <2>4. QED
    BY <1>9, <2>2, <2>3
<1>14. CASE m # s
  <2>1. known'[m] = known[m]
    BY <1>12, <1>14
  <2>2. CASE a \notin Affected(s)
    BY <1>3, <1>5, <1>6, <1>10, <2>1, <2>2
  <2>3. CASE a \in Affected(s)
    <3>1. e \notin MembershipEvents
      BY <1>1, <1>8, <1>11, <1>14, <2>3 DEF SubjectsDisjoint, Concerns
    <3>2. Governs(known[m], Transition(e, row))
      BY <1>7, <1>10, <3>1, OtherEventGoverns
    <3>3. QED
      BY <1>3, <1>5, <1>9, <2>1, <2>3, <3>2
  <2>4. QED
    BY <2>2, <2>3
<1>15. QED
  BY <1>13, <1>14

\* An assignment that ends is governed whatever the fact.
LEMMA EndingGoverns ==
  ASSUME Governed, NEW b \in Assigned, NEW status \in {"removed", "expired"},
         \A t \in Subjects : known'[t] = known[t],
         assignments' = Patched(EndPatch(b, status)),
         NEW a \in Assigned'
  PROVE  Governs(known'[assignments'[a].mem], assignments'[a])
<1>1. b \in AssignmentIds /\ assignments[b] \in AssignmentRow
  BY DEF Assigned, Governed, Serial, Safe, StoreSafe
<1>2. PICK row : row = EndAssignment(assignments[b], status)
  OBVIOUS
<1>3. row.status \in Terminal /\ row \in AssignmentRow
  BY <1>1, <1>2
  DEF EndAssignment, AssignmentRow, AssignmentStatuses, Terminal
<1>4. a \in AssignmentIds /\ row # None
  BY <1>3, NoneIsNoRow DEF Assigned
<1>5. assignments'[a] = IF a = b THEN row ELSE assignments[a]
  BY <1>1, <1>2, <1>4 DEF Patched, EndPatch, NoPatch
<1>6. CASE a = b
  BY <1>3, <1>5, <1>6 DEF Governs
<1>7. CASE a # b
  <2>1. a \in Assigned
    BY <1>4, <1>5, <1>7 DEF Assigned
  <2>2. assignments[a].mem \in Subjects
    BY <2>1 DEF Assigned, Governed, Serial, Safe, StoreSafe, AssignmentRow, Subjects
  <2>3. QED
    BY <1>5, <1>7, <2>1, <2>2 DEF Governed, StoreGoverned
<1>8. QED
  BY <1>6, <1>7

LEMMA CommitGoverned ==
  ASSUME Governed, Serial', NEW p \in Processes, Commit(p)
  PROVE  Governed'
<1>1. PICK o : o = op[p]
  OBVIOUS
<1>2. o.step = "commit" /\ assignments' = Patched(o.patch) /\ Fresh(o)
  BY <1>1 DEF Commit, At, Governed, Serial
<1>3. \A t \in Subjects :
        known'[t] = IF o.event # None /\ t = o.subject
                    THEN NextFact(o.event, known[t]) ELSE known[t]
  BY <1>1, CommitWritesNext
<1>4. ASSUME NEW a \in Assigned'
      PROVE  Governs(known'[assignments'[a].mem], assignments'[a])
  <2>1. CASE o.event # None /\ o.patch = Changes(o.event, o.subject)
    <3>1. o.event \in Events /\ Concerns(o.subject, o.event)
      BY <1>2, <2>1 DEF Fresh
    <3>2. QED
      BY <1>2, <1>3, <2>1, <3>1, ReactionGoverns
  <2>2. CASE o.event = None
    <3>1. PICK b \in Assigned, status \in {"removed", "expired"} :
            o.patch = EndPatch(b, status)
      BY <1>2, <2>2 DEF Fresh
    <3>2. QED
      BY <1>2, <1>3, <2>2, <3>1, EndingGoverns
  <2>3. QED
    BY <1>2, <2>1, <2>2 DEF Fresh
<1>5. PICK h : h = IF o.todo = {} THEN Idle
                   ELSE [Idle EXCEPT !.step = "sweep", !.todo = o.todo]
  OBVIOUS
<1>6. Rests(h) /\ op' = [op EXCEPT ![p] = h]
  BY <1>1, <1>5 DEF Rests, Idle, Commit, Continue, Goto
<1>7. StoreGoverned'
  BY <1>4 DEF StoreGoverned
<1>8. QED
  BY <1>6, <1>7, RestGoverned
LEMMA ReactGoverned ==
  ASSUME Governed, Serial', NEW p \in Processes, ReactStep(p)
  PROVE  Governed'
<1>1. ASSUME NEW s \in Subjects, NEW e \in Events, ReactRead(p, s, e)
      PROVE  Governed'
  <2>1. PICK h : h = [Idle EXCEPT
          !.step    = IF e \in FactOnly THEN "commit" ELSE "load",
          !.subject = s,
          !.event   = e,
          !.status  = IF WritesFact(e, known[s]) THEN NextFact(e, known[s]) ELSE None,
          !.insert  = known[s] = None]
    OBVIOUS
  <2>2. /\ h.step \in {"commit", "load"} /\ h.event = e /\ h.subject = s
        /\ h.status = IF WritesFact(e, known[s]) THEN NextFact(e, known[s]) ELSE None
    BY <2>1 DEF Idle
  <2>3. e # None
    BY NoneIsNothing
  <2>4. FactFresh(h)
    BY <2>2, <2>3 DEF FactFresh
  <2>5. QED
    BY <1>1, <2>1, <2>4, MoveGoverned DEF ReactRead, Begin, Goto
<1>2. CASE ReactLoad(p)
  <2>1. PICK o : o = op[p]
    OBVIOUS
  <2>2. o.step = "load" /\ FactFresh(o) /\ o \in Handler
    BY <1>2, <2>1 DEF ReactLoad, At, Governed, Serial, Safe
  <2>3. PICK patch : patch = Changes(o.event, o.subject)
    OBVIOUS
  <2>4. PICK g : g = [o EXCEPT !.step = "commit", !.patch = patch]
    OBVIOUS
  <2>5. /\ g.step = "commit" /\ g.status = o.status
        /\ g.event = o.event /\ g.subject = o.subject
    BY <2>2, <2>4 DEF Handler
  <2>6. FactFresh(g)
    BY <2>2, <2>5 DEF FactFresh
  <2>7. PICK h : h = IF o.status = None /\ patch = NoPatch THEN Idle ELSE g
    OBVIOUS
  <2>8. FactFresh(h)
    BY <2>6, <2>7 DEF FactFresh, Idle
  <2>9. QED
    BY <1>2, <2>1, <2>3, <2>4, <2>7, <2>8, MoveGoverned DEF ReactLoad, Goto
<1>3. QED
  BY <1>1, <1>2, ReactStepReads

\* A grant is committed while the membership is still eligible.
LEMMA GrantGoverned ==
  ASSUME Governed, Serial', NEW p \in Processes,
         NEW a \in AssignmentIds, AssignCommit(p, a)
  PROVE  Governed'
<1>1. PICK row : row = NewAssignment(op[p].subject, op[p].right, op[p].status)
  OBVIOUS
<1>2. known[row.mem] \in {"pending", "active"}
  BY <1>1 DEF NewAssignment, AssignCommit, At, Governed, FactFresh, Eligible
<1>3. Governs(known[row.mem], row)
  BY <1>2 DEF Governs
<1>4. /\ assignments' = [assignments EXCEPT ![a] = row]
      /\ known' = known
      /\ op' = [op EXCEPT ![p] = Idle]
  BY <1>1 DEF AssignCommit, InsertAssignment, Goto
<1>5. ASSUME NEW b \in Assigned'
      PROVE  Governs(known'[assignments'[b].mem], assignments'[b])
  <2>1. assignments'[b] = IF b = a THEN row ELSE assignments[b]
    BY <1>4 DEF Assigned, Governed, Serial, Safe, StoreSafe
  <2>2. CASE b = a
    BY <1>3, <1>4, <2>1, <2>2
  <2>3. CASE b # a
    <3>1. b \in Assigned
      BY <2>1, <2>3 DEF Assigned
    <3>2. QED
      BY <1>4, <2>1, <2>3, <3>1 DEF Governed, StoreGoverned
  <2>4. QED
    BY <2>2, <2>3
<1>6. StoreGoverned'
  BY <1>5 DEF StoreGoverned
<1>7. Rests(Idle)
  BY DEF Rests, Idle
<1>8. QED
  BY <1>4, <1>6, <1>7, RestGoverned

LEMMA AssignGoverned ==
  ASSUME Governed, Serial', NEW p \in Processes, AssignStep(p)
  PROVE  Governed'
<1>1. ASSUME NEW m \in Memberships, NEW r \in Rights, AssignRead(p, m, r)
      PROVE  Governed'
  <2>1. PICK h : h = [Idle EXCEPT !.step = "check", !.subject = m,
                                  !.right = r, !.status = known[m]]
    OBVIOUS
  <2>2. FactFresh(h)
    BY <1>1, <2>1 DEF FactFresh, Idle, AssignRead
  <2>3. QED
    BY <1>1, <2>1, <2>2, MoveGoverned DEF AssignRead, Begin, Goto
<1>2. CASE AssignCheck(p)
  <2>1. PICK o : o = op[p]
    OBVIOUS
  <2>2. PICK h : h = [o EXCEPT !.step = "insert"]
    OBVIOUS
  <2>3. o \in Handler /\ FactFresh(o) /\ o.step = "check"
    BY <1>2, <2>1 DEF Governed, Serial, Safe, AssignCheck, At
  <2>4. h.step = "insert" /\ h.subject = o.subject
    BY <2>2, <2>3 DEF Handler
  <2>5. FactFresh(h)
    BY <2>3, <2>4 DEF FactFresh
  <2>6. QED
    BY <1>2, <2>1, <2>2, <2>5, MoveGoverned DEF AssignCheck, Goto
<1>3. ASSUME NEW a \in AssignmentIds, RemoveRead(p, a)
      PROVE  Governed'
  <2>1. PICK h : h = [Idle EXCEPT !.step  = "commit",
                                  !.patch = EndPatch(a, "removed")]
    OBVIOUS
  <2>2. h.step = "commit" /\ h.event = None /\ h.status = None
    BY <2>1 DEF Idle
  <2>3. FactFresh(h)
    BY <2>2 DEF FactFresh
  <2>4. QED
    BY <1>3, <2>1, <2>3, MoveGoverned DEF RemoveRead, Begin, Goto, EndPatch
<1>4. QED
  BY <1>1, <1>2, <1>3, GrantGoverned DEF AssignStep

LEMMA WorkerGoverned ==
  ASSUME Governed, Serial', NEW w \in Processes, WorkerStep(w)
  PROVE  Governed'
<1>1. PICK o : o = op[w]
  OBVIOUS
<1>2. o \in Handler /\ Fresh(o)
  BY <1>1 DEF Governed, Serial, Safe
<1>3. CASE SweepRead(w)
  <2>1. PICK h : h = [Idle EXCEPT !.step = "sweep", !.todo = FirstDue]
    OBVIOUS
  <2>2. FactFresh(h)
    BY <2>1 DEF FactFresh, Idle
  <2>3. QED
    BY <1>3, <2>1, <2>2, MoveGoverned DEF SweepRead, Begin, Goto
<1>4. CASE SweepFail(w)
  <2>1. PICK h : h = IF o.todo = {} THEN Idle
                     ELSE [Idle EXCEPT !.step = "sweep", !.todo = o.todo]
    OBVIOUS
  <2>2. FactFresh(h)
    BY <2>1 DEF FactFresh, Idle
  <2>3. QED
    BY <1>1, <1>4, <2>1, <2>2, MoveGoverned DEF SweepFail, Continue, Goto
<1>5. ASSUME NEW a \in AssignmentIds, SweepNext(w, a)
      PROVE  Governed'
  <2>1. PICK h : h = [o EXCEPT !.step  = "commit",
                               !.patch = EndPatch(a, "expired"),
                               !.todo  = @ \ {a}]
    OBVIOUS
  <2>2. h.step = "commit" /\ h.event = o.event /\ h.status = o.status
    BY <1>2, <2>1 DEF Handler
  <2>3. o.step = "sweep" /\ o.event = None
    BY <1>1, <1>2, <1>5 DEF SweepNext, At, Fresh
  <2>4. FactFresh(h)
    BY <1>1, <2>2, <2>3 DEF FactFresh, Governed
  <2>5. QED
    BY <1>1, <1>5, <2>1, <2>4, MoveGoverned DEF SweepNext, Goto, EndPatch
<1>6. ASSUME NEW a \in AssignmentIds, SweepSkip(w, a)
      PROVE  Governed'
  <2>1. PICK h : h = IF o.todo = {a} THEN Idle
                     ELSE [o EXCEPT !.todo = @ \ {a}]
    OBVIOUS
  <2>2. o.step = "sweep" /\ o.status = None
    BY <1>1, <1>6 DEF SweepSkip, At, Governed, FactFresh
  <2>3. h.step \in {"idle", "sweep"} /\ h.status = None
    BY <1>2, <2>1, <2>2 DEF Idle, Handler
  <2>4. FactFresh(h)
    BY <2>3 DEF FactFresh
  <2>5. QED
    <3>1. op' = [op EXCEPT ![w] = h] /\ UNCHANGED <<db, due, published>>
      BY <1>1, <1>6, <2>1 DEF SweepSkip, Goto
    <3>2. QED
      BY <2>4, <3>1, MoveGoverned
<1>7. QED
  BY <1>3, <1>4, <1>5, <1>6 DEF WorkerStep

\* Nobody else writes facts or assignments.
LEMMA OthersGoverned ==
  ASSUME Governed, Serial', UNCHANGED <<known, assignments, op>>
  PROVE  Governed'
<1>1. Assigned' = Assigned
  BY DEF Assigned
<1>2. StoreGoverned'
  BY <1>1 DEF Governed, StoreGoverned
<1>3. \A p \in Processes : FactFresh(op[p])'
  BY DEF Governed, FactFresh, Eligible
<1>4. QED
  BY <1>2, <1>3 DEF Governed

LEMMA NextGoverned ==
  ASSUME Governed, [Next]_vars
  PROVE  Governed'
<1>o. Ops \subseteq Processes /\ Workers \subseteq Processes
  BY DEF Processes
<1>s. Serial'
  BY NextRefined DEF Refined, Governed
<1>1. ASSUME NEW p \in Ops, ReactStep(p) \/ AssignStep(p)
      PROVE  Governed'
  BY <1>o, <1>s, <1>1, ReactGoverned, AssignGoverned
<1>2. ASSUME NEW w \in Workers, WorkerStep(w)
      PROVE  Governed'
  BY <1>o, <1>s, <1>2, WorkerGoverned
<1>3. ASSUME NEW p \in Processes, Commit(p)
      PROVE  Governed'
  BY <1>s, <1>3, CommitGoverned
<1>4. ASSUME NEW p \in Processes, Abandon(p)
      PROVE  Governed'
  <2>1. FactFresh(Idle)
    BY DEF FactFresh, Idle
  <2>2. QED
    BY <1>s, <1>4, <2>1, MoveGoverned DEF Abandon, Goto
<1>5. CASE EnvironmentStep
  <2>1. UNCHANGED <<known, assignments, op>>
    BY <1>5 DEF EnvironmentStep, Publish, Lapse, db
  <2>2. QED
    BY <1>s, <2>1, OthersGoverned
<1>6. CASE UNCHANGED vars
  <2>1. UNCHANGED <<known, assignments, op>>
    BY <1>6 DEF vars
  <2>2. QED
    BY <1>s, <2>1, OthersGoverned
<1>7. QED
  BY <1>1, <1>2, <1>3, <1>4, <1>5, <1>6 DEF Next

\* A tenant event that finds the fact archived computes archived again, and
\* only a commit writes facts.
LEMMA ArchivedTenantStays ==
  ASSUME Governed, [Next]_vars, NEW t \in Tenants, known[t] = "archived"
  PROVE  known'[t] = "archived"
<1>1. ASSUME NEW p \in Processes, Commit(p)
      PROVE  known'[t] = "archived"
  <2>1. PICK o : o = op[p]
    OBVIOUS
  <2>2. o.step = "commit" /\ Fresh(o)
    BY <1>1, <2>1 DEF Commit, At, Governed, Serial
  <2>3. t \in Subjects
    BY DEF Subjects
  <2>4. known'[t] = IF o.event # None /\ t = o.subject
                    THEN NextFact(o.event, known[t]) ELSE known[t]
    BY <1>1, <2>1, <2>3, CommitWritesNext
  <2>5. SUFFICES ASSUME o.event # None, t = o.subject
                 PROVE  NextFact(o.event, known[t]) = "archived"
    BY <2>4
  <2>6. o.event \in TenantEvents
    BY <2>2, <2>5 DEF Fresh, Concerns, Governed, Serial, SubjectsDisjoint, Events
  <2>7. QED
    BY <2>6
    DEF TenantEvents, NextFact, ProvisionKnownTenant, ActivateKnownTenant,
        SuspendKnownTenant, ReactivateKnownTenant, ArchiveKnownTenant, Unless,
        FactStatuses
<1>2. (\A p \in Processes : ~Commit(p)) => known' = known
  BY DEF Next, ReactStep, AssignStep, WorkerStep, EnvironmentStep, Abandon,
     ReactRead, OnUserActivated, OnUserDisabled, OnUserArchived, OnUserRestored,
     OnMembershipCreated, OnMembershipActivated, OnMembershipSuspended,
     OnMembershipReactivated, OnMembershipArchived, OnTenantCreated,
     OnTenantActivated, OnTenantSuspended, OnTenantReactivated,
     OnTenantArchived, ReactLoad, AssignRead, AssignCheck, AssignCommit,
     RemoveRead, SweepRead, SweepNext, SweepSkip, SweepFail, Publish, Lapse,
     Begin, db, vars
<1>3. QED
  BY <1>1, <1>2

\* With one handler at a time a membership that Access knows as suspended has
\* no active assignment, and one it knows as archived none that could become
\* active, although the facts of its identity and tenant come and go.
THEOREM OneHandlerGoverns ==
  ASSUME OneHandler, SubjectsDisjoint
  PROVE  Spec => []MembershipGovernsAssignments
<1>1. Init => Governed
  BY InitIsGoverned
<1>2. Governed /\ [Next]_vars => Governed'
  BY NextGoverned
<1>3. Governed => MembershipGovernsAssignments
  <2>1. SUFFICES ASSUME Governed, NEW a \in Assigned
                 PROVE  LET fact == known[assignments[a].mem] IN
                        /\ fact = "suspended" => assignments[a].status # "active"
                        /\ fact = "archived" => assignments[a].status \in Terminal
    BY DEF MembershipGovernsAssignments
  <2>2. Governs(known[assignments[a].mem], assignments[a])
    BY <2>1 DEF Governed, StoreGoverned
  <2>3. Consistent(assignments[a])
    BY <2>1 DEF Governed, Serial, Safe, StoreSafe
  <2>4. QED
    BY <2>2, <2>3 DEF Governs, Consistent, Terminal
<1>4. QED
  BY <1>1, <1>2, <1>3, PTL DEF Spec

\* With one handler at a time an archived tenant is archived for good in
\* Access: no late, repeated or reordered event brings its fact back.
THEOREM OneHandlerKeepsTenantsArchived ==
  ASSUME OneHandler, SubjectsDisjoint
  PROVE  Spec => ArchivedTenantIsFinal
<1>1. Init => Governed
  BY InitIsGoverned
<1>2. Governed /\ [Next]_vars => Governed'
  BY NextGoverned
<1>3. Governed /\ [Next]_vars =>
        [\A t \in Tenants : known[t] = "archived" => known'[t] = "archived"]_known
  BY ArchivedTenantStays
<1>4. QED
  BY <1>1, <1>2, <1>3, PTL DEF Spec, ArchivedTenantIsFinal
=============================================================================
