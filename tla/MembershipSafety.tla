-------------------------- MODULE MembershipSafety --------------------------
(***************************************************************************)
(* Proofs that the safety invariants of Membership hold for every number   *)
(* of identities, tenants, rows, handlers and workers: first types and     *)
(* what the stale reads of a handler still guarantee, then, from both, the *)
(* pointwise shape of a commit (MembershipWrite, InvitationWrite) and each *)
(* invariant.  Last, that Membership implements MembershipLifecycle when   *)
(* one handler is in flight at a time.                                     *)
(***************************************************************************)
EXTENDS MembershipSerial, TLAPS

\* Every patch of a membership row is a membership row.
LEMMA PatchTypes ==
  ASSUME NEW row \in MembershipRow, NEW source \in SuspensionSources
  PROVE  /\ ActivatePatch(row) \in MembershipRow
         /\ SuspendPatch(row, source) \in MembershipRow
         /\ ReactivatePatch(row) \in MembershipRow
         /\ ArchivePatch(row) \in MembershipRow
BY DEF MembershipRow, MembershipStatuses, ActivatePatch, SuspendPatch,
       ReactivatePatch, ArchivePatch

\* Every patch of an invitation row is an invitation row.
LEMMA InvitationPatchTypes ==
  ASSUME NEW row \in InvitationRow, NEW i \in Identities
  PROVE  /\ RedeemPatch(row, i) \in InvitationRow
         /\ RevokePatch(row) \in InvitationRow
         /\ ExpirePatch(row) \in InvitationRow
BY DEF InvitationRow, InvitationStatuses, RedeemPatch, RevokePatch, ExpirePatch

LEMMA NewRowTypes ==
  ASSUME NEW i \in Identities, NEW t \in Tenants,
         NEW status \in {"pending", "active"}
  PROVE  /\ NewMembership(i, t, status) \in MembershipRow
         /\ NewInvitation(t, i) \in InvitationRow
BY DEF NewMembership, NewInvitation, MembershipRow, InvitationRow,
       MembershipStatuses, InvitationStatuses

\* The rows that exist have the type of a row, and a row is not None.
LEMMA RowTypes ==
  ASSUME TypeOK
  PROVE  /\ \A m \in Members : m \in MembershipIds /\ memberships[m] \in MembershipRow
         /\ \A v \in Invites : v \in InvitationIds /\ invitations[v] \in InvitationRow
         /\ None \notin MembershipRow /\ None \notin InvitationRow
BY NoneIsNoValue DEF TypeOK, Members, Invites

\* A handler that starts, moves on or ends is a handler.
LEMMA HandlerTypes ==
  ASSUME NEW p \in Processes, NEW state \in Handler, TypeOK, Goto(p, state)
  PROVE  op' \in [Processes -> Handler]
BY DEF TypeOK, Goto

LEMMA IdleType == Idle \in Handler
BY DEF Idle, Handler, Steps

-----------------------------------------------------------------------------
(* Type correctness.  The type of a patched row needs what the handler     *)
(* remembers (StaleReadsHold), so the two are proved together below.       *)

LEMMA ReadTypes ==
  ASSUME TypeOK, NEW p \in Processes, NEW state \in Handler, Begin(p, state)
  PROVE  TypeOK'
BY DEF Begin, Goto, TypeOK, db

\* The states the reads of the use cases start a handler in.
LEMMA MembershipReadStates ==
  ASSUME NEW step \in Steps
  PROVE  /\ \A i \in Identities, t \in Tenants, arg \in {"pending", "active"} :
              [Idle EXCEPT !.step = step, !.who = i, !.ten = t, !.arg = arg] \in Handler
         /\ \A m \in MembershipIds :
              [Idle EXCEPT !.step = step, !.mem = m, !.todo = {m}] \in Handler
         /\ \A arg \in SuspensionSources, todo \in SUBSET MembershipIds :
              [Idle EXCEPT !.step = step, !.arg = arg, !.todo = todo] \in Handler
         /\ \A i \in Identities, m \in MembershipIds :
              [Idle EXCEPT !.step = step, !.who = i, !.mem = m] \in Handler
         /\ \A todo \in SUBSET MembershipIds :
              [Idle EXCEPT !.step = step, !.todo = todo] \in Handler
BY DEF Idle, Handler

LEMMA InvitationReadStates ==
  ASSUME NEW step \in Steps
  PROVE  /\ \A i \in Identities, t \in Tenants :
              [Idle EXCEPT !.step = step, !.who = i, !.ten = t] \in Handler
         /\ \A i \in Identities, t \in Tenants, v \in InvitationIds :
              [Idle EXCEPT !.step = step, !.who = i, !.inv = v, !.ten = t] \in Handler
         /\ \A v \in InvitationIds :
              [Idle EXCEPT !.step = step, !.inv = v] \in Handler
         /\ \A todo \in SUBSET InvitationIds :
              [Idle EXCEPT !.step = step, !.todo = todo] \in Handler
BY DEF Idle, Handler

\* Ending a loop or taking one row off its list leaves a handler.
LEMMA AdvanceTypes ==
  ASSUME TypeOK, NEW p \in Processes, NEW x, NEW next \in Handler,
         Advance(p, x, next)
  PROVE  op' \in [Processes -> Handler]
<1>1. [next EXCEPT !.todo = @ \ {x}] \in Handler
  BY DEF Handler
<1>2. QED
  BY <1>1, IdleType, HandlerTypes DEF Advance

\* A commit that writes one membership row.
LEMMA MembershipWriteTypes ==
  ASSUME TypeOK, NEW m \in MembershipIds, NEW row \in MembershipRow,
         NEW event \in Events,
         memberships' = [memberships EXCEPT ![m] = row], Announce(m, event),
         UNCHANGED <<invitations, contexts, lapsed>>,
         op' \in [Processes -> Handler]
  PROVE  TypeOK'
BY DEF TypeOK, Announce

\* A commit that writes one invitation row.
LEMMA InvitationWriteTypes ==
  ASSUME TypeOK, NEW v \in InvitationIds, NEW row \in InvitationRow,
         NEW event \in Events,
         invitations' = [invitations EXCEPT ![v] = row], Announce(v, event),
         UNCHANGED <<memberships, contexts, lapsed>>,
         op' \in [Processes -> Handler]
  PROVE  TypeOK'
BY DEF TypeOK, Announce

LEMMA MembershipReadTypes ==
  ASSUME TypeOK, NEW p \in Ops,
         \/ \E i \in Identities, t \in Tenants, status \in {"pending", "active"} :
              CreateRead(p, i, t, status)
         \/ \E m \in MembershipIds : \/ ActivateRead(p, m) \/ SuspendRead(p, m)
                                    \/ ReactivateRead(p, m) \/ ArchiveRead(p, m)
         \/ \E i \in Identities : ActivatePendingRead(p, i) \/ ArchiveIdentityRead(p, i)
         \/ \E t \in Tenants, source \in {"tenant", "subscription"} :
              SuspendTenantRead(p, t, source)
         \/ \E t \in Tenants : RestoreSubscriptionRead(p, t) \/ ArchiveTenantRead(p, t)
         \/ \E i \in Identities, m \in MembershipIds : SwitchContextRead(p, i, m)
  PROVE  TypeOK'
<1>1. \E state \in Handler : Begin(p, state)
  <2>1. /\ \A i, s : ListByIdentity(i, s) \in SUBSET MembershipIds
        /\ \A t, s : ListByTenant(t, s) \in SUBSET MembershipIds
        /\ \A t : SubscriptionSuspended(t) \in SUBSET MembershipIds
    BY DEF ListByIdentity, ListByTenant, SubscriptionSuspended, Members
  <2>2. /\ {"create", "activate", "suspend", "reactivate", "archive",
            "activatePending", "switch"} \subseteq Steps
        /\ {"manual", "tenant", "subscription"} \subseteq SuspensionSources
    BY DEF Steps, SuspensionSources
  <2>3. CASE \E i \in Identities, t \in Tenants, status \in {"pending", "active"} :
               CreateRead(p, i, t, status)
    BY <2>3, <2>2, MembershipReadStates DEF CreateRead
  <2>4. CASE \E m \in MembershipIds : ActivateRead(p, m)
    BY <2>4, <2>2, MembershipReadStates DEF ActivateRead
  <2>5. CASE \E m \in MembershipIds : SuspendRead(p, m)
    <3>1. PICK m \in MembershipIds : SuspendRead(p, m)
      BY <2>5
    <3>2. {m} \in SUBSET MembershipIds
      OBVIOUS
    <3>3. QED
      BY <3>1, <3>2, <2>2, MembershipReadStates DEF SuspendRead
  <2>6. CASE \E m \in MembershipIds : ReactivateRead(p, m) \/ ArchiveRead(p, m)
    <3>1. PICK m \in MembershipIds : ReactivateRead(p, m) \/ ArchiveRead(p, m)
      BY <2>6
    <3>2. {m} \in SUBSET MembershipIds
      OBVIOUS
    <3>3. QED
      BY <3>1, <3>2, <2>2, MembershipReadStates DEF ReactivateRead, ArchiveRead
  <2>7. CASE \E i \in Identities : ActivatePendingRead(p, i)
    BY <2>7, <2>1, <2>2, MembershipReadStates DEF ActivatePendingRead
  <2>8. CASE \E i \in Identities : ArchiveIdentityRead(p, i)
    BY <2>8, <2>1, <2>2, MembershipReadStates DEF ArchiveIdentityRead
  <2>9. CASE \E t \in Tenants, source \in {"tenant", "subscription"} :
               SuspendTenantRead(p, t, source)
    BY <2>9, <2>1, <2>2, MembershipReadStates DEF SuspendTenantRead
  <2>10. CASE \E t \in Tenants : RestoreSubscriptionRead(p, t)
    BY <2>10, <2>1, <2>2, MembershipReadStates DEF RestoreSubscriptionRead
  <2>11. CASE \E t \in Tenants : ArchiveTenantRead(p, t)
    BY <2>11, <2>1, <2>2, MembershipReadStates DEF ArchiveTenantRead
  <2>12. CASE \E i \in Identities, m \in MembershipIds : SwitchContextRead(p, i, m)
    BY <2>12, <2>2, MembershipReadStates DEF SwitchContextRead
  <2>13. QED
    BY <2>3, <2>4, <2>5, <2>6, <2>7, <2>8, <2>9, <2>10, <2>11, <2>12
<1>2. QED
  BY <1>1, ReadTypes DEF Processes

\* The event CreateCommit publishes is one of the lifecycle events.
LEMMA CreationEventType == \A status : CreationEvent(status) \in Events
BY DEF CreationEvent, Events

LEMMA MembershipCommitTypes ==
  ASSUME TypeOK, StaleReadsHold, NEW p \in Ops,
         \/ ActivateCommit(p)
         \/ \E m \in MembershipIds :
              \/ CreateCommit(p, m) \/ SuspendCommit(p, m)
              \/ ReactivateCommit(p, m) \/ ArchiveCommit(p, m)
  PROVE  TypeOK'
<1>p. p \in Processes /\ op[p] \in Handler
  BY DEF Processes, TypeOK
<1>h. HoldsMemberships(op[p])
  BY <1>p DEF StaleReadsHold
<1>e. {"created", "activated", "suspended", "reactivated", "archived"} \subseteq Events
  BY DEF Events
<1>1. ASSUME NEW m \in MembershipIds, CreateCommit(p, m)
      PROVE  TypeOK'
  <2>1. NewMembership(op[p].who, op[p].ten, op[p].arg) \in MembershipRow
    BY <1>1, <1>h, NewRowTypes DEF CreateCommit, At, HoldsMemberships
  <2>2. op' \in [Processes -> Handler]
    BY <1>1, <1>p, IdleType, HandlerTypes DEF CreateCommit
  <2>3. QED
    BY <1>1, <2>1, <2>2, CreationEventType, MembershipWriteTypes
    DEF CreateCommit, InsertMembership
<1>2. CASE ActivateCommit(p)
  <2> DEFINE n == op[p].mem
  <2>1. n \in MembershipIds /\ ActivatePatch(memberships[n]) \in MembershipRow
    <3>1. n \in Members
      BY <1>2, <1>h DEF ActivateCommit, At, HoldsMemberships
    <3>2. QED
      BY <3>1, PatchTypes, RowTypes DEF SuspensionSources
  <2>2. op' \in [Processes -> Handler]
    <3>1. [op[p] EXCEPT !.step = "activatePending", !.mem = None] \in Handler
      BY <1>p DEF Handler, Steps
    <3>2. QED
      BY <1>2, <1>p, <3>1, AdvanceTypes DEF ActivateCommit
  <2>3. memberships' = [memberships EXCEPT ![n] = ActivatePatch(memberships[n])]
    BY <1>2 DEF ActivateCommit
  <2>4. Announce(n, "activated") /\ UNCHANGED <<invitations, contexts, lapsed>>
    BY <1>2 DEF ActivateCommit
  <2>5. QED
    BY <1>e, <2>1, <2>2, <2>3, <2>4, MembershipWriteTypes
<1>3. ASSUME NEW m \in MembershipIds, SuspendCommit(p, m)
      PROVE  TypeOK'
  <2>1. SuspendPatch(memberships[m], op[p].arg) \in MembershipRow
    BY <1>3, <1>h, PatchTypes, RowTypes
    DEF SuspendCommit, At, HoldsMemberships
  <2>2. op' \in [Processes -> Handler]
    BY <1>3, <1>p, AdvanceTypes DEF SuspendCommit
  <2>3. QED
    BY <1>e, <1>3, <2>1, <2>2, MembershipWriteTypes DEF SuspendCommit
<1>4. ASSUME NEW m \in MembershipIds, ReactivateCommit(p, m)
      PROVE  TypeOK'
  <2>1. ReactivatePatch(memberships[m]) \in MembershipRow
    BY <1>4, <1>h, PatchTypes, RowTypes
    DEF ReactivateCommit, At, HoldsMemberships, SuspensionSources
  <2>2. op' \in [Processes -> Handler]
    BY <1>4, <1>p, AdvanceTypes DEF ReactivateCommit
  <2>3. QED
    BY <1>e, <1>4, <2>1, <2>2, MembershipWriteTypes DEF ReactivateCommit
<1>5. ASSUME NEW m \in MembershipIds, ArchiveCommit(p, m)
      PROVE  TypeOK'
  <2>1. ArchivePatch(memberships[m]) \in MembershipRow
    BY <1>5, <1>h, PatchTypes, RowTypes
    DEF ArchiveCommit, At, HoldsMemberships, SuspensionSources
  <2>2. op' \in [Processes -> Handler]
    BY <1>5, <1>p, AdvanceTypes DEF ArchiveCommit
  <2>3. QED
    BY <1>e, <1>5, <2>1, <2>2, MembershipWriteTypes DEF ArchiveCommit
<1>6. QED
  BY <1>1, <1>2, <1>3, <1>4, <1>5

LEMMA InvitationStepTypes ==
  ASSUME TypeOK, StaleReadsHold, NEW p \in Ops, InvitationStep(p)
  PROVE  TypeOK'
<1>p. p \in Processes /\ op[p] \in Handler
  BY DEF Processes, TypeOK
<1>h. HoldsInvitations(op[p])
  BY <1>p DEF StaleReadsHold
<1>e. {"created", "redeemed", "revoked", "expired"} \subseteq Events
  BY DEF Events
<1>s. {"invite", "redeem", "redeemCommit", "revoke", "expire"} \subseteq Steps
  BY DEF Steps
<1>i. Goto(p, Idle) => op' \in [Processes -> Handler]
  BY <1>p, IdleType, HandlerTypes
<1>1. ASSUME NEW t \in Tenants, NEW i \in Identities, InviteRead(p, t, i)
      PROVE  TypeOK'
  BY <1>1, <1>p, <1>s, InvitationReadStates, ReadTypes DEF InviteRead
<1>9. ASSUME NEW v \in InvitationIds, RevokeRead(p, v) \/ ExpireRead(p, v)
      PROVE  TypeOK'
  BY <1>9, <1>p, <1>s, InvitationReadStates, ReadTypes DEF RevokeRead, ExpireRead
<1>2. ASSUME NEW i \in Identities, NEW v \in InvitationIds, RedeemRead(p, i, v)
      PROVE  TypeOK'
  <2>1. invitations[v].ten \in Tenants
    BY <1>2, RowTypes DEF RedeemRead, InvitationRow
  <2>2. QED
    BY <1>2, <1>p, <1>s, <2>1, InvitationReadStates, ReadTypes DEF RedeemRead
<1>3. ASSUME NEW v \in InvitationIds, InviteCommit(p, v)
      PROVE  TypeOK'
  <2>1. NewInvitation(op[p].ten, op[p].who) \in InvitationRow
    BY <1>3, <1>h, NewRowTypes DEF InviteCommit, At, HoldsInvitations
  <2>2. QED
    BY <1>e, <1>3, <1>i, <2>1, InvitationWriteTypes
    DEF InviteCommit, InsertInvitation
<1>4. CASE RedeemFindMembership(p)
  <2> DEFINE found == FindMembership(op[p].who, op[p].ten)
             mem   == IF found = {} THEN None ELSE CHOOSE m \in found : TRUE
  <2>1. mem \in MembershipIds \union {None}
    BY DEF FindMembership, Members
  <2>2. [op[p] EXCEPT !.step = "redeemCommit", !.mem = mem] \in Handler
    BY <1>p, <1>s, <2>1 DEF Handler
  <2>3. QED
    BY <1>4, <1>p, <2>2, HandlerTypes DEF RedeemFindMembership, TypeOK, db
<1>5. CASE RedeemCommit(p)
  <2> DEFINE v == op[p].inv
  <2>1. /\ v \in InvitationIds
        /\ op[p].who \in Identities /\ op[p].ten \in Tenants
        /\ RedeemPatch(invitations[v], op[p].who) \in InvitationRow
    BY <1>5, <1>h, InvitationPatchTypes, RowTypes
    DEF RedeemCommit, At, HoldsInvitations
  <2>2. /\ invitations' = [invitations EXCEPT ![v] = RedeemPatch(invitations[v], op[p].who)]
        /\ op' \in [Processes -> Handler]
        /\ UNCHANGED <<contexts, lapsed>>
    BY <1>5, <1>i DEF RedeemCommit
  <2>3. CASE Announce(v, "redeemed") /\ UNCHANGED memberships
    BY <1>e, <2>1, <2>2, <2>3, InvitationWriteTypes
  <2>4. CASE \E m \in MembershipIds :
               /\ InsertMembership(m, NewMembership(op[p].who, op[p].ten, "pending"))
               /\ announced' = [announced EXCEPT ![v] = "redeemed",
                                                 ![m] = "created"]
    <3>1. NewMembership(op[p].who, op[p].ten, "pending") \in MembershipRow
      BY <2>1, NewRowTypes
    <3>2. memberships' \in [MembershipIds -> MembershipRow \union {None}]
      BY <2>4, <3>1 DEF InsertMembership, TypeOK
    <3>3. announced' \in [MembershipIds \union InvitationIds -> Events \union {None}]
      BY <1>e, <2>4, <2>1 DEF TypeOK
    <3>4. invitations' \in [InvitationIds -> InvitationRow \union {None}]
      BY <2>1, <2>2 DEF TypeOK
    <3>5. QED
      BY <2>2, <3>2, <3>3, <3>4 DEF TypeOK
  <2>5. QED
    BY <1>5, <2>3, <2>4 DEF RedeemCommit
<1>6. CASE RevokeCommit(p)
  <2> DEFINE v == op[p].inv
  <2>1. v \in InvitationIds /\ RevokePatch(invitations[v]) \in InvitationRow
    <3>1. v \in Invites
      BY <1>6, <1>h DEF RevokeCommit, At, HoldsInvitations
    <3>2. QED
      BY <3>1, RowTypes DEF RevokePatch, InvitationRow, InvitationStatuses
  <2>2. /\ invitations' = [invitations EXCEPT ![v] = RevokePatch(invitations[v])]
        /\ op' \in [Processes -> Handler]
        /\ Announce(v, "revoked") /\ UNCHANGED <<memberships, contexts, lapsed>>
    BY <1>6, <1>i DEF RevokeCommit
  <2>3. QED
    BY <1>e, <2>1, <2>2, InvitationWriteTypes
<1>7. CASE ExpireCommit(p)
  <2> DEFINE v == op[p].inv
  <2>1. v \in InvitationIds /\ ExpirePatch(invitations[v]) \in InvitationRow
    <3>1. v \in Invites
      BY <1>7, <1>h DEF ExpireCommit, At, HoldsInvitations
    <3>2. QED
      BY <3>1, RowTypes DEF ExpirePatch, InvitationRow, InvitationStatuses
  <2>2. /\ invitations' = [invitations EXCEPT ![v] = ExpirePatch(invitations[v])]
        /\ op' \in [Processes -> Handler]
        /\ Announce(v, "expired") /\ UNCHANGED <<memberships, contexts, lapsed>>
    BY <1>7, <1>i DEF ExpireCommit, ExpireInvitation
  <2>3. QED
    BY <1>e, <2>1, <2>2, InvitationWriteTypes
<1>8. QED
  BY <1>1, <1>2, <1>3, <1>4, <1>5, <1>6, <1>7, <1>9 DEF InvitationStep

LEMMA OtherStepTypes ==
  ASSUME TypeOK, StaleReadsHold,
         \/ \E p \in Ops : SwitchContextCommit(p)
         \/ \E p \in Ops, m \in MembershipIds : ActivatePendingNext(p, m)
         \/ \E w \in Workers : WorkerStep(w)
         \/ \E v \in InvitationIds : Lapse(v)
         \/ \E p \in Processes : Abandon(p)
  PROVE  TypeOK'
<1>1. ASSUME NEW p \in Ops, SwitchContextCommit(p)
      PROVE  TypeOK'
  <2>1. p \in Processes /\ HoldsMemberships(op[p])
    BY DEF Processes, StaleReadsHold
  <2>2. op[p].who \in Identities /\ op[p].mem \in MembershipIds
    BY <1>1, <2>1 DEF SwitchContextCommit, At, HoldsMemberships, Members
  <2>3. op' \in [Processes -> Handler]
    BY <1>1, <2>1, IdleType, HandlerTypes DEF SwitchContextCommit
  <2>4. QED
    BY <1>1, <2>2, <2>3 DEF SwitchContextCommit, TypeOK
<1>2. ASSUME NEW p \in Ops, NEW m \in MembershipIds, ActivatePendingNext(p, m)
      PROVE  TypeOK'
  <2>1. p \in Processes
    BY DEF Processes
  <2>2. [op[p] EXCEPT !.step = "activate", !.mem = m] \in Handler
    BY <2>1 DEF TypeOK, Handler, Steps
  <2>3. QED
    BY <1>2, <2>1, <2>2, HandlerTypes DEF ActivatePendingNext, TypeOK, db
<1>3. ASSUME NEW w \in Workers, WorkerStep(w)
      PROVE  TypeOK'
  <2>w. w \in Processes /\ op[w] \in Handler /\ HoldsInvitations(op[w])
    BY DEF Processes, TypeOK, StaleReadsHold
  <2>s. {"sweep", "sweepExpire"} \subseteq Steps
    BY DEF Steps
  <2>1. CASE SweepRead(w)
    <3>1. PICK batch \in SUBSET ExpiredPending :
            Begin(w, [Idle EXCEPT !.step = "sweep", !.todo = batch])
      BY <2>1 DEF SweepRead
    <3>2. batch \in SUBSET InvitationIds
      BY DEF ExpiredPending, Invites
    <3>3. QED
      BY <2>w, <2>s, <3>1, <3>2, InvitationReadStates, ReadTypes
  <2>2. ASSUME NEW v \in InvitationIds, SweepNext(w, v)
        PROVE  TypeOK'
    <3>1. [op[w] EXCEPT !.step = "sweepExpire", !.inv = v] \in Handler
      BY <2>w, <2>s DEF Handler
    <3>2. QED
      BY <2>2, <2>w, <3>1, HandlerTypes DEF SweepNext, TypeOK, db
  <2>3. ASSUME NEW v \in InvitationIds, SweepSkip(w, v)
        PROVE  TypeOK'
    BY <2>3, <2>w, AdvanceTypes DEF SweepSkip, TypeOK, db
  <2>4. [op[w] EXCEPT !.step = "sweep", !.inv = None] \in Handler
    BY <2>w, <2>s DEF Handler
  <2>5. CASE SweepCommit(w)
    <3> DEFINE v == op[w].inv
    <3>1. v \in InvitationIds /\ ExpirePatch(invitations[v]) \in InvitationRow
      <4>1. v \in Invites
        BY <2>5, <2>w DEF SweepCommit, At, HoldsInvitations
      <4>2. QED
        BY <4>1, RowTypes DEF ExpirePatch, InvitationRow, InvitationStatuses
    <3>2. op' \in [Processes -> Handler]
      BY <2>5, <2>w, <2>4, AdvanceTypes DEF SweepCommit
    <3>3. /\ invitations' = [invitations EXCEPT ![v] = ExpirePatch(invitations[v])]
          /\ Announce(v, "expired")
          /\ UNCHANGED <<memberships, contexts, lapsed>>
      BY <2>5 DEF SweepCommit, ExpireInvitation
    <3>4. "expired" \in Events
      BY DEF Events
    <3>5. QED
      BY <3>1, <3>2, <3>3, <3>4, InvitationWriteTypes
  <2>6. CASE SweepFail(w)
    BY <2>6, <2>w, <2>4, AdvanceTypes DEF SweepFail, TypeOK, db
  <2>7. QED
    BY <1>3, <2>1, <2>2, <2>3, <2>5, <2>6 DEF WorkerStep
<1>4. ASSUME NEW v \in InvitationIds, Lapse(v)
      PROVE  TypeOK'
  BY <1>4 DEF Lapse, TypeOK, db
<1>5. ASSUME NEW p \in Processes, Abandon(p)
      PROVE  TypeOK'
  BY <1>5, IdleType, HandlerTypes DEF Abandon, TypeOK, db
<1>6. QED
  BY <1>1, <1>2, <1>3, <1>4, <1>5

LEMMA TypeStep ==
  ASSUME TypeOK, StaleReadsHold, [Next]_vars
  PROVE  TypeOK'
<1>1. CASE UNCHANGED vars
  BY <1>1 DEF vars, TypeOK
<1>2. ASSUME NEW p \in Ops, MembershipStep(p)
      PROVE  TypeOK'
  BY <1>2, MembershipReadTypes, MembershipCommitTypes, OtherStepTypes
  DEF MembershipStep
<1>3. ASSUME NEW p \in Ops, InvitationStep(p)
      PROVE  TypeOK'
  BY <1>3, InvitationStepTypes
<1>4. ASSUME NEW p \in Ops, ContextStep(p)
      PROVE  TypeOK'
  BY <1>4, MembershipReadTypes, OtherStepTypes DEF ContextStep
<1>5. QED
  BY <1>1, <1>2, <1>3, <1>4, OtherStepTypes DEF Next

-----------------------------------------------------------------------------
(* What a step can do to one row, and to the event announced for it.  The  *)
(* invariants below follow from these two facts alone.                     *)

MembershipWrite(m) ==
  \/ memberships'[m] = memberships[m] /\ announced'[m] = announced[m]
  \/ /\ memberships[m] = None
     /\ \E i \in Identities, t \in Tenants, status \in {"pending", "active"} :
          /\ InsertMembership(m, NewMembership(i, t, status))
          /\ announced'[m] = CreationEvent(status)
  \/ /\ memberships[m] # None
     /\ \/ /\ memberships'[m] = ActivatePatch(memberships[m])
           /\ announced'[m] = "activated"
        \/ /\ memberships'[m] = ArchivePatch(memberships[m])
           /\ announced'[m] = "archived"
        \/ /\ memberships[m].activatedAt
           /\ memberships'[m] = ReactivatePatch(memberships[m])
           /\ announced'[m] = "reactivated"
        \/ /\ memberships[m].activatedAt
           /\ \E source \in SuspensionSources :
                memberships'[m] = SuspendPatch(memberships[m], source)
           /\ announced'[m] = "suspended"

InvitationWrite(v) ==
  \/ invitations'[v] = invitations[v] /\ announced'[v] = announced[v]
  \/ /\ invitations[v] = None
     /\ \E i \in Identities, t \in Tenants :
          InsertInvitation(v, NewInvitation(t, i))
     /\ announced'[v] = "created"
  \/ /\ invitations[v] # None
     /\ \/ /\ invitations'[v] = RevokePatch(invitations[v])
           /\ announced'[v] = "revoked"
        \/ /\ invitations'[v] = ExpirePatch(invitations[v])
           /\ announced'[v] = "expired"
        \/ /\ \E i \in Identities :
                /\ invitations'[v] = RedeemPatch(invitations[v], i)
                /\ \/ FindMembership(i, invitations[v].ten) # {}
                   \/ \E m \in MembershipIds :
                        InsertMembership(m,
                          NewMembership(i, invitations[v].ten, "pending"))
           /\ announced'[v] = "redeemed"

\* The steps that only read, and those of the clock and of failures.
LEMMA QuietSteps ==
  ASSUME NEW p \in Processes,
         \/ \E i \in Identities, t \in Tenants, status \in {"pending", "active"} :
              CreateRead(p, i, t, status)
         \/ \E m \in MembershipIds :
              \/ ActivateRead(p, m) \/ ActivatePendingNext(p, m)
              \/ SuspendRead(p, m) \/ ReactivateRead(p, m) \/ ArchiveRead(p, m)
         \/ \E i \in Identities : ActivatePendingRead(p, i) \/ ArchiveIdentityRead(p, i)
         \/ \E t \in Tenants, source \in {"tenant", "subscription"} :
              SuspendTenantRead(p, t, source)
         \/ \E t \in Tenants : RestoreSubscriptionRead(p, t) \/ ArchiveTenantRead(p, t)
         \/ \E t \in Tenants, i \in Identities : InviteRead(p, t, i)
         \/ \E v \in InvitationIds :
              \/ RevokeRead(p, v) \/ ExpireRead(p, v) \/ Lapse(v)
              \/ SweepNext(p, v) \/ SweepSkip(p, v)
              \/ \E i \in Identities : RedeemRead(p, i, v)
         \/ RedeemFindMembership(p) \/ SweepRead(p) \/ SweepFail(p) \/ Abandon(p)
         \/ \E i \in Identities, m \in MembershipIds : SwitchContextRead(p, i, m)
  PROVE  UNCHANGED db
BY DEF CreateRead, ActivateRead, ActivatePendingNext, SuspendRead, ReactivateRead,
       ArchiveRead, ActivatePendingRead, ArchiveIdentityRead, SuspendTenantRead,
       RestoreSubscriptionRead, ArchiveTenantRead, InviteRead, RevokeRead,
       ExpireRead, Lapse, SweepNext, SweepSkip, RedeemRead, RedeemFindMembership,
       SweepRead, SweepFail, Abandon, SwitchContextRead, Begin, db

\* So a step that is not quiet is one of the nine commits.
LEMMA StepCases ==
  ASSUME [Next]_vars
  PROVE  \/ UNCHANGED db
         \/ \E p \in Ops, m \in MembershipIds :
              \/ CreateCommit(p, m) \/ SuspendCommit(p, m)
              \/ ReactivateCommit(p, m) \/ ArchiveCommit(p, m)
         \/ \E p \in Ops : ActivateCommit(p) \/ SwitchContextCommit(p)
         \/ \E p \in Ops, v \in InvitationIds : InviteCommit(p, v)
         \/ \E p \in Ops : RedeemCommit(p) \/ RevokeCommit(p) \/ ExpireCommit(p)
         \/ \E w \in Workers : SweepCommit(w)
<1>1. CASE UNCHANGED vars
  BY <1>1 DEF vars, db
<1>2. ASSUME NEW p \in Ops, MembershipStep(p)
      PROVE  \/ UNCHANGED db
             \/ \E m \in MembershipIds : \/ CreateCommit(p, m) \/ SuspendCommit(p, m)
                                        \/ ReactivateCommit(p, m)
                                        \/ ArchiveCommit(p, m)
             \/ ActivateCommit(p)
  <2>1. p \in Processes
    BY DEF Processes
  <2>2. QED
    BY <1>2, <2>1, QuietSteps DEF MembershipStep
<1>3. ASSUME NEW p \in Ops, InvitationStep(p)
      PROVE  \/ UNCHANGED db
             \/ \E v \in InvitationIds : InviteCommit(p, v)
             \/ RedeemCommit(p) \/ RevokeCommit(p) \/ ExpireCommit(p)
  <2>1. p \in Processes
    BY DEF Processes
  <2>2. QED
    BY <1>3, <2>1, QuietSteps DEF InvitationStep
<1>4. ASSUME NEW p \in Ops, ContextStep(p)
      PROVE  UNCHANGED db \/ SwitchContextCommit(p)
  <2>1. p \in Processes
    BY DEF Processes
  <2>2. QED
    BY <1>4, <2>1, QuietSteps DEF ContextStep
<1>5. ASSUME NEW w \in Workers, WorkerStep(w)
      PROVE  UNCHANGED db \/ SweepCommit(w)
  <2>1. w \in Processes
    BY DEF Processes
  <2>2. QED
    BY <1>5, <2>1, QuietSteps DEF WorkerStep
<1>6. ASSUME NEW v \in InvitationIds, Lapse(v)
      PROVE  UNCHANGED db
  BY <1>6 DEF Lapse
<1>7. ASSUME NEW p \in Processes, Abandon(p)
      PROVE  UNCHANGED db
  BY <1>7 DEF Abandon
<1>8. QED
  BY <1>1, <1>2, <1>3, <1>4, <1>5, <1>6, <1>7 DEF Next

-----------------------------------------------------------------------------
(* The shape of a commit, and the invariants. *)


\* Whatever step is taken, each membership row changes only in one of the
\* ways MembershipWrite lists.
LEMMA MembershipWrites ==
  ASSUME TypeOK, StaleReadsHold, [Next]_vars, NEW m \in MembershipIds
  PROVE  MembershipWrite(m)
<1>t. /\ m \notin InvitationIds
      /\ memberships \in [MembershipIds -> MembershipRow \union {None}]
      /\ announced \in [MembershipIds \union InvitationIds -> Events \union {None}]
  BY IdsDisjoint DEF TypeOK
<1>h. \A p \in Ops : HoldsMemberships(op[p]) /\ HoldsInvitations(op[p])
  BY DEF StaleReadsHold, Processes
<1>w. \A w \in Workers : HoldsInvitations(op[w])
  BY DEF StaleReadsHold, Processes
<1>1. CASE UNCHANGED db
  BY <1>1 DEF db, MembershipWrite
<1>2. ASSUME NEW p \in Ops, NEW n \in MembershipIds, CreateCommit(p, n)
      PROVE  MembershipWrite(m)
  <2>1. /\ op[p].who \in Identities /\ op[p].ten \in Tenants
        /\ op[p].arg \in {"pending", "active"}
    BY <1>2, <1>h DEF CreateCommit, At, HoldsMemberships
  <2>2. CASE m = n
    BY <1>2, <1>t, <2>1, <2>2
    DEF CreateCommit, InsertMembership, Announce, MembershipWrite
  <2>3. CASE m # n
    BY <1>2, <1>t, <2>3
    DEF CreateCommit, InsertMembership, Announce, MembershipWrite
  <2>4. QED
    BY <2>2, <2>3
<1>3. ASSUME NEW p \in Ops, NEW n \in MembershipIds, SuspendCommit(p, n)
      PROVE  MembershipWrite(m)
  <2>1. /\ n \in Members /\ memberships[n].activatedAt
        /\ op[p].arg \in SuspensionSources
    BY <1>3, <1>h DEF SuspendCommit, At, HoldsMemberships
  <2>2. QED
    BY <1>3, <1>t, <2>1 DEF SuspendCommit, Announce, MembershipWrite, Members
<1>4. ASSUME NEW p \in Ops, NEW n \in MembershipIds, ReactivateCommit(p, n)
      PROVE  MembershipWrite(m)
  <2>1. n \in Members /\ memberships[n].activatedAt
    BY <1>4, <1>h DEF ReactivateCommit, At, HoldsMemberships
  <2>2. QED
    BY <1>4, <1>t, <2>1 DEF ReactivateCommit, Announce, MembershipWrite, Members
<1>5. ASSUME NEW p \in Ops, NEW n \in MembershipIds, ArchiveCommit(p, n)
      PROVE  MembershipWrite(m)
  <2>1. n \in Members
    BY <1>5, <1>h DEF ArchiveCommit, At, HoldsMemberships
  <2>2. QED
    BY <1>5, <1>t, <2>1 DEF ArchiveCommit, Announce, MembershipWrite, Members
<1>6. ASSUME NEW p \in Ops, ActivateCommit(p)
      PROVE  MembershipWrite(m)
  <2>1. op[p].mem \in Members
    BY <1>6, <1>h DEF ActivateCommit, At, HoldsMemberships
  <2>2. QED
    BY <1>6, <1>t, <2>1 DEF ActivateCommit, Announce, MembershipWrite, Members
<1>7. ASSUME NEW p \in Ops, SwitchContextCommit(p)
      PROVE  MembershipWrite(m)
  BY <1>7 DEF SwitchContextCommit, MembershipWrite
<1>8. ASSUME NEW p \in Ops, NEW v \in InvitationIds, InviteCommit(p, v)
      PROVE  MembershipWrite(m)
  BY <1>8, <1>t DEF InviteCommit, Announce, MembershipWrite
<1>9. ASSUME NEW p \in Ops, RedeemCommit(p)
      PROVE  MembershipWrite(m)
  <2>1. /\ op[p].inv \in InvitationIds
        /\ op[p].who \in Identities /\ op[p].ten \in Tenants
    BY <1>9, <1>h DEF RedeemCommit, At, HoldsInvitations, Invites
  <2>2. CASE Announce(op[p].inv, "redeemed") /\ UNCHANGED memberships
    BY <1>t, <2>1, <2>2 DEF Announce, MembershipWrite
  <2>3. ASSUME NEW n \in MembershipIds,
               InsertMembership(n, NewMembership(op[p].who, op[p].ten, "pending")),
               announced' = [announced EXCEPT ![op[p].inv] = "redeemed",
                                              ![n] = "created"]
        PROVE  MembershipWrite(m)
    <3>1. CASE m = n
      <4>1. announced'[m] = CreationEvent("pending")
        BY <1>t, <2>1, <2>3, <3>1 DEF CreationEvent
      <4>2. memberships[m] = None
        BY <2>3, <3>1 DEF InsertMembership
      <4>3. QED
        BY <2>1, <2>3, <3>1, <4>1, <4>2 DEF MembershipWrite
    <3>2. CASE m # n
      BY <1>t, <2>1, <2>3, <3>2 DEF InsertMembership, MembershipWrite
    <3>3. QED
      BY <3>1, <3>2
  <2>4. QED
    BY <1>9, <2>2, <2>3 DEF RedeemCommit
<1>10. ASSUME NEW p \in Ops, RevokeCommit(p)
      PROVE  MembershipWrite(m)
  <2>1. op[p].inv \in InvitationIds
    BY <1>10, <1>h DEF RevokeCommit, At, HoldsInvitations, Invites
  <2>2. QED
    BY <1>10, <1>t, <2>1 DEF RevokeCommit, Announce, MembershipWrite
<1>11. ASSUME NEW p \in Ops, ExpireCommit(p)
      PROVE  MembershipWrite(m)
  <2>1. op[p].inv \in InvitationIds
    BY <1>11, <1>h DEF ExpireCommit, At, HoldsInvitations, Invites
  <2>2. QED
    BY <1>11, <1>t, <2>1 DEF ExpireCommit, ExpireInvitation, Announce, MembershipWrite
<1>12. ASSUME NEW w \in Workers, SweepCommit(w)
      PROVE  MembershipWrite(m)
  <2>1. op[w].inv \in InvitationIds
    BY <1>12, <1>w DEF SweepCommit, At, HoldsInvitations, Invites
  <2>2. QED
    BY <1>12, <1>t, <2>1 DEF SweepCommit, ExpireInvitation, Announce, MembershipWrite
<1>13. QED
  BY <1>1, <1>2, <1>3, <1>4, <1>5, <1>6, <1>7, <1>8, <1>9, <1>10, <1>11, <1>12,
     StepCases

\* The same for each invitation row.
LEMMA InvitationWrites ==
  ASSUME TypeOK, StaleReadsHold, [Next]_vars, NEW v \in InvitationIds
  PROVE  InvitationWrite(v)
<1>t. /\ v \notin MembershipIds
      /\ invitations \in [InvitationIds -> InvitationRow \union {None}]
      /\ announced \in [MembershipIds \union InvitationIds -> Events \union {None}]
  BY IdsDisjoint DEF TypeOK
<1>h. \A p \in Ops : HoldsMemberships(op[p]) /\ HoldsInvitations(op[p])
  BY DEF StaleReadsHold, Processes
<1>w. \A w \in Workers : HoldsInvitations(op[w])
  BY DEF StaleReadsHold, Processes
<1>1. CASE UNCHANGED db
  BY <1>1 DEF db, InvitationWrite
<1>2. ASSUME NEW p \in Ops, NEW n \in MembershipIds,
             \/ CreateCommit(p, n) \/ SuspendCommit(p, n)
             \/ ReactivateCommit(p, n) \/ ArchiveCommit(p, n)
      PROVE  InvitationWrite(v)
  BY <1>2, <1>t
  DEF CreateCommit, SuspendCommit, ReactivateCommit, ArchiveCommit, Announce,
      InvitationWrite
<1>3. ASSUME NEW p \in Ops, ActivateCommit(p)
      PROVE  InvitationWrite(v)
  <2>1. op[p].mem \in MembershipIds
    BY <1>3, <1>h DEF ActivateCommit, At, HoldsMemberships, Members
  <2>2. QED
    BY <1>3, <1>t, <2>1 DEF ActivateCommit, Announce, InvitationWrite
<1>4. ASSUME NEW p \in Ops, SwitchContextCommit(p)
      PROVE  InvitationWrite(v)
  BY <1>4 DEF SwitchContextCommit, InvitationWrite
<1>5. ASSUME NEW p \in Ops, NEW u \in InvitationIds, InviteCommit(p, u)
      PROVE  InvitationWrite(v)
  <2>1. op[p].who \in Identities /\ op[p].ten \in Tenants
    BY <1>5, <1>h DEF InviteCommit, At, HoldsInvitations
  <2>2. CASE u = v
    BY <1>5, <1>t, <2>1, <2>2
    DEF InviteCommit, InsertInvitation, Announce, InvitationWrite
  <2>3. CASE u # v
    BY <1>5, <1>t, <2>3
    DEF InviteCommit, InsertInvitation, Announce, InvitationWrite
  <2>4. QED
    BY <2>2, <2>3
<1>6. ASSUME NEW p \in Ops, RedeemCommit(p)
      PROVE  InvitationWrite(v)
  <2> DEFINE u == op[p].inv
             i == op[p].who
             t == op[p].ten
  <2>1. /\ u \in Invites /\ i \in Identities /\ t \in Tenants
        /\ invitations[u].ten = t
        /\ op[p].mem # None => FindMembership(i, t) # {}
    BY <1>6, <1>h DEF RedeemCommit, At, HoldsInvitations
  <2>2. invitations' = [invitations EXCEPT ![u] = RedeemPatch(invitations[u], i)]
    BY <1>6 DEF RedeemCommit
  <2>3. u \in InvitationIds /\ invitations[u] # None
    BY <2>1 DEF Invites
  <2>4. /\ announced'[v] = IF v = u THEN "redeemed" ELSE announced[v]
        /\ \/ FindMembership(i, t) # {}
           \/ \E m \in MembershipIds :
                InsertMembership(m, NewMembership(i, t, "pending"))
    <3>1. CASE ~MembershipCreated(p) /\ Announce(u, "redeemed")
      BY <1>t, <2>1, <2>3, <3>1 DEF MembershipCreated, Announce
    <3>2. ASSUME NEW m \in MembershipIds,
                 InsertMembership(m, NewMembership(i, t, "pending")),
                 announced' = [announced EXCEPT ![u] = "redeemed",
                                                ![m] = "created"]
          PROVE  announced'[v] = IF v = u THEN "redeemed" ELSE announced[v]
      BY <1>t, <2>3, <3>2
    <3>3. QED
      BY <1>6, <3>1, <3>2 DEF RedeemCommit
  <2>5. CASE u = v
    BY <1>t, <2>1, <2>2, <2>3, <2>4, <2>5 DEF InvitationWrite
  <2>6. CASE u # v
    BY <1>t, <2>2, <2>4, <2>6 DEF InvitationWrite
  <2>7. QED
    BY <2>5, <2>6
<1>7. ASSUME NEW p \in Ops, RevokeCommit(p)
      PROVE  InvitationWrite(v)
  <2>1. op[p].inv \in Invites
    BY <1>7, <1>h DEF RevokeCommit, At, HoldsInvitations
  <2>2. QED
    BY <1>7, <1>t, <2>1 DEF RevokeCommit, Announce, InvitationWrite, Invites
<1>8. ASSUME NEW p \in Ops, ExpireCommit(p)
      PROVE  InvitationWrite(v)
  <2>1. op[p].inv \in Invites
    BY <1>8, <1>h DEF ExpireCommit, At, HoldsInvitations
  <2>2. QED
    BY <1>8, <1>t, <2>1
    DEF ExpireCommit, ExpireInvitation, Announce, InvitationWrite, Invites
<1>9. ASSUME NEW w \in Workers, SweepCommit(w)
      PROVE  InvitationWrite(v)
  <2>1. op[w].inv \in Invites
    BY <1>9, <1>w DEF SweepCommit, At, HoldsInvitations
  <2>2. QED
    BY <1>9, <1>t, <2>1
    DEF SweepCommit, ExpireInvitation, Announce, InvitationWrite, Invites
<1>10. QED
  BY <1>1, <1>2, <1>3, <1>4, <1>5, <1>6, <1>7, <1>8, <1>9, StepCases

-----------------------------------------------------------------------------
(* Rows are never removed, and what a handler remembers of one survives    *)
(* every other handler's commit.                                           *)

\* A membership row keeps its identity, its tenant and its activation.
LEMMA MembershipsPersist ==
  ASSUME TypeOK, StaleReadsHold, [Next]_vars, NEW m \in Members
  PROVE  /\ m \in Members'
         /\ memberships'[m].who = memberships[m].who
         /\ memberships'[m].ten = memberships[m].ten
         /\ memberships[m].activatedAt => memberships'[m].activatedAt
<1>1. MembershipWrite(m) /\ m \in MembershipIds /\ memberships[m] # None
  BY MembershipWrites DEF Members
<1>2. memberships[m] \in MembershipRow /\ None \notin MembershipRow
  BY RowTypes
<1>3. CASE memberships'[m] = memberships[m]
  BY <1>1, <1>3 DEF Members
<1>4. ASSUME NEW source \in SuspensionSources,
             memberships'[m] = SuspendPatch(memberships[m], source)
      PROVE  /\ m \in Members'
             /\ memberships'[m].who = memberships[m].who
             /\ memberships'[m].ten = memberships[m].ten
             /\ memberships'[m].activatedAt = memberships[m].activatedAt
  <2>1. memberships'[m] # None
    BY <1>2, <1>4, PatchTypes
  <2>2. QED
    BY <1>1, <1>2, <1>4, <2>1 DEF Members, SuspendPatch, MembershipRow
<1>5. ASSUME \/ memberships'[m] = ActivatePatch(memberships[m])
             \/ memberships'[m] = ArchivePatch(memberships[m])
             \/ memberships'[m] = ReactivatePatch(memberships[m])
      PROVE  /\ m \in Members'
             /\ memberships'[m].who = memberships[m].who
             /\ memberships'[m].ten = memberships[m].ten
             /\ memberships[m].activatedAt => memberships'[m].activatedAt
  <2>1. memberships'[m] # None
    BY <1>2, <1>5, PatchTypes DEF SuspensionSources
  <2>2. QED
    BY <1>1, <1>2, <1>5, <2>1
    DEF Members, ActivatePatch, ArchivePatch, ReactivatePatch, MembershipRow
<1>6. QED
  BY <1>1, <1>3, <1>4, <1>5 DEF MembershipWrite

\* An invitation row keeps its tenant and the email it was sent to.
LEMMA InvitationsPersist ==
  ASSUME TypeOK, StaleReadsHold, [Next]_vars, NEW v \in Invites
  PROVE  /\ v \in Invites'
         /\ invitations'[v].ten = invitations[v].ten
         /\ invitations'[v].invitee = invitations[v].invitee
<1>1. InvitationWrite(v) /\ v \in InvitationIds /\ invitations[v] # None
  BY InvitationWrites DEF Invites
<1>2. invitations[v] \in InvitationRow /\ None \notin InvitationRow
  BY RowTypes
<1>3. CASE invitations'[v] = invitations[v]
  BY <1>1, <1>3 DEF Invites
<1>4. ASSUME NEW i \in Identities,
             \/ invitations'[v] = RedeemPatch(invitations[v], i)
             \/ invitations'[v] = RevokePatch(invitations[v])
             \/ invitations'[v] = ExpirePatch(invitations[v])
      PROVE  /\ v \in Invites'
             /\ invitations'[v].ten = invitations[v].ten
             /\ invitations'[v].invitee = invitations[v].invitee
  <2>1. invitations'[v] # None
    BY <1>2, <1>4, InvitationPatchTypes
  <2>2. QED
    BY <1>1, <1>2, <1>4, <2>1
    DEF Invites, RedeemPatch, RevokePatch, ExpirePatch, InvitationRow
<1>5. invitations[v].invitee \in Identities
  BY <1>2 DEF InvitationRow
<1>6. QED
  BY <1>1, <1>3, <1>4, <1>5 DEF InvitationWrite

\* A row found for an identity and a tenant stays found.
LEMMA FoundPersist ==
  ASSUME TypeOK, StaleReadsHold, [Next]_vars, NEW i, NEW t,
         NEW m \in FindMembership(i, t)
  PROVE  m \in FindMembership(i, t)'
BY MembershipsPersist DEF FindMembership

\* What holds of a handler's memory before another handler's step holds
\* after it.
LEMMA MemoryPersists ==
  ASSUME TypeOK, StaleReadsHold, [Next]_vars,
         NEW o, HoldsMemberships(o), HoldsInvitations(o)
  PROVE  HoldsMemberships(o)' /\ HoldsInvitations(o)'
<1>1. \A m \in Members : /\ m \in Members'
                         /\ memberships'[m].who = memberships[m].who
                         /\ memberships[m].activatedAt => memberships'[m].activatedAt
  BY MembershipsPersist
<1>2. \A v \in Invites : /\ v \in Invites'
                         /\ invitations'[v].ten = invitations[v].ten
                         /\ invitations'[v].invitee = invitations[v].invitee
  BY InvitationsPersist
<1>3. \A i, t : FindMembership(i, t) \subseteq FindMembership(i, t)'
  BY FoundPersist
<1>4. HoldsMemberships(o)'
  BY <1>1 DEF HoldsMemberships
<1>5. HoldsInvitations(o)'
  BY <1>2, <1>3 DEF HoldsInvitations
<1>6. QED
  BY <1>4, <1>5

\* So only the handler that takes the step has to be looked at.
LEMMA OnlyTheStepping ==
  ASSUME TypeOK, StaleReadsHold, [Next]_vars,
         NEW p \in Processes, NEW state, Goto(p, state),
         HoldsMemberships(state)', HoldsInvitations(state)'
  PROVE  StaleReadsHold'
<1>1. SUFFICES ASSUME NEW q \in Processes
               PROVE  HoldsMemberships(op[q])' /\ HoldsInvitations(op[q])'
  BY DEF StaleReadsHold
<1>2. op' = [op EXCEPT ![p] = state] /\ op \in [Processes -> Handler]
  BY DEF Goto, TypeOK
<1>3. CASE q = p
  <2>1. op'[q] = state
    BY <1>2, <1>3
  <2>2. QED
    BY <2>1 DEF HoldsMemberships, HoldsInvitations
<1>4. CASE q # p
  <2>1. PICK o : o = op[q]
    OBVIOUS
  <2>2. op'[q] = o
    BY <1>2, <1>4, <2>1
  <2>3. HoldsMemberships(o) /\ HoldsInvitations(o)
    BY <2>1 DEF StaleReadsHold
  <2>4. HoldsMemberships(o)' /\ HoldsInvitations(o)'
    BY <2>3, MemoryPersists
  <2>5. QED
    BY <2>2, <2>4 DEF HoldsMemberships, HoldsInvitations
<1>5. QED
  BY <1>3, <1>4

\* And it is enough that what it remembers holds of the rows it read.
LEMMA Stepping ==
  ASSUME TypeOK, StaleReadsHold, [Next]_vars, NEW p \in Processes,
         \E state : /\ Goto(p, state)
                   /\ HoldsMemberships(state) /\ HoldsInvitations(state)
  PROVE  StaleReadsHold'
BY MemoryPersists, OnlyTheStepping

LEMMA IdleHolds == HoldsMemberships(Idle) /\ HoldsInvitations(Idle)
BY DEF Idle, HoldsMemberships, HoldsInvitations

LEMMA MembershipReadsHold ==
  ASSUME TypeOK, StaleReadsHold, [Next]_vars, NEW p \in Ops, EffectiveWasActivated,
         \/ \E i \in Identities, t \in Tenants, status \in {"pending", "active"} :
              CreateRead(p, i, t, status)
         \/ \E m \in MembershipIds : \/ ActivateRead(p, m) \/ SuspendRead(p, m)
                                    \/ ReactivateRead(p, m) \/ ArchiveRead(p, m)
         \/ \E i \in Identities : ActivatePendingRead(p, i) \/ ArchiveIdentityRead(p, i)
         \/ \E t \in Tenants, source \in {"tenant", "subscription"} :
              SuspendTenantRead(p, t, source)
         \/ \E t \in Tenants : RestoreSubscriptionRead(p, t) \/ ArchiveTenantRead(p, t)
         \/ \E i \in Identities, m \in MembershipIds : SwitchContextRead(p, i, m)
  PROVE  StaleReadsHold'
<1>p. p \in Processes
  BY DEF Processes
<1>a. \A m \in Members : memberships[m].status \in {"active", "suspended"} =>
                          memberships[m].activatedAt
  BY DEF EffectiveWasActivated
<1>s. {"manual", "tenant", "subscription"} \subseteq SuspensionSources
  BY DEF SuspensionSources
<1>1. ASSUME NEW i \in Identities, NEW t \in Tenants,
             NEW status \in {"pending", "active"}, CreateRead(p, i, t, status)
      PROVE  StaleReadsHold'
  <2> DEFINE state == [Idle EXCEPT !.step = "create", !.who = i, !.ten = t,
                                   !.arg = status]
  <2>1. HoldsMemberships(state) /\ HoldsInvitations(state)
    BY DEF Idle, HoldsMemberships, HoldsInvitations
  <2>2. Goto(p, state)
    BY <1>1 DEF CreateRead, Begin
  <2>3. QED
    BY <1>p, <2>1, <2>2, Stepping
<1>2. ASSUME NEW m \in MembershipIds, ActivateRead(p, m)
      PROVE  StaleReadsHold'
  <2> DEFINE state == [Idle EXCEPT !.step = "activate", !.mem = m, !.todo = {m}]
  <2>1. HoldsMemberships(state) /\ HoldsInvitations(state)
    BY <1>2 DEF ActivateRead, Idle, HoldsMemberships, HoldsInvitations
  <2>2. Goto(p, state)
    BY <1>2 DEF ActivateRead, Begin
  <2>3. QED
    BY <1>p, <2>1, <2>2, Stepping
<1>3. ASSUME NEW m \in MembershipIds, SuspendRead(p, m)
      PROVE  StaleReadsHold'
  <2> DEFINE state == [Idle EXCEPT !.step = "suspend", !.arg = "manual", !.todo = {m}]
  <2>1. HoldsMemberships(state) /\ HoldsInvitations(state)
    BY <1>3, <1>a, <1>s
    DEF SuspendRead, MaySuspend, Idle, HoldsMemberships, HoldsInvitations
  <2>2. Goto(p, state)
    BY <1>3 DEF SuspendRead, Begin
  <2>3. QED
    BY <1>p, <2>1, <2>2, Stepping
<1>4. ASSUME NEW m \in MembershipIds, ReactivateRead(p, m)
      PROVE  StaleReadsHold'
  <2> DEFINE state == [Idle EXCEPT !.step = "reactivate", !.todo = {m}]
  <2>1. HoldsMemberships(state) /\ HoldsInvitations(state)
    BY <1>4, <1>a
    DEF ReactivateRead, MayReactivate, Idle, HoldsMemberships, HoldsInvitations
  <2>2. Goto(p, state)
    BY <1>4 DEF ReactivateRead, Begin
  <2>3. QED
    BY <1>p, <2>1, <2>2, Stepping
<1>5. ASSUME NEW todo \in SUBSET Members,
             NEW step \in {"archive", "activatePending"},
             Goto(p, [Idle EXCEPT !.step = step, !.todo = todo])
      PROVE  StaleReadsHold'
  <2> DEFINE state == [Idle EXCEPT !.step = step, !.todo = todo]
  <2>1. HoldsMemberships(state) /\ HoldsInvitations(state)
    BY DEF Idle, HoldsMemberships, HoldsInvitations
  <2>2. QED
    BY <1>p, <1>5, <2>1, Stepping
<1>6. ASSUME NEW m \in MembershipIds, ArchiveRead(p, m)
      PROVE  StaleReadsHold'
  <2>1. {m} \in SUBSET Members
    BY <1>6 DEF ArchiveRead
  <2>2. QED
    BY <1>5, <1>6, <2>1 DEF ArchiveRead, Begin
<1>7. ASSUME NEW i \in Identities, ActivatePendingRead(p, i) \/ ArchiveIdentityRead(p, i)
      PROVE  StaleReadsHold'
  <2>1. \A statuses : ListByIdentity(i, statuses) \in SUBSET Members
    BY DEF ListByIdentity
  <2>2. QED
    BY <1>5, <1>7, <2>1 DEF ActivatePendingRead, ArchiveIdentityRead, Begin
<1>8. ASSUME NEW t \in Tenants, ArchiveTenantRead(p, t)
      PROVE  StaleReadsHold'
  <2>1. ListByTenant(t, NotArchived) \in SUBSET Members
    BY DEF ListByTenant
  <2>2. QED
    BY <1>5, <1>8, <2>1 DEF ArchiveTenantRead, Begin
<1>9. ASSUME NEW t \in Tenants, NEW source \in {"tenant", "subscription"},
             SuspendTenantRead(p, t, source)
      PROVE  StaleReadsHold'
  <2> DEFINE todo  == ListByTenant(t, {"active"})
             state == [Idle EXCEPT !.step = "suspend", !.arg = source, !.todo = todo]
  <2>1. \A m \in todo : m \in Members /\ memberships[m].activatedAt
    BY <1>a DEF ListByTenant
  <2>2. HoldsMemberships(state) /\ HoldsInvitations(state)
    BY <1>s, <2>1 DEF Idle, HoldsMemberships, HoldsInvitations
  <2>3. Goto(p, state)
    BY <1>9 DEF SuspendTenantRead, Begin
  <2>4. QED
    BY <1>p, <2>2, <2>3, Stepping
<1>10. ASSUME NEW t \in Tenants, RestoreSubscriptionRead(p, t)
      PROVE  StaleReadsHold'
  <2> DEFINE todo  == SubscriptionSuspended(t)
             state == [Idle EXCEPT !.step = "reactivate", !.arg = "subscription",
                                   !.todo = todo]
  <2>1. \A m \in todo : m \in Members /\ memberships[m].activatedAt
    BY <1>a DEF SubscriptionSuspended, ListByTenant
  <2>2. HoldsMemberships(state) /\ HoldsInvitations(state)
    BY <2>1 DEF Idle, HoldsMemberships, HoldsInvitations
  <2>3. Goto(p, state)
    BY <1>10 DEF RestoreSubscriptionRead, Begin
  <2>4. QED
    BY <1>p, <2>2, <2>3, Stepping
<1>11. ASSUME NEW i \in Identities, NEW m \in MembershipIds, SwitchContextRead(p, i, m)
      PROVE  StaleReadsHold'
  <2> DEFINE state == [Idle EXCEPT !.step = "switch", !.who = i, !.mem = m]
  <2>1. HoldsMemberships(state) /\ HoldsInvitations(state)
    BY <1>11, <1>a DEF SwitchContextRead, Idle, HoldsMemberships, HoldsInvitations
  <2>2. Goto(p, state)
    BY <1>11 DEF SwitchContextRead, Begin
  <2>3. QED
    BY <1>p, <2>1, <2>2, Stepping
<1>12. QED
  BY <1>1, <1>2, <1>3, <1>4, <1>6, <1>7, <1>8, <1>9, <1>10, <1>11

\* A loop that moves to its next row keeps what it knew of the rest.
LEMMA AdvanceHolds ==
  ASSUME TypeOK, StaleReadsHold, [Next]_vars, NEW p \in Processes, NEW x,
         \E next \in Handler :
           /\ Advance(p, x, next)
           /\ LET state == [next EXCEPT !.todo = @ \ {x}] IN
              HoldsMemberships(state) /\ HoldsInvitations(state)
  PROVE  StaleReadsHold'
BY IdleHolds, Stepping DEF Advance

LEMMA MembershipCommitsHold ==
  ASSUME TypeOK, StaleReadsHold, [Next]_vars, NEW p \in Ops,
         \/ ActivateCommit(p)
         \/ SwitchContextCommit(p)
         \/ \E m \in MembershipIds :
              \/ CreateCommit(p, m) \/ SuspendCommit(p, m)
              \/ ReactivateCommit(p, m) \/ ArchiveCommit(p, m)
              \/ ActivatePendingNext(p, m)
  PROVE  StaleReadsHold'
<1>p. p \in Processes /\ op[p] \in Handler
  BY DEF Processes, TypeOK
<1>h. HoldsMemberships(op[p])
  BY <1>p DEF StaleReadsHold
<1>1. CASE SwitchContextCommit(p) \/ \E m \in MembershipIds : CreateCommit(p, m)
  BY <1>1, <1>p, IdleHolds, Stepping DEF SwitchContextCommit, CreateCommit
<1>2. CASE ActivateCommit(p)
  <2> DEFINE m     == op[p].mem
             next  == [op[p] EXCEPT !.step = "activatePending", !.mem = None]
             state == [next EXCEPT !.todo = @ \ {m}]
  <2>1. next \in Handler
    BY <1>p DEF Handler, Steps
  <2>2. state.step = "activatePending" /\ state.todo = op[p].todo \ {m}
    BY <1>p, <2>1 DEF Handler
  <2>3. HoldsMemberships(state) /\ HoldsInvitations(state)
    BY <1>2, <1>h, <2>2 DEF ActivateCommit, At, HoldsMemberships, HoldsInvitations
  <2>4. Advance(p, m, next)
    BY <1>2 DEF ActivateCommit
  <2>5. QED
    BY <1>p, <2>1, <2>3, <2>4, AdvanceHolds
<1>3. ASSUME NEW m \in MembershipIds,
             SuspendCommit(p, m) \/ ReactivateCommit(p, m) \/ ArchiveCommit(p, m)
      PROVE  StaleReadsHold'
  <2> DEFINE state == [op[p] EXCEPT !.todo = @ \ {m}]
  <2>1. /\ op[p].step \in {"suspend", "reactivate", "archive"}
        /\ Advance(p, m, op[p])
    BY <1>3 DEF SuspendCommit, ReactivateCommit, ArchiveCommit, At
  <2>2. /\ state.step = op[p].step /\ state.todo = op[p].todo \ {m}
        /\ state.arg = op[p].arg
    BY <1>p DEF Handler
  <2>3. HoldsMemberships(state)
    BY <1>h, <2>1, <2>2 DEF HoldsMemberships
  <2>4. HoldsInvitations(state)
    BY <2>1, <2>2 DEF HoldsInvitations
  <2>5. QED
    BY <1>p, <2>1, <2>3, <2>4, AdvanceHolds
<1>4. ASSUME NEW m \in MembershipIds, ActivatePendingNext(p, m)
      PROVE  StaleReadsHold'
  <2> DEFINE state == [op[p] EXCEPT !.step = "activate", !.mem = m]
  <2>1. /\ state.step = "activate" /\ state.mem = m /\ state.todo = op[p].todo
    BY <1>p DEF Handler
  <2>2. m \in Members /\ op[p].todo \subseteq Members
    BY <1>4, <1>h DEF ActivatePendingNext, At, HoldsMemberships
  <2>3. HoldsMemberships(state) /\ HoldsInvitations(state)
    BY <2>1, <2>2 DEF HoldsMemberships, HoldsInvitations
  <2>4. Goto(p, state)
    BY <1>4 DEF ActivatePendingNext
  <2>5. QED
    BY <1>p, <2>3, <2>4, Stepping
<1>5. QED
  BY <1>1, <1>2, <1>3, <1>4

LEMMA InvitationStepsHold ==
  ASSUME TypeOK, StaleReadsHold, [Next]_vars, NEW p \in Ops, InvitationStep(p)
  PROVE  StaleReadsHold'
<1>p. p \in Processes /\ op[p] \in Handler
  BY DEF Processes, TypeOK
<1>h. HoldsInvitations(op[p])
  BY <1>p DEF StaleReadsHold
<1>1. ASSUME NEW t \in Tenants, NEW i \in Identities, InviteRead(p, t, i)
      PROVE  StaleReadsHold'
  <2> DEFINE state == [Idle EXCEPT !.step = "invite", !.who = i, !.ten = t]
  <2>1. HoldsMemberships(state) /\ HoldsInvitations(state)
    BY DEF Idle, HoldsMemberships, HoldsInvitations
  <2>2. Goto(p, state)
    BY <1>1 DEF InviteRead, Begin
  <2>3. QED
    BY <1>p, <2>1, <2>2, Stepping
<1>2. ASSUME NEW v \in InvitationIds, NEW step \in {"revoke", "expire"},
             v \in Invites, Goto(p, [Idle EXCEPT !.step = step, !.inv = v])
      PROVE  StaleReadsHold'
  <2> DEFINE state == [Idle EXCEPT !.step = step, !.inv = v]
  <2>1. HoldsMemberships(state) /\ HoldsInvitations(state)
    BY <1>2 DEF Idle, HoldsMemberships, HoldsInvitations
  <2>2. QED
    BY <1>p, <1>2, <2>1, Stepping
<1>3. ASSUME NEW v \in InvitationIds, RevokeRead(p, v) \/ ExpireRead(p, v)
      PROVE  StaleReadsHold'
  BY <1>2, <1>3 DEF RevokeRead, ExpireRead, Begin
<1>4. ASSUME NEW i \in Identities, NEW v \in InvitationIds, RedeemRead(p, i, v)
      PROVE  StaleReadsHold'
  <2> DEFINE t     == invitations[v].ten
             state == [Idle EXCEPT !.step = "redeem", !.who = i, !.inv = v, !.ten = t]
  <2>1. v \in Invites /\ t \in Tenants /\ invitations[v].invitee = i
    BY <1>4, RowTypes DEF RedeemRead, InvitationRow
  <2>2. HoldsMemberships(state) /\ HoldsInvitations(state)
    BY <2>1 DEF Idle, HoldsMemberships, HoldsInvitations
  <2>3. Goto(p, state)
    BY <1>4 DEF RedeemRead, Begin
  <2>4. QED
    BY <1>p, <2>2, <2>3, Stepping
<1>5. CASE RedeemFindMembership(p)
  <2> DEFINE found == FindMembership(op[p].who, op[p].ten)
             mem   == IF found = {} THEN None ELSE CHOOSE m \in found : TRUE
             state == [op[p] EXCEPT !.step = "redeemCommit", !.mem = mem]
  <2>1. /\ state.step = "redeemCommit" /\ state.mem = mem
        /\ state.who = op[p].who /\ state.ten = op[p].ten /\ state.inv = op[p].inv
    BY <1>p DEF Handler
  <2>2. mem = None \/ mem \in found
    OBVIOUS
  <2>3. /\ op[p].who \in Identities /\ op[p].ten \in Tenants
        /\ op[p].inv \in Invites
        /\ invitations[op[p].inv].ten = op[p].ten
        /\ invitations[op[p].inv].invitee = op[p].who
    BY <1>5, <1>h DEF RedeemFindMembership, At, HoldsInvitations
  <2>4. HoldsMemberships(state)
    BY <2>1 DEF HoldsMemberships
  <2>5. HoldsInvitations(state)
    <3> HIDE DEF mem, state
    <3>1. QED
      BY <2>1, <2>2, <2>3 DEF HoldsInvitations
  <2>6. Goto(p, state)
    BY <1>5 DEF RedeemFindMembership
  <2>7. QED
    BY <1>p, <2>4, <2>5, <2>6, Stepping
<1>6. CASE \/ RedeemCommit(p) \/ RevokeCommit(p) \/ ExpireCommit(p)
           \/ \E v \in InvitationIds : InviteCommit(p, v)
  BY <1>6, <1>p, IdleHolds, Stepping
  DEF RedeemCommit, RevokeCommit, ExpireCommit, InviteCommit
<1>7. QED
  BY <1>1, <1>3, <1>4, <1>5, <1>6 DEF InvitationStep

LEMMA WorkerStepsHold ==
  ASSUME TypeOK, StaleReadsHold, [Next]_vars, NEW w \in Workers, WorkerStep(w)
  PROVE  StaleReadsHold'
<1>w. w \in Processes /\ op[w] \in Handler
  BY DEF Processes, TypeOK
<1>h. HoldsInvitations(op[w])
  BY <1>w DEF StaleReadsHold
<1>1. CASE SweepRead(w)
  <2>1. PICK batch \in SUBSET ExpiredPending :
          Goto(w, [Idle EXCEPT !.step = "sweep", !.todo = batch])
    BY <1>1 DEF SweepRead, Begin
  <2> DEFINE state == [Idle EXCEPT !.step = "sweep", !.todo = batch]
  <2>2. batch \subseteq Invites
    BY DEF ExpiredPending
  <2>3. HoldsMemberships(state) /\ HoldsInvitations(state)
    BY <2>2 DEF Idle, HoldsMemberships, HoldsInvitations
  <2>4. QED
    BY <1>w, <2>1, <2>3, Stepping
<1>2. ASSUME NEW v \in InvitationIds, SweepNext(w, v)
      PROVE  StaleReadsHold'
  <2> DEFINE state == [op[w] EXCEPT !.step = "sweepExpire", !.inv = v]
  <2>1. state.step = "sweepExpire" /\ state.inv = v /\ state.todo = op[w].todo
    BY <1>w DEF Handler
  <2>2. v \in Invites /\ op[w].todo \subseteq Invites
    BY <1>2, <1>h DEF SweepNext, At, HoldsInvitations
  <2>3. HoldsMemberships(state) /\ HoldsInvitations(state)
    BY <2>1, <2>2 DEF HoldsMemberships, HoldsInvitations
  <2>4. Goto(w, state)
    BY <1>2 DEF SweepNext
  <2>5. QED
    BY <1>w, <2>3, <2>4, Stepping
<1>3. ASSUME NEW v \in InvitationIds, SweepSkip(w, v)
      PROVE  StaleReadsHold'
  <2> DEFINE state == [op[w] EXCEPT !.todo = @ \ {v}]
  <2>1. state.step = op[w].step /\ state.todo = op[w].todo \ {v}
    BY <1>w DEF Handler
  <2>2. op[w].step = "sweep" /\ Advance(w, v, op[w])
    BY <1>3 DEF SweepSkip, At
  <2>3. HoldsMemberships(state)
    BY <2>1, <2>2 DEF HoldsMemberships
  <2>4. HoldsInvitations(state)
    BY <1>h, <2>1, <2>2 DEF HoldsInvitations
  <2>5. QED
    BY <1>w, <2>2, <2>3, <2>4, AdvanceHolds
<1>4. CASE SweepCommit(w) \/ SweepFail(w)
  <2> DEFINE v     == op[w].inv
             next  == [op[w] EXCEPT !.step = "sweep", !.inv = None]
             state == [next EXCEPT !.todo = @ \ {v}]
  <2>1. next \in Handler
    BY <1>w DEF Handler, Steps
  <2>2. state.step = "sweep" /\ state.todo = op[w].todo \ {v}
    BY <1>w, <2>1 DEF Handler
  <2>3. op[w].step = "sweepExpire" /\ Advance(w, v, next)
    BY <1>4 DEF SweepCommit, SweepFail, At
  <2>4. HoldsMemberships(state)
    BY <2>2 DEF HoldsMemberships
  <2>5. HoldsInvitations(state)
    BY <1>h, <2>2, <2>3 DEF HoldsInvitations
  <2>6. QED
    BY <1>w, <2>1, <2>3, <2>4, <2>5, AdvanceHolds
<1>5. QED
  BY <1>1, <1>2, <1>3, <1>4 DEF WorkerStep

LEMMA StaleReadsStep ==
  ASSUME TypeOK, StaleReadsHold, EffectiveWasActivated, [Next]_vars
  PROVE  StaleReadsHold'
<1>1. CASE UNCHANGED vars
  BY <1>1
  DEF vars, StaleReadsHold, HoldsMemberships, HoldsInvitations, Members, Invites,
      FindMembership
<1>2. ASSUME NEW p \in Ops, MembershipStep(p)
      PROVE  StaleReadsHold'
  BY <1>2, MembershipReadsHold, MembershipCommitsHold DEF MembershipStep
<1>3. ASSUME NEW p \in Ops, InvitationStep(p)
      PROVE  StaleReadsHold'
  BY <1>3, InvitationStepsHold
<1>4. ASSUME NEW p \in Ops, ContextStep(p)
      PROVE  StaleReadsHold'
  BY <1>4, MembershipReadsHold, MembershipCommitsHold DEF ContextStep
<1>5. ASSUME NEW w \in Workers, WorkerStep(w)
      PROVE  StaleReadsHold'
  BY <1>5, WorkerStepsHold
<1>6. ASSUME NEW v \in InvitationIds, Lapse(v)
      PROVE  StaleReadsHold'
  <2>1. UNCHANGED <<memberships, invitations, op>>
    BY <1>6 DEF Lapse, db
  <2>2. QED
    BY <2>1
    DEF StaleReadsHold, HoldsMemberships, HoldsInvitations, Members, Invites,
        FindMembership
<1>7. ASSUME NEW p \in Processes, Abandon(p)
      PROVE  StaleReadsHold'
  BY <1>7, IdleHolds, Stepping DEF Abandon
<1>8. QED
  BY <1>1, <1>2, <1>3, <1>4, <1>5, <1>6, <1>7 DEF Next

-----------------------------------------------------------------------------
(* The invariants, each preserved because of the shape of a write.         *)

LEMMA EffectiveStep ==
  ASSUME TypeOK, StaleReadsHold, EffectiveWasActivated, [Next]_vars
  PROVE  EffectiveWasActivated'
<1>1. ASSUME NEW m \in Members', memberships'[m].status \in {"active", "suspended"}
      PROVE  memberships'[m].activatedAt
  <2>1. MembershipWrite(m) /\ m \in MembershipIds
    BY MembershipWrites DEF Members
  <2>2. CASE memberships'[m] = memberships[m]
    BY <1>1, <2>1, <2>2 DEF EffectiveWasActivated, Members
  <2>3. ASSUME NEW i \in Identities, NEW t \in Tenants,
               NEW status \in {"pending", "active"},
               InsertMembership(m, NewMembership(i, t, status))
        PROVE  memberships'[m].activatedAt
    BY <1>1, <2>1, <2>3 DEF InsertMembership, NewMembership, TypeOK
  <2>4. CASE memberships[m] # None
    <3>1. memberships[m] \in MembershipRow
      BY <2>1, <2>4, RowTypes DEF Members
    <3>2. CASE memberships'[m] = ActivatePatch(memberships[m])
      BY <3>1, <3>2 DEF ActivatePatch, MembershipRow
    <3>3. CASE memberships'[m] = ArchivePatch(memberships[m])
      BY <1>1, <3>1, <3>3 DEF ArchivePatch, MembershipRow
    <3>4. CASE /\ memberships[m].activatedAt
               /\ memberships'[m] = ReactivatePatch(memberships[m])
      BY <3>1, <3>4 DEF ReactivatePatch, MembershipRow
    <3>5. CASE /\ memberships[m].activatedAt
               /\ \E source \in SuspensionSources :
                    memberships'[m] = SuspendPatch(memberships[m], source)
      BY <3>1, <3>5 DEF SuspendPatch, MembershipRow
    <3>6. QED
      BY <2>1, <2>2, <2>4, <3>2, <3>3, <3>4, <3>5 DEF MembershipWrite
  <2>5. QED
    BY <2>1, <2>2, <2>3, <2>4 DEF MembershipWrite
<1>2. ASSUME NEW i \in Identities, contexts'[i] # None
      PROVE  /\ contexts'[i] \in Members'
             /\ memberships'[contexts'[i]].activatedAt
             /\ memberships'[contexts'[i]].who = i
  <2>1. SUFFICES /\ contexts'[i] \in Members
                 /\ memberships[contexts'[i]].activatedAt
                 /\ memberships[contexts'[i]].who = i
    BY MembershipsPersist
  <2>2. CASE contexts'[i] = contexts[i]
    BY <1>2, <2>2 DEF EffectiveWasActivated
  <2>3. ASSUME NEW p \in Ops, SwitchContextCommit(p)
        PROVE  /\ contexts'[i] \in Members
               /\ memberships[contexts'[i]].activatedAt
               /\ memberships[contexts'[i]].who = i
    <3>1. HoldsMemberships(op[p])
      BY DEF StaleReadsHold, Processes
    <3>2. /\ op[p].mem \in Members /\ memberships[op[p].mem].activatedAt
          /\ memberships[op[p].mem].who = op[p].who
      BY <2>3, <3>1 DEF SwitchContextCommit, At, HoldsMemberships
    <3>3. contexts'[i] = contexts[i] \/ (i = op[p].who /\ contexts'[i] = op[p].mem)
      BY <2>3 DEF SwitchContextCommit, TypeOK
    <3>4. QED
      BY <2>2, <3>2, <3>3
  <2>4. UNCHANGED contexts \/ \E p \in Ops : SwitchContextCommit(p)
    BY StepCases
    DEF db, CreateCommit, SuspendCommit, ReactivateCommit, ArchiveCommit,
        ActivateCommit, InviteCommit, RedeemCommit, RevokeCommit, ExpireCommit,
        ExpireInvitation, SweepCommit
  <2>5. QED
    BY <2>2, <2>3, <2>4
<1>3. QED
  BY <1>1, <1>2 DEF EffectiveWasActivated

LEMMA ExplainedStep ==
  ASSUME TypeOK, StaleReadsHold, StatusIsExplained, [Next]_vars
  PROVE  StatusIsExplained'
<1>1. SUFFICES ASSUME NEW m \in Members'
               PROVE  /\ memberships'[m].status = "suspended" =>
                           memberships'[m].source # None
                      /\ memberships'[m].status = "archived" =>
                           /\ memberships'[m].archivedAt
                           /\ memberships'[m].source = None
  BY DEF StatusIsExplained
<1>2. MembershipWrite(m) /\ m \in MembershipIds
  BY MembershipWrites DEF Members
<1>3. CASE memberships'[m] = memberships[m]
  BY <1>2, <1>3 DEF StatusIsExplained, Members
<1>4. ASSUME NEW i \in Identities, NEW t \in Tenants,
             NEW status \in {"pending", "active"},
             InsertMembership(m, NewMembership(i, t, status))
      PROVE  memberships'[m].status \in {"pending", "active"}
  BY <1>2, <1>4 DEF InsertMembership, NewMembership, TypeOK
<1>5. ASSUME memberships[m] # None,
             \/ memberships'[m] = ActivatePatch(memberships[m])
             \/ memberships'[m] = ReactivatePatch(memberships[m])
      PROVE  memberships'[m].status = "active"
  <2>1. memberships[m] \in MembershipRow
    BY <1>2, <1>5, RowTypes DEF Members
  <2>2. QED
    BY <1>5, <2>1 DEF ActivatePatch, ReactivatePatch, MembershipRow
<1>6. ASSUME memberships[m] # None, memberships'[m] = ArchivePatch(memberships[m])
      PROVE  /\ memberships'[m].status = "archived"
             /\ memberships'[m].archivedAt /\ memberships'[m].source = None
  <2>1. memberships[m] \in MembershipRow
    BY <1>2, <1>6, RowTypes DEF Members
  <2>2. QED
    BY <1>6, <2>1 DEF ArchivePatch, MembershipRow
<1>7. ASSUME memberships[m] # None, NEW source \in SuspensionSources,
             memberships'[m] = SuspendPatch(memberships[m], source)
      PROVE  memberships'[m].status = "suspended" /\ memberships'[m].source # None
  <2>1. memberships[m] \in MembershipRow /\ source # None
    BY <1>2, <1>7, RowTypes, NoneIsNoValue DEF Members
  <2>2. QED
    BY <1>7, <2>1 DEF SuspendPatch, MembershipRow
<1>8. QED
  BY <1>2, <1>3, <1>4, <1>5, <1>6, <1>7 DEF MembershipWrite

LEMMA AnnouncedStep ==
  ASSUME TypeOK, StaleReadsHold, AnnouncedIsStored, [Next]_vars
  PROVE  AnnouncedIsStored'
<1>1. ASSUME NEW m \in Members'
      PROVE  memberships'[m].status = EventStatus(announced'[m])
  <2>1. MembershipWrite(m) /\ m \in MembershipIds
    BY MembershipWrites DEF Members
  <2>2. CASE memberships'[m] = memberships[m] /\ announced'[m] = announced[m]
    BY <1>1, <2>1, <2>2 DEF AnnouncedIsStored, Members
  <2>3. ASSUME NEW i \in Identities, NEW t \in Tenants,
               NEW status \in {"pending", "active"},
               InsertMembership(m, NewMembership(i, t, status)),
               announced'[m] = CreationEvent(status)
        PROVE  memberships'[m].status = EventStatus(announced'[m])
    BY <2>1, <2>3
    DEF InsertMembership, NewMembership, CreationEvent, EventStatus, TypeOK
  <2>4. ASSUME memberships[m] # None
        PROVE  memberships[m] \in MembershipRow
    BY <2>1, <2>4, RowTypes DEF Members
  <2>5. QED
    BY <2>1, <2>2, <2>3, <2>4
    DEF MembershipWrite, ActivatePatch, ReactivatePatch, ArchivePatch,
        SuspendPatch, MembershipRow, EventStatus
<1>2. ASSUME NEW v \in Invites'
      PROVE  invitations'[v].status = EventStatus(announced'[v])
  <2>1. InvitationWrite(v) /\ v \in InvitationIds
    BY InvitationWrites DEF Invites
  <2>2. CASE invitations'[v] = invitations[v] /\ announced'[v] = announced[v]
    BY <1>2, <2>1, <2>2 DEF AnnouncedIsStored, Invites
  <2>3. ASSUME NEW i \in Identities, NEW t \in Tenants,
               InsertInvitation(v, NewInvitation(t, i)), announced'[v] = "created"
        PROVE  invitations'[v].status = EventStatus(announced'[v])
    BY <2>1, <2>3 DEF InsertInvitation, NewInvitation, EventStatus, TypeOK
  <2>4. ASSUME invitations[v] # None
        PROVE  invitations[v] \in InvitationRow
    BY <2>1, <2>4, RowTypes DEF Invites
  <2>5. QED
    BY <2>1, <2>2, <2>3, <2>4
    DEF InvitationWrite, RedeemPatch, RevokePatch, ExpirePatch, InvitationRow,
        EventStatus
<1>3. QED
  BY <1>1, <1>2 DEF AnnouncedIsStored

\* A row after the step is an old row, of the same identity and tenant, or
\* the row inserted by the step.
LEMMA OldOrInserted ==
  ASSUME TypeOK, StaleReadsHold, [Next]_vars, NEW i, NEW t,
         NEW m \in FindMembership(i, t)'
  PROVE  \/ m \in FindMembership(i, t)
         \/ \E row \in MembershipRow :
              /\ InsertMembership(m, row) /\ row.who = i /\ row.ten = t
<1>1. /\ m \in MembershipIds /\ MembershipWrite(m) /\ memberships'[m] # None
      /\ memberships'[m].who = i /\ memberships'[m].ten = t
  BY MembershipWrites DEF FindMembership, Members
<1>2. CASE memberships[m] # None
  <2>1. m \in Members
    BY <1>1, <1>2 DEF Members
  <2>2. QED
    BY <1>1, <2>1, MembershipsPersist DEF FindMembership
<1>3. CASE memberships[m] = None
  <2>1. PICK row \in MembershipRow : InsertMembership(m, row)
    BY <1>1, <1>3, NewRowTypes DEF MembershipWrite
  <2>2. memberships'[m] = row
    BY <1>1, <2>1 DEF InsertMembership, TypeOK
  <2>3. QED
    BY <1>1, <2>1, <2>2
<1>4. QED
  BY <1>2, <1>3

LEMMA OneMembershipStep ==
  ASSUME TypeOK, StaleReadsHold, OneMembershipPerTenant, [Next]_vars
  PROVE  OneMembershipPerTenant'
<1>1. SUFFICES ASSUME NEW i \in Identities, NEW t \in Tenants,
                      NEW m \in FindMembership(i, t)',
                      NEW n \in FindMembership(i, t)'
               PROVE  m = n
  BY DEF OneMembershipPerTenant
<1>2. \A k \in FindMembership(i, t)' :
         \/ k \in FindMembership(i, t)
         \/ \E row \in MembershipRow :
              /\ InsertMembership(k, row) /\ row.who = i /\ row.ten = t
  BY OldOrInserted
<1>3. CASE m \in FindMembership(i, t) /\ n \in FindMembership(i, t)
  BY <1>3 DEF OneMembershipPerTenant
<1>4. ASSUME NEW k \in MembershipIds, NEW l \in FindMembership(i, t)',
             NEW row \in MembershipRow,
             InsertMembership(k, row), row.who = i, row.ten = t
      PROVE  k = l
  <2>1. FindMembership(i, t) = {}
    BY <1>4 DEF InsertMembership
  <2>2. l \in MembershipIds /\ memberships'[l] # None /\ memberships[l] = None
    BY <1>2, <2>1 DEF InsertMembership, FindMembership, Members
  <2>3. QED
    BY <1>4, <2>2 DEF InsertMembership, TypeOK
<1>5. m \in MembershipIds /\ n \in MembershipIds
  BY DEF FindMembership, Members
<1>6. QED
  BY <1>2, <1>3, <1>4, <1>5

LEMMA OneInvitationStep ==
  ASSUME TypeOK, StaleReadsHold, OneLiveInvitation, [Next]_vars
  PROVE  OneLiveInvitation'
<1>1. SUFFICES ASSUME NEW i \in Identities, NEW t \in Tenants,
                      NEW u \in FindPendingInvitation(t, i)',
                      NEW v \in FindPendingInvitation(t, i)'
               PROVE  u = v
  BY DEF OneLiveInvitation
<1>2. ASSUME NEW k \in FindPendingInvitation(t, i)'
      PROVE  /\ k \in InvitationIds /\ invitations'[k] # None
             /\ \/ k \in FindPendingInvitation(t, i)
                \/ /\ invitations[k] = None
                   /\ InsertInvitation(k, NewInvitation(t, i))
  <2>1. /\ k \in InvitationIds /\ InvitationWrite(k) /\ invitations'[k] # None
        /\ invitations'[k].ten = t /\ invitations'[k].invitee = i
        /\ invitations'[k].status = "pending"
    BY <1>2, InvitationWrites DEF FindPendingInvitation, Invites
  <2>2. CASE invitations'[k] = invitations[k]
    BY <2>1, <2>2 DEF FindPendingInvitation, Invites
  <2>3. ASSUME NEW j \in Identities, NEW s \in Tenants, invitations[k] = None,
               InsertInvitation(k, NewInvitation(s, j))
        PROVE  /\ invitations[k] = None
               /\ InsertInvitation(k, NewInvitation(t, i))
    <3>1. invitations'[k] = NewInvitation(s, j)
      BY <2>1, <2>3 DEF InsertInvitation, TypeOK
    <3>2. s = t /\ j = i
      BY <2>1, <3>1 DEF NewInvitation
    <3>3. QED
      BY <2>3, <3>2
  <2>4. CASE invitations[k] # None /\ invitations'[k] # invitations[k]
    <3>1. invitations[k] \in InvitationRow
      BY <2>1, <2>4, RowTypes DEF Invites
    <3>2. invitations'[k].status \in {"redeemed", "revoked", "expired"}
      BY <2>1, <2>4, <3>1
      DEF InvitationWrite, RedeemPatch, RevokePatch, ExpirePatch, InvitationRow
    <3>3. QED
      BY <2>1, <3>2
  <2>5. QED
    BY <2>1, <2>2, <2>3, <2>4 DEF InvitationWrite
<1>3. CASE u \in FindPendingInvitation(t, i) /\ v \in FindPendingInvitation(t, i)
  BY <1>3 DEF OneLiveInvitation
<1>4. ASSUME NEW k \in FindPendingInvitation(t, i)',
             NEW l \in FindPendingInvitation(t, i)',
             InsertInvitation(k, NewInvitation(t, i))
      PROVE  k = l
  <2>1. FindPendingInvitation(t, i) = {}
    BY <1>4 DEF InsertInvitation, NewInvitation
  <2>2. invitations[l] = None /\ invitations'[l] # None /\ l \in InvitationIds
    BY <1>2, <2>1
  <2>3. QED
    BY <1>2, <1>4, <2>2 DEF InsertInvitation, TypeOK
<1>5. QED
  BY <1>2, <1>3, <1>4

LEMMA RedeemedStep ==
  ASSUME TypeOK, StaleReadsHold, RedeemedHasMembership, [Next]_vars
  PROVE  RedeemedHasMembership'
<1>1. SUFFICES ASSUME NEW v \in Invites', invitations'[v].redeemedBy # None
               PROVE  (FindMembership(invitations[v].redeemedBy,
                                      invitations[v].ten) # {})'
  BY DEF RedeemedHasMembership
<1>2. InvitationWrite(v) /\ v \in InvitationIds
  BY InvitationWrites DEF Invites
<1>3. \A i, t : FindMembership(i, t) # {} => FindMembership(i, t)' # {}
  BY FoundPersist
<1>4. CASE /\ invitations[v] # None
           /\ invitations'[v].redeemedBy = invitations[v].redeemedBy
           /\ invitations'[v].ten = invitations[v].ten
  <2>1. PICK i, t : i = invitations[v].redeemedBy /\ t = invitations[v].ten
    OBVIOUS
  <2>2. FindMembership(i, t) # {}
    BY <1>1, <1>4, <1>2, <2>1 DEF RedeemedHasMembership, Invites
  <2>3. FindMembership(i, t)' # {}
    BY <1>3, <2>2
  <2>4. QED
    BY <1>4, <2>1, <2>3 DEF FindMembership
<1>5. ASSUME NEW i \in Identities, NEW t \in Tenants,
             invitations[v] = None, InsertInvitation(v, NewInvitation(t, i))
      PROVE  FALSE
  BY <1>1, <1>2, <1>5 DEF InsertInvitation, NewInvitation, TypeOK
<1>6. ASSUME NEW i \in Identities, invitations[v] # None,
             invitations'[v] = RedeemPatch(invitations[v], i),
             \/ FindMembership(i, invitations[v].ten) # {}
             \/ \E m \in MembershipIds :
                  InsertMembership(m, NewMembership(i, invitations[v].ten, "pending"))
      PROVE  (FindMembership(invitations[v].redeemedBy, invitations[v].ten) # {})'
  <2>1. invitations[v] \in InvitationRow
    BY <1>2, <1>6, RowTypes DEF Invites
  <2>2. PICK t : t = invitations[v].ten
    OBVIOUS
  <2>3. invitations'[v].redeemedBy = i /\ invitations'[v].ten = t /\ t \in Tenants
    BY <1>6, <2>1, <2>2 DEF RedeemPatch, InvitationRow
  <2>4. FindMembership(i, t)' # {}
    <3>1. CASE FindMembership(i, t) # {}
      BY <1>3, <3>1
    <3>2. ASSUME NEW m \in MembershipIds,
                 InsertMembership(m, NewMembership(i, t, "pending"))
          PROVE  m \in FindMembership(i, t)'
      <4>1. memberships'[m] = NewMembership(i, t, "pending")
        BY <3>2 DEF InsertMembership, TypeOK
      <4>2. NewMembership(i, t, "pending") # None
        BY <2>3, NewRowTypes, NoneIsNoValue
      <4>3. QED
        BY <4>1, <4>2 DEF FindMembership, Members, NewMembership
    <3>3. QED
      BY <1>6, <2>2, <3>1, <3>2
  <2>5. QED
    BY <2>3, <2>4 DEF FindMembership
<1>7. CASE invitations'[v] = invitations[v]
  BY <1>1, <1>4, <1>7 DEF Invites
<1>8. ASSUME invitations[v] # None,
             \/ invitations'[v] = RevokePatch(invitations[v])
             \/ invitations'[v] = ExpirePatch(invitations[v])
      PROVE  (FindMembership(invitations[v].redeemedBy, invitations[v].ten) # {})'
  <2>1. invitations[v] \in InvitationRow
    BY <1>2, <1>8, RowTypes DEF Invites
  <2>2. QED
    BY <1>4, <1>8, <2>1 DEF RevokePatch, ExpirePatch, InvitationRow
<1>9. QED
  BY <1>2, <1>5, <1>6, <1>7, <1>8 DEF InvitationWrite

-----------------------------------------------------------------------------
(* The inductive invariant.  TypeOK and EffectiveWasActivated are not      *)
(* inductive alone: a commit patches rows its handler read earlier, and    *)
(* StaleReadsHold is what the reads still guarantee by then.               *)

Safety ==
  /\ TypeOK /\ StaleReadsHold /\ EffectiveWasActivated
  /\ StatusIsExplained /\ AnnouncedIsStored
  /\ OneMembershipPerTenant /\ OneLiveInvitation /\ RedeemedHasMembership

LEMMA SafetyInit == Init => Safety
<1>1. SUFFICES ASSUME Init PROVE Safety
  OBVIOUS
<1>2. Members = {} /\ Invites = {} /\ \A p \in Processes : op[p] = Idle
  BY <1>1 DEF Init, Members, Invites
<1>3. TypeOK
  BY <1>1, IdleType DEF Init, TypeOK
<1>4. StaleReadsHold
  BY <1>2, IdleHolds DEF StaleReadsHold
<1>5. EffectiveWasActivated
  BY <1>1, <1>2 DEF EffectiveWasActivated, Init
<1>6. StatusIsExplained /\ AnnouncedIsStored /\ RedeemedHasMembership
  BY <1>2 DEF StatusIsExplained, AnnouncedIsStored, RedeemedHasMembership
<1>7. OneMembershipPerTenant /\ OneLiveInvitation
  BY <1>2 DEF OneMembershipPerTenant, OneLiveInvitation, FindMembership,
              FindPendingInvitation
<1>8. QED
  BY <1>3, <1>4, <1>5, <1>6, <1>7 DEF Safety

LEMMA SafetyStep == Safety /\ [Next]_vars => Safety'
BY TypeStep, StaleReadsStep, EffectiveStep, ExplainedStep, AnnouncedStep,
   OneMembershipStep, OneInvitationStep, RedeemedStep
DEF Safety

\* Every reachable state of the service satisfies all its safety invariants,
\* whatever the number of rows, handlers and server processes.
THEOREM MembershipIsSafe == Spec => []Safety
BY SafetyInit, SafetyStep, PTL DEF Spec

\* Every store row and every handler's memory keeps its type.
THEOREM TypeCorrect == Spec => []TypeOK
<1>1. Safety => TypeOK
  BY DEF Safety
<1>2. QED
  BY <1>1, MembershipIsSafe, PTL

\* What a handler read before its awaits still holds, as far as its commit
\* relies on it: rows are never removed and never change owner.
THEOREM StaleReadsAreHarmless == Spec => []StaleReadsHold
<1>1. Safety => StaleReadsHold
  BY DEF Safety
<1>2. QED
  BY <1>1, MembershipIsSafe, PTL

\* Creations, redemptions and invites that race, or are delivered again,
\* leave an identity one membership of a tenant and an email one pending
\* invitation to it.
THEOREM AtMostOneOfEach == Spec => []RowsAreUnique
<1>1. Safety => RowsAreUnique
  BY DEF Safety, RowsAreUnique
<1>2. QED
  BY <1>1, MembershipIsSafe, PTL

\* A redemption is never stored without the membership it grants.
THEOREM RedemptionIsComplete == Spec => []RedeemedHasMembership
<1>1. Safety => RedeemedHasMembership
  BY DEF Safety
<1>2. QED
  BY <1>1, MembershipIsSafe, PTL

\* No interleaving of last-writer-wins patches makes a membership effective
\* that was never activated, or selects it as a context.
THEOREM NothingEffectiveUnactivated == Spec => []EffectiveWasActivated
<1>1. Safety => EffectiveWasActivated
  BY DEF Safety
<1>2. QED
  BY <1>1, MembershipIsSafe, PTL

\* A suspended row names its source, an archived row its archival.
THEOREM StatusAlwaysExplained == Spec => []StatusIsExplained
<1>1. Safety => StatusIsExplained
  BY DEF Safety
<1>2. QED
  BY <1>1, MembershipIsSafe, PTL

\* The last event published for an aggregate tells its stored status.
THEOREM AnnouncementsAreFaithful == Spec => []AnnouncedIsStored
<1>1. Safety => AnnouncedIsStored
  BY DEF Safety
<1>2. QED
  BY <1>1, MembershipIsSafe, PTL

-----------------------------------------------------------------------------
(* One handler at a time: the documented lifecycles. *)

\* What the only handler has read is still so when it commits.
FreshMemberships(o) ==
  /\ o.step = "activate" => memberships[o.mem].status = "pending"
  /\ o.step = "suspend" =>
       /\ o.arg \in {"manual", "tenant", "subscription"}
       /\ \A m \in o.todo : memberships[m].status = "active"
  /\ o.step = "reactivate" =>
       \A m \in o.todo :
         /\ memberships[m].status = "suspended"
         /\ o.arg = "subscription" => memberships[m].source = "subscription"
  /\ o.step = "archive" => \A m \in o.todo : memberships[m].status # "archived"
  /\ o.step = "switch" => memberships[o.mem].status = "active"

FreshInvitations(o) ==
  /\ o.step \in {"redeem", "redeemCommit", "revoke", "expire", "sweepExpire"} =>
       invitations[o.inv].status = "pending"
  /\ o.step = "redeemCommit" /\ o.mem # None =>
       memberships[o.mem].status \in {"pending", "active"}

\* Only a suspension has a source; an activation would otherwise keep it.
SourceOfSuspension ==
  \A m \in Members : memberships[m].status # "suspended" => memberships[m].source = None

\* The strengthening of Safety for one handler.
Fresh ==
  /\ \A p \in Processes : FreshMemberships(op[p]) /\ FreshInvitations(op[p])
  /\ SourceOfSuspension

LEMMA OnlyHandlerMoves ==
  ASSUME OneHandler, TypeOK, NEW p \in Processes, NEW state, Goto(p, state)
  PROVE  \A q \in Processes : op'[q] = state
BY DEF OneHandler, TypeOK, Goto

\* A handler that only reads is fresh if what it now remembers is.
LEMMA QuietFresh ==
  ASSUME OneHandler, TypeOK, Fresh, NEW p \in Processes, UNCHANGED db,
         \E state : Goto(p, state) /\ FreshMemberships(state) /\ FreshInvitations(state)
  PROVE  Fresh'
<1>1. PICK state : Goto(p, state) /\ FreshMemberships(state) /\ FreshInvitations(state)
  OBVIOUS
<1>2. \A q \in Processes : op'[q] = state
  BY <1>1, OnlyHandlerMoves
<1>3. memberships' = memberships /\ invitations' = invitations
  BY DEF db
<1>4. ASSUME NEW q \in Processes
      PROVE  FreshMemberships(op[q])' /\ FreshInvitations(op[q])'
  BY <1>1, <1>2, <1>3 DEF FreshMemberships, FreshInvitations
<1>5. SourceOfSuspension'
  BY <1>3 DEF Fresh, SourceOfSuspension, Members
<1> QED  BY <1>4, <1>5 DEF Fresh

LEMMA IdleIsFresh == FreshMemberships(Idle) /\ FreshInvitations(Idle)
BY DEF Idle, FreshMemberships, FreshInvitations

\* What each read of a membership use case selects is as the rule wants it.
LEMMA MembershipReadsFresh ==
  ASSUME OneHandler, TypeOK, Fresh, NEW p \in Processes,
         \/ \E i \in Identities, t \in Tenants, status \in {"pending", "active"} :
              CreateRead(p, i, t, status)
         \/ \E m \in MembershipIds : \/ ActivateRead(p, m) \/ SuspendRead(p, m)
                                    \/ ReactivateRead(p, m) \/ ArchiveRead(p, m)
         \/ \E i \in Identities : ActivatePendingRead(p, i) \/ ArchiveIdentityRead(p, i)
         \/ \E t \in Tenants, source \in {"tenant", "subscription"} :
              SuspendTenantRead(p, t, source)
         \/ \E t \in Tenants : RestoreSubscriptionRead(p, t) \/ ArchiveTenantRead(p, t)
         \/ \E i \in Identities, m \in MembershipIds : SwitchContextRead(p, i, m)
  PROVE  Fresh'
<1> DEFINE Starts(state) ==
      Begin(p, state) /\ FreshMemberships(state) /\ FreshInvitations(state)
<1>0. ASSUME \E state : Starts(state)  PROVE  Fresh'
  <2>1. PICK state : Starts(state)
    BY <1>0
  <2>2. Goto(p, state) /\ UNCHANGED db
    BY <2>1 DEF Begin
  <2> QED  BY <2>1, <2>2, QuietFresh
<1>1. ASSUME NEW i \in Identities, NEW t \in Tenants,
             NEW status \in {"pending", "active"}, CreateRead(p, i, t, status)
      PROVE  Fresh'
  <2> DEFINE state == [Idle EXCEPT !.step = "create", !.who = i, !.ten = t,
                                   !.arg = status]
  <2>1. Starts(state)
    BY <1>1 DEF CreateRead, Idle, FreshMemberships, FreshInvitations
  <2> QED  BY <1>0, <2>1
<1>2. ASSUME NEW m \in MembershipIds, ActivateRead(p, m)  PROVE  Fresh'
  <2> DEFINE state == [Idle EXCEPT !.step = "activate", !.mem = m, !.todo = {m}]
  <2>1. Starts(state)
    BY <1>2 DEF ActivateRead, MayActivate, Idle, FreshMemberships, FreshInvitations
  <2> QED  BY <1>0, <2>1
<1>3. ASSUME NEW m \in MembershipIds, SuspendRead(p, m)  PROVE  Fresh'
  <2> DEFINE state == [Idle EXCEPT !.step = "suspend", !.arg = "manual", !.todo = {m}]
  <2>1. Starts(state)
    BY <1>3 DEF SuspendRead, MaySuspend, Idle, FreshMemberships, FreshInvitations
  <2> QED  BY <1>0, <2>1
<1>4. ASSUME NEW m \in MembershipIds, ReactivateRead(p, m)  PROVE  Fresh'
  <2> DEFINE state == [Idle EXCEPT !.step = "reactivate", !.todo = {m}]
  <2>0. None # "subscription"
    BY NoneIsNoValue DEF SuspensionSources
  <2>1. Starts(state)
    BY <1>4, <2>0 DEF ReactivateRead, MayReactivate, Idle, FreshMemberships, FreshInvitations
  <2> QED  BY <1>0, <2>1
<1>5. ASSUME NEW todo, \A m \in todo : memberships[m].status # "archived",
             Begin(p, [Idle EXCEPT !.step = "archive", !.todo = todo])
      PROVE  Fresh'
  <2> DEFINE state == [Idle EXCEPT !.step = "archive", !.todo = todo]
  <2>1. Starts(state)
    BY <1>5 DEF Idle, FreshMemberships, FreshInvitations
  <2> QED  BY <1>0, <2>1
<1>6. ASSUME NEW m \in MembershipIds, ArchiveRead(p, m)  PROVE  Fresh'
  <2> DEFINE todo == {m}
  <2>1. \A n \in todo : memberships[n].status # "archived"
    BY <1>6 DEF ArchiveRead, MayArchive
  <2>2. Begin(p, [Idle EXCEPT !.step = "archive", !.todo = todo])
    BY <1>6 DEF ArchiveRead
  <2> HIDE DEF todo
  <2> QED  BY <1>5, <2>1, <2>2
<1>7. ASSUME NEW i \in Identities, ArchiveIdentityRead(p, i)  PROVE  Fresh'
  <2>1. \A n \in ListByIdentity(i, NotArchived) : memberships[n].status # "archived"
    BY DEF ListByIdentity, NotArchived
  <2> QED  BY <1>5, <1>7, <2>1 DEF ArchiveIdentityRead
<1>8. ASSUME NEW t \in Tenants, ArchiveTenantRead(p, t)  PROVE  Fresh'
  <2>1. \A n \in ListByTenant(t, NotArchived) : memberships[n].status # "archived"
    BY DEF ListByTenant, NotArchived
  <2> QED  BY <1>5, <1>8, <2>1 DEF ArchiveTenantRead
<1>9. ASSUME NEW i \in Identities, ActivatePendingRead(p, i)  PROVE  Fresh'
  <2> DEFINE todo  == ListByIdentity(i, {"pending"})
             state == [Idle EXCEPT !.step = "activatePending", !.todo = todo]
  <2>1. Starts(state)
    BY <1>9 DEF ActivatePendingRead, Idle, FreshMemberships, FreshInvitations
  <2> QED  BY <1>0, <2>1
<1>10. ASSUME NEW t \in Tenants, NEW source \in {"tenant", "subscription"},
              SuspendTenantRead(p, t, source)
       PROVE  Fresh'
  <2> DEFINE todo  == ListByTenant(t, {"active"})
             state == [Idle EXCEPT !.step = "suspend", !.arg = source, !.todo = todo]
  <2>1. \A m \in todo : memberships[m].status = "active"
    BY DEF ListByTenant
  <2>2. Begin(p, state)
    BY <1>10 DEF SuspendTenantRead
  <2> HIDE DEF todo
  <2>3. Starts(state)
    BY <2>1, <2>2 DEF Idle, FreshMemberships, FreshInvitations
  <2> QED  BY <1>0, <2>3
<1>11. ASSUME NEW t \in Tenants, RestoreSubscriptionRead(p, t)  PROVE  Fresh'
  <2> DEFINE todo  == SubscriptionSuspended(t)
             state == [Idle EXCEPT !.step = "reactivate", !.arg = "subscription",
                                   !.todo = todo]
  <2>1. \A m \in todo : /\ memberships[m].status = "suspended"
                        /\ memberships[m].source = "subscription"
    BY DEF SubscriptionSuspended, ListByTenant
  <2>2. Begin(p, state)
    BY <1>11 DEF RestoreSubscriptionRead
  <2> HIDE DEF todo
  <2>3. Starts(state)
    BY <2>1, <2>2 DEF Idle, FreshMemberships, FreshInvitations
  <2> QED  BY <1>0, <2>3
<1>12. ASSUME NEW i \in Identities, NEW m \in MembershipIds, SwitchContextRead(p, i, m)
       PROVE  Fresh'
  <2> DEFINE state == [Idle EXCEPT !.step = "switch", !.who = i, !.mem = m]
  <2>1. Starts(state)
    BY <1>12 DEF SwitchContextRead, Idle, FreshMemberships, FreshInvitations
  <2> QED  BY <1>0, <2>1
<1> QED
  BY <1>1, <1>2, <1>3, <1>4, <1>6, <1>7, <1>8, <1>9, <1>10, <1>11, <1>12

\* The same for invitations, the loop of an activation and the worker.
LEMMA OtherReadsFresh ==
  ASSUME OneHandler, TypeOK, StaleReadsHold, Fresh, NEW p \in Processes,
         \/ \E t \in Tenants, i \in Identities : InviteRead(p, t, i)
         \/ \E v \in InvitationIds :
              \/ RevokeRead(p, v) \/ ExpireRead(p, v)
              \/ SweepNext(p, v) \/ SweepSkip(p, v)
              \/ \E i \in Identities : RedeemRead(p, i, v)
         \/ \E m \in MembershipIds : ActivatePendingNext(p, m)
         \/ RedeemFindMembership(p) \/ SweepRead(p) \/ SweepFail(p) \/ Abandon(p)
  PROVE  Fresh'
<1> DEFINE Goes(state) ==
      /\ Goto(p, state) /\ UNCHANGED db
      /\ FreshMemberships(state) /\ FreshInvitations(state)
<1>0. ASSUME \E state : Goes(state)  PROVE  Fresh'
  BY <1>0, QuietFresh
<1>t. op[p] \in Handler
  BY DEF TypeOK
<1>f. FreshMemberships(op[p]) /\ FreshInvitations(op[p])
  BY DEF Fresh
<1>1. ASSUME NEW t \in Tenants, NEW i \in Identities, InviteRead(p, t, i)  PROVE  Fresh'
  <2> DEFINE state == [Idle EXCEPT !.step = "invite", !.who = i, !.ten = t]
  <2>1. Goes(state)
    BY <1>1 DEF InviteRead, Begin, Idle, FreshMemberships, FreshInvitations
  <2> QED  BY <1>0, <2>1
<1>2. ASSUME NEW v \in InvitationIds, NEW step \in {"revoke", "expire"},
             Begin(p, [Idle EXCEPT !.step = step, !.inv = v]),
             invitations[v].status = "pending"
      PROVE  Fresh'
  <2> DEFINE state == [Idle EXCEPT !.step = step, !.inv = v]
  <2>1. Goes(state)
    BY <1>2 DEF Begin, Idle, FreshMemberships, FreshInvitations
  <2> QED  BY <1>0, <2>1
<1>3. ASSUME NEW v \in InvitationIds, RevokeRead(p, v) \/ ExpireRead(p, v)  PROVE  Fresh'
  BY <1>2, <1>3 DEF RevokeRead, ExpireRead, MayRevoke, MayExpire
<1>4. ASSUME NEW v \in InvitationIds, NEW i \in Identities, RedeemRead(p, i, v)
      PROVE  Fresh'
  <2> DEFINE state == [Idle EXCEPT !.step = "redeem", !.who = i, !.inv = v,
                                   !.ten = invitations[v].ten]
  <2>1. Goes(state)
    BY <1>4 DEF RedeemRead, MayRedeem, Begin, Idle, FreshMemberships, FreshInvitations
  <2> QED  BY <1>0, <2>1
<1>5. ASSUME NEW m \in MembershipIds, ActivatePendingNext(p, m)  PROVE  Fresh'
  <2> DEFINE state == [op[p] EXCEPT !.step = "activate", !.mem = m]
  <2>1. state.step = "activate" /\ state.mem = m
    BY <1>t DEF Handler
  <2>2. Goto(p, state) /\ UNCHANGED db /\ memberships[m].status = "pending"
    BY <1>5 DEF ActivatePendingNext, MayActivate
  <2> HIDE DEF state
  <2>3. Goes(state)
    BY <2>1, <2>2 DEF FreshMemberships, FreshInvitations
  <2> QED  BY <1>0, <2>3
<1>6. CASE RedeemFindMembership(p)
  <2> DEFINE found == FindMembership(op[p].who, op[p].ten)
             mem   == IF found = {} THEN None ELSE CHOOSE m \in found : TRUE
             state == [op[p] EXCEPT !.step = "redeemCommit", !.mem = mem]
  <2>1. state.step = "redeemCommit" /\ state.mem = mem /\ state.inv = op[p].inv
    BY <1>t DEF Handler
  <2>2. /\ Goto(p, state) /\ UNCHANGED db
        /\ \A m \in found : memberships[m].status \in {"pending", "active"}
        /\ op[p].step = "redeem"
    BY <1>6 DEF RedeemFindMembership, At
  <2>3. mem # None => memberships[mem].status \in {"pending", "active"}
    BY <2>2
  <2>4. invitations[op[p].inv].status = "pending"
    BY <1>f, <2>2 DEF FreshInvitations
  <2> HIDE DEF state, mem
  <2>5. Goes(state)
    BY <2>1, <2>2, <2>3, <2>4 DEF FreshMemberships, FreshInvitations
  <2> QED  BY <1>0, <2>5
<1>7. ASSUME NEW batch, Begin(p, [Idle EXCEPT !.step = "sweep", !.todo = batch])
      PROVE  Fresh'
  <2> DEFINE state == [Idle EXCEPT !.step = "sweep", !.todo = batch]
  <2>1. Goes(state)
    BY <1>7 DEF Begin, Idle, FreshMemberships, FreshInvitations
  <2> QED  BY <1>0, <2>1
<1>8. CASE SweepRead(p)
  BY <1>7, <1>8 DEF SweepRead
<1>9. ASSUME NEW v \in InvitationIds, SweepNext(p, v)  PROVE  Fresh'
  <2> DEFINE state == [op[p] EXCEPT !.step = "sweepExpire", !.inv = v]
  <2>1. state.step = "sweepExpire" /\ state.inv = v
    BY <1>t DEF Handler
  <2>2. Goto(p, state) /\ UNCHANGED db /\ invitations[v].status = "pending"
    BY <1>9 DEF SweepNext, MayExpire
  <2> HIDE DEF state
  <2>3. Goes(state)
    BY <2>1, <2>2 DEF FreshMemberships, FreshInvitations
  <2> QED  BY <1>0, <2>3
<1>10. ASSUME NEW v, NEW next \in Handler, next.step = "sweep",
              Advance(p, v, next), UNCHANGED db
       PROVE  Fresh'
  <2> DEFINE rest == [next EXCEPT !.todo = @ \ {v}]
  <2>1. rest.step = "sweep"
    BY <1>10 DEF Handler
  <2>2. Goto(p, Idle) \/ Goto(p, rest)
    BY <1>10 DEF Advance
  <2> HIDE DEF rest
  <2>3. FreshMemberships(rest) /\ FreshInvitations(rest)
    BY <2>1 DEF FreshMemberships, FreshInvitations
  <2> QED  BY <1>0, <1>10, <2>2, <2>3, IdleIsFresh
<1>11. ASSUME NEW v \in InvitationIds, SweepSkip(p, v)  PROVE  Fresh'
  BY <1>10, <1>11, <1>t DEF SweepSkip, At
<1>12. CASE SweepFail(p)
  <2> DEFINE next == [op[p] EXCEPT !.step = "sweep", !.inv = None]
  <2>1. next \in Handler /\ next.step = "sweep"
    BY <1>t DEF Handler, Steps
  <2>2. Advance(p, op[p].inv, next) /\ UNCHANGED db
    BY <1>12 DEF SweepFail
  <2> HIDE DEF next
  <2> QED  BY <1>10, <2>1, <2>2
<1>13. CASE Abandon(p)
  BY <1>0, <1>13, IdleIsFresh DEF Abandon
<1> QED
  BY <1>1, <1>3, <1>4, <1>5, <1>6, <1>8, <1>9, <1>11, <1>12, <1>13

\* A commit that writes one membership row leaves the sources explained, if
\* the row it writes is.
LEMMA SourceWritten ==
  ASSUME TypeOK, SourceOfSuspension, NEW m \in MembershipIds, NEW row,
         memberships' = [memberships EXCEPT ![m] = row],
         row.status # "suspended" => row.source = None
  PROVE  SourceOfSuspension'
<1>1. \A n \in MembershipIds : memberships'[n] = IF n = m THEN row ELSE memberships[n]
  BY DEF TypeOK
<1> QED  BY <1>1 DEF SourceOfSuspension, Members

\* After its last commit a handler has nothing left to rely on.
LEMMA IdleFresh ==
  ASSUME OneHandler, TypeOK, NEW p \in Processes, SourceOfSuspension',
         NEW state, Goto(p, state),
         state.step \in {"idle", "sweep", "activatePending"}
  PROVE  Fresh'
<1>1. \A q \in Processes : op'[q] = state
  BY OnlyHandlerMoves
<1>2. ASSUME NEW q \in Processes
      PROVE  FreshMemberships(op[q])' /\ FreshInvitations(op[q])'
  BY <1>1 DEF FreshMemberships, FreshInvitations
<1> QED  BY <1>2 DEF Fresh

\* A loop over the rows of one read patches each once, so what was read of
\* the others is still so.
LEMMA LoopFresh ==
  ASSUME OneHandler, TypeOK, Fresh, NEW p \in Processes, NEW m \in MembershipIds,
         op[p].step \in {"suspend", "reactivate", "archive"}, Advance(p, m, op[p]),
         \A n \in MembershipIds \ {m} : memberships'[n] = memberships[n],
         op[p].todo \subseteq MembershipIds, SourceOfSuspension'
  PROVE  Fresh'
<1> DEFINE state == [op[p] EXCEPT !.todo = @ \ {m}]
<1>1. /\ state.step = op[p].step /\ state.arg = op[p].arg
      /\ state.todo = op[p].todo \ {m}
  BY DEF TypeOK, Handler
<1>2. CASE Goto(p, Idle)
  <2>1. Idle.step = "idle"
    BY DEF Idle
  <2> QED  BY <1>2, <2>1, IdleFresh
<1>3. CASE Goto(p, state)
  <2>1. \A q \in Processes : op'[q] = state
    BY <1>3, OnlyHandlerMoves
  <2>2. FreshMemberships(op[p])
    BY DEF Fresh
  <2> HIDE DEF state
  <2>3. ASSUME NEW q \in Processes
        PROVE  FreshMemberships(op[q])' /\ FreshInvitations(op[q])'
    <3>1. /\ op'[q].step = op[p].step /\ op'[q].arg = op[p].arg
          /\ op'[q].todo = op[p].todo \ {m}
      BY <1>1, <2>1
    <3>2. \A n \in op'[q].todo : n \in op[p].todo /\ memberships'[n] = memberships[n]
      BY <3>1
    <3>3. FreshMemberships(op[q])'
      BY <2>2, <3>1, <3>2 DEF FreshMemberships
    <3>4. FreshInvitations(op[q])'
      BY <3>1 DEF FreshInvitations
    <3> QED  BY <3>3, <3>4
  <2> QED  BY <2>3 DEF Fresh
<1> QED  BY <1>2, <1>3 DEF Advance

-----------------------------------------------------------------------------
(* The rows as MembershipLifecycle sees them. *)

LEMMA PromisedWrite ==
  ASSUME TypeOK, NEW m \in MembershipIds, NEW row,
         memberships' = [memberships EXCEPT ![m] = row]
  PROVE  PromisedMemberships' = [PromisedMemberships EXCEPT ![m] = Promised(row)]
<1>1. \A n \in MembershipIds : memberships'[n] = IF n = m THEN row ELSE memberships[n]
  BY DEF TypeOK
<1>2. PromisedMemberships' = [n \in MembershipIds |-> Promised(memberships'[n])]
  BY DEF PromisedMemberships, Promised
<1>3. PromisedMemberships = [n \in MembershipIds |-> Promised(memberships[n])]
  BY DEF PromisedMemberships
<1> QED  BY <1>1, <1>2, <1>3

LEMMA PromisedRow ==
  ASSUME NEW row \in MembershipRow
  PROVE  /\ Promised(row) = [who |-> row.who, ten |-> row.ten,
                             status |-> row.status, source |-> row.source]
         /\ NoneIsNoPromise => Promised(row) # None
<1>1. row # None
  BY NoneIsNoValue
<1>2. /\ row.who \in Identities /\ row.ten \in Tenants
      /\ row.status \in MembershipStatuses /\ row.source \in SuspensionSources \union {None}
  BY DEF MembershipRow
<1>3. Promised(row) = [who |-> row.who, ten |-> row.ten,
                       status |-> row.status, source |-> row.source]
  BY <1>1 DEF Promised
<1> QED  BY <1>2, <1>3 DEF NoneIsNoPromise

\* A row in the promise exists, and says what the stored row says.
LEMMA PromisedHas ==
  ASSUME TypeOK, NoneIsNoPromise, NEW m \in MembershipIds
  PROVE  /\ PromisedMemberships[m] = None <=> memberships[m] = None
         /\ m \in Members =>
              /\ PromisedMemberships[m] =
                   [who |-> memberships[m].who, ten |-> memberships[m].ten,
                    status |-> memberships[m].status, source |-> memberships[m].source]
              /\ memberships[m] \in MembershipRow
         /\ \A i, t : Lifecycle!Belongs(m, i, t) <=> m \in FindMembership(i, t)
<1>1. PromisedMemberships[m] = Promised(memberships[m])
  BY DEF PromisedMemberships
<1>2. CASE memberships[m] = None
  BY <1>1, <1>2 DEF Promised, Lifecycle!Belongs, FindMembership, Members
<1>3. CASE memberships[m] # None
  <2>1. m \in Members /\ memberships[m] \in MembershipRow
    BY <1>3 DEF Members, TypeOK
  <2> DEFINE row == memberships[m]
  <2>2. /\ PromisedMemberships[m] = [who |-> row.who, ten |-> row.ten,
                                     status |-> row.status, source |-> row.source]
        /\ PromisedMemberships[m] # None
    BY <1>1, <2>1, PromisedRow
  <2>3. PromisedMemberships[m].who = row.who /\ PromisedMemberships[m].ten = row.ten
    BY <2>2
  <2>4. \A i, t : Lifecycle!Belongs(m, i, t) <=> m \in FindMembership(i, t)
    BY <2>1, <2>2, <2>3 DEF Lifecycle!Belongs, FindMembership
  <2> QED  BY <1>3, <2>1, <2>2, <2>4
<1> QED  BY <1>2, <1>3

\* A patch of one row is a move of the promise, if it changes status and
\* source alone.
LEMMA PatchMoves ==
  ASSUME TypeOK, NoneIsNoPromise, NEW m \in Members, NEW row \in MembershipRow,
         memberships' = [memberships EXCEPT ![m] = row],
         row.who = memberships[m].who, row.ten = memberships[m].ten,
         NEW from, memberships[m].status \in from,
         UNCHANGED <<invitations, contexts>>
  PROVE  Lifecycle!Move(m, from, row.status, row.source)
<1>1. m \in MembershipIds
  BY DEF Members
<1>2. /\ PromisedMemberships[m] # None
      /\ PromisedMemberships[m] =
           [who |-> memberships[m].who, ten |-> memberships[m].ten,
            status |-> memberships[m].status, source |-> memberships[m].source]
  BY <1>1, PromisedHas DEF Members
<1>3. PromisedMemberships' = [PromisedMemberships EXCEPT ![m] = Promised(row)]
  BY <1>1, PromisedWrite
<1>4. Promised(row) = [who |-> memberships[m].who, ten |-> memberships[m].ten,
                       status |-> row.status, source |-> row.source]
  BY PromisedRow
<1>5. PromisedMemberships = [n \in MembershipIds |-> PromisedMemberships[n]]
  BY DEF PromisedMemberships
<1>6. PromisedMemberships' =
        [PromisedMemberships EXCEPT ![m].status = row.status, ![m].source = row.source]
  <2>1. PICK f, a, b, c, d, status, source :
          /\ f = PromisedMemberships /\ status = row.status /\ source = row.source
          /\ a = memberships[m].who /\ b = memberships[m].ten
          /\ c = memberships[m].status /\ d = memberships[m].source
    OBVIOUS
  <2>2. f[m] = [who |-> a, ten |-> b, status |-> c, source |-> d]
    BY <1>2, <2>1
  <2> DEFINE g == [f EXCEPT ![m].status = status]
             y == [who |-> a, ten |-> b, status |-> status, source |-> d]
             z == [who |-> a, ten |-> b, status |-> status, source |-> source]
  <2>3. [f EXCEPT ![m].status = status, ![m].source = source] = [f EXCEPT ![m] = z]
    <3>0. f = [n \in MembershipIds |-> f[n]]
      BY <1>5, <2>1
    <3>1. [f[m] EXCEPT !.status = status] = y
      BY <2>2
    <3>2. g = [f EXCEPT ![m] = y]
      BY <3>1
    <3>3. [g EXCEPT ![m].source = source] =
            [f EXCEPT ![m].status = status, ![m].source = source]
      OBVIOUS
    <3> HIDE DEF g
    <3>4. g[m] = y
      BY <1>1, <3>0, <3>2
    <3>5. [g[m] EXCEPT !.source = source] = z
      BY <3>4
    <3>6. [g EXCEPT ![m].source = source] = [g EXCEPT ![m] = z]
      BY <3>5
    <3> HIDE DEF z, y
    <3>7. [g EXCEPT ![m] = z] = [f EXCEPT ![m] = z]
      BY <3>2
    <3> QED  BY <3>3, <3>6, <3>7
  <2>4. PromisedMemberships' =
        [f EXCEPT ![m] = z]
    BY <1>3, <1>4, <2>1
  <2> QED  BY <2>1, <2>3, <2>4
<1>7. PromisedMemberships[m].status \in from
  BY <1>2
<1> QED  BY <1>2, <1>6, <1>7 DEF Lifecycle!Move

-----------------------------------------------------------------------------
(* Each commit is one documented step. *)

LEMMA LifecycleCommitsRefined ==
  ASSUME OneHandler, NoneIsNoPromise, TypeOK, StaleReadsHold, Fresh,
         NEW p \in Processes,
         \/ ActivateCommit(p)
         \/ \E m \in MembershipIds :
              SuspendCommit(p, m) \/ ReactivateCommit(p, m) \/ ArchiveCommit(p, m)
  PROVE  Fresh' /\ Lifecycle!Next
<1>h. HoldsMemberships(op[p])
  BY DEF StaleReadsHold
<1>f. FreshMemberships(op[p]) /\ SourceOfSuspension
  BY DEF Fresh
<1>t. op[p] \in Handler /\ memberships \in [MembershipIds -> MembershipRow \union {None}]
  BY DEF TypeOK
<1>m. Members \subseteq MembershipIds
  BY DEF Members
<1>1. CASE ActivateCommit(p)
  <2> DEFINE m   == op[p].mem
             row == ActivatePatch(memberships[m])
  <2>0. op[p].step = "activate"
    BY <1>1 DEF ActivateCommit, At
  <2>1. m \in Members /\ memberships[m].status = "pending"
    BY <1>h, <1>f, <2>0 DEF HoldsMemberships, FreshMemberships
  <2>2. memberships[m] \in MembershipRow /\ memberships[m].source = None
    BY <1>f, <2>1, RowTypes DEF SourceOfSuspension
  <2>3. /\ row \in MembershipRow /\ row.who = memberships[m].who
        /\ row.ten = memberships[m].ten /\ row.status = "active" /\ row.source = None
    BY <2>2 DEF ActivatePatch, MembershipRow, MembershipStatuses
  <2>4. /\ memberships' = [memberships EXCEPT ![m] = row]
        /\ UNCHANGED <<invitations, contexts>>
    BY <1>1 DEF ActivateCommit
  <2> DEFINE next == [op[p] EXCEPT !.step = "activatePending", !.mem = None]
             rest == [next EXCEPT !.todo = @ \ {m}]
  <2>5. rest.step = "activatePending"
    BY <1>t DEF Handler
  <2>6. Goto(p, Idle) \/ Goto(p, rest)
    BY <1>1 DEF ActivateCommit, Advance
  <2> HIDE DEF m, row, rest
  <2>7. SourceOfSuspension'
    BY <1>f, <1>m, <2>1, <2>3, <2>4, SourceWritten
  <2>8. Fresh'
    <3>1. Idle.step = "idle"
      BY DEF Idle
    <3>2. CASE Goto(p, Idle)
      BY <2>7, <3>1, <3>2, IdleFresh
    <3>3. CASE Goto(p, rest)
      BY <2>5, <2>7, <3>3, IdleFresh
    <3> QED  BY <2>6, <3>2, <3>3
  <2>9. Lifecycle!Move(m, {"pending"}, "active", None)
    <3>1. memberships[m].status \in {"pending"}
      BY <2>1
    <3>2. Lifecycle!Move(m, {"pending"}, row.status, row.source)
      BY <2>1, <2>3, <2>4, <3>1, PatchMoves
    <3> QED  BY <2>3, <3>2
  <2>10. Lifecycle!Activate(m) /\ m \in MembershipIds
    BY <1>m, <2>1, <2>9 DEF Lifecycle!Activate
  <2> QED  BY <2>8, <2>10 DEF Lifecycle!Next
<1>2. ASSUME NEW m \in MembershipIds, SuspendCommit(p, m)  PROVE  Fresh' /\ Lifecycle!Next
  <2> DEFINE row == SuspendPatch(memberships[m], op[p].arg)
  <2>0. op[p].step = "suspend" /\ m \in op[p].todo
    BY <1>2 DEF SuspendCommit, At
  <2>1. /\ m \in Members /\ memberships[m].status = "active"
        /\ op[p].arg \in {"manual", "tenant", "subscription"}
    BY <1>h, <1>f, <2>0 DEF HoldsMemberships, FreshMemberships
  <2>2. memberships[m] \in MembershipRow
    BY <2>1, RowTypes
  <2>3. /\ row \in MembershipRow /\ row.who = memberships[m].who
        /\ row.ten = memberships[m].ten /\ row.status = "suspended"
        /\ row.source = op[p].arg
    BY <2>1, <2>2 DEF SuspendPatch, MembershipRow, MembershipStatuses, SuspensionSources
  <2>4. /\ memberships' = [memberships EXCEPT ![m] = row]
        /\ UNCHANGED <<invitations, contexts>> /\ Advance(p, m, op[p])
    BY <1>2 DEF SuspendCommit
  <2>5. memberships[m].status \in {"active"}
    BY <2>1
  <2> HIDE DEF row
  <2>6. Fresh'
    <3>1. op[p].step \in {"suspend", "reactivate", "archive"}
      BY <2>0
    <3>2. memberships' = [memberships EXCEPT ![m] = row] /\ Advance(p, m, op[p])
      BY <2>4
    <3>3. row.status # "suspended" => row.source = None
      BY <2>3
    <3>4. SourceOfSuspension'
      BY <1>f, <3>2, <3>3, SourceWritten
    <3>5. \A n \in MembershipIds \ {m} : memberships'[n] = memberships[n]
      BY <1>t, <3>2
    <3>6. op[p].todo \subseteq MembershipIds
      BY <1>h, <1>m, <3>1 DEF HoldsMemberships
    <3> QED  BY <3>1, <3>2, <3>4, <3>5, <3>6, LoopFresh
  <2>7. Lifecycle!Move(m, {"active"}, row.status, row.source)
    BY <2>1, <2>3, <2>4, <2>5, PatchMoves
  <2>8. Lifecycle!Suspend(m, op[p].arg)
    BY <2>3, <2>7 DEF Lifecycle!Suspend
  <2> QED  BY <2>1, <2>6, <2>8 DEF Lifecycle!Next
<1>3. ASSUME NEW m \in MembershipIds, ReactivateCommit(p, m)
      PROVE  Fresh' /\ Lifecycle!Next
  <2> DEFINE row == ReactivatePatch(memberships[m])
  <2>0. op[p].step = "reactivate" /\ m \in op[p].todo
    BY <1>3 DEF ReactivateCommit, At
  <2>1. m \in Members /\ memberships[m].status = "suspended"
    BY <1>h, <1>f, <2>0 DEF HoldsMemberships, FreshMemberships
  <2>2. memberships[m] \in MembershipRow
    BY <2>1, RowTypes
  <2>3. /\ row \in MembershipRow /\ row.who = memberships[m].who
        /\ row.ten = memberships[m].ten /\ row.status = "active" /\ row.source = None
    BY <2>2 DEF ReactivatePatch, MembershipRow, MembershipStatuses
  <2>4. /\ memberships' = [memberships EXCEPT ![m] = row]
        /\ UNCHANGED <<invitations, contexts>> /\ Advance(p, m, op[p])
    BY <1>3 DEF ReactivateCommit
  <2>5. memberships[m].status \in {"suspended"}
    BY <2>1
  <2> HIDE DEF row
  <2>6. Fresh'
    <3>1. op[p].step \in {"suspend", "reactivate", "archive"}
      BY <2>0
    <3>2. memberships' = [memberships EXCEPT ![m] = row] /\ Advance(p, m, op[p])
      BY <2>4
    <3>3. row.status # "suspended" => row.source = None
      BY <2>3
    <3>4. SourceOfSuspension'
      BY <1>f, <3>2, <3>3, SourceWritten
    <3>5. \A n \in MembershipIds \ {m} : memberships'[n] = memberships[n]
      BY <1>t, <3>2
    <3>6. op[p].todo \subseteq MembershipIds
      BY <1>h, <1>m, <3>1 DEF HoldsMemberships
    <3> QED  BY <3>1, <3>2, <3>4, <3>5, <3>6, LoopFresh
  <2>7. Lifecycle!Move(m, {"suspended"}, row.status, row.source)
    BY <2>1, <2>3, <2>4, <2>5, PatchMoves
  <2>8. Lifecycle!Reactivate(m)
    BY <2>3, <2>7 DEF Lifecycle!Reactivate
  <2> QED  BY <2>6, <2>8 DEF Lifecycle!Next
<1>4. ASSUME NEW m \in MembershipIds, ArchiveCommit(p, m)  PROVE  Fresh' /\ Lifecycle!Next
  <2> DEFINE row  == ArchivePatch(memberships[m])
             from == {"pending", "active", "suspended"}
  <2>0. op[p].step = "archive" /\ m \in op[p].todo
    BY <1>4 DEF ArchiveCommit, At
  <2>1. m \in Members /\ memberships[m].status # "archived"
    BY <1>h, <1>f, <2>0 DEF HoldsMemberships, FreshMemberships
  <2>2. memberships[m] \in MembershipRow
    BY <2>1, RowTypes
  <2>3. /\ row \in MembershipRow /\ row.who = memberships[m].who
        /\ row.ten = memberships[m].ten /\ row.status = "archived" /\ row.source = None
    BY <2>2 DEF ArchivePatch, MembershipRow, MembershipStatuses
  <2>4. /\ memberships' = [memberships EXCEPT ![m] = row]
        /\ UNCHANGED <<invitations, contexts>> /\ Advance(p, m, op[p])
    BY <1>4 DEF ArchiveCommit
  <2>5. memberships[m].status \in from
    BY <2>1, <2>2 DEF MembershipRow, MembershipStatuses
  <2> HIDE DEF row, from
  <2>6. Fresh'
    <3>1. op[p].step \in {"suspend", "reactivate", "archive"}
      BY <2>0
    <3>2. memberships' = [memberships EXCEPT ![m] = row] /\ Advance(p, m, op[p])
      BY <2>4
    <3>3. row.status # "suspended" => row.source = None
      BY <2>3
    <3>4. SourceOfSuspension'
      BY <1>f, <3>2, <3>3, SourceWritten
    <3>5. \A n \in MembershipIds \ {m} : memberships'[n] = memberships[n]
      BY <1>t, <3>2
    <3>6. op[p].todo \subseteq MembershipIds
      BY <1>h, <1>m, <3>1 DEF HoldsMemberships
    <3> QED  BY <3>1, <3>2, <3>4, <3>5, <3>6, LoopFresh
  <2>7. Lifecycle!Move(m, from, row.status, row.source)
    BY <2>1, <2>3, <2>4, <2>5, PatchMoves
  <2>8. Lifecycle!Archive(m)
    BY <2>3, <2>7 DEF Lifecycle!Archive, from
  <2> QED  BY <2>6, <2>8 DEF Lifecycle!Next
<1> QED  BY <1>1, <1>2, <1>3, <1>4

\* The insertion that the unique index lets through is an admission.
LEMMA InsertionAdmits ==
  ASSUME TypeOK, NoneIsNoPromise, NEW m \in MembershipIds,
         NEW i \in Identities, NEW t \in Tenants, NEW status \in {"pending", "active"},
         InsertMembership(m, NewMembership(i, t, status))
  PROVE  Lifecycle!Admit(m, i, t, status)
<1> DEFINE row == NewMembership(i, t, status)
<1>1. row \in MembershipRow /\ row.who = i /\ row.ten = t /\ row.status = status
      /\ row.source = None
  BY DEF NewMembership, MembershipRow, MembershipStatuses
<1>2. /\ memberships[m] = None /\ FindMembership(i, t) = {}
      /\ memberships' = [memberships EXCEPT ![m] = row]
  BY <1>1 DEF InsertMembership
<1> HIDE DEF row
<1>3. PromisedMemberships' = [PromisedMemberships EXCEPT ![m] = Promised(row)]
  BY <1>2, PromisedWrite
<1>4. Promised(row) = Lifecycle!NewRow(i, t, status)
  BY <1>1, PromisedRow DEF Lifecycle!NewRow
<1>5. PromisedMemberships[m] = None
  BY <1>2, PromisedHas
<1>6. \A n \in MembershipIds : ~Lifecycle!Belongs(n, i, t)
  BY <1>2, PromisedHas
<1> QED  BY <1>3, <1>4, <1>5, <1>6 DEF Lifecycle!Admit

LEMMA OtherCommitsRefined ==
  ASSUME OneHandler, NoneIsNoPromise, TypeOK, StaleReadsHold, Fresh,
         NEW p \in Processes,
         \/ \E m \in MembershipIds : CreateCommit(p, m)
         \/ \E v \in InvitationIds : InviteCommit(p, v)
         \/ RedeemCommit(p) \/ RevokeCommit(p) \/ ExpireCommit(p) \/ SweepCommit(p)
         \/ SwitchContextCommit(p)
  PROVE  Fresh' /\ Lifecycle!Next
<1>h. HoldsMemberships(op[p]) /\ HoldsInvitations(op[p])
  BY DEF StaleReadsHold
<1>f. FreshMemberships(op[p]) /\ FreshInvitations(op[p]) /\ SourceOfSuspension
  BY DEF Fresh
<1>t. op[p] \in Handler /\ invitations \in [InvitationIds -> InvitationRow \union {None}]
  BY DEF TypeOK
<1>u. memberships' = memberships => SourceOfSuspension'
  BY <1>f DEF SourceOfSuspension, Members
<1>i. ASSUME Goto(p, Idle), SourceOfSuspension'  PROVE  Fresh'
  <2>1. Idle.step = "idle"
    BY DEF Idle
  <2> QED  BY <1>i, <2>1, IdleFresh
<1>n. ASSUME NEW m \in MembershipIds, NEW i, NEW t, NEW status,
             InsertMembership(m, NewMembership(i, t, status))
      PROVE  SourceOfSuspension'
  <2> DEFINE row == NewMembership(i, t, status)
  <2>1. row.source = None
    BY DEF NewMembership
  <2>2. memberships' = [memberships EXCEPT ![m] = row]
    BY <1>n DEF InsertMembership
  <2> HIDE DEF row
  <2> QED  BY <1>f, <2>1, <2>2, SourceWritten
<1>1. ASSUME NEW m \in MembershipIds, CreateCommit(p, m)  PROVE  Fresh' /\ Lifecycle!Next
  <2>1. /\ op[p].who \in Identities /\ op[p].ten \in Tenants
        /\ op[p].arg \in {"pending", "active"}
    BY <1>1, <1>h DEF CreateCommit, At, HoldsMemberships
  <2>2. /\ InsertMembership(m, NewMembership(op[p].who, op[p].ten, op[p].arg))
        /\ Goto(p, Idle) /\ UNCHANGED <<invitations, contexts>>
    BY <1>1 DEF CreateCommit
  <2>3. Fresh'
    BY <1>i, <1>n, <2>2
  <2>4. Lifecycle!Admit(m, op[p].who, op[p].ten, op[p].arg)
    BY <2>1, <2>2, InsertionAdmits
  <2>5. Lifecycle!Create(m)
    BY <2>1, <2>2, <2>4 DEF Lifecycle!Create
  <2> QED  BY <2>3, <2>5 DEF Lifecycle!Next
<1>2. ASSUME NEW v \in InvitationIds, InviteCommit(p, v)  PROVE  Fresh' /\ Lifecycle!Next
  <2> DEFINE i == op[p].who
             t == op[p].ten
  <2>1. i \in Identities /\ t \in Tenants
    BY <1>2, <1>h DEF InviteCommit, At, HoldsInvitations
  <2>2. /\ InsertInvitation(v, NewInvitation(t, i)) /\ Goto(p, Idle)
        /\ UNCHANGED <<memberships, contexts>>
    BY <1>2 DEF InviteCommit
  <2>3. Fresh'
    BY <1>i, <1>u, <2>2
  <2>4. PromisedMemberships' = PromisedMemberships
    BY <2>2 DEF PromisedMemberships, Promised
  <2>5. /\ invitations[v] = None /\ FindPendingInvitation(t, i) = {}
        /\ invitations' = [invitations EXCEPT ![v] =
             [ten |-> t, invitee |-> i, status |-> "pending", redeemedBy |-> None]]
    BY <2>2 DEF InsertInvitation, NewInvitation
  <2>6. \A u \in InvitationIds :
          ~ /\ invitations[u] # None /\ invitations[u].ten = t
            /\ invitations[u].invitee = i /\ invitations[u].status = "pending"
    BY <2>5 DEF FindPendingInvitation, Invites
  <2> HIDE DEF i, t
  <2>7. Lifecycle!Invite(v)
    BY <2>1, <2>2, <2>4, <2>5, <2>6 DEF Lifecycle!Invite
  <2> QED  BY <2>3, <2>7 DEF Lifecycle!Next
<1>3. CASE RedeemCommit(p)
  <2> DEFINE v == op[p].inv
             i == op[p].who
             t == op[p].ten
  <2>0. op[p].step = "redeemCommit"
    BY <1>3 DEF RedeemCommit, At
  <2>1. /\ i \in Identities /\ t \in Tenants /\ v \in Invites
        /\ invitations[v].ten = t /\ invitations[v].invitee = i
        /\ op[p].mem = None \/ op[p].mem \in FindMembership(i, t)
    BY <1>h, <2>0 DEF HoldsInvitations
  <2>2. /\ invitations[v].status = "pending"
        /\ op[p].mem # None => memberships[op[p].mem].status \in {"pending", "active"}
    BY <1>f, <2>0 DEF FreshInvitations
  <2>3. v \in InvitationIds /\ invitations[v] # None /\ invitations[v] \in InvitationRow
    BY <2>1, RowTypes DEF Invites
  <2>4. /\ invitations' = [invitations EXCEPT ![v] = RedeemPatch(invitations[v], i)]
        /\ Goto(p, Idle) /\ UNCHANGED contexts
        /\ \/ op[p].mem # None /\ UNCHANGED memberships
           \/ \E m \in MembershipIds : InsertMembership(m, NewMembership(i, t, "pending"))
    BY <1>3 DEF RedeemCommit, MembershipCreated
  <2> HIDE DEF v, i, t
  <2>5. SourceOfSuspension'
    BY <1>n, <1>u, <2>4
  <2>6. Fresh'
    BY <1>i, <2>4, <2>5
  <2>7. invitations' = [invitations EXCEPT ![v].status = "redeemed", ![v].redeemedBy = i]
    BY <2>3, <2>4 DEF RedeemPatch
  <2>8. \/ \E m \in MembershipIds : Lifecycle!Admit(m, i, t, "pending")
        \/ /\ \E m \in MembershipIds :
                /\ Lifecycle!Belongs(m, i, t)
                /\ PromisedMemberships[m].status \in {"pending", "active"}
           /\ UNCHANGED PromisedMemberships
    <3>1. CASE op[p].mem # None /\ UNCHANGED memberships
      <4> DEFINE m == op[p].mem
      <4>1. m \in FindMembership(i, t)
        BY <2>1, <3>1
      <4>2. m \in MembershipIds /\ m \in Members
        BY <4>1 DEF FindMembership, Members
      <4>3. Lifecycle!Belongs(m, i, t)
        BY <4>1, <4>2, PromisedHas
      <4>4. PromisedMemberships[m].status = memberships[m].status
        <5>1. PromisedMemberships[m] =
                [who |-> memberships[m].who, ten |-> memberships[m].ten,
                 status |-> memberships[m].status, source |-> memberships[m].source]
          BY <4>2, PromisedHas
        <5> QED  BY <5>1
      <4>5. PromisedMemberships' = PromisedMemberships
        BY <3>1 DEF PromisedMemberships, Promised
      <4> QED  BY <2>2, <3>1, <4>2, <4>3, <4>4, <4>5
    <3>2. ASSUME NEW m \in MembershipIds, InsertMembership(m, NewMembership(i, t, "pending"))
          PROVE  Lifecycle!Admit(m, i, t, "pending")
      BY <2>1, <3>2, InsertionAdmits
    <3> QED  BY <2>4, <3>1, <3>2
  <2>9. Lifecycle!Redeem(v)
    BY <2>1, <2>2, <2>3, <2>4, <2>7, <2>8 DEF Lifecycle!Redeem, Lifecycle!Pending
  <2> QED  BY <2>3, <2>6, <2>9 DEF Lifecycle!Next
<1>4. ASSUME NEW row, NEW status \in {"revoked", "expired"},
             op[p].inv \in Invites, invitations[op[p].inv].status = "pending",
             row = [invitations[op[p].inv] EXCEPT !.status = status],
             invitations' = [invitations EXCEPT ![op[p].inv] = row],
             UNCHANGED <<memberships, contexts>>
      PROVE  Lifecycle!Next
  <2> DEFINE v == op[p].inv
  <2>1. v \in InvitationIds /\ invitations[v] # None
    BY <1>4 DEF Invites
  <2>2. PromisedMemberships' = PromisedMemberships
    BY <1>4 DEF PromisedMemberships, Promised
  <2>3. invitations' = [invitations EXCEPT ![v].status = status]
    BY <1>4
  <2>4. Lifecycle!Settle(v, status)
    BY <1>4, <2>1, <2>2, <2>3 DEF Lifecycle!Settle, Lifecycle!Pending
  <2> QED  BY <2>1, <2>4 DEF Lifecycle!Next
<1>5. CASE RevokeCommit(p)
  <2>1. op[p].inv \in Invites /\ invitations[op[p].inv].status = "pending"
    BY <1>5, <1>h, <1>f DEF RevokeCommit, At, HoldsInvitations, FreshInvitations
  <2>2. /\ invitations' = [invitations EXCEPT ![op[p].inv] = RevokePatch(invitations[op[p].inv])]
        /\ UNCHANGED <<memberships, contexts>> /\ Goto(p, Idle)
    BY <1>5 DEF RevokeCommit
  <2>3. Lifecycle!Next
    BY <1>4, <2>1, <2>2 DEF RevokePatch
  <2> QED  BY <1>i, <1>u, <2>2, <2>3
<1>6. CASE ExpireCommit(p) \/ SweepCommit(p)
  <2>1. op[p].inv \in Invites /\ invitations[op[p].inv].status = "pending"
    BY <1>6, <1>h, <1>f
    DEF ExpireCommit, SweepCommit, At, HoldsInvitations, FreshInvitations
  <2>2. /\ invitations' = [invitations EXCEPT ![op[p].inv] = ExpirePatch(invitations[op[p].inv])]
        /\ UNCHANGED <<memberships, contexts>>
    BY <1>6 DEF ExpireCommit, SweepCommit, ExpireInvitation
  <2>3. Lifecycle!Next
    BY <1>4, <2>1, <2>2 DEF ExpirePatch
  <2> DEFINE next == [op[p] EXCEPT !.step = "sweep", !.inv = None]
             rest == [next EXCEPT !.todo = @ \ {op[p].inv}]
  <2>4. rest.step = "sweep"
    BY <1>t DEF Handler
  <2>5. Goto(p, Idle) \/ Goto(p, rest)
    BY <1>6 DEF ExpireCommit, SweepCommit, Advance
  <2> HIDE DEF rest
  <2>6. CASE Goto(p, rest)
    <3>1. rest.step \in {"idle", "sweep", "activatePending"}
      BY <2>4
    <3>2. SourceOfSuspension'
      BY <1>u, <2>2
    <3> QED  BY <2>3, <2>6, <3>1, <3>2, IdleFresh
  <2> QED  BY <1>i, <1>u, <2>2, <2>3, <2>5, <2>6
<1>7. CASE SwitchContextCommit(p)
  <2> DEFINE i == op[p].who
             m == op[p].mem
  <2>1. /\ i \in Identities /\ m \in Members /\ memberships[m].who = i
        /\ memberships[m].status = "active"
    BY <1>7, <1>h, <1>f DEF SwitchContextCommit, At, HoldsMemberships, FreshMemberships
  <2>2. /\ contexts' = [contexts EXCEPT ![i] = m] /\ Goto(p, Idle)
        /\ UNCHANGED <<memberships, invitations>>
    BY <1>7 DEF SwitchContextCommit
  <2>3. PromisedMemberships' = PromisedMemberships
    BY <2>2 DEF PromisedMemberships, Promised
  <2>4. /\ m \in MembershipIds /\ PromisedMemberships[m] # None
        /\ PromisedMemberships[m].who = i /\ PromisedMemberships[m].status = "active"
    <3>1. m \in MembershipIds /\ memberships[m] # None
      BY <2>1 DEF Members
    <3>2. PromisedMemberships[m] =
            [who |-> memberships[m].who, ten |-> memberships[m].ten,
             status |-> memberships[m].status, source |-> memberships[m].source]
      BY <2>1, <3>1, PromisedHas
    <3> QED  BY <2>1, <3>1, <3>2, PromisedHas
  <2> HIDE DEF i, m
  <2>5. Lifecycle!Select(i, m)
    BY <2>2, <2>3, <2>4 DEF Lifecycle!Select
  <2> QED  BY <1>i, <1>u, <2>1, <2>2, <2>4, <2>5 DEF Lifecycle!Next
<1> QED  BY <1>1, <1>2, <1>3, <1>5, <1>6, <1>7

\* Every step keeps what the handler has read true, and is a documented step
\* or none.
LEMMA NextIsDocumented ==
  ASSUME OneHandler, NoneIsNoPromise, TypeOK, StaleReadsHold, Fresh, [Next]_vars
  PROVE  Fresh' /\ [Lifecycle!Next]_(Lifecycle!vars)
<1>p. Ops \subseteq Processes /\ Workers \subseteq Processes
  BY DEF Processes
<1>1. UNCHANGED db => UNCHANGED Lifecycle!vars
  BY DEF db, Lifecycle!vars, PromisedMemberships, Promised
<1>2. UNCHANGED db \/ Lifecycle!Next
  BY <1>p, StepCases, LifecycleCommitsRefined, OtherCommitsRefined
<1>3. ASSUME NEW p \in Ops, MembershipStep(p)  PROVE  Fresh'
  BY <1>p, <1>3, MembershipReadsFresh, OtherReadsFresh, LifecycleCommitsRefined,
     OtherCommitsRefined DEF MembershipStep
<1>4. ASSUME NEW p \in Ops, InvitationStep(p)  PROVE  Fresh'
  BY <1>p, <1>4, OtherReadsFresh, OtherCommitsRefined DEF InvitationStep
<1>5. ASSUME NEW p \in Ops, ContextStep(p)  PROVE  Fresh'
  BY <1>p, <1>5, MembershipReadsFresh, OtherCommitsRefined DEF ContextStep
<1>6. ASSUME NEW w \in Workers, WorkerStep(w)  PROVE  Fresh'
  BY <1>p, <1>6, OtherReadsFresh, OtherCommitsRefined DEF WorkerStep
<1>7. ASSUME UNCHANGED <<memberships, invitations, op>>  PROVE  Fresh'
  BY <1>7 DEF Fresh, FreshMemberships, FreshInvitations, SourceOfSuspension, Members
<1>8. ASSUME NEW v \in InvitationIds, Lapse(v)  PROVE  Fresh'
  BY <1>7, <1>8 DEF Lapse, db
<1>9. ASSUME NEW p \in Processes, Abandon(p)  PROVE  Fresh'
  BY <1>9, OtherReadsFresh
<1>10. CASE UNCHANGED vars
  BY <1>1, <1>7, <1>10 DEF vars, db
<1>11. Fresh'
  BY <1>3, <1>4, <1>5, <1>6, <1>7, <1>8, <1>9 DEF Next, vars
<1> QED  BY <1>1, <1>2, <1>11

LEMMA InitIsFresh == Init => Fresh
<1>1. Init => Members = {} /\ \A p \in Processes : op[p] = Idle
  BY DEF Init, Members
<1> QED  BY <1>1, IdleIsFresh DEF Fresh, SourceOfSuspension

\* With one handler at a time, whether of a request, of a message or of the
\* sweep, and whatever is abandoned or delivered again, every commit of the
\* service is one step of the documented lifecycles, for any identities,
\* tenants and ids.
THEOREM OneHandlerKeepsLifecycles ==
  ASSUME OneHandler, NoneIsNoPromise
  PROVE  Spec => ImplementsLifecycle
<1>1. Init => Lifecycle!Init
  BY DEF Init, Lifecycle!Init, PromisedMemberships, Promised
<1>2. Safety /\ Fresh /\ [Next]_vars => Fresh' /\ [Lifecycle!Next]_(Lifecycle!vars)
  BY NextIsDocumented DEF Safety
<1> QED
  BY <1>1, <1>2, InitIsFresh, SafetyInit, SafetyStep, PTL
  DEF Spec, ImplementsLifecycle, Lifecycle!Spec

\* Then, too, a reaction to the subscription restores only what it suspended,
THEOREM OneHandlerRestoresBySource ==
  ASSUME OneHandler, NoneIsNoPromise
  PROVE  Spec => RestorationIsSourceAware
<1>1. Safety /\ Fresh /\ [Next]_vars => Fresh'
  BY NextIsDocumented DEF Safety
<1>2. ASSUME Fresh, NEW p \in Ops, NEW m \in MembershipIds,
             ReactivateCommit(p, m), op[p].arg = "subscription"
      PROVE  memberships[m].status = "suspended" /\ memberships[m].source = "subscription"
  <2>1. FreshMemberships(op[p])
    BY <1>2 DEF Fresh, Processes
  <2> QED  BY <1>2, <2>1 DEF ReactivateCommit, At, FreshMemberships
<1>3. Fresh /\ [Next]_vars =>
        [\A p \in Ops, m \in MembershipIds :
           ReactivateCommit(p, m) /\ op[p].arg = "subscription" =>
             /\ memberships[m].status = "suspended"
             /\ memberships[m].source = "subscription"]_vars
  BY <1>2
<1> QED
  BY <1>1, <1>3, InitIsFresh, SafetyInit, SafetyStep, PTL
  DEF Spec, RestorationIsSourceAware

\* and a revoked invitation is not redeemed (with two handlers it may be, see
\* MCMembershipRevokedRace): of the documented steps only a redemption
\* redeems, and only what is pending.
THEOREM OneHandlerKeepsRevoked ==
  ASSUME OneHandler, NoneIsNoPromise
  PROVE  Spec => RevokedIsNotRedeemed
<1>1. ASSUME Lifecycle!Next, NEW v \in Invites, TypeOK, invitations[v].status = "revoked"
      PROVE  invitations'[v].status # "redeemed"
  <2>t. v \in InvitationIds /\ invitations[v] # None /\ invitations[v] \in InvitationRow
    BY <1>1, RowTypes DEF Invites
  <2>1. CASE invitations' = invitations
    BY <1>1, <2>1
  <2>3. ASSUME NEW u \in InvitationIds, Lifecycle!Invite(u)
        PROVE  invitations'[v].status # "redeemed"
    <3>1. u # v
      BY <2>t, <2>3 DEF Lifecycle!Invite
    <3> QED  BY <1>1, <2>t, <2>3, <3>1 DEF Lifecycle!Invite
  <2>4. ASSUME NEW u \in InvitationIds, Lifecycle!Redeem(u)
        PROVE  invitations'[v].status # "redeemed"
    <3>1. u # v
      BY <1>1, <2>4 DEF Lifecycle!Redeem, Lifecycle!Pending
    <3>2. invitations'[v] = invitations[v]
      <4> DEFINE z == [invitations EXCEPT ![u].status = "redeemed"]
      <4>1. v \in DOMAIN invitations /\ DOMAIN z = DOMAIN invitations
        BY <1>1, <2>t DEF TypeOK
      <4>2. z[v] = invitations[v]
        BY <3>1, <4>1
      <4>3. PICK i : invitations' = [z EXCEPT ![u].redeemedBy = i]
        BY <2>4, Zenon DEF Lifecycle!Redeem
      <4> HIDE DEF z
      <4>4. invitations'[v] = z[v]
        BY <3>1, <4>1, <4>3
      <4> QED  BY <4>2, <4>4
    <3> QED  BY <1>1, <3>2
  <2>5. ASSUME NEW u \in InvitationIds, NEW status \in {"revoked", "expired"},
               Lifecycle!Settle(u, status)
        PROVE  invitations'[v].status # "redeemed"
    <3>1. u # v
      BY <1>1, <2>5 DEF Lifecycle!Settle, Lifecycle!Pending
    <3>2. invitations'[v] = invitations[v]
      BY <2>t, <2>5, <3>1 DEF Lifecycle!Settle
    <3> QED  BY <1>1, <3>2
  <2>6. ASSUME NEW m \in MembershipIds,
               \/ Lifecycle!Create(m) \/ Lifecycle!Activate(m)
               \/ Lifecycle!Reactivate(m) \/ Lifecycle!Archive(m)
               \/ \E s \in {"manual", "tenant", "subscription"} : Lifecycle!Suspend(m, s)
        PROVE  invitations' = invitations
    BY <2>6 DEF Lifecycle!Create, Lifecycle!Activate, Lifecycle!Reactivate,
                Lifecycle!Archive, Lifecycle!Suspend, Lifecycle!Move
  <2>7. ASSUME NEW i \in Identities, NEW m \in MembershipIds, Lifecycle!Select(i, m)
        PROVE  invitations' = invitations
    BY <2>7 DEF Lifecycle!Select
  <2>8. CASE \E m \in MembershipIds :
               \/ Lifecycle!Create(m) \/ Lifecycle!Activate(m)
               \/ Lifecycle!Reactivate(m) \/ Lifecycle!Archive(m)
               \/ \E s \in {"manual", "tenant", "subscription"} : Lifecycle!Suspend(m, s)
    BY <2>1, <2>6, <2>8
  <2>9. CASE \E u \in InvitationIds :
               \/ Lifecycle!Invite(u) \/ Lifecycle!Redeem(u)
               \/ Lifecycle!Settle(u, "revoked") \/ Lifecycle!Settle(u, "expired")
    BY <2>3, <2>4, <2>5, <2>9
  <2>10. CASE \E i \in Identities, m \in MembershipIds : Lifecycle!Select(i, m)
    BY <2>1, <2>7, <2>10
  <2> QED  BY <1>1, <2>8, <2>9, <2>10 DEF Lifecycle!Next
<1>2. Safety /\ Fresh /\ [Next]_vars =>
        /\ Fresh'
        /\ [\A v \in Invites :
              invitations[v].status = "revoked" => invitations'[v].status # "redeemed"]_invitations
  <2> SUFFICES ASSUME Safety, Fresh, [Next]_vars
               PROVE  /\ Fresh'
                      /\ [\A v \in Invites :
                            invitations[v].status = "revoked" =>
                              invitations'[v].status # "redeemed"]_invitations
    OBVIOUS
  <2>1. Fresh' /\ [Lifecycle!Next]_(Lifecycle!vars)
    BY NextIsDocumented DEF Safety
  <2>2. CASE UNCHANGED Lifecycle!vars
    BY <2>1, <2>2 DEF Lifecycle!vars
  <2>3. CASE Lifecycle!Next
    BY <1>1, <2>1, <2>3 DEF Safety
  <2> QED  BY <2>1, <2>2, <2>3
<1> QED
  BY <1>2, InitIsFresh, SafetyInit, SafetyStep, PTL DEF Spec, RevokedIsNotRedeemed
=============================================================================
