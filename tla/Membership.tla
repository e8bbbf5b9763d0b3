----------------------------- MODULE Membership -----------------------------
(***************************************************************************)
(* The Membership service: tenant memberships, invitations and the context *)
(* each identity has selected.                                             *)
(*                                                                         *)
(* Every use case reads what it needs, decides with a pure business rule   *)
(* and ends in one engine commit that writes rows, events and outbox       *)
(* atomically.  A commit carries no expected version: an update is a patch *)
(* of the listed fields, keyed by the row's id alone.  Two awaits separate *)
(* the read from the commit, so a use case is two steps here (three for    *)
(* redemption) and other handlers run in between; only the unique indexes  *)
(* of the store are checked when the commit is applied.                    *)
(*                                                                         *)
(* A failed check throws and changes nothing, so it is a disabled guard    *)
(* (the caller sees the error).  A failed commit, or a process that dies,  *)
(* is Abandon.  Reactions to events of other services may start at any     *)
(* time and any number of times: delivery is at least once and unordered.  *)
(***************************************************************************)
EXTENDS Integers, FiniteSets

CONSTANTS
  Identities,      \* an invited email address is the identity that owns it
  Tenants,
  MembershipIds,   \* ids the service can still generate: bounds the rows
  InvitationIds,
  Ops,             \* request handlers and reactions that may be in flight
  Workers,         \* invitation expiration workers, one per server process
  BatchSize,       \* rows one run of a worker takes
  None             \* an absent row, or a field that is not set

VARIABLES
  memberships,     \* collection memberships: id -> row or None
  invitations,     \* collection invitations: id -> row or None
  contexts,        \* collection contexts: identity -> membership id or None
  lapsed,          \* invitations whose expiresAt the clock has passed
  announced,       \* last lifecycle event published for each id
  op               \* the handler each process is running

db   == <<memberships, invitations, contexts, announced>>
vars == <<memberships, invitations, contexts, lapsed, announced, op>>

Processes == Ops \union Workers

-----------------------------------------------------------------------------
(* State. *)

MembershipStatuses == {"pending", "active", "suspended", "archived"}
SuspensionSources  ==
  {"manual", "tenant", "subscription", "identity", "security_policy"}
InvitationStatuses == {"pending", "redeemed", "revoked", "expired"}

\* Timestamps are kept only as set or not set.
MembershipRow ==
  [who : Identities, ten : Tenants, status : MembershipStatuses,
   source : SuspensionSources \union {None},
   activatedAt : BOOLEAN, archivedAt : BOOLEAN]

InvitationRow ==
  [ten : Tenants, invitee : Identities, status : InvitationStatuses,
   redeemedBy : Identities \union {None}]

Steps ==
  {"idle", "create", "invite", "redeem", "redeemCommit", "revoke", "expire",
   "activatePending", "activate", "suspend", "reactivate", "archive",
   "switch", "sweep", "sweepExpire"}

\* What a handler remembers between its awaits: the arguments of the request
\* and the ids its stale reads selected.
Handler ==
  [step : Steps,
   who  : Identities \union {None},
   ten  : Tenants \union {None},
   inv  : InvitationIds \union {None},
   mem  : MembershipIds \union {None},
   arg  : {"pending", "active"} \union SuspensionSources \union {None},
   todo : SUBSET (MembershipIds \union InvitationIds)]

Idle ==
  [step |-> "idle", who |-> None, ten |-> None, inv |-> None, mem |-> None,
   arg |-> None, todo |-> {}]

Events ==
  {"created", "activated", "suspended", "reactivated", "archived",
   "redeemed", "revoked", "expired"}

ASSUME IdsDisjoint == MembershipIds \cap InvitationIds = {}
ASSUME WorkersDisjoint == Ops \cap Workers = {}
ASSUME BatchSizePositive == BatchSize \in Nat \ {0}
ASSUME NoneIsNoValue ==
  /\ None \notin MembershipRow \union InvitationRow
  /\ None \notin Identities \union Tenants \union MembershipIds
  /\ None \notin InvitationIds \union SuspensionSources \union Events

Init ==
  /\ memberships = [m \in MembershipIds |-> None]
  /\ invitations = [v \in InvitationIds |-> None]
  /\ contexts    = [i \in Identities |-> None]
  /\ lapsed      = {}
  /\ announced   = [x \in MembershipIds \union InvitationIds |-> None]
  /\ op          = [p \in Processes |-> Idle]

-----------------------------------------------------------------------------
(* Reads of the store. *)

Members == {m \in MembershipIds : memberships[m] # None}
Invites == {v \in InvitationIds : invitations[v] # None}

FindMembership(i, t) ==
  {m \in Members : memberships[m].who = i /\ memberships[m].ten = t}

FindPendingInvitation(t, i) ==
  {v \in Invites : /\ invitations[v].ten = t
                   /\ invitations[v].invitee = i
                   /\ invitations[v].status = "pending"}

ListByIdentity(i, statuses) ==
  {m \in Members : memberships[m].who = i /\ memberships[m].status \in statuses}

ListByTenant(t, statuses) ==
  {m \in Members : memberships[m].ten = t /\ memberships[m].status \in statuses}

ExpiredPending == {v \in Invites \cap lapsed : invitations[v].status = "pending"}

-----------------------------------------------------------------------------
(* Business rules: when a transition is legal, and the fields it writes.   *)

\* Mutations of the rules: a guard widened to every row that is not archived,
\* the comparison with expiresAt turned round, and no look at the status.
NotArchivedRow(row) == row.status # "archived"
NotYetLapsed(v)     == invitations[v].status = "pending" /\ v \notin lapsed
StillInTime(v)      == v \notin lapsed

MayActivate(row)   == row.status = "pending"
MaySuspend(row)    == row.status = "active"
MayReactivate(row) == row.status = "suspended"
MayArchive(row)    == row.status # "archived"

MayRedeem(v) == invitations[v].status = "pending" /\ v \notin lapsed
MayRevoke(v) == invitations[v].status = "pending"
MayExpire(v) == invitations[v].status = "pending" /\ v \in lapsed

\* Mutation: the two ids of the new row swapped.
SwappedMembership(i, t, status) ==
  [who |-> t, ten |-> i, status |-> status, source |-> None,
   activatedAt |-> status = "active", archivedAt |-> FALSE]

NewMembership(i, t, status) ==
  [who |-> i, ten |-> t, status |-> status, source |-> None,
   activatedAt |-> status = "active", archivedAt |-> FALSE]

NewInvitation(t, i) ==
  [ten |-> t, invitee |-> i, status |-> "pending", redeemedBy |-> None]

\* The patches of the commits: fields that are not listed keep whatever the
\* row holds when the commit is applied.
ActivatePatch(row) ==
  [row EXCEPT !.status = "active", !.activatedAt = TRUE]

SuspendPatch(row, source) ==
  [row EXCEPT !.status = "suspended", !.source = source]

ReactivatePatch(row) ==
  [row EXCEPT !.status = "active", !.source = None]

\* Mutation: archival leaves the suspension fields alone.
ArchiveKeepingSource(row) ==
  [row EXCEPT !.status = "archived", !.archivedAt = TRUE]

ArchivePatch(row) ==
  [row EXCEPT !.status = "archived", !.source = None, !.archivedAt = TRUE]

RedeemPatch(row, i) == [row EXCEPT !.status = "redeemed", !.redeemedBy = i]
RevokePatch(row)    == [row EXCEPT !.status = "revoked"]
ExpirePatch(row)    == [row EXCEPT !.status = "expired"]

-----------------------------------------------------------------------------
(* Handlers. *)

At(p, step)    == op[p].step = step
Goto(p, state) == op' = [op EXCEPT ![p] = state]
Begin(p, state) ==
  /\ At(p, "idle")
  /\ Goto(p, state)
  /\ UNCHANGED <<db, lapsed>>

\* A loop over a list of rows takes one of them and ends after the last.
Advance(p, x, next) ==
  Goto(p, IF op[p].todo \ {x} = {} THEN Idle
          ELSE [next EXCEPT !.todo = @ \ {x}])

\* Mutations: the commits without the unique indexes.
InsertAnyMembership(m, row) ==
  /\ memberships[m] = None
  /\ memberships' = [memberships EXCEPT ![m] = row]

InsertAnyInvitation(v, row) ==
  /\ invitations[v] = None
  /\ invitations' = [invitations EXCEPT ![v] = row]

\* The unique indexes membership_identity_tenant_unique and
\* invitation_live_tenant_email_unique reject the whole commit.
InsertMembership(m, row) ==
  /\ memberships[m] = None
  /\ FindMembership(row.who, row.ten) = {}
  /\ memberships' = [memberships EXCEPT ![m] = row]

InsertInvitation(v, row) ==
  /\ invitations[v] = None
  /\ FindPendingInvitation(row.ten, row.invitee) = {}
  /\ invitations' = [invitations EXCEPT ![v] = row]

Announce(x, event) == announced' = [announced EXCEPT ![x] = event]

CreateRead(p, i, t, status) ==
  /\ FindMembership(i, t) = {}
  /\ Begin(p, [Idle EXCEPT !.step = "create", !.who = i, !.ten = t,
                           !.arg = status])

\* Mutation: a membership created active is only announced as created.
CreatedOnly(status) == "created"

\* Created, and then activated when the row starts active.
CreationEvent(status) == IF status = "active" THEN "activated" ELSE "created"

CreateCommit(p, m) ==
  /\ At(p, "create")
  /\ InsertMembership(m, NewMembership(op[p].who, op[p].ten, op[p].arg))
  /\ Announce(m, CreationEvent(op[p].arg))
  /\ Goto(p, Idle)
  /\ UNCHANGED <<invitations, contexts, lapsed>>

\* A live invitation is returned as it is; a lapsed one does not stop a new
\* one here, though the index still will while it is stored as pending.
InviteRead(p, t, i) ==
  /\ FindPendingInvitation(t, i) \subseteq lapsed
  /\ Begin(p, [Idle EXCEPT !.step = "invite", !.who = i, !.ten = t])

InviteCommit(p, v) ==
  /\ At(p, "invite")
  /\ InsertInvitation(v, NewInvitation(op[p].ten, op[p].who))
  /\ Announce(v, "created")
  /\ Goto(p, Idle)
  /\ UNCHANGED <<memberships, contexts, lapsed>>

\* A pending invitation found lapsed here goes through ExpireRead instead.
RedeemRead(p, i, v) ==
  /\ v \in Invites
  /\ MayRedeem(v)
  /\ invitations[v].invitee = i
  /\ Begin(p, [Idle EXCEPT !.step = "redeem", !.who = i, !.inv = v,
                           !.ten = invitations[v].ten])

RedeemFindMembership(p) ==
  LET found == FindMembership(op[p].who, op[p].ten) IN
  /\ At(p, "redeem")
  /\ \A m \in found : memberships[m].status \in {"pending", "active"}
  /\ Goto(p, [op[p] EXCEPT
                !.step = "redeemCommit",
                !.mem = IF found = {} THEN None ELSE CHOOSE m \in found : TRUE])
  /\ UNCHANGED <<db, lapsed>>

\* Mutation: the redemption never asks for the insertion.
NeverCreates(p) == FALSE

MembershipCreated(p) == op[p].mem = None

\* The invitation patch and the insertion of the pending membership, when
\* none was found, are one commit.
RedeemCommit(p) ==
  LET v == op[p].inv IN
  /\ At(p, "redeemCommit")
  /\ invitations' = [invitations EXCEPT ![v] = RedeemPatch(@, op[p].who)]
  /\ \/ /\ ~MembershipCreated(p)
        /\ Announce(v, "redeemed")
        /\ UNCHANGED memberships
     \/ /\ MembershipCreated(p)
        /\ \E m \in MembershipIds :
             /\ InsertMembership(m,
                  NewMembership(op[p].who, op[p].ten, "pending"))
             /\ announced' = [announced EXCEPT ![v] = "redeemed",
                                               ![m] = "created"]
  /\ Goto(p, Idle)
  /\ UNCHANGED <<contexts, lapsed>>

RevokeRead(p, v) ==
  /\ v \in Invites
  /\ MayRevoke(v)
  /\ Begin(p, [Idle EXCEPT !.step = "revoke", !.inv = v])

RevokeCommit(p) ==
  LET v == op[p].inv IN
  /\ At(p, "revoke")
  /\ invitations' = [invitations EXCEPT ![v] = RevokePatch(@)]
  /\ Announce(v, "revoked")
  /\ Goto(p, Idle)
  /\ UNCHANGED <<memberships, contexts, lapsed>>

ExpireRead(p, v) ==
  /\ v \in Invites
  /\ MayExpire(v)
  /\ Begin(p, [Idle EXCEPT !.step = "expire", !.inv = v])

ExpireInvitation(v) ==
  /\ invitations' = [invitations EXCEPT ![v] = ExpirePatch(@)]
  /\ Announce(v, "expired")
  /\ UNCHANGED <<memberships, contexts, lapsed>>

ExpireCommit(p) ==
  /\ At(p, "expire")
  /\ ExpireInvitation(op[p].inv)
  /\ Goto(p, Idle)

-----------------------------------------------------------------------------
(* Membership lifecycle.  A use case on one membership is a list of one.   *)

\* The list is read once; a row that is no longer pending when the loop
\* re-reads it throws, and the rest of the list is abandoned.
ActivatePendingRead(p, i) ==
  /\ ListByIdentity(i, {"pending"}) # {}
  /\ Begin(p, [Idle EXCEPT !.step = "activatePending",
                           !.todo = ListByIdentity(i, {"pending"})])

ActivatePendingNext(p, m) ==
  /\ At(p, "activatePending")
  /\ m \in op[p].todo
  /\ MayActivate(memberships[m])
  /\ Goto(p, [op[p] EXCEPT !.step = "activate", !.mem = m])
  /\ UNCHANGED <<db, lapsed>>

ActivateRead(p, m) ==
  /\ m \in Members
  /\ MayActivate(memberships[m])
  /\ Begin(p, [Idle EXCEPT !.step = "activate", !.mem = m, !.todo = {m}])

ActivateCommit(p) ==
  LET m == op[p].mem IN
  /\ At(p, "activate")
  /\ memberships' = [memberships EXCEPT ![m] = ActivatePatch(@)]
  /\ Announce(m, "activated")
  /\ Advance(p, m, [op[p] EXCEPT !.step = "activatePending", !.mem = None])
  /\ UNCHANGED <<invitations, contexts, lapsed>>

SuspendRead(p, m) ==
  /\ m \in Members
  /\ MaySuspend(memberships[m])
  /\ Begin(p, [Idle EXCEPT !.step = "suspend", !.arg = "manual", !.todo = {m}])

\* tenant.suspended and subscription.suspended: all rows are judged on the
\* one list read here, then patched one commit at a time.
SuspendTenantRead(p, t, source) ==
  /\ ListByTenant(t, {"active"}) # {}
  /\ Begin(p, [Idle EXCEPT !.step = "suspend", !.arg = source,
                           !.todo = ListByTenant(t, {"active"})])

SuspendCommit(p, m) ==
  /\ At(p, "suspend")
  /\ m \in op[p].todo
  /\ memberships' = [memberships EXCEPT ![m] = SuspendPatch(@, op[p].arg)]
  /\ Announce(m, "suspended")
  /\ Advance(p, m, op[p])
  /\ UNCHANGED <<invitations, contexts, lapsed>>

ReactivateRead(p, m) ==
  /\ m \in Members
  /\ MayReactivate(memberships[m])
  /\ Begin(p, [Idle EXCEPT !.step = "reactivate", !.todo = {m}])

\* Mutation: the source of the suspension is not looked at.
AnySuspended(t) == ListByTenant(t, {"suspended"})

SubscriptionSuspended(t) ==
  {m \in ListByTenant(t, {"suspended"}) : memberships[m].source = "subscription"}

\* subscription.reactivated restores what a subscription suspended.
RestoreSubscriptionRead(p, t) ==
  /\ SubscriptionSuspended(t) # {}
  /\ Begin(p, [Idle EXCEPT !.step = "reactivate", !.arg = "subscription",
                           !.todo = SubscriptionSuspended(t)])

ReactivateCommit(p, m) ==
  /\ At(p, "reactivate")
  /\ m \in op[p].todo
  /\ memberships' = [memberships EXCEPT ![m] = ReactivatePatch(@)]
  /\ Announce(m, "reactivated")
  /\ Advance(p, m, op[p])
  /\ UNCHANGED <<invitations, contexts, lapsed>>

ArchiveRead(p, m) ==
  /\ m \in Members
  /\ MayArchive(memberships[m])
  /\ Begin(p, [Idle EXCEPT !.step = "archive", !.todo = {m}])

NotArchived == MembershipStatuses \ {"archived"}

ArchiveIdentityRead(p, i) ==
  /\ ListByIdentity(i, NotArchived) # {}
  /\ Begin(p, [Idle EXCEPT !.step = "archive",
                           !.todo = ListByIdentity(i, NotArchived)])

ArchiveTenantRead(p, t) ==
  /\ ListByTenant(t, NotArchived) # {}
  /\ Begin(p, [Idle EXCEPT !.step = "archive",
                           !.todo = ListByTenant(t, NotArchived)])

ArchiveCommit(p, m) ==
  /\ At(p, "archive")
  /\ m \in op[p].todo
  /\ memberships' = [memberships EXCEPT ![m] = ArchivePatch(@)]
  /\ Announce(m, "archived")
  /\ Advance(p, m, op[p])
  /\ UNCHANGED <<invitations, contexts, lapsed>>

SwitchContextRead(p, i, m) ==
  /\ m \in Members
  /\ memberships[m].who = i
  /\ memberships[m].status = "active"
  /\ Begin(p, [Idle EXCEPT !.step = "switch", !.who = i, !.mem = m])

\* No other commit writes contexts: suspension and archival publish
\* membership.context.cleared and leave the stored context as it is.
SwitchContextCommit(p) ==
  /\ At(p, "switch")
  /\ contexts' = [contexts EXCEPT ![op[p].who] = op[p].mem]
  /\ Goto(p, Idle)
  /\ UNCHANGED <<memberships, invitations, lapsed, announced>>

-----------------------------------------------------------------------------
(* The expiration worker: one run at a time (flag running), row by row,    *)
(* rows that fail skipped.                                                 *)

SweepRead(w) ==
  /\ ExpiredPending # {}
  /\ \E batch \in SUBSET ExpiredPending :
       /\ \/ Cardinality(batch) = BatchSize
          \/ Cardinality(batch) < BatchSize /\ batch = ExpiredPending
       /\ Begin(w, [Idle EXCEPT !.step = "sweep", !.todo = batch])

SweepNext(w, v) ==
  /\ At(w, "sweep")
  /\ v \in op[w].todo
  /\ MayExpire(v)
  /\ Goto(w, [op[w] EXCEPT !.step = "sweepExpire", !.inv = v])
  /\ UNCHANGED <<db, lapsed>>

SweepSkip(w, v) ==
  /\ At(w, "sweep")
  /\ v \in op[w].todo
  /\ ~MayExpire(v)
  /\ Advance(w, v, op[w])
  /\ UNCHANGED <<db, lapsed>>

SweepCommit(w) ==
  LET v == op[w].inv IN
  /\ At(w, "sweepExpire")
  /\ ExpireInvitation(v)
  /\ Advance(w, v, [op[w] EXCEPT !.step = "sweep", !.inv = None])

SweepFail(w) ==
  LET v == op[w].inv IN
  /\ At(w, "sweepExpire")
  /\ Advance(w, v, [op[w] EXCEPT !.step = "sweep", !.inv = None])
  /\ UNCHANGED <<db, lapsed>>

-----------------------------------------------------------------------------
(* Environment. *)

\* The clock passes the expiresAt of a pending invitation.
Lapse(v) ==
  /\ v \in Invites \ lapsed
  /\ invitations[v].status = "pending"
  /\ lapsed' = lapsed \union {v}
  /\ UNCHANGED <<db, op>>

\* The engine rejects the commit, a read fails, or the process dies.
Abandon(p) ==
  /\ ~At(p, "idle")
  /\ Goto(p, Idle)
  /\ UNCHANGED <<db, lapsed>>

MembershipStep(p) ==
  \/ \E i \in Identities, t \in Tenants, s \in {"pending", "active"} :
       CreateRead(p, i, t, s)
  \/ \E m \in MembershipIds :
       \/ CreateCommit(p, m)
       \/ ActivateRead(p, m) \/ ActivatePendingNext(p, m)
       \/ SuspendRead(p, m) \/ SuspendCommit(p, m)
       \/ ReactivateRead(p, m) \/ ReactivateCommit(p, m)
       \/ ArchiveRead(p, m) \/ ArchiveCommit(p, m)
  \/ ActivateCommit(p)
  \/ \E i \in Identities : ActivatePendingRead(p, i) \/ ArchiveIdentityRead(p, i)
  \/ \E t \in Tenants :
       \/ \E source \in {"tenant", "subscription"} :
            SuspendTenantRead(p, t, source)
       \/ RestoreSubscriptionRead(p, t)
       \/ ArchiveTenantRead(p, t)

InvitationStep(p) ==
  \/ \E t \in Tenants, i \in Identities : InviteRead(p, t, i)
  \/ \E v \in InvitationIds :
       \/ InviteCommit(p, v)
       \/ RevokeRead(p, v) \/ ExpireRead(p, v)
       \/ \E i \in Identities : RedeemRead(p, i, v)
  \/ RedeemFindMembership(p) \/ RedeemCommit(p)
  \/ RevokeCommit(p) \/ ExpireCommit(p)

ContextStep(p) ==
  \/ \E i \in Identities, m \in MembershipIds : SwitchContextRead(p, i, m)
  \/ SwitchContextCommit(p)

WorkerStep(w) ==
  \/ SweepRead(w)
  \/ \E v \in InvitationIds : SweepNext(w, v) \/ SweepSkip(w, v)
  \/ SweepCommit(w) \/ SweepFail(w)

Next ==
  \/ \E p \in Ops : MembershipStep(p) \/ InvitationStep(p) \/ ContextStep(p)
  \/ \E w \in Workers : WorkerStep(w)
  \/ \E v \in InvitationIds : Lapse(v)
  \/ \E p \in Processes : Abandon(p)

Spec == Init /\ [][Next]_vars

-----------------------------------------------------------------------------
(* Properties. *)

TypeOK ==
  /\ memberships \in [MembershipIds -> MembershipRow \union {None}]
  /\ invitations \in [InvitationIds -> InvitationRow \union {None}]
  /\ contexts \in [Identities -> MembershipIds \union {None}]
  /\ lapsed \subseteq InvitationIds
  /\ announced \in [MembershipIds \union InvitationIds -> Events \union {None}]
  /\ op \in [Processes -> Handler]

\* What a handler's stale reads still guarantee when it commits: the rows it
\* selected exist, belong to whom it read, and were activated if it is going
\* to suspend, restore or select them.  Their status may be anything by then.
HoldsMemberships(o) ==
  /\ o.step = "create" => /\ o.who \in Identities /\ o.ten \in Tenants
                          /\ o.arg \in {"pending", "active"}
  /\ o.step = "activate" => o.mem \in Members
  /\ o.step \in {"activatePending", "activate", "archive"} => o.todo \subseteq Members
  /\ o.step \in {"suspend", "reactivate"} =>
       \A m \in o.todo : m \in Members /\ memberships[m].activatedAt
  /\ o.step = "suspend" => o.arg \in SuspensionSources
  /\ o.step = "switch" => /\ o.who \in Identities
                          /\ o.mem \in Members
                          /\ memberships[o.mem].activatedAt
                          /\ memberships[o.mem].who = o.who

HoldsInvitations(o) ==
  /\ o.step = "invite" => o.who \in Identities /\ o.ten \in Tenants
  /\ o.step \in {"redeem", "redeemCommit"} =>
       /\ o.who \in Identities /\ o.ten \in Tenants
       /\ o.inv \in Invites
       /\ invitations[o.inv].ten = o.ten
       /\ invitations[o.inv].invitee = o.who
  /\ o.step = "redeemCommit" =>
       o.mem = None \/ o.mem \in FindMembership(o.who, o.ten)
  /\ o.step \in {"revoke", "expire", "sweepExpire"} => o.inv \in Invites
  /\ o.step \in {"sweep", "sweepExpire"} => o.todo \subseteq Invites

StaleReadsHold ==
  \A p \in Processes : HoldsMemberships(op[p]) /\ HoldsInvitations(op[p])

\* Two handlers that both found no membership cannot both create one: an
\* identity has at most one membership of a tenant (redemption racing
\* create, create racing create, redelivered redemption requests).
OneMembershipPerTenant ==
  \A i \in Identities, t \in Tenants :
    \A m, n \in FindMembership(i, t) : m = n

\* "One live pending invitation per normalized tenant/email pair"
\* (invite-member-usecase.ts), whatever the invites in flight decided.
OneLiveInvitation ==
  \A i \in Identities, t \in Tenants :
    \A u, v \in FindPendingInvitation(t, i) : u = v

\* The unique indexes are all that stands between two handlers that both
\* found nothing and both insert.
RowsAreUnique == OneMembershipPerTenant /\ OneLiveInvitation

\* Redemption is atomic with the membership it needs: an invitation that
\* records who redeemed it has a membership of that identity in its tenant,
\* although the membership was looked up two awaits before the commit.
RedeemedHasMembership ==
  \A v \in Invites :
    invitations[v].redeemedBy # None =>
      FindMembership(invitations[v].redeemedBy, invitations[v].ten) # {}

\* No interleaving of stale activations, suspensions and restorations makes
\* a membership effective, or selected as a context, that was never
\* activated.
EffectiveWasActivated ==
  /\ \A m \in Members :
       memberships[m].status \in {"active", "suspended"} =>
         memberships[m].activatedAt
  /\ \A i \in Identities :
       contexts[i] # None => /\ contexts[i] \in Members
                             /\ memberships[contexts[i]].activatedAt
                             /\ memberships[contexts[i]].who = i

\* Each patch writes status, archivedAt and suspension source together
\* consistently enough that, with any mixture of patches, a suspended row
\* names its source and an archived row its archival.
StatusIsExplained ==
  \A m \in Members :
    /\ memberships[m].status = "suspended" => memberships[m].source # None
    /\ memberships[m].status = "archived" =>
         /\ memberships[m].archivedAt
         /\ memberships[m].source = None

\* The last lifecycle event of an aggregate tells consumers its stored
\* status: commits that race leave events and rows in the same order.
EventStatus(event) ==
  CASE event = "created" -> "pending"
    [] event \in {"activated", "reactivated"} -> "active"
    [] OTHER -> event

AnnouncedIsStored ==
  /\ \A m \in Members : memberships[m].status = EventStatus(announced[m])
  /\ \A v \in Invites : invitations[v].status = EventStatus(announced[v])

-----------------------------------------------------------------------------
(* What the documentation says of the lifecycles.  These hold of one       *)
(* handler at a time, and are refuted when two are in flight.              *)

\* "A revoked invitation cannot subsequently be redeemed."
RevokedIsNotRedeemed ==
  [][\A v \in Invites :
       invitations[v].status = "revoked" => invitations'[v].status # "redeemed"
    ]_invitations

\* "Subscription restoration must not undo an unrelated manual suspension."
RestorationIsSourceAware ==
  [][\A p \in Ops, m \in MembershipIds :
       ReactivateCommit(p, m) /\ op[p].arg = "subscription" =>
         /\ memberships[m].status = "suspended"
         /\ memberships[m].source = "subscription"
    ]_vars

-----------------------------------------------------------------------------
(* Liveness. *)

\* A server keeps its interval timer and the store answers a commit that is
\* retried for ever; requests of users and other services owe nothing.
WorkerFairness ==
  \A w \in Workers :
    /\ WF_vars(SweepRead(w))
    /\ \A v \in InvitationIds : /\ SF_vars(SweepNext(w, v))
                               /\ WF_vars(SweepSkip(w, v))
                               /\ SF_vars(SweepCommit(w) /\ op[w].inv = v)

FairSpec == Spec /\ WorkerFairness

\* An invitation past its expiry does not stay pending, so its tenant and
\* email can be invited again.
LapsedIsSettled ==
  \A v \in InvitationIds : v \in ExpiredPending ~> v \notin ExpiredPending
=============================================================================
