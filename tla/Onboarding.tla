----------------------------- MODULE Onboarding -----------------------------
(***************************************************************************)
(* Joining a tenant, across Identity and Membership: Membership invites,   *)
(* Identity signs the invited person up and verifies the email, Membership *)
(* redeems the invitation and activates the membership.  The services      *)
(* share no state, only messages, delivered at least once in any order.    *)
(*                                                                         *)
(* Membership's handlers are those of module Membership, with every email  *)
(* standing for the identity that owns it (OneIdentityPerEmail).  Of its   *)
(* commands those that touch an invitation, and archival, take part.       *)
(***************************************************************************)
EXTENDS Identity

CONSTANTS Tenants, MembershipIds, Ops, Workers, BatchSize

VARIABLES
  memberships, invitations, contexts, announced, op,   \* of Membership
  waiting          \* memberships that were pending when their identity was
                   \* verified (history)

membership == <<memberships, invitations, contexts, lapsed, announced, op>>
vars == <<identity, membership, sent, owed, waiting>>

M == INSTANCE Membership WITH Identities <- Emails

ASSUME MembershipMeetsIdentity ==
  /\ MembershipIds \cap InvitationIds = {}
  /\ Ops \cap Workers = {}
  /\ BatchSize \in Nat \ {0}
  /\ None \notin M!MembershipRow \union M!InvitationRow
  /\ None \notin Tenants \union MembershipIds
  /\ None \notin M!SuspensionSources \union M!Events

\* Membership runs its commands and reactions one after the other.  Two with
\* stale reads may settle one invitation twice (MCMembershipRevokedRace), so
\* SettledInvitationsAdmitNobody, ProjectionIsNotAhead and RequestsAreSettled
\* are stated of one.  So is VerifiedMembersAreActivated: an identity may be
\* verified twice (by two requests at once), both announcements are one message
\* here, and a reaction to the first that read its list before another handler
\* redeemed would end the second as well.  The rest hold of any number.
OneHandler == \A p, q \in Ops : p = q

Init == IdentityInit /\ M!Init /\ waiting = {}

PendingOf(e) == M!ListByIdentity(e, {"pending"})

\* Membership moves; Identity's own state does not.
Quietly == UNCHANGED <<identity, sent, owed, waiting>>
Telling(messages) ==
  /\ sent' = sent \union messages
  /\ UNCHANGED <<identity, owed, waiting>>
Done(messages) ==
  /\ owed' = owed \ messages
  /\ UNCHANGED <<identity, sent, waiting>>

-----------------------------------------------------------------------------
(* Commands of Membership and the messages of their commits. *)

Invite(p) ==
  \/ \E t \in Tenants, e \in Emails : M!InviteRead(p, t, e) /\ Quietly
  \/ \E v \in InvitationIds :
       M!InviteCommit(p, v) /\ Telling({Created(v, op[p].who)})

Revoke(p) ==
  \/ \E v \in InvitationIds : M!RevokeRead(p, v) /\ Quietly
  \/ M!RevokeCommit(p) /\ Telling({Settled("revoked", op[p].inv)})

Expire(p) ==
  \/ \E v \in InvitationIds : M!ExpireRead(p, v) /\ Quietly
  \/ M!ExpireCommit(p) /\ Telling({Settled("expired", op[p].inv)})

Archive(p) ==
  \E m \in MembershipIds :
    (M!ArchiveRead(p, m) \/ M!ArchiveCommit(p, m)) /\ Quietly

-----------------------------------------------------------------------------
(* Reactions of Membership.  A message is done when its handler ends, or   *)
(* fails for good; after any other failure processing delivers it again.   *)

Asked(e, v) == {Redemption(v, u) : u \in FindUserByEmail(e)}

RedeemRequested(p, v, u) ==
  /\ Redemption(v, u) \in sent
  /\ M!RedeemRead(p, users[u].email, v)
  /\ Quietly

RedeemFind(p) == M!RedeemFindMembership(p) /\ Quietly

RedeemDone(p) ==
  /\ M!RedeemCommit(p)
  /\ sent' = sent \union {Settled("redeemed", op[p].inv)}
  /\ owed' = owed \ Asked(op[p].who, op[p].inv)
  /\ UNCHANGED <<identity, waiting>>

\* Mutation: every failure of a redemption counts as permanent.
AnyFailure(p) == op[p].step \in {"redeem", "redeemCommit"}

\* Every error but a failed commit (and an unavailable authorization) is
\* permanent; past RedeemRead only the state of the membership is left.
PermanentFailure(p) ==
  /\ op[p].step = "redeem"
  /\ \E m \in M!FindMembership(op[p].who, op[p].ten) :
       memberships[m].status \notin {"pending", "active"}

RedeemRejected(p) ==
  /\ PermanentFailure(p)
  /\ M!Abandon(p)
  /\ Done(Asked(op[p].who, op[p].inv))

\* The invitation is not pending any more: permanent.  (One that has lapsed
\* goes through Expire first and is rejected then.)
RedeemRefused(v, u) ==
  /\ Redemption(v, u) \in owed
  /\ v \in M!Invites
  /\ invitations[v].status # "pending"
  /\ Done({Redemption(v, u)})
  /\ UNCHANGED membership

ActivateRequested(p, u) ==
  /\ Activated(u) \in sent
  /\ M!ActivatePendingRead(p, users[u].email)
  /\ Quietly

NothingToActivate(u) ==
  /\ Activated(u) \in owed
  /\ PendingOf(users[u].email) = {}
  /\ Done({Activated(u)})
  /\ UNCHANGED membership

ActivateNext(p) ==
  \E m \in MembershipIds : M!ActivatePendingNext(p, m) /\ Quietly

\* Mutation: the reaction is over after its first membership.
FirstActivated(p) == op[p].mem # None

LastActivated(p) == op[p].todo \ {op[p].mem} = {}

ActivateDone(p) ==
  /\ M!ActivateCommit(p)
  /\ IF LastActivated(p)
     THEN Done({Activated(u) :
                  u \in FindUserByEmail(memberships[op[p].mem].who)})
     ELSE Quietly

-----------------------------------------------------------------------------
(* The system. *)

VerifyEmail(q) ==
  /\ VerifyEmailCommit(q)
  /\ waiting' = waiting \union PendingOf(users[work[q].user].email)
  /\ UNCHANGED membership

Next ==
  \/ IdentityStep /\ UNCHANGED <<membership, waiting>>
  \/ \E q \in Requests : VerifyEmail(q)
  \/ \E p \in Ops :
       \/ Invite(p) \/ Revoke(p) \/ Expire(p) \/ Archive(p)
       \/ RedeemFind(p) \/ RedeemDone(p) \/ RedeemRejected(p)
       \/ ActivateNext(p) \/ ActivateDone(p)
       \/ \E u \in UserIds :
            \/ ActivateRequested(p, u)
            \/ \E v \in InvitationIds : RedeemRequested(p, v, u)
       \/ M!Abandon(p) /\ Quietly
  \/ \E u \in UserIds :
       \/ NothingToActivate(u)
       \/ \E v \in InvitationIds : RedeemRefused(v, u)
  \/ \E v \in InvitationIds : M!Lapse(v) /\ Quietly

Spec == Init /\ [][Next]_vars

-----------------------------------------------------------------------------
(* Properties. *)

TypeOK == IdentityTypeOK /\ M!TypeOK /\ waiting \subseteq MembershipIds

\* Whatever the order of the messages, a membership that onboarding made
\* effective belongs to an identity that exists and has verified its email.
EffectiveMembersAreVerified ==
  \A m \in M!Members :
    memberships[m].activatedAt =>
      \E u \in FindUserByEmail(memberships[m].who) : users[u].status = "active"

\* A sign-up let through by a projection that lags, or that a redelivered
\* created has set back to pending, admits nobody: a membership comes into
\* being only by the redemption of an invitation that is pending.
SettledInvitationsAdmitNobody ==
  [][\A m \in MembershipIds :
       memberships[m] = None /\ memberships'[m] # None =>
         \E v \in M!Invites : /\ invitations[v].status = "pending"
                              /\ invitations'[v].status = "redeemed"
    ]_vars

\* The projection lags behind Membership but does not run ahead of it: what
\* it holds as settled is settled in just that way.
ProjectionIsNotAhead ==
  \A v \in InvitationIds :
    known[v] # None =>
      /\ v \in M!Invites
      /\ known[v].email = invitations[v].invitee
      /\ known[v].status \in {"pending", invitations[v].status}

\* A redemption that Membership no longer owes was redeemed, or refused for
\* good: never dropped by a failed commit while the invitation is pending
\* and the membership admits it.
RequestsAreSettled ==
  \A v \in InvitationIds, u \in UserIds :
    Redemption(v, u) \in sent \ owed =>
      \/ invitations[v].status # "pending"
      \/ \E m \in M!FindMembership(users[u].email, invitations[v].ten) :
           memberships[m].status \notin {"pending", "active"}

\* A membership that was pending when its identity was verified is activated
\* (or left by archival) before the reaction is over: no failure half-way
\* through the list strands it.
VerifiedMembersAreActivated ==
  \A m \in waiting :
    memberships[m].status = "pending" =>
      \E u \in FindUserByEmail(memberships[m].who) : Activated(u) \in owed
=============================================================================
