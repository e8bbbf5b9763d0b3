------------------------ MODULE MembershipLifecycle -------------------------
(***************************************************************************)
(* What the Membership service promises: the documented lifecycles         *)
(*                                                                         *)
(*    membership   pending -> active -> suspended -> active -> archived    *)
(*    invitation   pending -> redeemed | revoked | expired                 *)
(*                                                                         *)
(* as atomic steps, each of which looks at the state it changes.  There    *)
(* are no handlers, no reads and no commits here.                          *)
(***************************************************************************)
CONSTANTS Identities, Tenants, MembershipIds, InvitationIds, None

VARIABLES
  membership,   \* id -> None or what is promised of the row
  invitation,   \* id -> None or what is promised of the row
  context       \* identity -> the membership it selected, or None

vars == <<membership, invitation, context>>

Init ==
  /\ membership = [m \in MembershipIds |-> None]
  /\ invitation = [v \in InvitationIds |-> None]
  /\ context    = [i \in Identities |-> None]

Belongs(m, i, t) ==
  membership[m] # None /\ membership[m].who = i /\ membership[m].ten = t

Move(m, from, to, source) ==
  /\ membership[m] # None
  /\ membership[m].status \in from
  /\ membership' = [membership EXCEPT ![m].status = to, ![m].source = source]
  /\ UNCHANGED <<invitation, context>>

NewRow(i, t, status) ==
  [who |-> i, ten |-> t, status |-> status, source |-> None]

\* One membership of a tenant for an identity, pending or active at first.
Admit(m, i, t, status) ==
  /\ membership[m] = None
  /\ \A n \in MembershipIds : ~Belongs(n, i, t)
  /\ membership' = [membership EXCEPT ![m] = NewRow(i, t, status)]

Create(m) ==
  /\ \E i \in Identities, t \in Tenants, status \in {"pending", "active"} :
       Admit(m, i, t, status)
  /\ UNCHANGED <<invitation, context>>

Activate(m)   == Move(m, {"pending"}, "active", None)
Suspend(m, s) == Move(m, {"active"}, "suspended", s)
Archive(m)    == Move(m, {"pending", "active", "suspended"}, "archived", None)

\* An administrator may lift any suspension; the subscription only its own.
Reactivate(m) == Move(m, {"suspended"}, "active", None)

Invite(v) ==
  /\ invitation[v] = None
  /\ \E t \in Tenants, i \in Identities :
       /\ \A u \in InvitationIds :
            ~ /\ invitation[u] # None
              /\ invitation[u].ten = t
              /\ invitation[u].invitee = i
              /\ invitation[u].status = "pending"
       /\ invitation' = [invitation EXCEPT ![v] =
            [ten |-> t, invitee |-> i, status |-> "pending",
             redeemedBy |-> None]]
  /\ UNCHANGED <<membership, context>>

Pending(v) == invitation[v] # None /\ invitation[v].status = "pending"

Settle(v, status) ==
  /\ Pending(v)
  /\ invitation' = [invitation EXCEPT ![v].status = status]
  /\ UNCHANGED <<membership, context>>

\* The invitee, and nobody else, redeems; a membership that was suspended or
\* archived is not revived by an invitation.
Redeem(v) ==
  LET i == invitation[v].invitee
      t == invitation[v].ten
  IN /\ Pending(v)
     /\ invitation' = [invitation EXCEPT ![v].status = "redeemed",
                                         ![v].redeemedBy = i]
     /\ \/ \E m \in MembershipIds : Admit(m, i, t, "pending")
        \/ /\ \E m \in MembershipIds :
                /\ Belongs(m, i, t)
                /\ membership[m].status \in {"pending", "active"}
           /\ UNCHANGED membership
     /\ UNCHANGED context

Select(i, m) ==
  /\ membership[m] # None
  /\ membership[m].who = i
  /\ membership[m].status = "active"
  /\ context' = [context EXCEPT ![i] = m]
  /\ UNCHANGED <<membership, invitation>>

Next ==
  \/ \E m \in MembershipIds :
       \/ Create(m) \/ Activate(m) \/ Reactivate(m) \/ Archive(m)
       \/ \E s \in {"manual", "tenant", "subscription"} : Suspend(m, s)
  \/ \E v \in InvitationIds :
       Invite(v) \/ Redeem(v) \/ Settle(v, "revoked") \/ Settle(v, "expired")
  \/ \E i \in Identities, m \in MembershipIds : Select(i, m)

Spec == Init /\ [][Next]_vars
=============================================================================
