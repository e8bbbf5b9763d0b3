----------------------------- MODULE MCWorkers -----------------------------
(* Do the expiration workers of both services get everything that is due    *)
(* done?  The workers meet nowhere, so a behaviour is one of Access or one  *)
(* of Membership while the other stands still.                              *)
EXTENDS AccessLifecycle

CONSTANTS People, Companies, MembershipIds, InvitationIds

VARIABLES service, memberships, invitations, contexts, lapsed, announced,
          handling

M == INSTANCE Membership
       WITH Identities <- People, Tenants <- Companies, op <- handling

membershipVars ==
  <<memberships, invitations, contexts, lapsed, announced, handling>>

allVars == <<service, vars, membershipVars>>

WorkersInit == service \in {"access", "membership"} /\ Init /\ M!Init

\* A step of the service that the behaviour is one of.
OfAccess     == service = "access" /\ UNCHANGED <<service, membershipVars>>
OfMembership == service = "membership" /\ UNCHANGED <<service, vars>>

WorkersNext ==
  \/ OfAccess /\ Next
  \/ OfMembership /\ M!Next

\* The fairness of each service, for the behaviours that are its own.
AccessFairness ==
  \A w \in Workers :
    /\ WF_allVars(SweepRead(w) /\ OfAccess)
    /\ \A a \in AssignmentIds :
         /\ SF_allVars(SweepNext(w, a) /\ OfAccess)
         /\ WF_allVars(SweepSkip(w, a) /\ OfAccess)
         /\ SF_allVars(Commit(w) /\ op[w].patch[a] # None /\ OfAccess)

MembershipFairness ==
  \A w \in Workers :
    /\ WF_allVars(M!SweepRead(w) /\ OfMembership)
    /\ \A v \in InvitationIds :
         /\ SF_allVars(M!SweepNext(w, v) /\ OfMembership)
         /\ WF_allVars(M!SweepSkip(w, v) /\ OfMembership)
         /\ SF_allVars(M!SweepCommit(w) /\ handling[w].inv = v /\ OfMembership)

WorkersSpec ==
  /\ WorkersInit /\ [][WorkersNext]_allVars
  /\ AccessFairness /\ MembershipFairness

\* An invitation past its expiry does not stay pending (see Membership).
LapsedIsSettled == M!LapsedIsSettled

WorkerEvents == {"membership.created", "membership.activated"}
=============================================================================
