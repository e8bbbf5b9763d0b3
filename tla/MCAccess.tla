------------------------------ MODULE MCAccess ------------------------------
(* Instances of AccessLifecycle for TLC. *)
EXTENDS AccessLifecycle, TLC

\* The events of each run.
MembershipCauses ==
  {"membership.created", "membership.activated", "membership.suspended",
   "membership.archived"}
RacingCauses ==
  {"membership.created", "membership.activated", "membership.suspended",
   "membership.reactivated", "membership.archived", "identity.activated",
   "identity.disabled"}
WorkerEvents == {"membership.created", "membership.activated"}

\* Sound for the safety runs: only the ids of assignments are ordered.
Symmetric == Permutations(Ops) \union Permutations(Rights)
=============================================================================
