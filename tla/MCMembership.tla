---------------------------- MODULE MCMembership ----------------------------
(* Instances of Membership for TLC. *)
EXTENDS Membership, TLC

\* Sound for the safety runs: no definition chooses between the values of one
\* of these sets (RedeemFindMembership chooses from a set of at most one).
Symmetric ==
  Permutations(MembershipIds) \union Permutations(InvitationIds)
    \union Permutations(Ops)
=============================================================================
