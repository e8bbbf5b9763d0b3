---------------------------- MODULE MCOnboarding ----------------------------
(* Instances of Onboarding for TLC. *)
EXTENDS Onboarding, TLC

ASSUME Premise == OneHandler

\* Sound for a safety run: the only choices are from sets of at most one.
Symmetric ==
  Permutations(MembershipIds) \union Permutations(InvitationIds)
    \union Permutations(Requests) \union Permutations(UserIds)
    \union Permutations(Tenants)
=============================================================================
