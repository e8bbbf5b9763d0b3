----------------------------- MODULE MCSessions -----------------------------
(* Instances of Sessions for TLC. *)
EXTENDS Sessions, TLC

\* Sound: no definition chooses between the values of one of these sets.
Symmetric == Permutations(SessionIds) \union Permutations(Requests)
=============================================================================
