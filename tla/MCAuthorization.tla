--------------------------- MODULE MCAuthorization ---------------------------
(* An instance of Authorization for TLC: two instants, one role, one kind   *)
(* of resource.                                                             *)
EXTENDS Authorization

CONSTANTS file

\* With and without the resource and the capability.
BothQuestions ==
  {[resource |-> {}, capability |-> TRUE],
   [resource |-> {file}, capability |-> FALSE]}

\* Lapsing at the second instant, and dated ahead.
ShortWindows == {<<0, 1>>, <<1, 2>>}
=============================================================================
