------------------------------ MODULE MCServer ------------------------------
(* The instance of Server that the repository builds. *)
EXTENDS Server
=============================================================================
