---------------------------- MODULE AccessSerial ----------------------------
(***************************************************************************)
(* AccessLifecycle implements AssignmentLifecycle when one handler is in   *)
(* flight at a time (OneHandler): every commit then acts on what its reads *)
(* saw.                                                                    *)
(***************************************************************************)
EXTENDS AccessLifecycle

OneHandler == \A p, q \in Processes : p = q

\* The ids of identities, memberships and tenants do not clash.
SubjectsDisjoint ==
  /\ Identities \cap Memberships = {}
  /\ Identities \cap Tenants = {}
  /\ Memberships \cap Tenants = {}

Lifecycle == INSTANCE AssignmentLifecycle WITH assignment <- assignments

\* Each commit grants one right, ends one assignment, or carries a lifecycle
\* event over to every assignment of its subject, and nothing else changes
\* assignments: what ended stays ended, no right is granted twice, and a
\* suspended assignment comes back when its last cause is lifted and not
\* before.
ImplementsLifecycle == Lifecycle!Spec
=============================================================================
