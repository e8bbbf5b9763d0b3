------------------------ MODULE AssignmentLifecycle -------------------------
(***************************************************************************)
(* What the Access service promises of assignments: a right is granted     *)
(* once to a membership, is suspended while a lifecycle condition of its   *)
(* identity, its membership or its tenant holds, comes back when the last  *)
(* of them is lifted, and ends for good.  Every step looks at the state it *)
(* changes, and a lifecycle event applies to all the assignments of its    *)
(* subject at once.  There are no handlers, reads or commits here.         *)
(***************************************************************************)
CONSTANTS Identities, Tenants, Rights, AssignmentIds, None

VARIABLE assignment   \* id -> None or [mem, right, status, sources]

Init == assignment = [a \in AssignmentIds |-> None]

Memberships == Identities \X Tenants
Ended       == {"expired", "archived", "removed"}

Exists(a) == assignment[a] # None
Live(a)   == Exists(a) /\ assignment[a].status \notin Ended

Of(a, source, s) ==
  CASE source = "identity"   -> assignment[a].mem[1] = s
    [] source = "membership" -> assignment[a].mem = s
    [] source = "tenant"     -> assignment[a].mem[2] = s

Grant(a) ==
  /\ ~Exists(a)
  /\ \E m \in Memberships, r \in Rights, status \in {"pending", "active"} :
       /\ \A b \in AssignmentIds :
            Exists(b) => ~(assignment[b].mem = m /\ assignment[b].right = r)
       /\ assignment' = [assignment EXCEPT ![a] =
            [mem |-> m, right |-> r, status |-> status, sources |-> {}]]

\* A pending assignment collects causes without being suspended.
Suspend(source, s) ==
  assignment' =
    [a \in AssignmentIds |->
       IF Live(a) /\ Of(a, source, s)
       THEN [assignment[a] EXCEPT
               !.sources = @ \union {source},
               !.status  = IF @ = "active" THEN "suspended" ELSE @]
       ELSE assignment[a]]

\* The causes an ended assignment had are of no consequence.
Restore(source, s) ==
  assignment' =
    [a \in AssignmentIds |->
       IF Exists(a) /\ Of(a, source, s)
       THEN [assignment[a] EXCEPT
               !.sources = @ \ {source},
               !.status  = IF @ = "suspended"
                              /\ assignment[a].sources \subseteq {source}
                           THEN "active" ELSE @]
       ELSE assignment[a]]

Archive(source, s) ==
  assignment' =
    [a \in AssignmentIds |->
       IF Live(a) /\ Of(a, source, s)
       THEN [assignment[a] EXCEPT !.status = "archived"]
       ELSE assignment[a]]

End(a) ==
  /\ Live(a)
  /\ \E status \in {"removed", "expired"} :
       assignment' = [assignment EXCEPT ![a].status = status,
                                        ![a].sources = {}]

Lifecycle(source, s) ==
  Suspend(source, s) \/ Restore(source, s) \/ Archive(source, s)

Next ==
  \/ \E a \in AssignmentIds : Grant(a) \/ End(a)
  \/ \E i \in Identities  : Lifecycle("identity", i)
  \/ \E m \in Memberships : Lifecycle("membership", m)
  \/ \E t \in Tenants     : Lifecycle("tenant", t)

Spec == Init /\ [][Next]_assignment
=============================================================================
