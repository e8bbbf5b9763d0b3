-------------------------- MODULE MCAdministration --------------------------
(* Instances of Administration for TLC. *)
EXTENDS Administration, TLC

CONSTANTS t1, t2, a1, a2, b1

VARIABLE topic   \* bound: the operations that the requests of a behaviour use

Topics ==
  {{"createRole", "updateRole", "assignRole"},
   {"updateRole", "archiveRole", "restoreRole"},
   {"grantPermission", "revokePermission", "removeRole"},
   {"assignRole", "removeRole"},
   PolicyOperations, RestrictionOperations}

Uses(ops) == topic \cap ops # {}

TopicReceives(q) ==
  \/ Uses({"createRole"})        /\ CreateRole(q)
  \/ Uses(RoleOperations)        /\ ChangeRole(q)
  \/ Uses({"assignRole"})        /\ AssignRole(q)
  \/ Uses({"removeRole"})        /\ RemoveRole(q)
  \/ Uses({"grantPermission"})   /\ GrantPermission(q)
  \/ Uses({"revokePermission"})  /\ RevokePermission(q)
  \/ Uses({"createPolicy"})      /\ CreatePolicy(q)
  \/ Uses(PolicyOperations)      /\ ChangePolicy(q)
  \/ /\ Uses({"createRestriction"})
     /\ \A p \in Requests : work[p].op # "createRestriction"  \* bound
     /\ CreateRestriction(q)
  \/ Uses({"removeRestriction"}) /\ RemoveRestriction(q)

TopicNext ==
  /\ UNCHANGED topic
  /\ \/ \E r \in RoleIds, m \in {a1, b1} : Provision(r, m, topic \union {"work"})
     \/ \E q \in Requests :
          \/ TopicReceives(q) /\ work'[q].op \in topic
          \/ Proceeds(q)

TopicInit == Init /\ topic \in Topics

TopicSpec == TopicInit /\ [][TopicNext]_<<vars, topic>>

\* Two people of one tenant and one of another.
Homes == (a1 :> t1) @@ (a2 :> t1) @@ (b1 :> t2)

Names == Operations \union {"work", "audit"}
Asked == {{"work"}, {"audit"}}
Given == {topics \union {"work"} : topics \in Topics}

\* Sound: no definition chooses between the values of one of these sets.
Symmetric == Permutations(Requests) \union Permutations(RoleIds)
=============================================================================
