----------------------------- MODULE MCJointCft -----------------------------
(***************************************************************************)
(* The changes of the producers that TLC looks at for JointCft.  No block  *)
(* has to announce the change, so that each scenario includes the one      *)
(* without it.                                                             *)
(***************************************************************************)
EXTENDS JointCft

Scenario(sets, candidates, elects, num, fails) ==
  [sets |-> sets, leader |-> 1, announce |-> {2}, candidates |-> candidates,
   elections |-> elects, num |-> num, writesFail |-> fails]

\* A producer joins, and wants to become the leader.
Joins == Scenario(<<{1, 2}, {1, 2, 3}>>, {3}, 1, 4, TRUE)

\* The leader leaves.
Leaves == Scenario(<<{1, 2, 3}, {2, 3}>>, {2}, 1, 3, TRUE)

\* The leader is replaced by another producer; there may be two elections at a time.
Replaces == Scenario(<<{1, 2}, {2, 3}>>, {2, 3}, 1, 4, TRUE)
Competes == Scenario(<<{1, 2}, {2, 3}>>, {2, 3}, 2, 3, TRUE)

\* Majorities of the old and the new producers need not intersect.
Disjoint == Scenario(<<{1, 2, 3}, {1, 4}>>, {2}, 1, 2, FALSE)

Changes == {Joins, Leaves, Replaces, Competes, Disjoint}

\* 5 leaves, 3 and 4 join.
Grows == {Scenario(<<{1, 2, 5}, {1, 2, 3, 4}>>, {2}, 1, 3, TRUE)}
=============================================================================
