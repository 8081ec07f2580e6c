---------------------------- MODULE MCForkDbNode ----------------------------
(***************************************************************************)
(* The small instance of ForkDbNode that TLC checks.                       *)
(***************************************************************************)
EXTENDS ForkDbNode

\* The node leads term 1, its peer the terms around it.
MCLeaderOf == [t \in 0..MaxTerm |-> IF t = 1 THEN 1 ELSE 2]
=============================================================================
