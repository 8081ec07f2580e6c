------------------------------- MODULE MCBft -------------------------------
(***************************************************************************)
(* Bft with four producers, of which p1 is faulty.  It is the leader of    *)
(* terms 0 and 4, p2 of term 1, p3 of term 2 and p4 of term 3, except      *)
(* where p2 leads first.                                                   *)
(***************************************************************************)
EXTENDS Bft, TLC

CONSTANTS p1, p2, p3, p4

FourProducers == <<p1, p2, p3, p4>>

\* The block of a faulty leader and a block of the next leader compete.
Competing ==
  [first |-> 0, term |-> 1, num |-> 2, produced |-> 1, forged |-> 1, timeouts |-> {p2, p3},
   silent |-> FALSE, told |-> {}]

\* The same, and it is the faulty producer that makes p3 follow p2.  It confirms nothing.
Misleading ==
  [Competing EXCEPT !.timeouts = {p2}, !.silent = TRUE, !.told = {p3}]

\* The faulty leader sends different blocks to different nodes.
Equivocating ==
  [first |-> 0, term |-> 0, num |-> 2, produced |-> 0, forged |-> 2, timeouts |-> {},
   silent |-> FALSE, told |-> {}]

\* The faulty leader succeeds a correct one.
Succeeding ==
  [first |-> 3, term |-> 4, num |-> 2, produced |-> 1, forged |-> 1, timeouts |-> {p3},
   silent |-> FALSE, told |-> {p3}]

\* The first leader has failed, and the next one may be replaced at any time.
Failing ==
  [first |-> 0, term |-> 2, num |-> 3, produced |-> 1, forged |-> 0,
   timeouts |-> {p2, p3, p4}, silent |-> TRUE, told |-> {}]

\* A correct leader is replaced by p3, which has not seen what its block became.
OvertakenOrder == <<p2, p3, p1, p4>>
Overtaking ==
  [first |-> 0, term |-> 1, num |-> 3, produced |-> 1, forged |-> 0, timeouts |-> {p3},
   silent |-> FALSE, told |-> {p3, p4}]

\* No producer does anything that the algorithm forbids.
Obeying ==
  [first |-> 0, term |-> 1, num |-> 2, produced |-> 1, forged |-> 0, timeouts |-> {p2, p3},
   silent |-> TRUE, told |-> {}]

FaultyLeader == {Competing, Misleading, Equivocating, Succeeding}
FailedLeader == {Failing}
OvertakenLeader == {Overtaking}
ObeyingProducers == {Obeying}
=============================================================================
