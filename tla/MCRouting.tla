----------------------------- MODULE MCRouting -----------------------------
(***************************************************************************)
(* Instances of Routing: the producer's node p and up to three routers.    *)
(***************************************************************************)
EXTENDS Routing

CONSTANTS p, a, b, d

C(x, y, i) == [ends |-> {x, y}, id |-> i]

\* Two ways around to the producer; the connection from p to a fails.
Detour ==
  [standing |-> {C(a, b, 1), C(b, d, 1)}, made |-> {C(p, a, 1), C(p, d, 1)},
   failing |-> {C(p, a, 1)}, restarting |-> {}, routers |-> {1}, schedule |-> <<TRUE>>]

\* Both connections of p are made and fail at any time.
Failures ==
  [standing |-> {C(a, b, 1)}, made |-> {C(p, a, 1), C(p, b, 1)},
   failing |-> {C(p, a, 1), C(p, b, 1)}, restarting |-> {}, routers |-> {1}, schedule |-> <<TRUE>>]

\* p becomes a producer.
Joins ==
  [standing |-> {C(a, b, 1)}, made |-> {C(p, a, 1), C(p, b, 1)},
   failing |-> {}, restarting |-> {}, routers |-> {1}, schedule |-> <<FALSE, TRUE>>]

\* p is a producer no longer.
Leaves ==
  [standing |-> {C(a, b, 1)}, made |-> {C(p, a, 1)},
   failing |-> {C(p, a, 1)}, restarting |-> {}, routers |-> {1}, schedule |-> <<TRUE, FALSE>>]

\* The routers between p and d restart, and connect to each other again.
RouterRestarts ==
  [standing |-> {C(b, d, 1)}, made |-> {C(p, a, 1), C(a, b, 1), C(a, b, 2)},
   failing |-> {}, restarting |-> {a, b}, routers |-> {1}, schedule |-> <<TRUE>>]

\* The producer's node restarts and connects to the same node again.
ProducerRestarts ==
  [standing |-> {C(a, b, 1)}, made |-> {C(p, a, 1), C(p, a, 2)},
   failing |-> {}, restarting |-> {p}, routers |-> {1, 2}, schedule |-> <<TRUE>>]

\* The producer's node restarts and connects to another node, where it fails.
ProducerMoves ==
  [standing |-> {C(a, b, 1)}, made |-> {C(p, b, 1), C(p, a, 1)},
   failing |-> {C(p, a, 1)}, restarting |-> {p}, routers |-> {1, 2}, schedule |-> <<TRUE>>]

Network == {Detour, Failures, Joins, Leaves, RouterRestarts, ProducerRestarts, ProducerMoves}

Moves == {ProducerMoves}
=============================================================================
