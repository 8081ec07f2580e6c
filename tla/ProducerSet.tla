----------------------------- MODULE ProducerSet -----------------------------
(***************************************************************************)
(* How many producers of a set of n must agree (struct ProducerSet).       *)
(***************************************************************************)
EXTENDS Integers, FiniteSets

ConsensusAlgorithm == {"cft", "bft"}

\* ProducerSet::threshold: the size of a quorum.
Threshold(algorithm, n) ==
  IF algorithm = "cft" THEN n \div 2 + 1 ELSE (n * 2) \div 3 + 1

\* ProducerSet::weak_threshold: so many producers include a correct one.
WeakThreshold(algorithm, n) ==
  IF algorithm = "cft" THEN 1 ELSE (n + 2) \div 3

IsQuorum(algorithm, Q, producers) ==
  /\ Q \subseteq producers
  /\ Cardinality(Q) >= Threshold(algorithm, Cardinality(producers))
=============================================================================
