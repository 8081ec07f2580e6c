-------------------------- MODULE ProducerSetProofs --------------------------
(***************************************************************************)
(* What the thresholds of ProducerSet are chosen for, for producer sets of *)
(* every size.                                                             *)
(***************************************************************************)
EXTENDS ProducerSet, FiniteSetTheorems, TLAPS

\* Two sets that together have k elements more than the set they are taken from
\* share at least k elements.
LEMMA Overlap ==
  ASSUME NEW P, IsFiniteSet(P), NEW Q \in SUBSET P, NEW R \in SUBSET P
  PROVE  /\ IsFiniteSet(Q \cap R)
         /\ Cardinality(Q \cap R) >= Cardinality(Q) + Cardinality(R) - Cardinality(P)
         /\ Cardinality(P) \in Nat /\ Cardinality(Q) \in Nat /\ Cardinality(R) \in Nat
         /\ Cardinality(Q \cap R) \in Nat
<1>1. /\ IsFiniteSet(Q) /\ Cardinality(Q) <= Cardinality(P)
      /\ IsFiniteSet(R) /\ Cardinality(R) <= Cardinality(P)
  BY FS_Subset
<1>2. Q \cup R \in SUBSET P
  OBVIOUS
<1>3. IsFiniteSet(Q \cup R) /\ Cardinality(Q \cup R) <= Cardinality(P)
  BY <1>2, FS_Subset
<1>4. Cardinality(Q \cup R) = Cardinality(Q) + Cardinality(R) - Cardinality(Q \cap R)
  BY <1>1, FS_Union
<1>5. IsFiniteSet(Q \cap R)
  BY <1>1, FS_Intersection
<1>6. /\ Cardinality(P) \in Nat /\ Cardinality(Q) \in Nat /\ Cardinality(R) \in Nat
      /\ Cardinality(Q \cap R) \in Nat /\ Cardinality(Q \cup R) \in Nat
  BY <1>1, <1>3, <1>5, FS_CardinalityType
<1> QED
  BY <1>3, <1>4, <1>5, <1>6

\* Two quorums of the crash fault tolerant algorithm have a producer in common, so
\* that two leaders cannot both be elected in a term: ProducerSet::threshold.
THEOREM CftQuorumsIntersect ==
  ASSUME NEW P, IsFiniteSet(P), NEW Q, NEW R,
         IsQuorum("cft", Q, P), IsQuorum("cft", R, P)
  PROVE  Q \cap R # {}
<1>1. Q \in SUBSET P /\ R \in SUBSET P
  BY DEF IsQuorum
<1>2. Cardinality(Q) >= Cardinality(P) \div 2 + 1 /\ Cardinality(R) >= Cardinality(P) \div 2 + 1
  BY DEF IsQuorum, Threshold
<1>3. /\ Cardinality(Q \cap R) >= Cardinality(Q) + Cardinality(R) - Cardinality(P)
      /\ Cardinality(P) \in Nat /\ Cardinality(Q) \in Nat /\ Cardinality(R) \in Nat
      /\ Cardinality(Q \cap R) \in Nat
  BY <1>1, Overlap
<1>4. Cardinality(Q \cap R) # 0
  BY <1>2, <1>3
<1> QED
  BY <1>4, FS_EmptySet

\* Two quorums of the byzantine fault tolerant algorithm share a correct producer as
\* long as fewer than a third of all producers are faulty.  ProducerSet::threshold
\* rounds size * 2 / 3 down before it adds one.
THEOREM BftQuorumsShareCorrect ==
  ASSUME NEW P, IsFiniteSet(P), NEW Q, NEW R, NEW Faulty \in SUBSET P,
         IsQuorum("bft", Q, P), IsQuorum("bft", R, P),
         3 * Cardinality(Faulty) < Cardinality(P)
  PROVE  Q \cap R \cap (P \ Faulty) # {}
<1>1. Q \in SUBSET P /\ R \in SUBSET P
  BY DEF IsQuorum
<1>2. /\ Cardinality(Q) >= (Cardinality(P) * 2) \div 3 + 1
      /\ Cardinality(R) >= (Cardinality(P) * 2) \div 3 + 1
  BY DEF IsQuorum, Threshold
<1>3. IsFiniteSet(Faulty) /\ Cardinality(Faulty) \in Nat
  BY FS_Subset, FS_CardinalityType
<1>4. Cardinality(Q \cap R) > Cardinality(Faulty)
  BY <1>1, <1>2, <1>3, Overlap
<1>5. SUFFICES ASSUME Q \cap R \cap (P \ Faulty) = {} PROVE FALSE
  OBVIOUS
<1>6. Q \cap R \in SUBSET Faulty
  BY <1>1, <1>5
<1>7. Cardinality(Q \cap R) <= Cardinality(Faulty) /\ Cardinality(Q \cap R) \in Nat
  BY <1>1, <1>3, <1>6, FS_Subset, Overlap
<1> QED
  BY <1>3, <1>4, <1>7

\* A set of weak_threshold producers has a member in common with every quorum, and
\* has a correct member as long as fewer than a third of all producers are faulty:
\* this is why so many view changes are enough to move a node to a later view.
THEOREM WeakThresholdHasCorrect ==
  ASSUME NEW P, IsFiniteSet(P), NEW W \in SUBSET P, NEW Faulty \in SUBSET P,
         Cardinality(W) >= WeakThreshold("bft", Cardinality(P)),
         3 * Cardinality(Faulty) < Cardinality(P)
  PROVE  /\ W \cap (P \ Faulty) # {}
         /\ \A Q : IsQuorum("bft", Q, P) => W \cap Q # {}
<1>1. Cardinality(W) >= (Cardinality(P) + 2) \div 3
  BY DEF WeakThreshold
<1>2. /\ IsFiniteSet(Faulty) /\ Cardinality(Faulty) \in Nat
      /\ IsFiniteSet(W) /\ Cardinality(W) \in Nat /\ Cardinality(P) \in Nat
  BY FS_Subset, FS_CardinalityType
<1>3. Cardinality(W) > Cardinality(Faulty)
  BY <1>1, <1>2
<1>4. W \cap (P \ Faulty) # {}
  <2>1. SUFFICES ASSUME W \cap (P \ Faulty) = {} PROVE FALSE
    OBVIOUS
  <2>2. W \in SUBSET Faulty
    BY <2>1
  <2> QED
    BY <1>2, <1>3, <2>2, FS_Subset
<1>5. ASSUME NEW Q, IsQuorum("bft", Q, P) PROVE W \cap Q # {}
  <2>1. Q \in SUBSET P /\ Cardinality(Q) >= (Cardinality(P) * 2) \div 3 + 1
    BY <1>5 DEF IsQuorum, Threshold
  <2>2. /\ Cardinality(W \cap Q) >= Cardinality(W) + Cardinality(Q) - Cardinality(P)
        /\ Cardinality(P) \in Nat /\ Cardinality(W) \in Nat /\ Cardinality(Q) \in Nat
        /\ Cardinality(W \cap Q) \in Nat
    BY <2>1, Overlap
  <2>3. Cardinality(W \cap Q) # 0
    BY <1>1, <2>1, <2>2
  <2> QED
    BY <2>3, FS_EmptySet
<1> QED
  BY <1>4, <1>5
=============================================================================
