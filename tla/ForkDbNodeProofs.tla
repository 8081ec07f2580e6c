-------------------------- MODULE ForkDbNodeProofs --------------------------
(***************************************************************************)
(* One node's fork database, for every tree of blocks, whichever of them   *)
(* fail to execute, and any number of terms and restarts.                  *)
(***************************************************************************)
EXTENDS ForkDbNode, ForkDbProofs

(***************************************************************************)
(* The loop of async_switch_fork.                                          *)
(***************************************************************************)
\* One iteration, or nothing if the loop has ended.
Iterate(e, original) == IF e.done THEN e ELSE SwitchOnce(e.db, original)

\* The first n iterations for database d.
IsRun(g, d, n) ==
  /\ DOMAIN g = 0..n
  /\ g[0] = [db |-> d, done |-> FALSE]
  /\ \A k \in 1..n : g[k] = Iterate(g[k - 1], d.head)

LEMMA RunExists ==
  ASSUME NEW d, NEW n \in Nat
  PROVE  \E g : IsRun(g, d, n)
<1> DEFINE S == {k \in Nat : ~ \E g : IsRun(g, d, k)}
<1>1. SUFFICES ASSUME S # {} PROVE FALSE
  OBVIOUS
<1>2. PICK k \in S : \A l \in S : k <= l
  <2>1. S \in SUBSET Nat
    OBVIOUS
  <2> HIDE DEF S
  <2> QED
    BY <1>1, <2>1, NatMin
<1>3. k \in Nat /\ ~ \E g : IsRun(g, d, k)
  BY <1>2
<1>4. CASE k = 0
  <2> DEFINE g == [i \in 0..0 |-> [db |-> d, done |-> FALSE]]
  <2>1. DOMAIN g = 0..0 /\ g[0] = [db |-> d, done |-> FALSE]
    OBVIOUS
  <2> HIDE DEF g
  <2>2. IsRun(g, d, 0)
    BY <2>1 DEF IsRun
  <2> QED
    BY <1>3, <1>4, <2>2
<1>5. CASE k # 0
  <2>1. k - 1 \in Nat /\ ~(k <= k - 1)
    BY <1>3, <1>5
  <2>2. PICK h : IsRun(h, d, k - 1)
    BY <1>2, <2>1
  <2> DEFINE last == Iterate(h[k - 1], d.head)
             g == [i \in 0..k |-> IF i = k THEN last ELSE h[i]]
  <2>3. DOMAIN g = 0..k /\ g[k] = last /\ \A i \in 0..(k - 1) : g[i] = h[i]
    BY <1>3, <2>1
  <2> HIDE DEF g
  <2>4. g[0] = [db |-> d, done |-> FALSE]
    BY <2>1, <2>2, <2>3 DEF IsRun
  <2>5. ASSUME NEW i \in 1..k PROVE g[i] = Iterate(g[i - 1], d.head)
    <3>1. CASE i = k
      <4>1. g[k - 1] = h[k - 1]
        BY <2>1, <2>3
      <4> QED
        BY <2>3, <3>1, <4>1
    <3>2. CASE i # k
      <4>1. i \in 1..(k - 1) /\ i \in 0..(k - 1) /\ i - 1 \in 0..(k - 1)
        BY <1>3, <2>1, <3>2
      <4>2. h[i] = Iterate(h[i - 1], d.head)
        BY <2>2, <4>1 DEF IsRun
      <4> QED
        BY <2>3, <4>1, <4>2
    <3> QED
      BY <3>1, <3>2
  <2>6. IsRun(g, d, k)
    BY <2>3, <2>4, <2>5 DEF IsRun
  <2> QED
    BY <1>3, <2>6
<1> QED
  BY <1>4, <1>5

LEMMA RunUnique ==
  ASSUME NEW d, NEW n \in Nat, NEW m \in Nat, NEW g, NEW h, IsRun(g, d, n), IsRun(h, d, m),
         NEW k \in Nat, k <= n, k <= m
  PROVE  g[k] = h[k]
<1> DEFINE S == {i \in Nat : i <= n /\ i <= m /\ g[i] # h[i]}
<1>1. SUFFICES ASSUME S # {} PROVE FALSE
  OBVIOUS
<1>2. PICK i \in S : \A l \in S : i <= l
  <2>1. S \in SUBSET Nat
    OBVIOUS
  <2> HIDE DEF S
  <2> QED
    BY <1>1, <2>1, NatMin
<1>3. i \in Nat /\ i <= n /\ i <= m /\ g[i] # h[i]
  BY <1>2
<1>4. i # 0
  BY <1>3 DEF IsRun
<1>5. /\ i - 1 \in Nat /\ i - 1 <= n /\ i - 1 <= m /\ ~(i <= i - 1)
      /\ i \in 1..n /\ i \in 1..m
  BY <1>3, <1>4
<1>6. g[i - 1] = h[i - 1]
  BY <1>2, <1>5
<1>7. g[i] = Iterate(g[i - 1], d.head) /\ h[i] = Iterate(h[i - 1], d.head)
  BY <1>5 DEF IsRun
<1> QED
  BY <1>3, <1>6, <1>7

\* The function that SwitchFork looks at the end of.
IsLoop(f, d) ==
  f = [k \in Nat |-> IF k = 0 THEN [db |-> d, done |-> FALSE]
                     ELSE IF f[k - 1].done THEN f[k - 1]
                     ELSE SwitchOnce(f[k - 1].db, d.head)]

LEMMA LoopExists ==
  ASSUME NEW d
  PROVE  \E f : IsLoop(f, d)
<1> DEFINE run(n) == CHOOSE g : IsRun(g, d, n)
           f == [n \in Nat |-> run(n)[n]]
           body(k) == IF k = 0 THEN [db |-> d, done |-> FALSE]
                      ELSE IF f[k - 1].done THEN f[k - 1] ELSE SwitchOnce(f[k - 1].db, d.head)
<1>1. ASSUME NEW n \in Nat PROVE IsRun(run(n), d, n)
  BY RunExists
<1>2. \A n \in Nat : f[n] = run(n)[n]
  OBVIOUS
<1>3. f = [n \in Nat |-> f[n]]
  OBVIOUS
<1> HIDE DEF run, f
<1>4. ASSUME NEW k \in Nat PROVE f[k] = body(k)
  <2>1. CASE k = 0
    BY <1>1, <1>2, <2>1 DEF IsRun
  <2>2. CASE k # 0
    <3>1. k - 1 \in Nat /\ k \in 1..k /\ k - 1 <= k
      BY <2>2
    <3>2. run(k)[k] = Iterate(run(k)[k - 1], d.head)
      BY <1>1, <3>1 DEF IsRun
    <3>3. run(k)[k - 1] = run(k - 1)[k - 1]
      BY <1>1, <3>1, RunUnique
    <3> QED
      BY <1>2, <2>2, <3>1, <3>2, <3>3 DEF Iterate
  <2> QED
    BY <2>1, <2>2
<1>5. f = [k \in Nat |-> body(k)]
  BY <1>3, <1>4
<1> QED
  BY <1>5 DEF IsLoop

\* SwitchLoop is the function of these iterations.
LEMMA SwitchLoopSteps ==
  ASSUME NEW d
  PROVE  LET f == SwitchLoop(d)
         IN  /\ f[0] = [db |-> d, done |-> FALSE]
             /\ \A k \in Nat : k # 0 => f[k] = Iterate(f[k - 1], d.head)
<1> DEFINE f == CHOOSE f : IsLoop(f, d)
<1>1. SwitchLoop(d) = f
  BY Zenon DEF SwitchLoop, IsLoop
<1>2. IsLoop(f, d)
  BY LoopExists
<1> HIDE DEF f
<1>3. /\ f[0] = [db |-> d, done |-> FALSE]
      /\ \A k \in Nat : k # 0 => f[k] = Iterate(f[k - 1], d.head)
  BY <1>2 DEF IsLoop, Iterate
<1> QED
  BY <1>1, <1>3

-----------------------------------------------------------------------------
(***************************************************************************)
(* The shape of the database.                                              *)
(***************************************************************************)
\* What a header declares irreversible executes.
ClaimsAreValid(b) == \A i \in 1..CommitNum(b) : b[i].valid

\* The states are a tree with root r, at or below the last irreversible block.  Blocks
\* with a revision execute, as do the blocks of the node itself.  Invalid blocks do not,
\* and neither do their descendants.
Forest(s, r) ==
  /\ IsFiniteSet(s.states) /\ s.revisions \subseteq s.states /\ s.invalid \subseteq s.states
  /\ r \in s.states /\ Len(r) <= s.commitIndex
  /\ \A b \in s.states :
       IsAncestor(r, b) /\ \A i \in Len(r)..Len(b) : Ancestor(b, i) \in s.states
  /\ \A a \in s.invalid, b \in s.states : IsAncestor(a, b) => b \in s.invalid
  /\ \A b \in s.states :
       TermsGrow(b) /\ ClaimsAreValid(b) /\ (LeaderOf[Term(b)] = Self => AllValid(b))
  /\ \A b \in s.revisions : AllValid(b)
  /\ \A b \in s.invalid : ~AllValid(b)

\* The blocks that may become the head are those from q on which are not invalid.
Viable(s, q) ==
  /\ q \in s.states /\ AllValid(q)
  /\ s.byOrderIndex = {b \in s.states \ s.invalid : IsAncestor(q, b)}

Indexed(s) == s.byOrderIndex = {} \/ \E q \in s.states : Viable(s, q)

\* What the members of the tree are.
LEMMA ForestFacts ==
  ASSUME NEW s, DbType(s), NEW r, Forest(s, r)
  PROVE  /\ s.states \subseteq Block /\ r \in Block /\ Len(r) \in Nat /\ Len(r) >= 1
         /\ \A b \in s.states : \A i \in Len(r)..Len(b) :
              /\ i \in 1..Len(b) /\ Ancestor(b, i) \in s.states /\ Ancestor(b, i) \in Block
              /\ Len(Ancestor(b, i)) = i /\ IsAncestor(Ancestor(b, i), b)
              /\ b \notin s.invalid => Ancestor(b, i) \notin s.invalid
<1>1. /\ s.states \subseteq Block /\ r \in Block /\ Len(r) \in Nat /\ Len(r) >= 1
  BY BlockFacts DEF DbType, Forest
<1>2. ASSUME NEW b \in s.states, NEW i \in Len(r)..Len(b)
      PROVE  /\ i \in 1..Len(b) /\ Ancestor(b, i) \in s.states /\ Ancestor(b, i) \in Block
             /\ Len(Ancestor(b, i)) = i /\ IsAncestor(Ancestor(b, i), b)
             /\ b \notin s.invalid => Ancestor(b, i) \notin s.invalid
  <2>1. b \in Block /\ Len(b) \in Nat
    BY <1>1, BlockFacts
  <2>2. i \in 1..Len(b)
    BY <1>1, <2>1
  <2>3. Ancestor(b, i) \in s.states /\ Ancestor(b, i) \in Block
        /\ Len(Ancestor(b, i)) = i /\ IsAncestor(Ancestor(b, i), b)
    BY <2>1, <2>2, AncestorFacts, IsAncestorOfBlock DEF Forest
  <2>4. b \notin s.invalid => Ancestor(b, i) \notin s.invalid
    BY <2>3 DEF Forest
  <2> QED
    BY <2>2, <2>3, <2>4
<1> QED
  BY <1>1, <1>2

\* What the viable blocks are.
LEMMA ViableFacts ==
  ASSUME NEW s, DbType(s), NEW r, Forest(s, r), NEW q, Viable(s, q)
  PROVE  /\ q \in Block /\ Len(q) \in Nat /\ Len(q) >= Len(r) /\ q \in s.byOrderIndex
         /\ s.byOrderIndex \subseteq s.states /\ s.byOrderIndex \cap s.invalid = {}
         /\ \A b \in s.byOrderIndex : IsAncestor(q, b)
         /\ \A b \in s.byOrderIndex : \A i \in Len(q)..Len(b) : Ancestor(b, i) \in s.byOrderIndex
<1>1. /\ s.states \subseteq Block /\ r \in Block /\ Len(r) \in Nat /\ Len(r) >= 1
      /\ q \in s.states /\ q \in Block /\ Len(q) \in Nat /\ q \notin s.invalid
      /\ IsAncestor(r, q)
  BY ForestFacts, BlockFacts DEF Viable, Forest
<1>2. Len(q) >= Len(r)
  BY <1>1 DEF IsAncestor
<1>3. /\ q \in s.byOrderIndex /\ s.byOrderIndex \subseteq s.states
      /\ s.byOrderIndex \cap s.invalid = {}
      /\ \A b \in s.byOrderIndex : IsAncestor(q, b)
  BY <1>1, IsAncestorRefl DEF Viable
<1>4. ASSUME NEW b \in s.byOrderIndex, NEW i \in Len(q)..Len(b)
      PROVE  Ancestor(b, i) \in s.byOrderIndex
  <2>1. b \in s.states /\ b \notin s.invalid /\ b \in Block /\ IsAncestor(q, b) /\ Len(b) \in Nat
    BY <1>1, <1>3, BlockFacts
  <2>2. i \in Len(r)..Len(b) /\ Len(q) <= i
    BY <1>1, <1>2, <2>1
  <2>3. /\ Ancestor(b, i) \in s.states /\ Ancestor(b, i) \in Block
        /\ Len(Ancestor(b, i)) = i /\ IsAncestor(Ancestor(b, i), b)
        /\ Ancestor(b, i) \notin s.invalid
    BY <2>1, <2>2, ForestFacts
  <2>4. IsAncestor(q, Ancestor(b, i))
    BY <1>1, <2>1, <2>2, <2>3, ComparableAncestors
  <2> QED
    BY <2>3, <2>4 DEF Viable
<1> QED
  BY <1>1, <1>2, <1>3, <1>4

\* An ancestor of a block that executes executes.
LEMMA AncestorValid ==
  ASSUME NEW a \in Block, NEW b \in Block, IsAncestor(a, b), AllValid(b)
  PROVE  AllValid(a)
<1>1. ASSUME NEW i \in 1..Len(a) PROVE a[i].valid
  <2>1. i \in 1..Len(b) /\ a[i] = b[i]
    BY AncestorAgrees
  <2> QED
    BY <2>1 DEF AllValid
<1> QED
  BY <1>1 DEF AllValid

\* A descendant comes after a block in order().
LEMMA DescendantIsBetter ==
  ASSUME NEW a \in Block, NEW b \in Block, IsAncestor(a, b), a # b, TermsGrow(b)
  PROVE  OrderLess(a, b) /\ ~OrderLess(b, a)
<1>1. /\ Term(a) \in Nat /\ Term(b) \in Nat /\ Len(a) \in Nat /\ Len(b) \in Nat
      /\ Term(a) <= Term(b)
  BY BlockFacts, AncestorTerm
<1>2. Len(a) <= Len(b) /\ Len(a) # Len(b)
  BY AncestorSameNum DEF IsAncestor
<1>3. (Term(a) < Term(b) \/ Term(a) = Term(b)) /\ Len(a) < Len(b)
  BY <1>1, <1>2
<1>4. ~(Term(b) < Term(a)) /\ ~(Len(b) < Len(a))
  BY <1>1, <1>3
<1> QED
  BY <1>2, <1>3, <1>4 DEF OrderLess, BlockNum

\* The first entry of an index is the block that all others build on.
LEMMA FirstOfIndex ==
  ASSUME NEW S \in SUBSET Block, NEW q \in S, \A b \in S : IsAncestor(q, b) /\ TermsGrow(b)
  PROVE  FirstOf(S) = {q}
<1>1. ASSUME NEW c \in S, c # q
      PROVE  OrderLess(q, c) /\ ~OrderLess(c, q)
  BY <1>1, DescendantIsBetter
<1> QED
  BY <1>1 DEF FirstOf

\* The call leaves the tree alone, though it may commit.
SameForest(d, s) ==
  /\ d.states = s.states /\ d.invalid = s.invalid /\ d.revisions = s.revisions
  /\ d.commitIndex \in Nat /\ d.commitIndex >= s.commitIndex

LEMMA SameForestFacts ==
  ASSUME NEW s, NEW d, NEW r, Forest(s, r), Len(r) \in Nat, s.commitIndex \in Nat,
         SameForest(d, s)
  PROVE  Forest(d, r)
<1>1. Len(r) <= d.commitIndex
  BY DEF Forest, SameForest
<1> QED
  BY <1>1 DEF Forest, SameForest

\* set_subtree leaves exactly the blocks from the new root on, if there are any.
LEMMA SetSubtreeShape ==
  ASSUME NEW s, DbType(s), NEW r, Forest(s, r), Indexed(s), s.commitIndex \in Nat,
         NEW x \in Block, AllValid(x)
  PROVE  LET d == SetSubtree(s, x)
         IN  /\ Forest(d, r) /\ Indexed(d) /\ d.failed = s.failed
             /\ x \in s.states => Viable(d, x)
             /\ d.states = s.states /\ d.invalid = s.invalid
<1> DEFINE d == SetSubtree(s, x)
           pool == IF x \in s.byOrderIndex THEN s.byOrderIndex ELSE s.states \ s.invalid
           kept == {b \in pool : /\ IsAncestor(x, b)
                                 /\ \A i \in Len(x)..Len(b) : Ancestor(b, i) \in pool}
<1>1. x \notin s.invalid
  BY DEF Forest
<1>2. /\ d.states = s.states /\ d.invalid = s.invalid /\ d.revisions = s.revisions
      /\ d.commitIndex = s.commitIndex /\ d.failed = s.failed /\ d.byOrderIndex = kept
  BY <1>1 DEF SetSubtree, DbType
<1> HIDE DEF d
<1>3. Forest(d, r)
  <2>1. Len(r) \in Nat
    BY ForestFacts
  <2> QED
    BY <1>2, <2>1, SameForestFacts DEF SameForest
<1>4. pool \subseteq s.states \ s.invalid
  BY ViableFacts DEF Indexed, Viable
<1>5. CASE x \notin s.states
  <2>1. ASSUME NEW b \in kept PROVE FALSE
    <3>1. b \in pool /\ IsAncestor(x, b) /\ \A i \in Len(x)..Len(b) : Ancestor(b, i) \in pool
      OBVIOUS
    <3>2. Len(x) \in Nat /\ Len(b) \in Nat /\ Len(x) <= Len(b) /\ Ancestor(b, Len(x)) = x
      BY <1>4, <3>1, BlockFacts DEF IsAncestor, DbType
    <3>3. x \in pool
      BY <3>1, <3>2
    <3> QED
      BY <1>4, <1>5, <3>3
  <2> QED
    BY <1>2, <1>3, <1>5, <2>1 DEF Indexed, d
<1>6. CASE x \in s.states
  <2>1. ASSUME NEW b \in s.states \ s.invalid, IsAncestor(x, b) PROVE b \in pool
    <3>1. CASE x \in s.byOrderIndex
      <4>1. PICK q \in s.states : Viable(s, q)
        BY <3>1 DEF Indexed
      <4>2. q \in Block /\ IsAncestor(q, x) /\ b \in Block
        BY <3>1, <4>1, ViableFacts, ForestFacts
      <4>3. IsAncestor(q, b)
        BY <2>1, <4>2, IsAncestorTrans
      <4> QED
        BY <3>1, <4>1, <4>3 DEF Viable
    <3>2. CASE x \notin s.byOrderIndex
      BY <3>2
    <3> QED
      BY <3>1, <3>2
  <2>2. ASSUME NEW b \in s.states \ s.invalid, IsAncestor(x, b), NEW i \in Len(x)..Len(b)
        PROVE  Ancestor(b, i) \in pool
    <3>1. b \in Block /\ Len(b) \in Nat /\ Len(x) \in Nat /\ Len(r) \in Nat /\ IsAncestor(r, x)
      BY <1>6, ForestFacts, BlockFacts DEF Forest
    <3>2. i \in Len(r)..Len(b) /\ Len(x) <= i
      BY <3>1 DEF IsAncestor
    <3>3. /\ Ancestor(b, i) \in s.states \ s.invalid /\ Ancestor(b, i) \in Block
          /\ Len(Ancestor(b, i)) = i /\ IsAncestor(Ancestor(b, i), b)
      BY <3>2, ForestFacts
    <3>4. IsAncestor(x, Ancestor(b, i))
      BY <2>2, <3>1, <3>2, <3>3, ComparableAncestors
    <3> QED
      BY <2>1, <3>3, <3>4
  <2> HIDE DEF pool
  <2>3. kept = {b \in s.states \ s.invalid : IsAncestor(x, b)}
    BY <1>4, <2>1, <2>2
  <2>4. Viable(d, x)
    BY <1>2, <1>6, <2>3 DEF Viable
  <2> QED
    BY <1>2, <1>3, <1>6, <2>4 DEF Indexed, d
<1> QED
  BY <1>5, <1>6

\* Terms grow along a chain if they do up to the predecessor and the next is no less.
LEMMA NextTerm ==
  ASSUME NEW p \in Block, NEW b \in Block, IsAncestor(p, b), Len(b) = Len(p) + 1,
         TermsGrow(p), Term(p) <= Term(b)
  PROVE  TermsGrow(b)
<1>1. /\ Len(p) \in Nat /\ Len(p) >= 1 /\ Term(p) \in Nat /\ Term(b) \in Nat
      /\ \A i \in 1..Len(p) : b[i] = p[i]
  BY BlockFacts, AncestorAgrees
<1>2. ASSUME NEW i \in 1..Len(b), NEW j \in 1..Len(b), i <= j
      PROVE  b[i].term <= b[j].term
  <2>1. CASE j # Len(b)
    <3>1. i \in 1..Len(p) /\ j \in 1..Len(p)
      BY <1>1, <1>2, <2>1
    <3> QED
      BY <1>1, <1>2, <3>1 DEF TermsGrow
  <2>2. CASE j = Len(b) /\ i # Len(b)
    <3>1. i \in 1..Len(p) /\ Len(p) \in 1..Len(p) /\ i <= Len(p)
      BY <1>1, <1>2, <2>2
    <3>2. p[i].term <= Term(p)
      BY <3>1 DEF TermsGrow, Term
    <3>3. b[i].term <= Term(p) /\ b[i].term \in Nat
      <4>1. b[i] \in Header(Nat, Nat, Nat)
        BY BlockFacts
      <4> QED
        BY <1>1, <3>1, <3>2, <4>1 DEF Header
    <3>4. b[j].term = Term(b)
      BY <2>2 DEF Term
    <3> QED
      BY <1>1, <3>3, <3>4
  <2>3. CASE j = Len(b) /\ i = Len(b)
    <3>1. b[i].term = Term(b) /\ b[j].term = Term(b)
      BY <2>3 DEF Term
    <3> QED
      BY <1>1, <3>1
  <2> QED
    BY <2>1, <2>2, <2>3
<1> QED
  BY <1>2 DEF TermsGrow

\* insert adds a leaf, which is viable if its predecessor is.
LEMMA InsertShape ==
  ASSUME NEW s, DbType(s), NEW r, Forest(s, r), Indexed(s), s.commitIndex \in Nat,
         NEW b \in Block, CanInsert(s, b), Term(b) >= Term(Previous(b)), ClaimsAreValid(b),
         LeaderOf[Term(b)] # Self
  PROVE  LET d == Insert(s, b)
         IN  /\ Forest(d, r) /\ Indexed(d)
             /\ d.states = s.states \cup {b} /\ s.byOrderIndex \subseteq d.byOrderIndex
<1> DEFINE d == Insert(s, b)
           p == Previous(b)
<1>1. /\ s.states \subseteq Block /\ r \in Block /\ Len(r) \in Nat /\ Len(r) >= 1
      /\ r \in s.states /\ Len(r) <= s.commitIndex
      /\ p \in s.states /\ b \notin s.states /\ p \in Block /\ Len(b) \in Nat
      /\ Len(b) > s.commitIndex /\ IsAncestor(r, p)
  BY ForestFacts, BlockFacts DEF CanInsert, Forest, BlockNum
<1>2. /\ Len(b) - 1 \in 1..Len(b) /\ p = Ancestor(b, Len(b) - 1) /\ Len(p) = Len(b) - 1
      /\ IsAncestor(p, b)
  <2>1. Len(p) \in Nat /\ Len(p) >= 1 /\ Len(b) >= 1
    BY <1>1, BlockFacts
  <2>2. p = Ancestor(b, Len(b) - 1)
    BY DEF Previous, Ancestor
  <2>3. Len(b) # 1
    <3>1. SUFFICES ASSUME Len(b) = 1 PROVE FALSE
      OBVIOUS
    <3>2. Len(r) <= s.commitIndex /\ Len(b) > s.commitIndex
      BY <1>1
    <3> QED
      BY <1>1, <3>1, <3>2
  <2>4. Len(b) - 1 \in 1..Len(b)
    BY <1>1, <2>1, <2>3
  <2> QED
    BY <2>2, <2>4, AncestorFacts, IsAncestorOfBlock
<1>3. /\ d.states = s.states \cup {b} /\ d.revisions = s.revisions
      /\ d.commitIndex = s.commitIndex
      /\ d.invalid = IF p \in s.invalid THEN s.invalid \cup {b} ELSE s.invalid
      /\ d.byOrderIndex = IF p \in s.byOrderIndex \ s.invalid THEN s.byOrderIndex \cup {b}
                          ELSE s.byOrderIndex
  BY DEF Insert, DbType
<1> HIDE DEF d, p
<1>4. ASSUME NEW a \in s.states, IsAncestor(a, b) PROVE IsAncestor(a, p)
  <2>1. a \in Block /\ a # b
    BY <1>1
  <2> QED
    BY <1>4, <2>1, AncestorOfPrevious DEF p
<1>5. ASSUME NEW a \in s.states PROVE ~IsAncestor(b, a)
  <2>1. SUFFICES ASSUME IsAncestor(b, a) PROVE FALSE
    OBVIOUS
  <2>2. a \in Block /\ Len(a) \in Nat /\ Len(b) <= Len(a) /\ Ancestor(a, Len(b)) = b
    BY <1>1, <2>1, BlockFacts DEF IsAncestor
  <2>3. Len(b) \in Len(r)..Len(a)
    BY <1>1, <2>2
  <2> QED
    BY <1>1, <2>2, <2>3 DEF Forest
<1>6. /\ IsAncestor(r, b) /\ IsAncestor(b, b)
  BY <1>1, <1>2, IsAncestorTrans, IsAncestorRefl
<1>7. \A i \in Len(r)..Len(b) : Ancestor(b, i) \in d.states
  <2>1. SUFFICES ASSUME NEW i \in Len(r)..Len(b) PROVE Ancestor(b, i) \in d.states
    OBVIOUS
  <2>2. CASE i = Len(b)
    BY <1>3, <2>2, AncestorSelf
  <2>3. CASE i # Len(b)
    <3>1. i \in Len(r)..Len(p) /\ i \in 1..Len(p)
      BY <1>1, <1>2, <2>3
    <3>2. Ancestor(p, i) = Ancestor(b, i)
      BY <1>1, <1>2, <3>1, AncestorAgrees
    <3> QED
      BY <1>1, <1>3, <3>1, <3>2 DEF Forest
  <2> QED
    BY <2>2, <2>3
<1>8. TermsGrow(b)
  <2>1. TermsGrow(p) /\ Term(p) \in Nat /\ Term(b) \in Nat /\ Len(b) = Len(p) + 1
    BY <1>1, <1>2, BlockFacts DEF Forest
  <2>2. Term(p) <= Term(b)
    BY <2>1 DEF p
  <2> QED
    BY <1>1, <1>2, <2>1, <2>2, NextTerm
<1>9. p \in s.invalid => ~AllValid(b)
  BY <1>1, <1>2, AncestorValid DEF Forest
<1>10. Forest(d, r)
  <2>1. /\ IsFiniteSet(d.states) /\ d.revisions \subseteq d.states /\ d.invalid \subseteq d.states
        /\ r \in d.states /\ Len(r) <= d.commitIndex
    BY <1>1, <1>3, FS_AddElement DEF Forest
  <2>2. \A c \in d.states :
          IsAncestor(r, c) /\ \A i \in Len(r)..Len(c) : Ancestor(c, i) \in d.states
    BY <1>3, <1>6, <1>7 DEF Forest
  <2>3. \A a \in d.invalid, c \in d.states : IsAncestor(a, c) => c \in d.invalid
    <3>1. ASSUME NEW a \in d.invalid, NEW c \in d.states, IsAncestor(a, c)
          PROVE  c \in d.invalid
      <4>1. CASE a = b
        BY <1>3, <1>5, <3>1, <4>1
      <4>2. CASE a # b /\ c = b
        <5>1. a \in s.invalid /\ a \in s.states
          BY <1>3, <4>2 DEF Forest
        <5>2. p \in s.invalid
          BY <1>1, <1>4, <3>1, <4>2, <5>1 DEF Forest
        <5> QED
          BY <1>3, <4>2, <5>2
      <4>3. CASE a # b /\ c # b
        <5>1. a \in s.invalid /\ c \in s.states
          BY <1>3, <4>3
        <5>2. c \in s.invalid
          BY <3>1, <5>1 DEF Forest
        <5> QED
          BY <1>3, <5>2
      <4> QED
        BY <4>1, <4>2, <4>3
    <3> QED
      BY <3>1
  <2>4. \A c \in d.states :
          TermsGrow(c) /\ ClaimsAreValid(c) /\ (LeaderOf[Term(c)] = Self => AllValid(c))
    BY <1>3, <1>8 DEF Forest
  <2>5. (\A c \in d.revisions : AllValid(c)) /\ (\A c \in d.invalid : ~AllValid(c))
    BY <1>3, <1>9 DEF Forest
  <2> QED
    BY <2>1, <2>2, <2>3, <2>4, <2>5 DEF Forest
<1>11. ASSUME s.byOrderIndex # {} PROVE Indexed(d)
  <2>1. PICK q \in s.states : Viable(s, q)
    BY <1>11 DEF Indexed
  <2>2. q \in Block /\ q # b /\ AllValid(q) /\ q \in d.states
        /\ s.byOrderIndex = {c \in s.states \ s.invalid : IsAncestor(q, c)}
    BY <1>1, <1>3, <2>1 DEF Viable
  <2>3. IsAncestor(q, b) <=> IsAncestor(q, p)
    BY <1>1, <1>2, <1>4, <2>2, IsAncestorTrans
  <2>4. d.byOrderIndex = {c \in d.states \ d.invalid : IsAncestor(q, c)}
    <3>1. b \notin s.invalid
      BY <1>1 DEF Forest
    <3>2. CASE p \in s.invalid
      <4>1. /\ d.byOrderIndex = s.byOrderIndex
            /\ d.states \ d.invalid = s.states \ s.invalid
        BY <1>1, <1>3, <3>2
      <4> QED
        BY <2>2, <4>1
    <3>3. CASE p \notin s.invalid
      <4>1. d.states \ d.invalid = (s.states \ s.invalid) \cup {b}
        BY <1>3, <3>1, <3>3
      <4>2. p \in s.byOrderIndex <=> IsAncestor(q, b)
        BY <1>1, <2>2, <2>3, <3>3
      <4> QED
        BY <1>3, <2>2, <3>3, <4>1, <4>2
    <3> QED
      BY <3>2, <3>3
  <2> QED
    BY <2>2, <2>4 DEF Indexed, Viable
<1>12. Indexed(d)
  <2>1. CASE s.byOrderIndex = {}
    BY <1>3, <2>1 DEF Indexed
  <2> QED
    BY <1>11, <2>1
<1> QED
  BY <1>3, <1>10, <1>12 DEF d

\* commit, when byBlocknumIndex up to number k is the chain of the viable block top,
\* which executes so far: top stays viable, and no other block becomes so.
LEMMA CommitShape ==
  ASSUME NEW s, DbType(s), NEW r, Forest(s, r), NEW q, Viable(s, q), s.commitIndex \in Nat,
         NEW top \in s.byOrderIndex, NEW k \in 1..Len(top), AllValid(Ancestor(top, k)),
         s.commitIndex <= k, NEW num \in Nat, num <= k \/ (s.head = top /\ k = Len(top)),
         \A i \in s.commitIndex..k : s.byBlocknumIndex[i] = Ancestor(top, i)
  PROVE  LET d == Commit(s, num)
         IN  /\ Forest(d, r) /\ \E p \in s.states : Viable(d, p)
             /\ top \in d.byOrderIndex /\ d.byOrderIndex \subseteq s.byOrderIndex
             /\ d.failed = s.failed /\ d.states = s.states /\ d.invalid = s.invalid
<1> DEFINE d == Commit(s, num)
           new == NewCommitIndex(s, num)
           x == s.byBlocknumIndex[new]
           sub == SetSubtree(s, x)
<1>1. /\ s.states \subseteq Block /\ s.byOrderIndex \subseteq s.states
      /\ q \in Block /\ q \in s.states /\ Len(q) \in Nat /\ Len(r) \in Nat /\ Len(r) >= 1
      /\ IsAncestor(q, top) /\ top \in Block /\ Len(top) \in Nat /\ Len(q) <= Len(top)
      /\ Len(r) <= s.commitIndex /\ top \notin s.invalid
      /\ q \in s.byOrderIndex
      /\ \A b \in s.byOrderIndex : IsAncestor(q, b) /\ TermsGrow(b)
  <2>1. /\ s.states \subseteq Block /\ Len(r) \in Nat /\ Len(r) >= 1 /\ Len(r) <= s.commitIndex
    BY ForestFacts DEF Forest
  <2>2. /\ s.byOrderIndex \subseteq s.states /\ q \in Block /\ q \in s.states /\ Len(q) \in Nat
        /\ q \in s.byOrderIndex /\ top \notin s.invalid
        /\ \A b \in s.byOrderIndex : IsAncestor(q, b)
    BY ViableFacts DEF Viable
  <2>3. top \in Block /\ Len(top) \in Nat /\ IsAncestor(q, top)
    BY <2>1, <2>2, BlockFacts
  <2>4. Len(q) <= Len(top)
    BY <2>3 DEF IsAncestor
  <2>5. \A b \in s.byOrderIndex : TermsGrow(b)
    BY <2>2 DEF Forest
  <2> QED
    BY <2>1, <2>2, <2>3, <2>4, <2>5
<1>2. Len(s.head) \in Nat /\ k \in Nat /\ k <= Len(top)
  BY <1>1, BlockFacts DEF DbType
<1>3. new \in Nat /\ new >= s.commitIndex /\ new <= k
  BY <1>1, <1>2 DEF NewCommitIndex, BlockNum
<1> HIDE DEF new
<1>4. FirstOf(s.byOrderIndex) = {q}
  <2>1. s.byOrderIndex \in SUBSET Block
    BY <1>1
  <2> QED
    BY <1>1, <2>1, FirstOfIndex
<1>5. d = [(IF Len(q) < new THEN sub ELSE s) EXCEPT !.commitIndex = new]
  BY <1>4 DEF Commit, BlockNum, new
<1> HIDE DEF d
<1>6. CASE Len(q) < new
  <2>1. /\ new \in s.commitIndex..k /\ new \in Len(r)..Len(top) /\ new \in 1..Len(top)
        /\ new \in 1..k /\ new \in Len(q)..Len(top)
    BY <1>1, <1>2, <1>3, <1>6
  <2>2. x = Ancestor(top, new) /\ x \in s.states /\ Len(x) = new /\ IsAncestor(x, top)
        /\ x \in s.byOrderIndex
    BY <1>1, <2>1, ForestFacts, ViableFacts
  <2>3. AllValid(x) /\ x \in Block /\ IsAncestor(q, x)
    <3>1. IsAncestor(Ancestor(top, new), Ancestor(top, k)) /\ Ancestor(top, k) \in Block
      BY <1>1, <2>1, AncestorsAreOrdered, AncestorFacts
    <3> QED
      BY <1>1, <2>2, <3>1, AncestorValid
  <2> HIDE DEF x
  <2>4. /\ Forest(sub, r) /\ sub.failed = s.failed /\ Viable(sub, x)
        /\ sub.states = s.states /\ sub.invalid = s.invalid /\ DbType(sub)
        /\ sub.commitIndex = s.commitIndex
    <3>1. Indexed(s)
      BY <1>1 DEF Indexed
    <3> QED
      BY <2>2, <2>3, <3>1, SetSubtreeShape, SetSubtreeFields
  <2> HIDE DEF sub
  <2>5. /\ d.states = sub.states /\ d.invalid = sub.invalid /\ d.failed = sub.failed
        /\ d.byOrderIndex = sub.byOrderIndex /\ d.commitIndex = new /\ d.revisions = sub.revisions
    BY <1>5, <1>6, <2>4 DEF DbType
  <2>6. Forest(d, r)
    BY <1>1, <1>3, <2>4, <2>5, SameForestFacts DEF SameForest
  <2>7. Viable(d, x)
    BY <2>4, <2>5 DEF Viable
  <2>8. d.byOrderIndex = {b \in s.states \ s.invalid : IsAncestor(x, b)}
    BY <2>4, <2>5 DEF Viable
  <2>9. top \in d.byOrderIndex
    BY <1>1, <2>2, <2>8
  <2>10. ASSUME NEW b \in d.byOrderIndex PROVE b \in s.byOrderIndex
    <3>1. b \in s.states \ s.invalid /\ b \in Block /\ IsAncestor(x, b)
      BY <1>1, <2>8
    <3>2. IsAncestor(q, b)
      BY <1>1, <2>3, <3>1, IsAncestorTrans
    <3> QED
      BY <3>1, <3>2 DEF Viable
  <2> QED
    BY <2>2, <2>4, <2>5, <2>6, <2>7, <2>9, <2>10 DEF d
<1>7. CASE ~(Len(q) < new)
  <2>1. /\ d.states = s.states /\ d.invalid = s.invalid /\ d.failed = s.failed
        /\ d.byOrderIndex = s.byOrderIndex /\ d.commitIndex = new /\ d.revisions = s.revisions
    BY <1>5, <1>7 DEF DbType
  <2>2. Forest(d, r)
    BY <1>1, <1>3, <2>1, SameForestFacts DEF SameForest
  <2>3. Viable(d, q)
    BY <2>1 DEF Viable
  <2> QED
    BY <1>1, <2>1, <2>2, <2>3 DEF d
<1> QED
  BY <1>6, <1>7

\* The blocks that were executed commit what their headers say, as in CommitShape.
LEMMA AcceptBlocksShape ==
  ASSUME NEW s, DbType(s), NEW r, Forest(s, r), NEW q, Viable(s, q), s.commitIndex \in Nat,
         NEW top \in s.byOrderIndex, NEW k \in 1..Len(top), AllValid(Ancestor(top, k)),
         s.commitIndex <= k, NEW accepted, \A b \in accepted : CommitNum(b) \in Nat /\ CommitNum(b) <= k,
         \A i \in s.commitIndex..k : s.byBlocknumIndex[i] = Ancestor(top, i)
  PROVE  LET d == AcceptBlocks(s, accepted)
         IN  /\ Forest(d, r) /\ \E p \in s.states : Viable(d, p)
             /\ top \in d.byOrderIndex /\ d.byOrderIndex \subseteq s.byOrderIndex
             /\ d.failed = s.failed /\ d.states = s.states /\ d.invalid = s.invalid
<1> DEFINE nums == {CommitNum(b) : b \in accepted}
           num == CHOOSE n \in nums : \A m \in nums : m <= n
<1>1. CASE accepted = {}
  <2>1. AcceptBlocks(s, accepted) = s /\ q \in s.states
    BY <1>1 DEF AcceptBlocks, Viable
  <2> QED
    BY <2>1
<1>2. CASE accepted # {}
  <2>1. nums \in SUBSET Nat /\ nums # {} /\ \A n \in nums : n <= k
    BY <1>2
  <2>2. k \in Nat
    BY ForestFacts, ViableFacts, BlockFacts
  <2>3. \E n \in nums : \A m \in nums : m <= n
    <3> HIDE DEF nums
    <3> QED
      BY <2>1, <2>2, NatMax
  <2>4. num \in nums
    BY <2>3
  <2>5. num \in Nat /\ num <= k
    BY <2>1, <2>4
  <2>6. AcceptBlocks(s, accepted) = Commit(s, num)
    BY <1>2 DEF AcceptBlocks
  <2> HIDE DEF num
  <2> QED
    BY <2>5, <2>6, CommitShape
<1> QED
  BY <1>1, <1>2

\* blacklist_subtree, for a block that builds on q and does not execute: it and its
\* descendants are invalid from now on.
LEMMA BlacklistShape ==
  ASSUME NEW s, DbType(s), NEW r, Forest(s, r), NEW q, Viable(s, q),
         NEW x \in s.byOrderIndex, ~AllValid(x)
  PROVE  LET d == BlacklistSubtree(s, x)
         IN  /\ Forest(d, r) /\ Viable(d, q) /\ d.byOrderIndex \subseteq s.byOrderIndex
             /\ d.failed = s.failed /\ d.states = s.states
             /\ \A b \in s.byOrderIndex : b \in d.byOrderIndex <=> ~IsAncestor(x, b)
<1> DEFINE d == BlacklistSubtree(s, x)
           dead == {b \in s.byOrderIndex : IsAncestor(x, b)}
<1>1. /\ s.states \subseteq Block /\ s.byOrderIndex \subseteq s.states /\ x \in Block
      /\ x \in s.states /\ q \in s.states /\ q \in Block /\ IsAncestor(q, x)
      /\ s.byOrderIndex = {b \in s.states \ s.invalid : IsAncestor(q, b)}
      /\ AllValid(q)
  <2>1. s.states \subseteq Block
    BY ForestFacts
  <2>2. /\ s.byOrderIndex \subseteq s.states /\ q \in Block /\ IsAncestor(q, x)
    BY ViableFacts
  <2> QED
    BY <2>1, <2>2 DEF Viable
<1>2. x \in dead
  BY <1>1, IsAncestorRefl
<1>3. /\ d.states = s.states /\ d.revisions = s.revisions /\ d.commitIndex = s.commitIndex
      /\ d.invalid = s.invalid \cup dead /\ d.byOrderIndex = s.byOrderIndex \ dead
      /\ d.failed = s.failed
  BY <1>2 DEF BlacklistSubtree, DbType
<1>4. ASSUME NEW b \in dead PROVE ~AllValid(b) /\ b \in s.states
  BY <1>1, AncestorValid
<1> HIDE DEF d
<1>5. ASSUME NEW a \in dead, NEW b \in s.states, IsAncestor(a, b)
      PROVE  b \in s.invalid \cup dead
  <2>1. b \in Block /\ a \in Block /\ IsAncestor(x, a)
    BY <1>1
  <2>2. IsAncestor(x, b)
    BY <1>1, <1>5, <2>1, IsAncestorTrans
  <2>3. IsAncestor(q, b)
    BY <1>1, <2>1, <2>2, IsAncestorTrans
  <2> QED
    BY <1>1, <2>2, <2>3
<1>6. \A a \in s.invalid \cup dead, b \in s.states : IsAncestor(a, b) => b \in s.invalid \cup dead
  BY <1>5 DEF Forest
<1>7. \A b \in s.byOrderIndex : b \in d.byOrderIndex <=> ~IsAncestor(x, b)
  BY <1>3
<1> HIDE DEF dead
<1>8. Forest(d, r)
  BY <1>3, <1>4, <1>6 DEF Forest
<1>9. Viable(d, q)
  <2>1. d.byOrderIndex = {b \in d.states \ d.invalid : IsAncestor(q, b)}
    BY <1>1, <1>3
  <2> QED
    BY <1>1, <1>3, <2>1 DEF Viable
<1> QED
  BY <1>3, <1>7, <1>8, <1>9 DEF d

\* trySetHead.  If it does not fail, the head is the block tried or, if a block of its
\* chain does not execute, the one before that, and then the block tried is no longer
\* viable.
LEMMA TrySetHeadShape ==
  ASSUME NEW s, Good(s), NEW r, Forest(s, r), NEW q, Viable(s, q), NEW new \in s.byOrderIndex
  PROVE  LET d == TrySetHead(s, new)
         IN  /\ Forest(d, r) /\ Indexed(d)
             /\ d.states = s.states /\ d.byOrderIndex \subseteq s.byOrderIndex
             /\ ~d.failed =>
                  /\ d.head \in d.byOrderIndex
                  /\ AllValid(new) => d.head = new
                  /\ d.head # new => new \notin d.byOrderIndex
                  /\ \/ d.databaseHead = d.head
                     \/ d.databaseHead = s.databaseHead /\ IsAncestor(d.head, s.head)
<1>0. /\ DbType(s) /\ IndexIsChainOfHead(s) /\ s.head \in Block /\ Len(s.head) \in Nat
      /\ s.commitIndex \in Nat /\ s.commitIndex \in 1..Len(s.head)
  BY IndexFacts, BlockFacts DEF Good, DbType
<1>1. /\ s.states \subseteq Block /\ Len(r) \in Nat /\ Len(r) >= 1 /\ Len(r) <= s.commitIndex
  BY <1>0, ForestFacts DEF Forest
<1>2. /\ s.byOrderIndex \subseteq s.states /\ new \in s.states /\ new \in Block
      /\ Len(new) \in Nat /\ Len(new) >= 1
  BY <1>0, <1>1, ViableFacts, BlockFacts
<1>3. Indexed(s)
  BY DEF Indexed, Viable
<1>4. CASE new = s.head
  <2>1. TrySetHead(s, new) = s
    BY <1>4 DEF TrySetHead
  <2> QED
    BY <1>0, <1>3, <1>4, <2>1, IsAncestorRefl
<1>5. CASE new # s.head /\ Conflicts(s, new)
  <2> DEFINE d == [s EXCEPT !.failed = TRUE]
  <2>1. TrySetHead(s, new) = d
    BY <1>5 DEF TrySetHead, ConsensusFailure
  <2>2. /\ d.failed /\ d.states = s.states /\ d.byOrderIndex = s.byOrderIndex
        /\ d.invalid = s.invalid /\ d.revisions = s.revisions /\ d.commitIndex = s.commitIndex
    BY <1>0 DEF DbType
  <2> HIDE DEF d
  <2>3. Forest(d, r)
    BY <1>0, <1>1, <2>2, SameForestFacts DEF SameForest
  <2>4. Indexed(d)
    BY <1>3, <2>2 DEF Indexed, Viable
  <2> QED
    BY <2>1, <2>2, <2>3, <2>4
<1>6. CASE new # s.head /\ ~Conflicts(s, new)
  <2> DEFINE fork == ForkPoint(s, new)
             above == (fork + 1)..BlockNum(new)
             fresh == {i \in above : Ancestor(new, i) \notin s.revisions}
             bad == {i \in fresh : ~new[i].valid}
             last == IF bad = {} THEN BlockNum(new)
                     ELSE (CHOOSE i \in bad : \A j \in bad : i <= j) - 1
             accepted == {Ancestor(new, i) : i \in {j \in fresh : j <= last}}
             index(top) == [i \in {j \in DOMAIN s.byBlocknumIndex \cup above : j <= top} |->
                              IF i > fork THEN Ancestor(new, i) ELSE s.byBlocknumIndex[i]]
             mid == [s EXCEPT !.byBlocknumIndex = index(BlockNum(new)),
                               !.revisions = @ \cup accepted]
             executed == AcceptBlocks(mid, accepted)
             x == Ancestor(new, last + 1)
             checked == IF bad = {} THEN executed ELSE BlacklistSubtree(executed, x)
             h == Ancestor(new, last)
             d == [checked EXCEPT
                    !.byBlocknumIndex = index(last),
                    !.head = h,
                    !.databaseHead = IF last > fork THEN h ELSE @]
  <2>1. TrySetHead(s, new) = d
    BY <1>6 DEF TrySetHead
  <2>2. /\ fork \in Nat /\ fork >= s.commitIndex /\ fork \in DOMAIN s.byBlocknumIndex
        /\ fork \in 1..Len(new) /\ fork \in 1..Len(s.head)
        /\ Ancestor(new, fork) = Ancestor(s.head, fork)
    BY <1>2, <1>6, ForkPointFacts
  <2> HIDE DEF fork
  <2>3. /\ last \in Nat /\ last >= fork /\ last \in 1..Len(new)
        /\ bad = {} => last = Len(new)
        /\ bad # {} => last + 1 \in bad /\ last + 1 \in 1..Len(new)
        /\ \A i \in bad : i > last
    <3>1. CASE bad = {}
      BY <1>2, <2>2, <3>1 DEF BlockNum
    <3>2. CASE bad # {}
      <4>1. bad \in SUBSET Nat /\ \A i \in bad : i >= fork + 1 /\ i <= Len(new)
        BY <1>2, <2>2 DEF BlockNum
      <4> DEFINE least == CHOOSE i \in bad : \A j \in bad : i <= j
      <4> HIDE DEF bad
      <4>2. \E i \in bad : \A j \in bad : i <= j
        BY <3>2, <4>1, NatMin
      <4>3. least \in bad /\ \A j \in bad : least <= j
        BY <4>2
      <4>4. last = least - 1
        BY <3>2
      <4> HIDE DEF least, last
      <4>5. last \in Nat /\ last + 1 = least /\ last >= fork /\ last \in 1..Len(new)
            /\ least \in 1..Len(new)
        BY <1>2, <2>2, <4>1, <4>3, <4>4
      <4>6. \A i \in bad : i > last
        BY <4>1, <4>3, <4>4, <4>5
      <4> QED
        BY <3>2, <4>3, <4>5, <4>6
    <3> QED
      BY <3>1, <3>2
  <2> HIDE DEF last
  <2>4. bad # {} => ~new[last + 1].valid
    BY <2>3
  <2>5. h \in Block /\ Len(h) = last /\ IsAncestor(h, new) /\ \A i \in 1..last : h[i] = new[i]
    BY <1>2, <2>3, AncestorFacts, IsAncestorOfBlock
  <2>6. AllValid(h)
    <3>1. ASSUME NEW i \in 1..last PROVE new[i].valid
      <4>1. i \in 1..Len(new) /\ i \in Nat
        BY <1>2, <2>3
      <4>2. CASE i <= fork
        <5>1. Ancestor(s.head, Len(s.head)) \in s.revisions
          BY <1>0, ChainHasRevisions
        <5>2. AllValid(s.head)
          BY <1>0, <5>1, AncestorSelf DEF Forest
        <5>3. i \in 1..fork /\ i \in 1..Len(s.head)
          BY <1>0, <2>2, <4>1, <4>2
        <5>4. Ancestor(new, fork)[i] = new[i] /\ Ancestor(s.head, fork)[i] = s.head[i]
          BY <1>0, <1>2, <2>2, <5>3, AncestorFacts
        <5> QED
          BY <2>2, <5>2, <5>3, <5>4 DEF AllValid
      <4>3. CASE ~(i <= fork)
        <5>1. i \in above
          BY <2>2, <4>1, <4>3 DEF BlockNum
        <5>2. CASE i \in fresh
          <6>1. i \notin bad
            BY <2>3, <4>1
          <6> QED
            BY <5>2, <6>1
        <5>3. CASE i \notin fresh
          <6>1. Ancestor(new, i) \in s.revisions
            BY <5>1, <5>3
          <6>2. Ancestor(new, i)[i] = new[i] /\ Len(Ancestor(new, i)) = i /\ i \in 1..i
            BY <1>2, <4>1, AncestorFacts
          <6> QED
            BY <6>1, <6>2 DEF Forest, AllValid
        <5> QED
          BY <5>2, <5>3
      <4> QED
        BY <4>2, <4>3
    <3> QED
      BY <2>5, <3>1 DEF AllValid
  <2>7. ASSUME NEW b \in accepted
        PROVE  b \in s.states /\ AllValid(b) /\ CommitNum(b) \in Nat /\ CommitNum(b) <= last
    <3>1. PICK i \in fresh : i <= last /\ b = Ancestor(new, i)
      BY <2>7
    <3>2. i \in Nat /\ i \in Len(r)..Len(new) /\ i \in 1..last /\ i \in 1..Len(new)
      BY <1>0, <1>1, <1>2, <2>2, <2>3, <3>1 DEF BlockNum
    <3>3. b \in Block /\ b \in s.states /\ Len(b) = i
      BY <1>0, <1>2, <3>1, <3>2, ForestFacts
    <3>4. IsAncestor(b, h)
      BY <1>2, <2>3, <3>1, <3>2, AncestorsAreOrdered
    <3>5. CommitNum(b) \in 1..i
      BY <3>3, BlockFacts
    <3> QED
      BY <2>3, <2>5, <2>6, <3>2, <3>3, <3>4, <3>5, AncestorValid
  <2>8. \A i \in s.commitIndex..last : index(BlockNum(new))[i] = Ancestor(new, i)
    <3>1. ASSUME NEW i \in s.commitIndex..last
          PROVE  index(BlockNum(new))[i] = Ancestor(new, i)
      <4>1. i \in Nat /\ i \in 1..Len(new) /\ i <= BlockNum(new)
        BY <1>0, <1>2, <2>3 DEF BlockNum
      <4>2. CASE i > fork
        <5>1. i \in above
          BY <1>2, <2>2, <4>1, <4>2 DEF BlockNum
        <5> QED
          BY <4>1, <4>2, <5>1
      <4>3. CASE ~(i > fork)
        <5>1. i \in 1..fork /\ i \in 1..Len(s.head) /\ s.commitIndex <= i
          BY <1>0, <2>2, <2>3, <4>1, <4>3
        <5>2. i \in DOMAIN s.byBlocknumIndex /\ s.byBlocknumIndex[i] = Ancestor(s.head, i)
          BY <1>0, <5>1, IndexFacts
        <5>3. Ancestor(s.head, i) = Ancestor(new, i)
          BY <1>0, <1>2, <2>2, <5>1, AncestorOfAncestor
        <5>4. index(BlockNum(new))[i] = s.byBlocknumIndex[i]
          BY <4>1, <4>3, <5>2
        <5> QED
          BY <5>2, <5>3, <5>4
      <4> QED
        BY <4>2, <4>3
    <3> QED
      BY <3>1
  <2> HIDE DEF accepted, index, bad
  <2>9. /\ DbType(mid) /\ mid.states = s.states /\ mid.byOrderIndex = s.byOrderIndex
        /\ mid.invalid = s.invalid /\ mid.failed = s.failed
        /\ mid.commitIndex = s.commitIndex /\ mid.byBlocknumIndex = index(BlockNum(new))
        /\ mid.revisions = s.revisions \cup accepted /\ mid.databaseHead = s.databaseHead
    <3>1. accepted \subseteq Block
      BY <1>1, <2>7
    <3> QED
      BY <1>0, <3>1 DEF DbType
  <2> HIDE DEF mid
  <2>10. Forest(mid, r) /\ Viable(mid, q)
    <3>1. mid.revisions \subseteq mid.states /\ \A b \in mid.revisions : AllValid(b)
      BY <2>7, <2>9 DEF Forest
    <3>2. Forest(mid, r)
      BY <2>9, <3>1 DEF Forest
    <3> QED
      BY <2>9, <3>2 DEF Viable
  <2>11. /\ Forest(executed, r) /\ \E p \in mid.states : Viable(executed, p)
         /\ new \in executed.byOrderIndex /\ executed.byOrderIndex \subseteq mid.byOrderIndex
         /\ executed.failed = mid.failed /\ executed.states = mid.states
    <3>1. /\ new \in mid.byOrderIndex /\ mid.commitIndex \in Nat /\ mid.commitIndex <= last
      BY <1>0, <2>2, <2>3, <2>9
    <3>2. \A i \in mid.commitIndex..last : mid.byBlocknumIndex[i] = Ancestor(new, i)
      BY <2>8, <2>9
    <3>3. \A b \in accepted : CommitNum(b) \in Nat /\ CommitNum(b) <= last
      BY <2>7
    <3> QED
      BY <2>3, <2>6, <2>9, <2>10, <3>1, <3>2, <3>3, AcceptBlocksShape
  <2>12. DbType(executed) /\ executed.databaseHead = s.databaseHead
    <3>1. accepted \in SUBSET Block /\ \A b \in accepted : CommitNum(b) <= last
      BY <1>1, <2>7
    <3>2. mid.commitIndex \in Nat
      BY <1>0, <2>9
    <3>3. DbType(executed) /\ SameChain(executed, mid)
      BY <2>3, <2>9, <3>1, <3>2, AcceptBlocksFields
    <3> QED
      BY <2>9, <3>3 DEF SameChain
  <2> HIDE DEF executed
  <2>13. PICK p \in s.states : Viable(executed, p)
    BY <2>9, <2>11
  <2>14. /\ DbType(checked) /\ Forest(checked, r) /\ Viable(checked, p)
         /\ checked.byOrderIndex \subseteq executed.byOrderIndex
         /\ checked.failed = executed.failed /\ checked.states = s.states
         /\ checked.databaseHead = s.databaseHead /\ h \in checked.byOrderIndex
         /\ bad # {} => new \notin checked.byOrderIndex
    <3>1. CASE bad = {}
      <4>1. checked = executed
        BY <3>1
      <4>2. h = new
        BY <1>2, <2>3, <3>1, AncestorSelf
      <4> QED
        BY <2>9, <2>11, <2>12, <2>13, <3>1, <4>1, <4>2
    <3>2. CASE bad # {}
      <4>1. /\ p \in Block /\ Len(p) \in Nat /\ IsAncestor(p, new) /\ AllValid(p)
            /\ \A i \in Len(p)..Len(new) : Ancestor(new, i) \in executed.byOrderIndex
        BY <2>11, <2>12, <2>13, ViableFacts DEF Viable
      <4>2. Len(p) <= last
        <5>1. SUFFICES ASSUME ~(Len(p) <= last) PROVE FALSE
          OBVIOUS
        <5>2. last + 1 \in 1..Len(p)
          BY <2>3, <4>1, <5>1
        <5>3. p[last + 1] = new[last + 1]
          BY <1>2, <4>1, <5>2, AncestorAgrees
        <5> QED
          BY <2>4, <3>2, <4>1, <5>2, <5>3 DEF AllValid
      <4>3. h \in executed.byOrderIndex /\ x \in executed.byOrderIndex
        <5>1. last \in Len(p)..Len(new) /\ last + 1 \in Len(p)..Len(new)
          BY <1>2, <2>3, <3>2, <4>1, <4>2
        <5> QED
          BY <4>1, <5>1
      <4>4. x \in Block /\ Len(x) = last + 1 /\ IsAncestor(x, new) /\ x[last + 1] = new[last + 1]
        <5>1. last + 1 \in 1..(last + 1)
          BY <2>3
        <5> QED
          BY <1>2, <2>3, <3>2, <5>1, AncestorFacts, IsAncestorOfBlock
      <4>5. ~AllValid(x)
        <5>1. last + 1 \in 1..Len(x)
          BY <2>3, <4>4
        <5> QED
          BY <2>4, <3>2, <4>4, <5>1 DEF AllValid
      <4>6. ~IsAncestor(x, h)
        BY <2>3, <2>5, <4>4 DEF IsAncestor
      <4> DEFINE e == BlacklistSubtree(executed, x)
      <4>7. /\ Forest(e, r) /\ Viable(e, p) /\ e.byOrderIndex \subseteq executed.byOrderIndex
            /\ e.failed = executed.failed /\ e.states = executed.states
            /\ \A b \in executed.byOrderIndex : b \in e.byOrderIndex <=> ~IsAncestor(x, b)
        BY <2>11, <2>12, <2>13, <4>3, <4>5, BlacklistShape
      <4>8. DbType(e) /\ e.databaseHead = executed.databaseHead
        BY <2>12, <4>4, BlacklistFields
      <4>9. checked = e
        BY <3>2
      <4> HIDE DEF e, checked, x, h
      <4> QED
        BY <2>9, <2>11, <2>12, <4>3, <4>4, <4>6, <4>7, <4>8, <4>9
    <3> QED
      BY <3>1, <3>2
  <2> HIDE DEF checked
  <2>15. /\ d.head = h
         /\ d.databaseHead = IF last > fork THEN h ELSE s.databaseHead
         /\ d.revisions = checked.revisions /\ d.commitIndex = checked.commitIndex
         /\ d.states = checked.states /\ d.invalid = checked.invalid
         /\ d.byOrderIndex = checked.byOrderIndex /\ d.failed = checked.failed
    <3> HIDE DEF h
    <3> QED
      BY <2>14 DEF DbType
  <2> HIDE DEF d
  <2>16. Forest(d, r)
    BY <2>14, <2>15 DEF Forest
  <2>17. Viable(d, p)
    BY <2>14, <2>15 DEF Viable
  <2>18. Indexed(d)
    BY <2>14, <2>15, <2>17 DEF Indexed
  <2>19. d.states = s.states /\ d.byOrderIndex \subseteq s.byOrderIndex
    BY <2>9, <2>11, <2>14, <2>15
  <2>20. AllValid(new) => d.head = new
    <3>1. SUFFICES ASSUME AllValid(new) PROVE d.head = new
      OBVIOUS
    <3>2. bad = {}
      <4>1. ASSUME bad # {} PROVE FALSE
        BY <2>3, <2>4, <3>1, <4>1 DEF AllValid
      <4> QED
        BY <4>1
    <3> QED
      BY <1>2, <2>3, <2>15, <3>2, AncestorSelf
  <2>21. d.head # new => new \notin d.byOrderIndex
    <3>1. bad = {} => d.head = new
      BY <1>2, <2>3, <2>15, AncestorSelf
    <3> QED
      BY <2>14, <2>15, <3>1
  <2>22. \/ d.databaseHead = d.head
         \/ d.databaseHead = s.databaseHead /\ IsAncestor(d.head, s.head)
    <3>1. CASE last > fork
      BY <2>15, <3>1
    <3>2. CASE ~(last > fork)
      <4>1. last = fork
        BY <2>2, <2>3, <3>2
      <4>2. IsAncestor(h, s.head)
        BY <1>0, <2>2, <4>1, IsAncestorOfBlock
      <4> QED
        BY <2>15, <3>2, <4>2
    <3> QED
      BY <3>1, <3>2
  <2> QED
    BY <2>1, <2>14, <2>15, <2>16, <2>18, <2>19, <2>20, <2>21, <2>22
<1> QED
  BY <1>4, <1>5, <1>6

-----------------------------------------------------------------------------
(***************************************************************************)
(* Fork switches.                                                          *)
(***************************************************************************)
\* The node produces blocks in a term only if it leads it.
PendingIsOwn(s) ==
  s.blockContext # NoBlock =>
    s.blockContext.term = s.currentTerm /\ LeaderOf[s.currentTerm] = Self

IsBest(s, h) == \A b \in s.byOrderIndex : b = h \/ OrderLess(b, h)
PendingIsBest(s, h) == \A b \in s.byOrderIndex : KeepsPending(s, h, b)

\* One iteration of async_switch_fork.  It is the last one if it fails or if the head
\* is the best block, or else it finds out that a viable block is invalid.
LEMMA SwitchOnceShape ==
  ASSUME NEW s, Good(s), NEW r, Forest(s, r), Indexed(s), ~s.failed,
         \A b \in s.states : Term(b) <= s.currentTerm, PendingIsOwn(s),
         NEW original \in Block,
         \/ original = s.head /\ s.databaseHead = s.head
         \/ s.blockContext = NoBlock \/ original \notin s.byOrderIndex
  PROVE  LET e == SwitchOnce(s, original)
             d == e.db
         IN  /\ Forest(d, r) /\ Indexed(d) /\ e.done \in BOOLEAN
             /\ d.states = s.states /\ d.byOrderIndex \subseteq s.byOrderIndex
             /\ ~d.failed => d.head \in d.byOrderIndex
             /\ e.done /\ ~d.failed =>
                  /\ d.databaseHead = d.head
                  /\ IsBest(d, d.head) \/ (d.head = original /\ PendingIsBest(d, original))
             /\ ~e.done => /\ ~d.failed
                           /\ \E b \in s.byOrderIndex : b \notin d.byOrderIndex
                           /\ d.blockContext = NoBlock \/ original \notin d.byOrderIndex
<1> DEFINE e == SwitchOnce(s, original)
           d == e.db
           viable == {b \in s.byOrderIndex : Term(b) <= s.currentTerm}
           best == CHOOSE b \in LastOf(viable) : TRUE
<1>1. /\ DbType(s) /\ s.head \in Block /\ s.databaseHead \in Block
      /\ s.commitIndex \in Nat /\ s.commitIndex \in 1..Len(s.head)
      /\ s.states \subseteq Block
  BY IndexFacts, ForestFacts DEF Good, DbType
<1>2. CASE LastOf(viable) = {}
  <2> DEFINE f == ConsensusFailure(s)
  <2>1. e = [db |-> f, done |-> TRUE]
    BY <1>2 DEF SwitchOnce
  <2>2. /\ f.states = s.states /\ f.invalid = s.invalid /\ f.revisions = s.revisions
        /\ f.commitIndex = s.commitIndex /\ f.byOrderIndex = s.byOrderIndex /\ f.failed
    BY <1>1 DEF DbType, ConsensusFailure
  <2> HIDE DEF f, e
  <2>3. Forest(f, r)
    BY <2>2 DEF Forest
  <2>4. Indexed(f)
    BY <2>2 DEF Indexed, Viable
  <2> QED
    BY <2>1, <2>2, <2>3, <2>4 DEF e
<1>3. CASE LastOf(viable) # {}
  <2>1. e = TryBest(s, original, best)
    BY <1>3 DEF SwitchOnce
  <2>2. best \in LastOf(viable)
    BY <1>3
  <2> HIDE DEF best
  <2>3. PICK q \in s.states : Viable(s, q)
    BY <2>2 DEF Indexed, LastOf
  <2>4. /\ s.byOrderIndex \subseteq s.states
        /\ q \in Block /\ s.byOrderIndex = {b \in s.states \ s.invalid : IsAncestor(q, b)}
    BY <1>1, <2>3, ViableFacts DEF Viable
  <2>5. /\ viable = s.byOrderIndex
    BY <2>4
  <2> HIDE DEF viable
  <2>6. /\ best \in s.byOrderIndex /\ best \in s.states /\ best \in Block /\ IsAncestor(q, best)
        /\ \A c \in s.byOrderIndex : c = best \/ OrderLess(c, best)
    BY <1>1, <2>2, <2>4, <2>5 DEF LastOf
  <2>7. CASE KeepsPending(s, original, best)
    <3>1. /\ s.blockContext # NoBlock /\ original \in s.byOrderIndex
          /\ original = s.head /\ s.databaseHead = s.head
      BY <2>7 DEF KeepsPending
    <3>2. e = [db |-> s, done |-> TRUE]
      <4>1. TrySetHead(s, original) = s
        BY <3>1 DEF TrySetHead
      <4> QED
        BY <2>1, <2>7, <3>1, <4>1 DEF TryBest, Target, Tried
    <3> HIDE DEF e
    <3>3. ASSUME NEW c \in s.byOrderIndex PROVE KeepsPending(s, original, c)
      <4>1. c \in Block /\ (c = best \/ OrderLess(c, best))
        BY <1>1, <2>4, <2>6
      <4>2. CASE c = best
        BY <2>7, <4>2
      <4>3. CASE OrderLess(c, best)
        <5>1. /\ Term(c) \in Nat /\ Term(best) \in Nat /\ Len(c) \in Nat /\ Len(best) \in Nat
          BY <2>6, <4>1, BlockFacts
        <5>2. \/ Term(c) < Term(best)
              \/ Term(c) = Term(best) /\ Len(c) <= Len(best)
          BY <4>3, <5>1 DEF OrderLess, BlockNum
        <5>3. s.blockContext \in [term : Nat, num : Nat, commitNum : Nat]
          BY <1>1, <3>1 DEF DbType
        <5>4. s.blockContext.term \in Nat /\ s.blockContext.num \in Nat
          BY <5>3
        <5>5. \/ Term(best) < s.blockContext.term
              \/ Term(best) = s.blockContext.term /\ Len(best) < s.blockContext.num
          BY <2>7 DEF KeepsPending, BlockNum
        <5>6. \/ Term(c) < s.blockContext.term
              \/ Term(c) = s.blockContext.term /\ Len(c) < s.blockContext.num
          BY <5>1, <5>2, <5>4, <5>5
        <5> QED
          BY <3>1, <5>6 DEF KeepsPending, BlockNum
      <4> QED
        BY <4>1, <4>2, <4>3
    <3> QED
      BY <3>1, <3>2, <3>3 DEF PendingIsBest, e
  <2>8. CASE ~KeepsPending(s, original, best)
    <3> DEFINE f == TrySetHead(s, best)
    <3>1. e = [db |-> f, done |-> f.failed \/ f.head = best]
      BY <2>1, <2>8 DEF TryBest, Target, Tried
    <3>2. /\ Forest(f, r) /\ Indexed(f)
          /\ f.states = s.states /\ f.byOrderIndex \subseteq s.byOrderIndex
          /\ ~f.failed =>
               /\ f.head \in f.byOrderIndex
               /\ AllValid(best) => f.head = best
               /\ f.head # best => best \notin f.byOrderIndex
               /\ \/ f.databaseHead = f.head
                  \/ f.databaseHead = s.databaseHead /\ IsAncestor(f.head, s.head)
      BY <2>3, <2>6, TrySetHeadShape
    <3>3. Good(f) /\ SameBlock(f, s)
      BY <2>6, TrySetHeadGood
    <3> HIDE DEF f, e
    <3>4. f.failed \in BOOLEAN
      BY <3>3 DEF Good, DbType
    <3>5. IsBest(f, best)
      BY <2>6, <3>2 DEF IsBest
    <3>6. ASSUME ~f.failed, f.head = best PROVE f.databaseHead = f.head
      <4> DEFINE D == s.databaseHead
      <4>1. SUFFICES ASSUME f.databaseHead = D, IsAncestor(best, s.head)
                     PROVE  D = best
        BY <3>2, <3>6
      <4>2. D \in Block /\ IsAncestor(s.head, D) /\ Len(D) \in Nat
        BY <1>1, BlockFacts DEF Good, DurableHead
      <4>3. IsAncestor(best, D)
        BY <1>1, <2>6, <4>1, <4>2, IsAncestorTrans
      <4>4. D \in s.revisions
        <5>1. Len(s.head) <= Len(D) /\ Len(s.head) \in Nat
          BY <1>1, <4>2, BlockFacts DEF IsAncestor
        <5>2. Len(D) \in s.commitIndex..Len(D)
          BY <1>1, <4>2, <5>1
        <5>3. Ancestor(D, Len(D)) \in s.revisions
          BY <5>2 DEF Good, DurableHead
        <5> QED
          BY <4>2, <5>3, AncestorSelf
      <4> HIDE DEF D
      <4>5. D \in s.states \ s.invalid /\ TermsGrow(D)
        BY <4>4 DEF Forest
      <4>6. IsAncestor(q, D)
        BY <2>4, <2>6, <4>2, <4>3, IsAncestorTrans
      <4>7. D = best \/ OrderLess(D, best)
        BY <2>4, <2>6, <4>5, <4>6
      <4> QED
        BY <2>6, <4>2, <4>3, <4>5, <4>7, DescendantIsBetter
    <3>7. ASSUME ~f.failed, f.head # best
          PROVE  f.blockContext = NoBlock \/ original \notin f.byOrderIndex
      <4>1. SUFFICES ASSUME s.blockContext # NoBlock, original \in s.byOrderIndex
                     PROVE  FALSE
        BY <3>2, <3>3 DEF SameBlock
      <4>2. s.blockContext.term = s.currentTerm /\ LeaderOf[s.currentTerm] = Self
        BY <4>1 DEF PendingIsOwn
      <4>3. ~(Term(best) < s.currentTerm)
        BY <2>8, <4>1, <4>2 DEF KeepsPending
      <4>4. Term(best) <= s.currentTerm /\ Term(best) \in Nat /\ s.currentTerm \in Nat
        BY <1>1, <2>6, BlockFacts DEF DbType
      <4>5. Term(best) = s.currentTerm
        BY <4>3, <4>4
      <4>6. AllValid(best)
        BY <2>6, <4>2, <4>5 DEF Forest
      <4> QED
        BY <3>2, <3>7, <4>6
    <3>8. ~e.done => ~f.failed /\ f.head # best
      BY <3>1, <3>4
    <3>9. e.db = f /\ (e.done /\ ~f.failed => f.head = best) /\ e.done \in BOOLEAN
      BY <3>1, <3>4
    <3> QED
      BY <2>6, <3>2, <3>5, <3>6, <3>7, <3>8, <3>9 DEF e
  <2> QED
    BY <2>7, <2>8
<1> QED
  BY <1>2, <1>3

\* The viable blocks are some of the states.
LEMMA IndexedSubset ==
  ASSUME NEW s, Indexed(s)
  PROVE  s.byOrderIndex \subseteq s.states /\ s.byOrderIndex \cap s.invalid = {}
  BY DEF Indexed, Viable

\* The end of a fork switch that was called for database s.
Switched(d, s) ==
  /\ d.head \in d.byOrderIndex /\ d.databaseHead = d.head
  /\ IsBest(d, d.head) \/ (d.head = s.head /\ PendingIsBest(d, s.head))

\* The database d after k iterations of the fork switch; each but the last has taken
\* a block out of byOrderIndex.
InLoop(d, done, s, r, k) ==
  /\ Good(d) /\ SameBlock(d, s) /\ KeepsIrreversible(d, s) /\ Forest(d, r) /\ Indexed(d)
  /\ d.states = s.states /\ d.byOrderIndex \subseteq s.byOrderIndex /\ done \in BOOLEAN
  /\ k = 0 => d = s
  /\ done /\ ~d.failed => Switched(d, s)
  /\ ~done => /\ ~d.failed /\ Cardinality(d.byOrderIndex) + k <= Cardinality(s.states)
              /\ k # 0 => /\ d.head \in d.byOrderIndex
                          /\ d.blockContext = NoBlock \/ s.head \notin d.byOrderIndex

LEMMA LoopStep ==
  ASSUME NEW s, Good(s), ~s.failed, NEW r, Forest(s, r), s.databaseHead = s.head,
         \A b \in s.states : Term(b) <= s.currentTerm, PendingIsOwn(s),
         NEW k \in Nat, NEW d, NEW done, InLoop(d, done, s, r, k), ~done
  PROVE  LET e == SwitchOnce(d, s.head) IN InLoop(e.db, e.done, s, r, k + 1)
<1> DEFINE e == SwitchOnce(d, s.head)
           f == e.db
<1>1. /\ Good(d) /\ SameBlock(d, s) /\ KeepsIrreversible(d, s) /\ Forest(d, r) /\ Indexed(d)
      /\ d.states = s.states /\ d.byOrderIndex \subseteq s.byOrderIndex
      /\ ~d.failed /\ Cardinality(d.byOrderIndex) + k <= Cardinality(s.states)
  BY DEF InLoop
<1>2. \/ s.head = d.head /\ d.databaseHead = d.head
      \/ d.blockContext = NoBlock \/ s.head \notin d.byOrderIndex
  BY DEF InLoop
<1>3. /\ \A b \in d.states : Term(b) <= d.currentTerm
      /\ PendingIsOwn(d) /\ s.head \in Block
  BY <1>1 DEF SameBlock, PendingIsOwn, Good, DbType
<1>4. /\ Forest(f, r) /\ Indexed(f) /\ e.done \in BOOLEAN
      /\ f.states = d.states /\ f.byOrderIndex \subseteq d.byOrderIndex
      /\ ~f.failed => f.head \in f.byOrderIndex
      /\ e.done /\ ~f.failed =>
           /\ f.databaseHead = f.head
           /\ IsBest(f, f.head) \/ (f.head = s.head /\ PendingIsBest(f, s.head))
      /\ ~e.done => /\ ~f.failed
                    /\ \E b \in d.byOrderIndex : b \notin f.byOrderIndex
                    /\ f.blockContext = NoBlock \/ s.head \notin f.byOrderIndex
  BY <1>1, <1>2, <1>3, SwitchOnceShape
<1>5. Good(f) /\ SameBlock(f, d) /\ KeepsIrreversible(f, d)
  BY <1>1, <1>3, SwitchOnceGood
<1> HIDE DEF e, f
<1>6. KeepsIrreversible(f, s) /\ SameBlock(f, s)
  <2>1. KeepsIrreversible(f, s)
    BY <1>1, <1>5, KeepsTrans
  <2> QED
    BY <1>1, <1>5, <2>1 DEF SameBlock
<1>7. ASSUME ~e.done
      PROVE  Cardinality(f.byOrderIndex) + (k + 1) <= Cardinality(s.states)
  <2>1. IsFiniteSet(d.byOrderIndex)
    <3>1. IsFiniteSet(d.states) /\ d.byOrderIndex \in SUBSET d.states
      BY <1>1, IndexedSubset DEF Forest
    <3> QED
      BY <3>1, FS_Subset
  <2>2. f.byOrderIndex \in SUBSET d.byOrderIndex /\ f.byOrderIndex # d.byOrderIndex
    BY <1>4, <1>7
  <2>3. /\ IsFiniteSet(f.byOrderIndex)
        /\ Cardinality(f.byOrderIndex) <= Cardinality(d.byOrderIndex)
        /\ Cardinality(f.byOrderIndex) # Cardinality(d.byOrderIndex)
    BY <2>1, <2>2, FS_Subset
  <2>4. /\ Cardinality(f.byOrderIndex) \in Nat /\ Cardinality(d.byOrderIndex) \in Nat
        /\ Cardinality(s.states) \in Nat
    BY <2>1, <2>3, FS_CardinalityType DEF Forest
  <2> QED
    BY <1>1, <2>3, <2>4
<1>8. k + 1 # 0
  OBVIOUS
<1>9. f.states = s.states /\ f.byOrderIndex \subseteq s.byOrderIndex
  BY <1>1, <1>4
<1>10. InLoop(f, e.done, s, r, k + 1)
  BY <1>4, <1>5, <1>6, <1>7, <1>8, <1>9 DEF InLoop, Switched
<1> QED
  BY <1>10 DEF e, f

\* Every iteration.
LEMMA LoopShape ==
  ASSUME NEW s, Good(s), ~s.failed, NEW r, Forest(s, r), Indexed(s), s.databaseHead = s.head,
         \A b \in s.states : Term(b) <= s.currentTerm, PendingIsOwn(s), NEW k \in Nat
  PROVE  InLoop(SwitchLoop(s)[k].db, SwitchLoop(s)[k].done, s, r, k)
<1> DEFINE g == SwitchLoop(s)
<1>1. /\ IsFiniteSet(s.states) /\ s.states # {} /\ s.byOrderIndex \in SUBSET s.states
      /\ Cardinality(s.states) \in Nat
  BY IndexedSubset, FS_CardinalityType DEF Forest
<1>2. /\ g[0] = [db |-> s, done |-> FALSE]
      /\ \A i \in Nat : i # 0 => g[i] = Iterate(g[i - 1], s.head)
  BY SwitchLoopSteps
<1> HIDE DEF g
<1>3. InLoop(s, FALSE, s, r, 0)
  <2>1. KeepsIrreversible(s, s)
    <3>1. s.commitIndex >= s.commitIndex
      BY IndexFacts DEF Good
    <3> QED
      BY <3>1, KeepsSameHead
  <2>2. Cardinality(s.byOrderIndex) <= Cardinality(s.states)
    BY <1>1, FS_Subset
  <2>3. Cardinality(s.byOrderIndex) + 0 <= Cardinality(s.states)
    <3>1. IsFiniteSet(s.byOrderIndex)
      BY <1>1, FS_Subset
    <3>2. Cardinality(s.byOrderIndex) \in Nat
      BY <3>1, FS_CardinalityType
    <3> QED
      BY <1>1, <2>2, <3>2
  <2> QED
    BY <2>1, <2>3 DEF InLoop, SameBlock
<1> DEFINE S == {i \in Nat : ~InLoop(g[i].db, g[i].done, s, r, i)}
<1>4. SUFFICES ASSUME S # {} PROVE FALSE
  BY DEF g
<1>5. PICK i \in S : \A l \in S : i <= l
  <2>1. S \in SUBSET Nat
    OBVIOUS
  <2> HIDE DEF S
  <2> QED
    BY <1>4, <2>1, NatMin
<1>6. i \in Nat /\ ~InLoop(g[i].db, g[i].done, s, r, i)
  BY <1>5
<1>7. i # 0
  <2>1. g[0].db = s /\ g[0].done = FALSE
    BY <1>2
  <2>2. InLoop(g[0].db, g[0].done, s, r, 0)
    BY <1>3, <2>1, Zenon
  <2> QED
    BY <1>6, <2>2, Zenon
<1>8. i - 1 \in Nat /\ ~(i <= i - 1) /\ (i - 1) + 1 = i
  BY <1>6, <1>7
<1>9. InLoop(g[i - 1].db, g[i - 1].done, s, r, i - 1)
  BY <1>5, <1>8
<1>10. g[i] = Iterate(g[i - 1], s.head)
  BY <1>2, <1>6, <1>7
<1>11. g[i - 1].done \in BOOLEAN
  BY <1>9 DEF InLoop
<1>12. CASE g[i - 1].done
  <2>1. g[i] = g[i - 1]
    BY <1>10, <1>12 DEF Iterate
  <2>2. InLoop(g[i - 1].db, g[i - 1].done, s, r, i)
    BY <1>7, <1>9, <1>12 DEF InLoop
  <2> QED
    BY <1>6, <2>1, <2>2
<1>13. CASE ~g[i - 1].done
  <2>1. g[i] = SwitchOnce(g[i - 1].db, s.head)
    BY <1>10, <1>13 DEF Iterate
  <2>2. InLoop(g[i].db, g[i].done, s, r, (i - 1) + 1)
    BY <1>8, <1>9, <1>13, <2>1, LoopStep
  <2> QED
    BY <1>6, <1>8, <2>2
<1> QED
  BY <1>12, <1>13, <1>11

\* async_switch_fork: unless it fails, the head is then the best viable block, or the
\* head is as before and the pending block is better than all of them.
LEMMA SwitchForkShape ==
  ASSUME NEW s, Good(s), ~s.failed, NEW r, Forest(s, r), Indexed(s), s.databaseHead = s.head,
         \A b \in s.states : Term(b) <= s.currentTerm, PendingIsOwn(s)
  PROVE  LET d == SwitchFork(s)
         IN  /\ Good(d) /\ SameBlock(d, s) /\ KeepsIrreversible(d, s)
             /\ Forest(d, r) /\ Indexed(d) /\ d.states = s.states
             /\ ~d.failed => Switched(d, s)
<1> DEFINE n == Cardinality(s.states)
           last == SwitchLoop(s)[n]
           d == last.db
<1>1. /\ IsFiniteSet(s.states) /\ s.states # {} /\ s.byOrderIndex \in SUBSET s.states
      /\ n \in Nat
  BY IndexedSubset, FS_CardinalityType DEF Forest
<1>2. n # 0
  BY <1>1, FS_EmptySet
<1>3. InLoop(d, last.done, s, r, n)
  BY <1>1, LoopShape
<1>4. SwitchFork(s) = d
  BY DEF SwitchFork
<1> HIDE DEF n, last
<1>5. last.done
  <2>1. SUFFICES ASSUME ~last.done PROVE FALSE
    BY <1>3 DEF InLoop
  <2>2. /\ d.head \in d.byOrderIndex /\ Cardinality(d.byOrderIndex) + n <= n
        /\ d.byOrderIndex \in SUBSET s.byOrderIndex
    BY <1>2, <1>3, <2>1 DEF InLoop, n
  <2>3. IsFiniteSet(d.byOrderIndex)
    BY <1>1, <2>2, FS_Subset
  <2>4. Cardinality(d.byOrderIndex) \in Nat /\ Cardinality(d.byOrderIndex) # 0
    BY <2>2, <2>3, FS_CardinalityType, FS_EmptySet
  <2> QED
    BY <1>1, <2>2, <2>4
<1> HIDE DEF d
<1> QED
  BY <1>3, <1>4, <1>5 DEF InLoop

-----------------------------------------------------------------------------
(***************************************************************************)
(* Garbage collection, block production and restarts.                      *)
(***************************************************************************)
\* The call changes neither the tree nor the head.
SameData(d, s) ==
  SameTree(d, s) /\ d.revisions = s.revisions /\ d.databaseHead = s.databaseHead

\* start_block, abort_block and setTerm do not.
LEMMA SameDataFacts ==
  ASSUME NEW s, DbType(s), NEW term
  PROVE  /\ SameData(StartBlock(s, term), s)
         /\ SameData(AbortBlock(s), s)
         /\ SameData([s EXCEPT !.currentTerm = term], s)
  BY DEF DbType, SameData, SameTree, StartBlock, AbortBlock

LEMMA SameDataShape ==
  ASSUME NEW s, NEW d, SameData(d, s)
  PROVE  /\ \A r : Forest(s, r) => Forest(d, r)
         /\ Indexed(s) => Indexed(d)
<1>1. /\ d.states = s.states /\ d.invalid = s.invalid /\ d.revisions = s.revisions
      /\ d.commitIndex = s.commitIndex /\ d.byOrderIndex = s.byOrderIndex
  BY DEF SameData, SameTree
<1>2. \A r : Forest(s, r) => Forest(d, r)
  BY <1>1 DEF Forest
<1>3. Indexed(s) => Indexed(d)
  BY <1>1 DEF Indexed, Viable
<1> QED
  BY <1>2, <1>3

\* A block with a revision, as the head and its ancestors down to commitIndex.
LEMMA HeadHasRevision ==
  ASSUME NEW s, Good(s), NEW r, Forest(s, r)
  PROVE  /\ s.head \in s.revisions /\ s.head \in s.states /\ AllValid(s.head)
         /\ s.databaseHead \in s.revisions /\ s.databaseHead \in s.states
<1>1. /\ s.head \in Block /\ Len(s.head) \in Nat /\ s.commitIndex \in Nat
      /\ s.commitIndex \in 1..Len(s.head)
      /\ s.databaseHead \in Block /\ Len(s.databaseHead) \in Nat
      /\ IsAncestor(s.head, s.databaseHead)
  BY IndexFacts, BlockFacts DEF Good, DbType, DurableHead
<1>2. Len(s.head) <= Len(s.databaseHead)
  BY <1>1 DEF IsAncestor
<1>3. /\ Len(s.head) \in s.commitIndex..Len(s.head)
      /\ Len(s.databaseHead) \in s.commitIndex..Len(s.databaseHead)
  BY <1>1, <1>2
<1>4. Ancestor(s.databaseHead, Len(s.databaseHead)) \in s.revisions
  BY <1>3 DEF Good, DurableHead
<1>5. Ancestor(s.head, Len(s.head)) \in s.revisions
  BY <1>3, ChainHasRevisions
<1>6. s.head \in s.revisions /\ s.databaseHead \in s.revisions
  BY <1>1, <1>4, <1>5, AncestorSelf
<1> QED
  BY <1>6 DEF Forest

\* gc leaves the tree from the last irreversible block on.
LEMMA GcShape ==
  ASSUME NEW s, Good(s), NEW r, Forest(s, r), Indexed(s), s.head \in s.byOrderIndex
  PROVE  LET d == Gc(s)
         IN  /\ \E x \in d.states : Forest(d, x)
             /\ Indexed(d) /\ d.head \in d.byOrderIndex
             /\ d.states \subseteq s.states /\ d.byOrderIndex \subseteq s.byOrderIndex
             /\ d.databaseHead = s.databaseHead
<1> DEFINE x == s.byBlocknumIndex[s.commitIndex]
           kept == {b \in s.states : IsAncestor(x, b)}
           revs == RemoveRevisions(s.revisions, x)
           index == [i \in {j \in DOMAIN s.byBlocknumIndex : j >= s.commitIndex} |->
                       s.byBlocknumIndex[i]]
           d == Gc(s)
<1>1. /\ DbType(s) /\ s.head \in Block /\ s.commitIndex \in Nat /\ Len(s.head) \in Nat
      /\ s.commitIndex \in 1..Len(s.head) /\ x = Ancestor(s.head, s.commitIndex)
  BY IndexFacts, BlockFacts DEF Good, DbType
<1>2. /\ s.states \subseteq Block /\ Len(r) \in Nat /\ Len(r) >= 1 /\ Len(r) <= s.commitIndex
      /\ s.head \in s.states
  BY <1>1, ForestFacts, IndexedSubset DEF Forest
<1>3. x \in Block /\ Len(x) = s.commitIndex /\ IsAncestor(x, s.head)
  BY <1>1, AncestorFacts, IsAncestorOfBlock
<1>4. x \in s.states
  <2>1. s.commitIndex \in Len(r)..Len(s.head)
    BY <1>1, <1>2
  <2> QED
    BY <1>1, <1>2, <2>1, ForestFacts
<1>5. AllValid(x)
  BY <1>1, <1>3, HeadHasRevision, AncestorValid
<1>6. d = [s EXCEPT !.states = kept, !.invalid = s.invalid \cap kept, !.revisions = revs,
                    !.byOrderIndex = s.byOrderIndex \cap kept, !.byBlocknumIndex = index]
  BY DEF Gc
<1> HIDE DEF x
<1>7. revs \subseteq s.revisions \cap kept
  BY DEF RemoveRevisions, Forest
<1> HIDE DEF revs, kept, index
<1>8. /\ d.states = kept /\ d.invalid = s.invalid \cap kept /\ d.revisions = revs
      /\ d.byOrderIndex = s.byOrderIndex \cap kept /\ d.commitIndex = s.commitIndex
      /\ d.head = s.head /\ d.databaseHead = s.databaseHead
  BY <1>1, <1>6 DEF DbType
<1> HIDE DEF d
<1>9. x \in kept /\ s.head \in kept /\ kept \subseteq s.states
  BY <1>2, <1>3, <1>4, IsAncestorRefl DEF kept
<1>10. ASSUME NEW b \in kept, NEW i \in Len(x)..Len(b)
       PROVE  Ancestor(b, i) \in kept
  <2>1. b \in s.states /\ IsAncestor(x, b) /\ b \in Block /\ Len(b) \in Nat
    BY <1>2, BlockFacts DEF kept
  <2>2. i \in Len(r)..Len(b) /\ Len(x) <= i
    BY <1>1, <1>2, <1>3, <2>1
  <2>3. /\ Ancestor(b, i) \in s.states /\ Ancestor(b, i) \in Block
        /\ Len(Ancestor(b, i)) = i /\ IsAncestor(Ancestor(b, i), b)
    BY <1>1, <2>1, <2>2, ForestFacts
  <2>4. IsAncestor(x, Ancestor(b, i))
    BY <1>3, <2>1, <2>2, <2>3, ComparableAncestors
  <2> QED
    BY <2>3, <2>4 DEF kept
<1>11. Forest(d, x)
  <2>1. IsFiniteSet(kept)
    BY <1>9, FS_Subset DEF Forest
  <2>2. /\ IsFiniteSet(d.states) /\ d.revisions \subseteq d.states /\ d.invalid \subseteq d.states
        /\ x \in d.states /\ Len(x) <= d.commitIndex
    BY <1>1, <1>3, <1>7, <1>8, <1>9, <2>1
  <2>3. \A b \in d.states :
          IsAncestor(x, b) /\ \A i \in Len(x)..Len(b) : Ancestor(b, i) \in d.states
    <3>1. \A b \in kept : IsAncestor(x, b)
      BY DEF kept
    <3> QED
      BY <1>8, <1>10, <3>1
  <2>4. \A a \in d.invalid, b \in d.states : IsAncestor(a, b) => b \in d.invalid
    BY <1>8, <1>9 DEF Forest
  <2>5. \A b \in d.states :
          TermsGrow(b) /\ ClaimsAreValid(b) /\ (LeaderOf[Term(b)] = Self => AllValid(b))
    BY <1>8, <1>9 DEF Forest
  <2>6. (\A b \in d.revisions : AllValid(b)) /\ (\A b \in d.invalid : ~AllValid(b))
    BY <1>7, <1>8 DEF Forest
  <2> QED
    BY <2>2, <2>3, <2>4, <2>5, <2>6 DEF Forest
<1>12. PICK q \in s.states : Viable(s, q)
  BY DEF Indexed
<1>13. /\ q \in Block /\ AllValid(q) /\ IsAncestor(q, s.head)
       /\ s.byOrderIndex = {b \in s.states \ s.invalid : IsAncestor(q, b)}
  BY <1>1, <1>12, ViableFacts DEF Viable
<1>14. Indexed(d)
  <2>1. CASE Len(x) <= Len(q)
    <3>1. IsAncestor(x, q)
      BY <1>1, <1>3, <1>13, <2>1, ComparableAncestors
    <3>2. q \in d.states
      BY <1>8, <3>1 DEF kept
    <3>3. d.byOrderIndex = {b \in d.states \ d.invalid : IsAncestor(q, b)}
      BY <1>8, <1>9, <1>13
    <3> QED
      BY <1>13, <3>2, <3>3 DEF Indexed, Viable
  <2>2. CASE ~(Len(x) <= Len(q))
    <3>1. IsAncestor(q, x)
      <4>1. Len(q) <= Len(x)
        BY <1>3, <1>13, <2>2, BlockFacts
      <4> QED
        BY <1>1, <1>3, <1>13, <4>1, ComparableAncestors
    <3>2. \A b \in kept : IsAncestor(x, b) /\ IsAncestor(q, b)
      BY <1>2, <1>3, <1>13, <3>1, IsAncestorTrans DEF kept
    <3>3. d.byOrderIndex = {b \in d.states \ d.invalid : IsAncestor(x, b)}
      BY <1>8, <1>9, <1>13, <3>2
    <3> QED
      BY <1>5, <1>8, <1>9, <3>3 DEF Indexed, Viable
  <2> QED
    BY <2>1, <2>2
<1>15. \E y \in d.states : Forest(d, y)
  BY <1>8, <1>9, <1>11
<1> QED
  BY <1>8, <1>9, <1>14, <1>15 DEF d

\* finish_block adds a block that executes to the tree, the new head.
LEMMA FinishBlockShape ==
  ASSUME NEW s, Good(s), NEW r, Forest(s, r), Indexed(s), s.head \in s.byOrderIndex,
         PendingBuildsOnHead(s), s.blockContext # NoBlock, PendingIsOwn(s),
         \A b \in s.states : Term(b) <= s.currentTerm, NEW producer \in Nat
  PROVE  LET d == FinishBlock(s, producer)
             b == FinishedBlock(s, producer)
         IN  /\ Forest(d, r) /\ Indexed(d) /\ b \in Block /\ Term(b) = s.currentTerm
             /\ d.states = s.states \cup {b} /\ d.byOrderIndex = s.byOrderIndex \cup {b}
             /\ d.databaseHead = d.head
<1> DEFINE d == FinishBlock(s, producer)
           b == FinishedBlock(s, producer)
<1>1. /\ b \in Block /\ Len(b) = Len(s.head) + 1 /\ IsAncestor(s.head, b)
      /\ b[Len(b)].valid
      /\ d.states = s.states \cup {b} /\ d.invalid = s.invalid
      /\ d.byOrderIndex = s.byOrderIndex \cup {b} /\ d.revisions = s.revisions \cup {b}
      /\ d.head = b /\ d.databaseHead = b /\ d.commitIndex = s.commitIndex
  BY FinishedBlockFacts
<1>2. Term(b) = s.currentTerm
  <2>1. Term(b) = s.blockContext.term
    BY FinishBlockGood
  <2> QED
    BY <2>1 DEF PendingIsOwn
<1> HIDE DEF d, b
<1>3. /\ DbType(s) /\ s.head \in Block /\ Len(s.head) \in Nat /\ Len(s.head) >= 1
      /\ s.states \subseteq Block /\ r \in Block /\ Len(r) \in Nat /\ Len(r) >= 1
      /\ s.head \in s.states /\ AllValid(s.head)
  BY ForestFacts, BlockFacts, HeadHasRevision DEF Good, DbType
<1>4. AllValid(b)
  <2>1. ASSUME NEW i \in 1..Len(b) PROVE b[i].valid
    <3>1. CASE i = Len(b)
      BY <1>1, <3>1
    <3>2. CASE i # Len(b)
      <4>1. i \in 1..Len(s.head)
        BY <1>1, <1>3, <3>2
      <4>2. s.head[i] = b[i]
        BY <1>1, <1>3, <4>1, AncestorAgrees
      <4> QED
        BY <1>3, <4>1, <4>2 DEF AllValid
    <3> QED
      BY <3>1, <3>2
  <2> QED
    BY <2>1 DEF AllValid
<1>5. TermsGrow(b)
  <2>1. TermsGrow(s.head) /\ Term(s.head) <= Term(b)
    BY <1>2, <1>3 DEF Forest
  <2> QED
    BY <1>1, <1>3, <2>1, NextTerm
<1>6. ClaimsAreValid(b)
  <2>1. CommitNum(b) \in 1..Len(b) /\ Len(b) \in Nat
    BY <1>1, BlockFacts
  <2>2. \A i \in 1..CommitNum(b) : i \in 1..Len(b)
    BY <2>1
  <2> QED
    BY <1>4, <2>2 DEF ClaimsAreValid, AllValid
<1>7. IsAncestor(r, b)
  <2>1. IsAncestor(r, s.head)
    BY <1>3 DEF Forest
  <2> QED
    BY <1>1, <1>3, <2>1, IsAncestorTrans
<1>8. ASSUME NEW i \in Len(r)..Len(b) PROVE Ancestor(b, i) \in d.states
  <2>1. CASE i = Len(b)
    BY <1>1, <2>1, AncestorSelf
  <2>2. CASE i # Len(b)
    <3>1. i \in Len(r)..Len(s.head) /\ i \in 1..Len(s.head)
      BY <1>1, <1>3, <2>2
    <3>2. Ancestor(s.head, i) = Ancestor(b, i)
      BY <1>1, <1>3, <3>1, AncestorAgrees
    <3>3. Ancestor(s.head, i) \in s.states
      BY <1>3, <3>1, ForestFacts
    <3> QED
      BY <1>1, <3>2, <3>3
  <2> QED
    BY <2>1, <2>2
<1>9. ASSUME NEW a \in s.invalid PROVE ~IsAncestor(a, b)
  <2>1. a \in Block /\ ~AllValid(a)
    BY <1>3 DEF Forest
  <2> QED
    BY <1>1, <1>4, <2>1, AncestorValid
<1>10. b \notin s.invalid
  BY <1>4 DEF Forest
<1>11. Forest(d, r)
  <2>1. /\ IsFiniteSet(d.states) /\ d.revisions \subseteq d.states /\ d.invalid \subseteq d.states
        /\ r \in d.states /\ Len(r) <= d.commitIndex
    BY <1>1, FS_AddElement DEF Forest
  <2>2. \A c \in d.states :
          IsAncestor(r, c) /\ \A i \in Len(r)..Len(c) : Ancestor(c, i) \in d.states
    BY <1>1, <1>7, <1>8 DEF Forest
  <2>3. \A a \in d.invalid, c \in d.states : IsAncestor(a, c) => c \in d.invalid
    BY <1>1, <1>9 DEF Forest
  <2>4. \A c \in d.states :
          TermsGrow(c) /\ ClaimsAreValid(c) /\ (LeaderOf[Term(c)] = Self => AllValid(c))
    BY <1>1, <1>4, <1>5, <1>6 DEF Forest
  <2>5. (\A c \in d.revisions : AllValid(c)) /\ (\A c \in d.invalid : ~AllValid(c))
    BY <1>1, <1>4 DEF Forest
  <2> QED
    BY <2>1, <2>2, <2>3, <2>4, <2>5 DEF Forest
<1>12. PICK q \in s.states : Viable(s, q)
  BY DEF Indexed
<1>13. /\ q \in Block /\ AllValid(q) /\ IsAncestor(q, s.head)
       /\ s.byOrderIndex = {c \in s.states \ s.invalid : IsAncestor(q, c)}
  BY <1>3, <1>12, ViableFacts DEF Viable
<1>14. IsAncestor(q, b)
  BY <1>1, <1>3, <1>13, IsAncestorTrans
<1>15. Indexed(d)
  <2>1. d.byOrderIndex = {c \in d.states \ d.invalid : IsAncestor(q, c)}
    BY <1>1, <1>10, <1>13, <1>14
  <2> QED
    BY <1>1, <1>13, <2>1 DEF Indexed, Viable
<1> QED
  BY <1>1, <1>2, <1>11, <1>15 DEF d, b

\* A database with one chain, from x to its head, all of which executes.
LEMMA ChainShape ==
  ASSUME NEW d, NEW h \in Block, NEW low \in 1..Len(h), AllValid(h), TermsGrow(h),
         d.states = {Ancestor(h, i) : i \in low..Len(h)}, d.revisions \subseteq d.states,
         d.byOrderIndex = d.states, d.invalid = {}, d.commitIndex = low, d.head = h
  PROVE  /\ \E x \in d.states : Forest(d, x)
         /\ Indexed(d) /\ d.head \in d.byOrderIndex
         /\ \A b \in d.states : Term(b) <= Term(h)
         /\ IsBest(d, h)
<1> DEFINE x == Ancestor(h, low)
<1>1. Len(h) \in Nat /\ Len(h) >= 1 /\ low \in low..Len(h) /\ Len(h) \in low..Len(h)
      /\ \A i \in low..Len(h) : i \in 1..Len(h) /\ low \in 1..i
  BY BlockFacts
<1>2. x \in Block /\ Len(x) = low /\ x \in d.states
  BY <1>1, AncestorFacts
<1>3. h \in d.states
  BY <1>1, AncestorSelf
<1>4. ASSUME NEW i \in low..Len(h)
      PROVE  LET b == Ancestor(h, i)
             IN  /\ b \in Block /\ Len(b) = i /\ IsAncestor(b, h) /\ IsAncestor(x, b)
                 /\ AllValid(b) /\ TermsGrow(b)
                 /\ \A j \in low..i : Ancestor(b, j) = Ancestor(h, j) /\ j \in low..Len(h)
  <2> DEFINE b == Ancestor(h, i)
  <2>1. i \in 1..Len(h) /\ low \in 1..i
    BY <1>1
  <2>2. /\ b \in Block /\ Len(b) = i /\ IsAncestor(b, h) /\ IsAncestor(x, b)
        /\ \A j \in 1..i : b[j] = h[j]
    BY <2>1, AncestorFacts, IsAncestorOfBlock, AncestorsAreOrdered
  <2>3. \A j \in low..i : Ancestor(b, j) = Ancestor(h, j) /\ j \in low..Len(h)
    <3>1. \A j \in low..i : j \in 1..i /\ j \in low..Len(h)
      BY <1>1, <2>1
    <3> QED
      BY <2>1, <3>1, AncestorOfAncestor
  <2> HIDE DEF b
  <2>4. AllValid(b)
    BY <2>2, AncestorValid
  <2>5. TermsGrow(b)
    <3>1. \A j \in 1..i : j \in 1..Len(h)
      BY <1>1, <2>1
    <3> QED
      BY <2>2, <3>1 DEF TermsGrow
  <2> QED
    BY <2>2, <2>3, <2>4, <2>5 DEF b
<1>5. ASSUME NEW b \in d.states
      PROVE  /\ b \in Block /\ IsAncestor(b, h) /\ IsAncestor(x, b) /\ AllValid(b) /\ TermsGrow(b)
             /\ \A j \in low..Len(b) : Ancestor(b, j) \in d.states
  <2>1. PICK i \in low..Len(h) : b = Ancestor(h, i)
    BY <1>5
  <2> QED
    BY <1>4, <2>1
<1> HIDE DEF x
<1>6. IsFiniteSet(d.states)
  <2> DEFINE f == [i \in low..Len(h) |-> Ancestor(h, i)]
  <2>1. f \in Surjection(low..Len(h), d.states)
    BY DEF Surjection
  <2>2. IsFiniteSet(low..Len(h))
    BY <1>1, FS_Interval
  <2> HIDE DEF f
  <2> QED
    BY <2>1, <2>2, FS_Surjection
<1>7. \A b \in d.states : ClaimsAreValid(b)
  <2>1. ASSUME NEW b \in d.states PROVE ClaimsAreValid(b)
    <3>1. CommitNum(b) \in 1..Len(b) /\ Len(b) \in Nat /\ AllValid(b)
      BY <1>5, BlockFacts
    <3>2. \A i \in 1..CommitNum(b) : i \in 1..Len(b)
      BY <3>1
    <3> QED
      BY <3>1, <3>2 DEF ClaimsAreValid, AllValid
  <2> QED
    BY <2>1
<1>8. Forest(d, x)
  <2>1. /\ x \in d.states /\ Len(x) <= d.commitIndex
        /\ d.invalid \subseteq d.states
    BY <1>1, <1>2
  <2>2. \A b \in d.states :
          IsAncestor(x, b) /\ \A i \in Len(x)..Len(b) : Ancestor(b, i) \in d.states
    BY <1>2, <1>5
  <2> QED
    BY <1>5, <1>6, <1>7, <2>1, <2>2 DEF Forest
<1>9. Viable(d, x)
  <2>1. d.byOrderIndex = {b \in d.states \ d.invalid : IsAncestor(x, b)}
    BY <1>5
  <2> QED
    BY <1>2, <1>5, <2>1 DEF Viable
<1>10. ASSUME NEW b \in d.states PROVE Term(b) <= Term(h) /\ (b = h \/ OrderLess(b, h))
  <2>1. b \in Block /\ IsAncestor(b, h)
    BY <1>5
  <2> QED
    BY <2>1, AncestorTerm, DescendantIsBetter
<1> QED
  BY <1>2, <1>3, <1>8, <1>9, <1>10 DEF Indexed, IsBest

\* A restart.
LEMMA ReloadShape ==
  ASSUME NEW s, Good(s), NEW r, Forest(s, r)
  PROVE  LET d == Reload(s)
         IN  /\ \E x \in d.states : Forest(d, x)
             /\ Indexed(d) /\ d.head \in d.byOrderIndex
             /\ \A b \in d.states : Term(b) <= d.currentTerm
             /\ IsBest(d, d.head)
             /\ d.head = s.databaseHead /\ d.databaseHead = d.head
             /\ d.commitIndex <= s.commitIndex
             /\ \A i \in s.commitIndex..Len(d.head) : Ancestor(d.head, i) \in d.states
<1> DEFINE h == s.databaseHead
           d == Reload(s)
<1>1. h \in Block /\ h \in s.revisions /\ h \in s.states /\ Len(h) \in Nat
      /\ s.commitIndex \in Nat
  BY HeadHasRevision, BlockFacts, IndexFacts DEF Good, DbType
<1>2. AllValid(h) /\ TermsGrow(h)
  BY <1>1 DEF Forest
<1>3. PICK low \in 1..Len(h) :
        /\ low <= s.commitIndex
        /\ d = [NewDb(h) EXCEPT
              !.states = {Ancestor(h, i) : i \in low..Len(h)},
              !.revisions = {Ancestor(h, i) : i \in low..Len(h)},
              !.byOrderIndex = {Ancestor(h, i) : i \in low..Len(h)},
              !.byBlocknumIndex = [i \in low..Len(h) |-> Ancestor(h, i)],
              !.commitIndex = low]
  BY ReloadFields
<1> DEFINE loaded == {Ancestor(h, i) : i \in low..Len(h)}
<1>4. d = [NewDb(h) EXCEPT !.states = loaded, !.revisions = loaded, !.byOrderIndex = loaded,
              !.byBlocknumIndex = [i \in low..Len(h) |-> Ancestor(h, i)],
              !.commitIndex = low]
  BY <1>3
<1>5. \A i \in s.commitIndex..Len(h) : Ancestor(h, i) \in loaded
  <2>1. \A i \in s.commitIndex..Len(h) : i \in low..Len(h)
    BY <1>1, <1>3
  <2> QED
    BY <2>1
<1> HIDE DEF d, loaded
<1>6. /\ d.states = loaded /\ d.revisions = loaded /\ d.byOrderIndex = loaded
      /\ d.invalid = {} /\ d.commitIndex = low /\ d.head = h /\ d.databaseHead = h
      /\ d.currentTerm = Term(h)
  BY <1>4 DEF NewDb
<1>7. /\ d.states = {Ancestor(h, i) : i \in low..Len(h)} /\ d.revisions \subseteq d.states
      /\ d.byOrderIndex = d.states
  BY <1>6 DEF loaded
<1>8. /\ \E x \in d.states : Forest(d, x)
      /\ Indexed(d) /\ d.head \in d.byOrderIndex
      /\ \A b \in d.states : Term(b) <= Term(h)
      /\ IsBest(d, h)
  BY <1>1, <1>2, <1>6, <1>7, ChainShape
<1>9. /\ \A b \in d.states : Term(b) <= d.currentTerm
      /\ IsBest(d, d.head) /\ d.head = s.databaseHead /\ d.databaseHead = d.head
      /\ d.commitIndex <= s.commitIndex
  BY <1>3, <1>6, <1>8
<1>10. \A i \in s.commitIndex..Len(d.head) : Ancestor(d.head, i) \in d.states
  BY <1>5, <1>6
<1>11. (\E x \in d.states : Forest(d, x)) /\ Indexed(d) /\ d.head \in d.byOrderIndex
  BY <1>8
<1> HIDE DEF h
<1> QED
  BY <1>9, <1>10, <1>11 DEF d

\* The first block.
LEMMA FirstBlockFacts ==
  FirstBlock \in Block /\ Len(FirstBlock) = 1 /\ AllValid(FirstBlock) /\ TermsGrow(FirstBlock)
<1> DEFINE h == [term |-> 0, producer |-> LeaderOf[0], commitNum |-> 1, valid |-> TRUE]
<1>1. LeaderOf[0] \in Nat
  <2>1. 0 \in 0..MaxTerm /\ LeaderOf \in [0..MaxTerm -> Nat]
    BY ForkDbNodeAssumption
  <2> QED
    BY <2>1
<1>2. h \in Header(Nat, Nat, Nat) /\ h.commitNum = 1 /\ h.valid /\ h.term = 0
  BY <1>1 DEF Header
<1>3. FirstBlock = <<h>>
  BY DEF FirstBlock
<1> HIDE DEF h
<1>4. <<h>> \in Seq(Header(Nat, Nat, Nat)) /\ <<h>> # <<>> /\ Len(<<h>>) = 1 /\ <<h>>[1] = h
  BY <1>2
<1>5. \A i \in 1..Len(<<h>>) : i = 1
  BY <1>4
<1>6. <<h>> \in Block
  BY <1>2, <1>4, <1>5 DEF Block
<1> QED
  BY <1>2, <1>3, <1>4, <1>5, <1>6 DEF AllValid, TermsGrow

-----------------------------------------------------------------------------
(***************************************************************************)
(* The invariant.                                                          *)
(***************************************************************************)
\* Whenever async_switch_fork may be called.
Ready(s) ==
  /\ Good(s) /\ Indexed(s) /\ \E r \in s.states : Forest(s, r)
  /\ ~s.failed => /\ s.databaseHead = s.head
                  /\ PendingBuildsOnHead(s) /\ PendingIsOwn(s)
                  /\ \A b \in s.states : Term(b) <= s.currentTerm

\* After every handler; NoBetter except when production has just stopped.
Settled(s) == ~s.failed => s.head \in s.byOrderIndex

NoBetter(s) ==
  ~s.failed => \A b \in s.byOrderIndex :
                 b = s.head \/ OrderLess(b, s.head) \/ KeepsPending(s, s.head, b)

Inv ==
  /\ Ready(db) /\ Settled(db) /\ (~stopped => NoBetter(db))
  /\ restarts \in Nat

-----------------------------------------------------------------------------
LEMMA KeepsSelf ==
  ASSUME NEW s, Good(s)
  PROVE  KeepsIrreversible(s, s)
<1>1. s.commitIndex >= s.commitIndex
  BY IndexFacts DEF Good
<1> QED
  BY <1>1, KeepsSameHead

LEMMA KeepsSameData ==
  ASSUME NEW s, NEW d, Good(s), SameData(d, s)
  PROVE  KeepsIrreversible(d, s)
<1>1. d.head = s.head /\ d.commitIndex = s.commitIndex /\ s.commitIndex \in Nat
  BY IndexFacts DEF Good, SameData, SameTree
<1>2. d.commitIndex >= s.commitIndex
  BY <1>1
<1> QED
  BY <1>1, <1>2, KeepsSameHead

LEMMA StartLeaderShape ==
  ASSUME NEW s, Good(s), LeaderOf[s.currentTerm] = Self
  PROVE  LET d == StartLeader(s)
         IN  /\ Good(d) /\ SameData(d, s) /\ d.currentTerm = s.currentTerm
             /\ PendingBuildsOnHead(d) /\ PendingIsOwn(d) /\ d.blockContext # NoBlock
             /\ d.blockContext.term = s.currentTerm /\ d.blockContext.num = Len(s.head) + 1
<1> DEFINE d == StartLeader(s)
<1>1. DbType(s) /\ s.currentTerm \in Nat
  BY DEF Good, DbType
<1>2. d = StartBlock(s, s.currentTerm)
  BY DEF StartLeader
<1>3. /\ Good(d) /\ PendingBuildsOnHead(d) /\ d.blockContext # NoBlock
      /\ d.blockContext.term = s.currentTerm /\ d.currentTerm = s.currentTerm
      /\ d.head = s.head
  BY <1>1, <1>2, StartBlockGood
<1>4. SameData(d, s)
  BY <1>1, <1>2, SameDataFacts
<1> HIDE DEF d
<1>5. PendingIsOwn(d)
  BY <1>3 DEF PendingIsOwn
<1>6. d.blockContext.num = Len(s.head) + 1
  BY <1>3 DEF PendingBuildsOnHead, BlockNum
<1> QED
  BY <1>3, <1>4, <1>5, <1>6 DEF d

LEMMA StopLeaderShape ==
  ASSUME NEW s, Good(s)
  PROVE  LET d == StopLeader(s)
         IN  /\ Good(d) /\ SameData(d, s) /\ d.currentTerm = s.currentTerm
             /\ d.blockContext = NoBlock
<1>1. DbType(s)
  BY DEF Good
<1>2. CASE s.blockContext = NoBlock
  BY <1>2 DEF StopLeader, SameData, SameTree
<1>3. CASE s.blockContext # NoBlock
  <2>1. StopLeader(s) = AbortBlock(s)
    BY <1>3 DEF StopLeader
  <2> QED
    BY <1>1, <2>1, AbortBlockGood, SameDataFacts
<1> QED
  BY <1>2, <1>3

LEMMA SameDataTrans ==
  ASSUME NEW a, NEW b, NEW c, SameData(b, a), SameData(c, b)
  PROVE  SameData(c, a)
  BY DEF SameData, SameTree

LEMMA ResetLeaderShape ==
  ASSUME NEW s, Good(s), PendingIsOwn(s)
  PROVE  LET d == ResetLeader(s)
         IN  /\ Good(d) /\ SameData(d, s) /\ d.currentTerm = s.currentTerm
             /\ PendingBuildsOnHead(d) /\ PendingIsOwn(d)
<1>1. CASE s.blockContext = NoBlock
  BY <1>1 DEF ResetLeader, SameData, SameTree, PendingBuildsOnHead
<1>2. CASE s.blockContext # NoBlock
  <2> DEFINE t == StopLeader(s)
             d == StartLeader(t)
  <2>1. ResetLeader(s) = d
    BY <1>2 DEF ResetLeader
  <2>2. Good(t) /\ SameData(t, s) /\ t.currentTerm = s.currentTerm
    BY StopLeaderShape
  <2>3. LeaderOf[t.currentTerm] = Self
    BY <1>2, <2>2 DEF PendingIsOwn
  <2> HIDE DEF t
  <2>4. /\ Good(d) /\ SameData(d, t) /\ d.currentTerm = t.currentTerm
        /\ PendingBuildsOnHead(d) /\ PendingIsOwn(d)
    BY <2>2, <2>3, StartLeaderShape
  <2> HIDE DEF d
  <2>5. SameData(d, s)
    BY <2>2, <2>4, SameDataTrans
  <2> QED
    BY <2>1, <2>2, <2>4, <2>5
<1> QED
  BY <1>1, <1>2

\* A call that changes neither the tree nor the head, and leaves no stale pending block.
LEMMA SameDataReady ==
  ASSUME NEW s, NEW d, Ready(s), SameData(d, s), Good(d), d.currentTerm >= s.currentTerm,
         PendingBuildsOnHead(d), PendingIsOwn(d)
  PROVE  Ready(d) /\ (Settled(s) => Settled(d)) /\ KeepsIrreversible(d, s)
<1>1. /\ d.states = s.states /\ d.failed = s.failed /\ d.head = s.head
      /\ d.databaseHead = s.databaseHead /\ d.byOrderIndex = s.byOrderIndex
  BY DEF SameData, SameTree
<1>2. Indexed(d) /\ \E r \in d.states : Forest(d, r)
  BY <1>1, SameDataShape DEF Ready
<1>3. ASSUME ~s.failed PROVE \A b \in d.states : Term(b) <= d.currentTerm
  <2>1. ASSUME NEW b \in d.states PROVE Term(b) <= d.currentTerm
    <3>1. b \in Block /\ Term(b) \in Nat /\ s.currentTerm \in Nat /\ d.currentTerm \in Nat
          /\ Term(b) <= s.currentTerm
      BY <1>1, <1>3, BlockFacts DEF Ready, Good, DbType
    <3> QED
      BY <3>1
  <2> QED
    BY <2>1
<1>4. Ready(d)
  BY <1>1, <1>2, <1>3 DEF Ready
<1>5. KeepsIrreversible(d, s)
  BY KeepsSameData DEF Ready
<1> QED
  BY <1>1, <1>4, <1>5 DEF Settled

\* Garbage collection.
LEMMA GcReady ==
  ASSUME NEW s, Ready(s), ~s.failed, s.head \in s.byOrderIndex
  PROVE  LET d == Gc(s)
         IN  /\ Ready(d) /\ Settled(d) /\ (NoBetter(s) => NoBetter(d))
             /\ KeepsIrreversible(d, s) /\ d.currentTerm = s.currentTerm
<1> DEFINE d == Gc(s)
<1>1. Good(s) /\ Indexed(s)
  BY DEF Ready
<1>2. PICK r \in s.states : Forest(s, r)
  BY DEF Ready
<1>3. /\ Good(d) /\ SameBlock(d, s)
      /\ d.head = s.head /\ d.commitIndex = s.commitIndex /\ d.failed = s.failed
  BY <1>1, GcGood
<1>4. /\ \E x \in d.states : Forest(d, x)
      /\ Indexed(d) /\ d.head \in d.byOrderIndex
      /\ d.states \subseteq s.states /\ d.byOrderIndex \subseteq s.byOrderIndex
      /\ d.databaseHead = s.databaseHead
  BY <1>1, <1>2, GcShape
<1> HIDE DEF d
<1>5. d.blockContext = s.blockContext /\ d.currentTerm = s.currentTerm
  BY <1>3 DEF SameBlock
<1>6. PendingBuildsOnHead(d) /\ PendingIsOwn(d)
  BY <1>3, <1>5 DEF Ready, PendingBuildsOnHead, PendingIsOwn
<1>7. Ready(d)
  BY <1>3, <1>4, <1>5, <1>6 DEF Ready
<1>8. NoBetter(s) => NoBetter(d)
  <2>1. SUFFICES ASSUME NoBetter(s), NEW b \in d.byOrderIndex
                 PROVE  b = d.head \/ OrderLess(b, d.head) \/ KeepsPending(d, d.head, b)
    BY DEF NoBetter
  <2>2. b = s.head \/ OrderLess(b, s.head) \/ KeepsPending(s, s.head, b)
    BY <1>4, <2>1 DEF NoBetter
  <2>3. KeepsPending(s, s.head, b) => KeepsPending(d, d.head, b)
    BY <1>3, <1>4, <1>5 DEF KeepsPending
  <2> QED
    BY <1>3, <2>2, <2>3
<1>9. KeepsIrreversible(d, s)
  <2>1. d.commitIndex >= s.commitIndex
    BY <1>1, <1>3, IndexFacts DEF Good
  <2> QED
    BY <1>1, <1>3, <2>1, KeepsSameHead
<1> QED
  BY <1>4, <1>5, <1>7, <1>8, <1>9 DEF d, Settled

\* blocknet::switch_fork.
LEMMA SwitchForkAndGcShape ==
  ASSUME NEW s, Ready(s)
  PROVE  LET d == SwitchForkAndGc(s)
         IN  /\ Ready(d) /\ Settled(d) /\ NoBetter(d)
             /\ KeepsIrreversible(d, s) /\ d.currentTerm = s.currentTerm
<1>1. CASE s.failed
  <2>1. SwitchForkAndGc(s) = s
    BY <1>1 DEF SwitchForkAndGc
  <2> QED
    BY <1>1, <2>1, KeepsSelf DEF Ready, Settled, NoBetter
<1>2. CASE ~s.failed
  <2> DEFINE t == SwitchFork(s)
             d == SwitchForkAndGc(s)
  <2>1. d = IF t.failed \/ t.head = s.head THEN t ELSE Gc(ResetLeader(t))
    BY <1>2 DEF SwitchForkAndGc, AfterSwitch
  <2>2. /\ Good(s) /\ Indexed(s) /\ s.databaseHead = s.head
        /\ PendingBuildsOnHead(s) /\ PendingIsOwn(s)
        /\ \A b \in s.states : Term(b) <= s.currentTerm
    BY <1>2 DEF Ready
  <2>3. PICK r \in s.states : Forest(s, r)
    BY DEF Ready
  <2>4. /\ Good(t) /\ SameBlock(t, s) /\ KeepsIrreversible(t, s)
        /\ Forest(t, r) /\ Indexed(t) /\ t.states = s.states
        /\ ~t.failed => Switched(t, s)
    BY <1>2, <2>2, <2>3, SwitchForkShape
  <2> HIDE DEF t, d
  <2>5. t.blockContext = s.blockContext /\ t.currentTerm = s.currentTerm
    BY <2>4 DEF SameBlock
  <2>6. PendingIsOwn(t) /\ \A b \in t.states : Term(b) <= t.currentTerm
    BY <2>2, <2>4, <2>5 DEF PendingIsOwn
  <2>7. r \in t.states
    BY <2>3, <2>4
  <2>8. CASE t.failed
    <3>1. d = t
      BY <2>1, <2>8
    <3> QED
      BY <2>4, <2>5, <2>7, <2>8, <3>1 DEF d, Ready, Settled, NoBetter
  <2>9. CASE ~t.failed /\ t.head = s.head
    <3>1. d = t
      BY <2>1, <2>9
    <3>2. PendingBuildsOnHead(t)
      <4>1. SUFFICES ASSUME s.blockContext # NoBlock
                     PROVE  /\ s.blockContext.num = Len(s.head) + 1
                            /\ s.blockContext.commitNum \in 1..t.commitIndex
        BY <2>5, <2>9 DEF PendingBuildsOnHead, BlockNum
      <4>2. /\ s.blockContext.num = Len(s.head) + 1
            /\ s.blockContext.commitNum \in 1..s.commitIndex
        BY <2>2, <4>1 DEF PendingBuildsOnHead, BlockNum
      <4>3. s.commitIndex \in Nat /\ t.commitIndex \in Nat /\ s.commitIndex <= t.commitIndex
        BY <2>2, <2>4, IndexFacts DEF Good, KeepsIrreversible
      <4> QED
        BY <4>2, <4>3
    <3>3. t.head \in t.byOrderIndex /\ t.databaseHead = t.head
      BY <2>4, <2>9 DEF Switched
    <3>4. Ready(t)
      BY <2>4, <2>6, <2>7, <3>2, <3>3 DEF Ready
    <3>5. NoBetter(t)
      BY <2>4, <2>9 DEF Switched, NoBetter, IsBest, PendingIsBest
    <3> QED
      BY <2>4, <2>5, <3>1, <3>3, <3>4, <3>5 DEF d, Settled
  <2>10. CASE ~t.failed /\ t.head # s.head
    <3> DEFINE u == ResetLeader(t)
    <3>1. d = Gc(u)
      BY <2>1, <2>10
    <3>2. t.head \in t.byOrderIndex /\ t.databaseHead = t.head /\ IsBest(t, t.head)
      BY <2>4, <2>10 DEF Switched
    <3>3. /\ Good(u) /\ SameData(u, t) /\ u.currentTerm = t.currentTerm
          /\ PendingBuildsOnHead(u) /\ PendingIsOwn(u)
      BY <2>4, <2>6, ResetLeaderShape
    <3> HIDE DEF u
    <3>4. /\ u.states = t.states /\ u.failed = t.failed /\ u.head = t.head
          /\ u.databaseHead = t.databaseHead /\ u.byOrderIndex = t.byOrderIndex
      BY <3>3 DEF SameData, SameTree
    <3>5. Indexed(u) /\ Forest(u, r)
      BY <2>4, <3>3, SameDataShape
    <3>6. \A b \in u.states : Term(b) <= u.currentTerm
      BY <2>6, <3>3, <3>4
    <3>7. Ready(u)
      BY <2>7, <3>2, <3>3, <3>4, <3>5, <3>6 DEF Ready
    <3>8. NoBetter(u) /\ u.head \in u.byOrderIndex
      BY <3>2, <3>4 DEF NoBetter, IsBest
    <3>9. /\ Ready(d) /\ Settled(d) /\ NoBetter(d) /\ KeepsIrreversible(d, u)
          /\ d.currentTerm = u.currentTerm
      BY <2>10, <3>1, <3>4, <3>7, <3>8, GcReady
    <3>10. KeepsIrreversible(d, s)
      <4>1. KeepsIrreversible(u, t)
        BY <2>4, <3>3, KeepsSameData
      <4>2. KeepsIrreversible(d, t)
        BY <2>4, <3>3, <3>9, <4>1, KeepsTrans DEF Ready
      <4> QED
        BY <2>2, <2>4, <3>9, <4>2, KeepsTrans DEF Ready
    <3> QED
      BY <2>5, <3>3, <3>9, <3>10 DEF d
  <2> QED
    BY <2>8, <2>9, <2>10
<1> QED
  BY <1>1, <1>2

\* set_subtree with a root that executes.
LEMMA SetSubtreeReady ==
  ASSUME NEW s, Ready(s), NEW x \in Block, AllValid(x)
  PROVE  LET d == SetSubtree(s, x) IN Ready(d) /\ KeepsIrreversible(d, s)
<1> DEFINE d == SetSubtree(s, x)
<1>1. Good(s) /\ Indexed(s) /\ DbType(s) /\ s.commitIndex \in Nat
  BY IndexFacts DEF Ready, Good
<1>2. PICK r \in s.states : Forest(s, r)
  BY DEF Ready
<1>3. /\ Forest(d, r) /\ Indexed(d) /\ d.failed = s.failed /\ d.states = s.states
  BY <1>1, <1>2, SetSubtreeShape
<1>4. Good(d) /\ SameChain(d, s) /\ SameBlock(d, s) /\ d.commitIndex = s.commitIndex
  BY <1>1, SetSubtreeGood
<1> HIDE DEF d
<1>5. /\ d.head = s.head /\ d.databaseHead = s.databaseHead
      /\ d.blockContext = s.blockContext /\ d.currentTerm = s.currentTerm
  BY <1>4 DEF SameChain, SameBlock
<1>6. ~s.failed => PendingBuildsOnHead(d) /\ PendingIsOwn(d)
  BY <1>4, <1>5 DEF Ready, PendingBuildsOnHead, PendingIsOwn
<1>7. Ready(d)
  BY <1>3, <1>4, <1>5, <1>6 DEF Ready
<1>8. KeepsIrreversible(d, s)
  <2>1. d.commitIndex >= s.commitIndex
    BY <1>1, <1>4
  <2> QED
    BY <1>1, <1>5, <2>1, KeepsSameHead
<1> QED
  BY <1>7, <1>8 DEF d

\* The block in recv(BlockMessage).
LEMMA PeerBlockFacts ==
  ASSUME NEW parent \in Block,
         NEW header \in Header(0..MaxTerm, Producers, 1..MaxNum), PeerBlock(Append(parent, header))
  PROVE  LET b == Append(parent, header)
         IN  /\ b \in Block /\ ClaimsAreValid(b) /\ LeaderOf[Term(b)] # Self
             /\ Term(b) >= Term(Previous(b))
             /\ Ancestor(b, CommitNum(b)) \in Block /\ AllValid(Ancestor(b, CommitNum(b)))
<1> DEFINE b == Append(parent, header)
<1>1. /\ parent \in Seq(Header(Nat, Nat, Nat)) /\ Len(parent) \in Nat /\ Len(parent) >= 1
      /\ \A i \in 1..Len(parent) : parent[i].commitNum \in 1..i
  BY BlockFacts
<1>2. header \in Header(Nat, Nat, Nat) /\ header.commitNum \in Nat /\ header.commitNum >= 1
  <2>1. 0..MaxTerm \subseteq Nat /\ 1..MaxNum \subseteq Nat
    BY ForkDbNodeAssumption
  <2>2. Producers \subseteq Nat
    BY ForkDbNodeAssumption DEF Producers
  <2>3. /\ header.term \in 0..MaxTerm /\ header.producer \in Producers
        /\ header.commitNum \in 1..MaxNum /\ header.valid \in BOOLEAN
        /\ header = [term |-> header.term, producer |-> header.producer,
                     commitNum |-> header.commitNum, valid |-> header.valid]
    BY DEF Header
  <2>4. header.term \in Nat /\ header.producer \in Nat /\ header.commitNum \in Nat
    BY <2>1, <2>2, <2>3
  <2>5. header \in Header(Nat, Nat, Nat)
    BY <2>3, <2>4 DEF Header
  <2> QED
    BY <2>3, <2>4, <2>5, ForkDbNodeAssumption
<1>3. /\ b \in Seq(Header(Nat, Nat, Nat)) /\ Len(b) = Len(parent) + 1 /\ b[Len(b)] = header
      /\ \A i \in 1..Len(parent) : b[i] = parent[i]
  BY <1>1, <1>2
<1>4. /\ CommitNum(b) \in CommitNum(Previous(b))..(Len(b) - 1) /\ LeaderOf[Term(b)] # Self
      /\ Term(b) >= Term(Previous(b)) /\ \A i \in 1..CommitNum(b) : b[i].valid
  BY DEF PeerBlock, BlockNum
<1> HIDE DEF b
<1>5. CommitNum(b) = header.commitNum /\ CommitNum(b) <= Len(b) - 1
  BY <1>3, <1>4 DEF CommitNum
<1>6. CommitNum(b) \in 1..Len(b)
  BY <1>1, <1>2, <1>3, <1>5
<1>7. \A i \in 1..Len(b) : b[i].commitNum \in 1..i
  <2>1. ASSUME NEW i \in 1..Len(b) PROVE b[i].commitNum \in 1..i
    <3>1. CASE i = Len(b)
      BY <1>3, <1>5, <1>6, <3>1
    <3>2. CASE i # Len(b)
      <4>1. i \in 1..Len(parent)
        BY <1>1, <1>3, <3>2
      <4> QED
        BY <1>1, <1>3, <4>1
    <3> QED
      BY <3>1, <3>2
  <2> QED
    BY <2>1
<1>8. b \in Block
  <2>1. b # <<>>
    BY <1>1, <1>3
  <2> QED
    BY <1>3, <1>7, <2>1 DEF Block
<1>9. /\ Ancestor(b, CommitNum(b)) \in Block /\ Len(Ancestor(b, CommitNum(b))) = CommitNum(b)
      /\ \A i \in 1..CommitNum(b) : Ancestor(b, CommitNum(b))[i] = b[i]
  BY <1>6, <1>8, AncestorFacts
<1>10. AllValid(Ancestor(b, CommitNum(b)))
  BY <1>4, <1>9 DEF AllValid
<1> QED
  BY <1>4, <1>8, <1>9, <1>10 DEF b, ClaimsAreValid

\* A block is inserted.
LEMMA InsertFacts ==
  ASSUME NEW s, Ready(s), ~s.failed, NEW b \in Block, CanInsert(s, b), ClaimsAreValid(b),
         LeaderOf[Term(b)] # Self, Term(b) >= Term(Previous(b))
  PROVE  LET i == Insert(s, b)
         IN  /\ Good(i) /\ Indexed(i) /\ \E r \in i.states : Forest(i, r)
             /\ i.states = s.states \cup {b} /\ i.head = s.head /\ i.commitIndex = s.commitIndex
             /\ i.failed = s.failed /\ i.databaseHead = s.databaseHead
             /\ i.blockContext = s.blockContext /\ i.currentTerm = s.currentTerm
             /\ KeepsIrreversible(i, s)
<1> DEFINE i == Insert(s, b)
<1>1. Good(s) /\ Indexed(s) /\ DbType(s) /\ s.commitIndex \in Nat
  BY IndexFacts DEF Ready, Good, DbType
<1>2. PICK r \in s.states : Forest(s, r)
  BY DEF Ready
<1>3. /\ Forest(i, r) /\ Indexed(i) /\ i.states = s.states \cup {b}
  BY <1>1, <1>2, InsertShape
<1>4. /\ Good(i) /\ SameBlock(i, s) /\ i.head = s.head /\ i.commitIndex = s.commitIndex
      /\ i.failed = s.failed
  BY <1>1, InsertGood
<1>5. i.databaseHead = s.databaseHead
  BY <1>1 DEF Insert, DbType
<1> HIDE DEF i
<1>6. KeepsIrreversible(i, s)
  <2>1. i.commitIndex >= s.commitIndex
    BY <1>1, <1>4
  <2> QED
    BY <1>1, <1>4, <2>1, KeepsSameHead
<1>7. i.blockContext = s.blockContext /\ i.currentTerm = s.currentTerm /\ r \in i.states
  BY <1>2, <1>3, <1>4 DEF SameBlock
<1> QED
  BY <1>3, <1>4, <1>5, <1>6, <1>7 DEF i

\* update_term for a block of a newer term, up to its fork switch.
LEMMA InsertStopLeader ==
  ASSUME NEW s, Ready(s), ~s.failed, NEW b \in Block, CanInsert(s, b), ClaimsAreValid(b),
         LeaderOf[Term(b)] # Self, Term(b) >= Term(Previous(b)), Term(b) > s.currentTerm
  PROVE  LET k == StopLeader(AdvanceTerm(Insert(s, b), Term(b)))
         IN  Ready(k) /\ KeepsIrreversible(k, s)
<1> DEFINE i == Insert(s, b)
           j == [i EXCEPT !.currentTerm = Term(b)]
           k == StopLeader(j)
<1>1. Good(s) /\ DbType(s) /\ s.currentTerm \in Nat /\ Term(b) \in Nat
  BY BlockFacts DEF Ready, Good, DbType
<1>2. /\ Good(i) /\ Indexed(i) /\ \E r \in i.states : Forest(i, r)
      /\ i.states = s.states \cup {b} /\ i.head = s.head /\ i.commitIndex = s.commitIndex
      /\ i.failed = s.failed /\ i.databaseHead = s.databaseHead
      /\ i.blockContext = s.blockContext /\ i.currentTerm = s.currentTerm
      /\ KeepsIrreversible(i, s)
  BY InsertFacts
<1> HIDE DEF i
<1>3. AdvanceTerm(i, Term(b)) = j
  BY <1>2 DEF AdvanceTerm
<1>4. PICK r \in i.states : Forest(i, r)
  BY <1>2
<1>5. Good(j) /\ j.currentTerm = Term(b) /\ SameData(j, i)
  BY <1>1, <1>2, SetTermGood, SameDataFacts DEF Good
<1> HIDE DEF j
<1>6. /\ Good(k) /\ SameData(k, j) /\ k.currentTerm = Term(b) /\ k.blockContext = NoBlock
  BY <1>5, StopLeaderShape
<1> HIDE DEF k
<1>7. SameData(k, i)
  BY <1>5, <1>6, SameDataTrans
<1>8. /\ k.states = i.states /\ k.failed = i.failed /\ k.head = i.head
      /\ k.databaseHead = i.databaseHead
  BY <1>7 DEF SameData, SameTree
<1>9. Forest(k, r) /\ Indexed(k)
  BY <1>2, <1>4, <1>7, SameDataShape
<1>10. PendingBuildsOnHead(k) /\ PendingIsOwn(k)
  BY <1>6 DEF PendingBuildsOnHead, PendingIsOwn
<1>11. ASSUME NEW c \in k.states PROVE Term(c) <= k.currentTerm
  <2>1. CASE c = b
    BY <1>1, <1>6, <2>1
  <2>2. CASE c # b
    <3>1. c \in s.states /\ c \in Block
      BY <1>1, <1>2, <1>8, <2>2 DEF DbType
    <3>2. Term(c) \in Nat /\ Term(c) <= s.currentTerm
      BY <3>1, BlockFacts DEF Ready
    <3> QED
      BY <1>1, <1>6, <3>2
  <2> QED
    BY <2>1, <2>2
<1>12. Ready(k)
  BY <1>2, <1>4, <1>6, <1>8, <1>9, <1>10, <1>11 DEF Ready
<1>13. KeepsIrreversible(k, i)
  BY <1>2, <1>7, KeepsSameData
<1>14. KeepsIrreversible(k, s)
  BY <1>1, <1>2, <1>6, <1>13, KeepsTrans
<1> QED
  BY <1>3, <1>12, <1>14 DEF i, j, k

\* recv(BlockMessage), up to the fork switch at the end.
LEMMA AcceptHeaderReady ==
  ASSUME NEW s, Ready(s), ~s.failed, NEW b \in Block, CanInsert(s, b), ClaimsAreValid(b),
         LeaderOf[Term(b)] # Self, Term(b) >= Term(Previous(b)),
         Ancestor(b, CommitNum(b)) \in Block, AllValid(Ancestor(b, CommitNum(b)))
  PROVE  LET d == OnAcceptBlockHeader(Insert(s, b), b) IN Ready(d) /\ KeepsIrreversible(d, s)
<1> DEFINE i == Insert(s, b)
           t == UpdateTerm(i, Term(b))
           d == FollowCommitNum(t, b)
<1>1. Good(s) /\ s.currentTerm \in Nat /\ Term(b) \in Nat
  BY BlockFacts DEF Ready, Good, DbType
<1>2. /\ Good(i) /\ Indexed(i) /\ \E r \in i.states : Forest(i, r)
      /\ i.states = s.states \cup {b} /\ i.head = s.head /\ i.commitIndex = s.commitIndex
      /\ i.failed = s.failed /\ i.databaseHead = s.databaseHead
      /\ i.blockContext = s.blockContext /\ i.currentTerm = s.currentTerm
      /\ KeepsIrreversible(i, s)
  BY InsertFacts
<1>3. OnAcceptBlockHeader(i, b) = d
  BY DEF OnAcceptBlockHeader
<1>4. Ready(t) /\ KeepsIrreversible(t, s)
  <2>1. CASE Term(b) > i.currentTerm
    <3> DEFINE k == StopLeader(AdvanceTerm(i, Term(b)))
    <3>1. Ready(k) /\ KeepsIrreversible(k, s)
      BY <1>2, <2>1, InsertStopLeader
    <3>2. CASE i.blockContext # NoBlock
      <4>1. t = SwitchForkAndGc(k)
        BY <2>1, <3>2 DEF UpdateTerm
      <4> HIDE DEF k, t
      <4>2. Ready(t) /\ KeepsIrreversible(t, k)
        BY <3>1, <4>1, SwitchForkAndGcShape
      <4> QED
        BY <1>1, <3>1, <4>2, KeepsTrans DEF Ready
    <3>3. CASE i.blockContext = NoBlock
      <4>1. t = AdvanceTerm(i, Term(b))
        BY <3>3 DEF UpdateTerm
      <4>2. AdvanceTerm(i, Term(b)).blockContext = NoBlock
        BY <1>2, <3>3 DEF AdvanceTerm, Good, DbType
      <4>3. t = k
        BY <4>1, <4>2 DEF StopLeader
      <4> QED
        BY <3>1, <4>3
    <3> QED
      BY <3>2, <3>3
  <2>2. CASE ~(Term(b) > i.currentTerm)
    <3>1. t = i
      BY <2>2 DEF UpdateTerm, AdvanceTerm
    <3> HIDE DEF i
    <3>2. PendingBuildsOnHead(i) /\ PendingIsOwn(i)
      BY <1>2 DEF Ready, PendingBuildsOnHead, PendingIsOwn
    <3>3. ASSUME NEW c \in i.states PROVE Term(c) <= i.currentTerm
      <4>1. CASE c = b
        BY <1>1, <1>2, <2>2, <4>1
      <4>2. CASE c # b
        BY <1>2, <4>2 DEF Ready
      <4> QED
        BY <4>1, <4>2
    <3>4. Ready(i)
      BY <1>2, <3>2, <3>3 DEF Ready
    <3> QED
      BY <1>2, <3>1, <3>4
  <2> QED
    BY <2>1, <2>2
<1> HIDE DEF t
<1>5. d = t \/ d = SetSubtree(t, Ancestor(b, CommitNum(b)))
  BY DEF FollowCommitNum
<1>6. Ready(d) /\ KeepsIrreversible(d, t)
  <2> HIDE DEF d
  <2>1. CASE d = t
    BY <1>4, <2>1, KeepsSelf DEF Ready
  <2>2. CASE d = SetSubtree(t, Ancestor(b, CommitNum(b)))
    BY <1>4, <2>2, SetSubtreeReady
  <2> QED
    BY <1>5, <2>1, <2>2
<1> HIDE DEF d
<1>7. KeepsIrreversible(d, s)
  BY <1>1, <1>4, <1>6, KeepsTrans DEF Ready
<1> QED
  BY <1>3, <1>6, <1>7 DEF i

-----------------------------------------------------------------------------
(***************************************************************************)
(* Every handler keeps the invariant and the irreversible blocks.          *)
(***************************************************************************)
LEMMA RecvBlockInv ==
  ASSUME Inv, NEW parent \in db.states,
         NEW header \in Header(0..MaxTerm, Producers, 1..MaxNum), RecvBlock(parent, header)
  PROVE  Inv' /\ KeepsIrreversible(db', db)
<1> DEFINE b == Append(parent, header)
           d == OnAcceptBlockHeader(Insert(db, b), b)
<1>1. /\ ~db.failed /\ PeerBlock(b) /\ CanInsert(db, b)
      /\ db' = SwitchForkAndGc(d) /\ stopped' = FALSE /\ restarts' = restarts
  BY DEF RecvBlock, CanReceive, HandleAndSwitch
<1>2. Ready(db) /\ Good(db) /\ parent \in Block
  BY DEF Inv, Ready, Good, DbType
<1>3. /\ b \in Block /\ ClaimsAreValid(b) /\ LeaderOf[Term(b)] # Self
      /\ Term(b) >= Term(Previous(b))
      /\ Ancestor(b, CommitNum(b)) \in Block /\ AllValid(Ancestor(b, CommitNum(b)))
  BY <1>1, <1>2, PeerBlockFacts
<1> HIDE DEF b
<1>4. Ready(d) /\ KeepsIrreversible(d, db)
  BY <1>1, <1>2, <1>3, AcceptHeaderReady
<1> HIDE DEF d
<1>5. Ready(db') /\ Settled(db') /\ NoBetter(db') /\ KeepsIrreversible(db', d)
  BY <1>1, <1>4, SwitchForkAndGcShape
<1>6. KeepsIrreversible(db', db)
  BY <1>2, <1>4, <1>5, KeepsTrans DEF Ready
<1> QED
  BY <1>1, <1>5, <1>6 DEF Inv

LEMMA SelectSubtreeInv ==
  ASSUME Inv, NEW root \in db.states, SelectSubtree(root)
  PROVE  Inv' /\ KeepsIrreversible(db', db)
<1> DEFINE d == SetSubtree(db, root)
<1>1. /\ db' = SwitchForkAndGc(d) /\ stopped' = FALSE /\ restarts' = restarts
      /\ AllValid(root)
  BY DEF SelectSubtree, CanSelect, HandleAndSwitch, AllValid
<1>2. Ready(db) /\ Good(db) /\ root \in Block
  BY DEF Inv, Ready, Good, DbType
<1>3. Ready(d) /\ KeepsIrreversible(d, db)
  BY <1>1, <1>2, SetSubtreeReady
<1> HIDE DEF d
<1>4. Ready(db') /\ Settled(db') /\ NoBetter(db') /\ KeepsIrreversible(db', d)
  BY <1>1, <1>3, SwitchForkAndGcShape
<1>5. KeepsIrreversible(db', db)
  BY <1>2, <1>3, <1>4, KeepsTrans DEF Ready
<1> QED
  BY <1>1, <1>4, <1>5 DEF Inv

LEMMA ConfirmBlockInv ==
  ASSUME Inv, NEW num \in Nat, ConfirmBlock(num)
  PROVE  Inv' /\ KeepsIrreversible(db', db)
<1> DEFINE d == Commit(db, num)
<1>1. /\ ~db.failed /\ db' = d /\ stopped' = stopped /\ restarts' = restarts
  BY DEF ConfirmBlock, Handle
<1>2. /\ Ready(db) /\ Good(db) /\ DbType(db) /\ db.head \in db.byOrderIndex /\ db.head \in Block
      /\ Len(db.head) \in Nat /\ db.commitIndex \in Nat /\ db.commitIndex \in 1..Len(db.head)
  BY <1>1, IndexFacts, BlockFacts DEF Inv, Ready, Settled, Good, DbType
<1>3. PICK r \in db.states : Forest(db, r)
  BY <1>2 DEF Ready
<1>4. PICK q \in db.states : Viable(db, q)
  BY <1>2 DEF Ready, Indexed
<1>5. AllValid(Ancestor(db.head, Len(db.head))) /\ Len(db.head) \in 1..Len(db.head)
  BY <1>2, <1>3, HeadHasRevision, AncestorSelf
<1>6. \A i \in db.commitIndex..Len(db.head) : db.byBlocknumIndex[i] = Ancestor(db.head, i)
  <2>1. ASSUME NEW i \in db.commitIndex..Len(db.head)
        PROVE  db.byBlocknumIndex[i] = Ancestor(db.head, i)
    <3>1. i \in 1..Len(db.head) /\ db.commitIndex <= i
      BY <1>2
    <3> QED
      BY <1>2, <3>1, IndexFacts DEF Good
  <2> QED
    BY <2>1
<1>7. /\ Forest(d, r) /\ \E p \in db.states : Viable(d, p)
      /\ db.head \in d.byOrderIndex /\ d.byOrderIndex \subseteq db.byOrderIndex
      /\ d.failed = db.failed /\ d.states = db.states
  <2>1. db.commitIndex <= Len(db.head)
    BY <1>2
  <2> QED
    BY <1>2, <1>3, <1>4, <1>5, <1>6, <2>1, CommitShape
<1>8. Good(d) /\ SameChain(d, db) /\ SameBlock(d, db) /\ d.commitIndex >= db.commitIndex
  BY <1>2, CommitGood
<1> HIDE DEF d
<1>9. /\ d.head = db.head /\ d.databaseHead = db.databaseHead
      /\ d.blockContext = db.blockContext /\ d.currentTerm = db.currentTerm
      /\ d.commitIndex \in Nat
  BY <1>8, IndexFacts DEF SameChain, SameBlock, Good
<1>10. PendingIsOwn(d)
  BY <1>1, <1>2, <1>9 DEF Ready, PendingIsOwn
<1>11. PendingBuildsOnHead(d)
  <2>1. SUFFICES ASSUME db.blockContext # NoBlock
                 PROVE  /\ db.blockContext.num = Len(db.head) + 1
                        /\ db.blockContext.commitNum \in 1..d.commitIndex
    BY <1>9 DEF PendingBuildsOnHead, BlockNum
  <2>2. /\ db.blockContext.num = Len(db.head) + 1
        /\ db.blockContext.commitNum \in 1..db.commitIndex
    BY <1>1, <1>2, <2>1 DEF Ready, PendingBuildsOnHead, BlockNum
  <2> QED
    BY <1>2, <1>8, <1>9, <2>2
<1>12. Indexed(d)
  BY <1>7 DEF Indexed
<1>13. Ready(d)
  BY <1>1, <1>2, <1>3, <1>7, <1>8, <1>9, <1>10, <1>11, <1>12 DEF Ready
<1>14. NoBetter(db) => NoBetter(d)
  <2>1. SUFFICES ASSUME NoBetter(db), NEW b \in d.byOrderIndex
                 PROVE  b = d.head \/ OrderLess(b, d.head) \/ KeepsPending(d, d.head, b)
    BY DEF NoBetter
  <2>2. b = db.head \/ OrderLess(b, db.head) \/ KeepsPending(db, db.head, b)
    BY <1>1, <1>7, <2>1 DEF NoBetter
  <2>3. KeepsPending(db, db.head, b) => KeepsPending(d, d.head, b)
    BY <1>7, <1>9 DEF KeepsPending
  <2> QED
    BY <1>9, <2>2, <2>3
<1>15. KeepsIrreversible(d, db)
  BY <1>2, <1>8, <1>9, KeepsSameHead
<1>16. Settled(d)
  BY <1>7, <1>9 DEF Settled
<1> QED
  BY <1>1, <1>13, <1>14, <1>15, <1>16 DEF Inv

LEMMA NewTermInv ==
  ASSUME Inv, NewTerm
  PROVE  Inv' /\ KeepsIrreversible(db', db)
<1> DEFINE d == [db EXCEPT !.currentTerm = db.currentTerm + 1]
<1>1. ~db.failed /\ restarts' = restarts
  BY DEF NewTerm, Handle, HandleAndSwitch
<1>2. Ready(db) /\ Good(db) /\ DbType(db) /\ db.currentTerm \in Nat
  BY DEF Inv, Ready, Good, DbType
<1>3. db.currentTerm + 1 \in Nat
  BY <1>2
<1>4. /\ Good(d) /\ d.currentTerm = db.currentTerm + 1 /\ d.blockContext = db.blockContext
      /\ SameData(d, db)
  BY <1>2, <1>3, SetTermGood, SameDataFacts
<1>5. IF d.blockContext = NoBlock
        THEN db' = d /\ stopped' = stopped
        ELSE db' = SwitchForkAndGc(StopLeader(d)) /\ stopped' = FALSE
  <2>1. db.currentTerm + 1 > db.currentTerm
    BY <1>2
  <2>2. AdvanceTerm(db, db.currentTerm + 1) = d
    BY <2>1 DEF AdvanceTerm
  <2> QED
    BY <1>4, <2>1, <2>2 DEF NewTerm, UpdateTerm, Handle, HandleAndSwitch
<1> HIDE DEF d
<1>6. d.currentTerm >= db.currentTerm
  BY <1>2, <1>4
<1>7. CASE d.blockContext = NoBlock
  <2>1. PendingBuildsOnHead(d) /\ PendingIsOwn(d)
    BY <1>7 DEF PendingBuildsOnHead, PendingIsOwn
  <2>2. Ready(d) /\ (Settled(db) => Settled(d)) /\ KeepsIrreversible(d, db)
    BY <1>2, <1>4, <1>6, <2>1, SameDataReady
  <2>3. NoBetter(db) => NoBetter(d)
    BY <1>4, <1>7 DEF NoBetter, KeepsPending, SameData, SameTree
  <2> QED
    BY <1>1, <1>5, <1>7, <2>2, <2>3 DEF Inv
<1>8. CASE d.blockContext # NoBlock
  <2> DEFINE t == StopLeader(d)
  <2>1. /\ Good(t) /\ SameData(t, d) /\ t.currentTerm = d.currentTerm /\ t.blockContext = NoBlock
    BY <1>4, StopLeaderShape
  <2> HIDE DEF t
  <2>2. PendingBuildsOnHead(t) /\ PendingIsOwn(t)
    BY <2>1 DEF PendingBuildsOnHead, PendingIsOwn
  <2>3. SameData(t, db)
    BY <1>4, <2>1, SameDataTrans
  <2>4. Ready(t) /\ KeepsIrreversible(t, db)
    BY <1>2, <1>6, <2>1, <2>2, <2>3, SameDataReady
  <2>5. Ready(db') /\ Settled(db') /\ NoBetter(db') /\ KeepsIrreversible(db', t)
    BY <1>5, <1>8, <2>4, SwitchForkAndGcShape DEF t
  <2>6. KeepsIrreversible(db', db)
    BY <1>2, <2>4, <2>5, KeepsTrans DEF Ready
  <2> QED
    BY <1>1, <1>5, <1>8, <2>5, <2>6 DEF Inv
<1> QED
  BY <1>7, <1>8

LEMMA BecomeLeaderInv ==
  ASSUME Inv, BecomeLeader
  PROVE  Inv' /\ KeepsIrreversible(db', db)
<1> DEFINE d == StartLeader(db)
<1>1. /\ ~db.failed /\ db.blockContext = NoBlock /\ LeaderOf[db.currentTerm] = Self
      /\ db' = d /\ stopped' = stopped /\ restarts' = restarts
  BY DEF BecomeLeader, Handle
<1>2. Ready(db) /\ Good(db) /\ db.currentTerm \in Nat
  BY DEF Inv, Ready, Good, DbType
<1>3. /\ Good(d) /\ SameData(d, db) /\ d.currentTerm = db.currentTerm
      /\ PendingBuildsOnHead(d) /\ PendingIsOwn(d)
  BY <1>1, <1>2, StartLeaderShape
<1> HIDE DEF d
<1>4. d.currentTerm >= db.currentTerm
  BY <1>2, <1>3
<1>5. Ready(d) /\ (Settled(db) => Settled(d)) /\ KeepsIrreversible(d, db)
  BY <1>2, <1>3, <1>4, SameDataReady
<1>6. NoBetter(db) => NoBetter(d)
  BY <1>1, <1>3 DEF NoBetter, KeepsPending, SameData, SameTree
<1> QED
  BY <1>1, <1>5, <1>6 DEF Inv

LEMMA LoseLeadershipInv ==
  ASSUME Inv, LoseLeadership
  PROVE  Inv' /\ KeepsIrreversible(db', db)
<1> DEFINE d == StopLeader(db)
<1>1. db' = d /\ stopped' = TRUE /\ restarts' = restarts
  BY DEF LoseLeadership
<1>2. Ready(db) /\ Good(db) /\ db.currentTerm \in Nat
  BY DEF Inv, Ready, Good, DbType
<1>3. Good(d) /\ SameData(d, db) /\ d.currentTerm = db.currentTerm /\ d.blockContext = NoBlock
  BY <1>2, StopLeaderShape
<1> HIDE DEF d
<1>4. d.currentTerm >= db.currentTerm /\ PendingBuildsOnHead(d) /\ PendingIsOwn(d)
  BY <1>2, <1>3 DEF PendingBuildsOnHead, PendingIsOwn
<1>5. Ready(d) /\ (Settled(db) => Settled(d)) /\ KeepsIrreversible(d, db)
  BY <1>2, <1>3, <1>4, SameDataReady
<1> QED
  BY <1>1, <1>5 DEF Inv

LEMMA ProduceFailsInv ==
  ASSUME Inv, ProduceFails
  PROVE  Inv' /\ KeepsIrreversible(db', db)
<1> DEFINE t == AbortBlock(db)
           d == StartLeader(t)
<1>1. /\ ~db.failed /\ db.blockContext # NoBlock
      /\ db' = d /\ stopped' = stopped /\ restarts' = restarts
  BY DEF ProduceFails, Handle
<1>2. Ready(db) /\ Good(db) /\ DbType(db) /\ db.currentTerm \in Nat
  BY DEF Inv, Ready, Good, DbType
<1>3. Good(t) /\ t.currentTerm = db.currentTerm /\ SameData(t, db)
  BY <1>2, AbortBlockGood, SameDataFacts
<1>4. /\ db.blockContext.term = db.currentTerm /\ LeaderOf[t.currentTerm] = Self
  BY <1>1, <1>2, <1>3 DEF Ready, PendingIsOwn
<1> HIDE DEF t
<1>5. /\ Good(d) /\ SameData(d, t) /\ d.currentTerm = t.currentTerm
      /\ PendingBuildsOnHead(d) /\ PendingIsOwn(d) /\ d.blockContext # NoBlock
      /\ d.blockContext.term = t.currentTerm /\ d.blockContext.num = Len(t.head) + 1
  BY <1>3, <1>4, StartLeaderShape
<1> HIDE DEF d
<1>6. SameData(d, db) /\ d.currentTerm >= db.currentTerm
  BY <1>2, <1>3, <1>5, SameDataTrans
<1>7. Ready(d) /\ (Settled(db) => Settled(d)) /\ KeepsIrreversible(d, db)
  BY <1>2, <1>5, <1>6, SameDataReady
<1>8. d.blockContext.term = db.blockContext.term /\ d.blockContext.num = db.blockContext.num
  <2>1. db.blockContext.num = Len(db.head) + 1
    BY <1>1, <1>2 DEF Ready, PendingBuildsOnHead, BlockNum
  <2>2. t.head = db.head
    BY <1>3 DEF SameData, SameTree
  <2> QED
    BY <1>3, <1>4, <1>5, <2>1, <2>2
<1>9. NoBetter(db) => NoBetter(d)
  <2>1. d.head = db.head /\ d.byOrderIndex = db.byOrderIndex /\ d.failed = db.failed
    BY <1>6 DEF SameData, SameTree
  <2>2. \A b : KeepsPending(db, db.head, b) => KeepsPending(d, d.head, b)
    BY <1>5, <1>8, <2>1 DEF KeepsPending
  <2> QED
    BY <2>1, <2>2 DEF NoBetter
<1> QED
  BY <1>1, <1>7, <1>9 DEF Inv

LEMMA ProduceBlockInv ==
  ASSUME Inv, ProduceBlock
  PROVE  Inv' /\ KeepsIrreversible(db', db)
<1> DEFINE b == FinishedBlock(db, Self)
           t == FinishBlock(db, Self)
           u == StartLeader(t)
           d == Gc(u)
<1>1. /\ ~db.failed /\ db.blockContext # NoBlock
      /\ db' = d /\ stopped' = stopped /\ restarts' = restarts
  BY DEF ProduceBlock, Handle
<1>2. /\ Ready(db) /\ Good(db) /\ Indexed(db) /\ PendingBuildsOnHead(db) /\ PendingIsOwn(db)
      /\ \A c \in db.states : Term(c) <= db.currentTerm
      /\ db.head \in db.byOrderIndex /\ db.head \in Block /\ db.currentTerm \in Nat
  BY <1>1 DEF Inv, Ready, Settled, Good, DbType
<1>3. Self \in Nat
  BY ForkDbNodeAssumption
<1>4. PICK r \in db.states : Forest(db, r)
  BY <1>2 DEF Ready
<1>5. /\ Forest(t, r) /\ Indexed(t) /\ b \in Block /\ Term(b) = db.currentTerm
      /\ t.states = db.states \cup {b} /\ t.byOrderIndex = db.byOrderIndex \cup {b}
      /\ t.databaseHead = t.head
  BY <1>1, <1>2, <1>3, <1>4, FinishBlockShape
<1>6. /\ Good(t) /\ KeepsIrreversible(t, db) /\ t.currentTerm = db.currentTerm
      /\ t.failed = db.failed /\ t.head = b /\ Len(b) = Len(db.head) + 1
  BY <1>1, <1>2, <1>3, FinishBlockGood
<1> HIDE DEF b, t
<1>7. LeaderOf[t.currentTerm] = Self /\ db.blockContext.term = db.currentTerm
      /\ db.blockContext.num = Len(b)
  BY <1>1, <1>2, <1>6 DEF PendingIsOwn, PendingBuildsOnHead, BlockNum
<1>8. /\ Good(u) /\ SameData(u, t) /\ u.currentTerm = t.currentTerm
      /\ PendingBuildsOnHead(u) /\ PendingIsOwn(u)
  BY <1>6, <1>7, StartLeaderShape
<1> HIDE DEF u
<1>9. /\ u.states = t.states /\ u.failed = t.failed /\ u.head = t.head
      /\ u.databaseHead = t.databaseHead /\ u.byOrderIndex = t.byOrderIndex
  BY <1>8 DEF SameData, SameTree
<1>10. Forest(u, r) /\ Indexed(u)
  BY <1>5, <1>8, SameDataShape
<1>11. ASSUME NEW c \in u.states PROVE Term(c) <= u.currentTerm
  <2>1. CASE c = b
    BY <1>2, <1>5, <1>6, <1>8, <2>1
  <2>2. CASE c # b
    BY <1>2, <1>5, <1>6, <1>8, <1>9, <2>2
  <2> QED
    BY <2>1, <2>2
<1>12. Ready(u)
  <2>1. r \in u.states
    BY <1>4, <1>5, <1>9
  <2> QED
    BY <1>5, <1>8, <1>9, <1>10, <1>11, <2>1 DEF Ready
<1>13. ~u.failed /\ u.head \in u.byOrderIndex
  BY <1>1, <1>5, <1>6, <1>9
<1>14. NoBetter(db) => NoBetter(u)
  <2>1. SUFFICES ASSUME NoBetter(db), NEW c \in db.byOrderIndex
                 PROVE  OrderLess(c, b)
    BY <1>5, <1>6, <1>9 DEF NoBetter
  <2>2. c = db.head \/ OrderLess(c, db.head) \/ KeepsPending(db, db.head, c)
    BY <1>1, <2>1 DEF NoBetter
  <2>3. c \in db.states /\ c \in Block /\ db.head \in db.states
    BY <1>2, IndexedSubset DEF Good, DbType
  <2>4. /\ Term(c) \in Nat /\ Len(c) \in Nat /\ Term(db.head) \in Nat /\ Len(db.head) \in Nat
        /\ Term(c) <= db.currentTerm /\ Term(db.head) <= db.currentTerm
    BY <1>2, <2>3, BlockFacts
  <2>5. Term(c) < db.currentTerm \/ (Term(c) = db.currentTerm /\ Len(c) < Len(b))
    <3>1. CASE c = db.head
      BY <1>2, <1>6, <2>4, <3>1
    <3>2. CASE OrderLess(c, db.head)
      <4>1. \/ Term(c) < Term(db.head)
            \/ Term(c) = Term(db.head) /\ Len(c) <= Len(db.head)
        BY <2>4, <3>2 DEF OrderLess, BlockNum
      <4> QED
        BY <1>2, <1>6, <2>4, <4>1
    <3>3. CASE KeepsPending(db, db.head, c)
      BY <1>7, <3>3 DEF KeepsPending, BlockNum
    <3> QED
      BY <2>2, <3>1, <3>2, <3>3
  <2> QED
    BY <1>5, <2>5 DEF OrderLess, BlockNum
<1>15. /\ Ready(d) /\ Settled(d) /\ (NoBetter(u) => NoBetter(d)) /\ KeepsIrreversible(d, u)
  BY <1>12, <1>13, GcReady
<1> HIDE DEF d
<1>16. KeepsIrreversible(d, db)
  <2>1. KeepsIrreversible(u, t)
    BY <1>6, <1>8, KeepsSameData
  <2>2. KeepsIrreversible(u, db)
    BY <1>2, <1>6, <1>8, <2>1, KeepsTrans
  <2> QED
    BY <1>2, <1>8, <1>15, <2>2, KeepsTrans DEF Ready
<1> QED
  BY <1>1, <1>14, <1>15, <1>16 DEF Inv

\* A node that is started again on what database s has left behind.
LEMMA StartAgain ==
  ASSUME Inv, NEW s, Good(s), NEW r \in s.states, Forest(s, r), KeepsIrreversible(s, db),
         db' = Reload(s), stopped' = FALSE, restarts' = restarts + 1
  PROVE  /\ Inv' /\ restarts' # restarts
         /\ IsAncestor(Ancestor(db.head, db.commitIndex), db'.head)
<1> DEFINE d == Reload(s)
           a == Ancestor(db.head, db.commitIndex)
<1>1. db' = d /\ restarts \in Nat /\ Good(db)
  BY DEF Inv, Ready
<1>2. Good(d) /\ d.blockContext = NoBlock
  BY ReloadGood
<1>3. /\ \E x \in d.states : Forest(d, x)
      /\ Indexed(d) /\ d.head \in d.byOrderIndex
      /\ \A b \in d.states : Term(b) <= d.currentTerm
      /\ IsBest(d, d.head) /\ d.databaseHead = d.head /\ d.head = s.databaseHead
  BY ReloadShape
<1> HIDE DEF d
<1>4. Ready(d)
  BY <1>2, <1>3 DEF Ready, PendingBuildsOnHead, PendingIsOwn
<1>5. Settled(d) /\ NoBetter(d)
  BY <1>3 DEF Settled, NoBetter, IsBest
<1>6. Inv' /\ restarts' # restarts
  BY <1>1, <1>4, <1>5 DEF Inv
<1>7. IsAncestor(a, s.head) /\ IsAncestor(s.head, s.databaseHead)
  BY DEF KeepsIrreversible, Good, DurableHead
<1>8. db.commitIndex \in 1..Len(db.head) /\ db.head \in Block
      /\ s.head \in Block /\ s.databaseHead \in Block
  BY <1>1, IndexFacts DEF Good, DbType
<1>9. a \in Block
  BY <1>8, AncestorFacts
<1> HIDE DEF a
<1>10. IsAncestor(a, s.databaseHead)
  BY <1>7, <1>8, <1>9, IsAncestorTrans
<1> QED
  BY <1>1, <1>3, <1>6, <1>10 DEF a

LEMMA RestartInv ==
  ASSUME Inv, Restart
  PROVE  /\ Inv' /\ restarts' # restarts
         /\ IsAncestor(Ancestor(db.head, db.commitIndex), db'.head)
<1>1. Good(db) /\ \E r \in db.states : Forest(db, r)
  BY DEF Inv, Ready
<1>2. db' = Reload(db) /\ stopped' = FALSE /\ restarts' = restarts + 1
  BY DEF Restart
<1>3. KeepsIrreversible(db, db)
  BY <1>1, KeepsSelf
<1> QED
  BY <1>1, <1>2, <1>3, StartAgain

\* The tree when execute_fork has executed the blocks up to one that executes, wherever
\* it is.
LEMMA TrySetValidHead ==
  ASSUME NEW s, Good(s), NEW r, Forest(s, r), NEW new \in s.states, AllValid(new)
  PROVE  LET d == TrySetHead(s, new) IN Forest(d, r) /\ d.states = s.states
<1>1. /\ DbType(s) /\ s.head \in Block /\ Len(s.head) \in Nat
      /\ s.commitIndex \in Nat /\ s.commitIndex \in 1..Len(s.head)
  BY IndexFacts, BlockFacts DEF Good, DbType
<1>2. /\ s.states \subseteq Block /\ Len(r) \in Nat /\ Len(r) >= 1 /\ Len(r) <= s.commitIndex
      /\ new \in Block /\ Len(new) \in Nat
  BY <1>1, ForestFacts, BlockFacts DEF Forest
<1>3. CASE new = s.head
  <2>1. TrySetHead(s, new) = s
    BY <1>3 DEF TrySetHead
  <2> QED
    BY <2>1
<1>4. CASE new # s.head /\ Conflicts(s, new)
  <2> DEFINE d == [s EXCEPT !.failed = TRUE]
  <2>1. TrySetHead(s, new) = d
    BY <1>4 DEF TrySetHead, ConsensusFailure
  <2>2. /\ d.states = s.states /\ d.invalid = s.invalid /\ d.revisions = s.revisions
        /\ d.commitIndex = s.commitIndex
    BY <1>1 DEF DbType
  <2> HIDE DEF d
  <2>3. Forest(d, r)
    BY <1>1, <1>2, <2>2, SameForestFacts DEF SameForest
  <2> QED
    BY <2>1, <2>2, <2>3
<1>5. CASE new # s.head /\ ~Conflicts(s, new)
  <2> DEFINE fork == ForkPoint(s, new)
             above == (fork + 1)..BlockNum(new)
             fresh == {i \in above : Ancestor(new, i) \notin s.revisions}
             bad == {i \in fresh : ~new[i].valid}
             last == IF bad = {} THEN BlockNum(new)
                     ELSE (CHOOSE i \in bad : \A j \in bad : i <= j) - 1
             accepted == {Ancestor(new, i) : i \in {j \in fresh : j <= last}}
             index(top) == [i \in {j \in DOMAIN s.byBlocknumIndex \cup above : j <= top} |->
                              IF i > fork THEN Ancestor(new, i) ELSE s.byBlocknumIndex[i]]
             mid == [s EXCEPT !.byBlocknumIndex = index(BlockNum(new)),
                               !.revisions = @ \cup accepted]
             executed == AcceptBlocks(mid, accepted)
             checked == IF bad = {} THEN executed
                        ELSE BlacklistSubtree(executed, Ancestor(new, last + 1))
             d == [checked EXCEPT
                    !.byBlocknumIndex = index(last),
                    !.head = Ancestor(new, last),
                    !.databaseHead = IF last > fork THEN Ancestor(new, last) ELSE @]
  <2>1. TrySetHead(s, new) = d
    BY <1>5 DEF TrySetHead
  <2>2. fork \in Nat /\ fork >= s.commitIndex /\ fork \in 1..Len(new)
    BY <1>2, <1>5, ForkPointFacts
  <2> HIDE DEF fork
  <2>3. bad = {}
    <3>1. ASSUME NEW i \in bad PROVE FALSE
      <4>1. i \in 1..Len(new) /\ ~new[i].valid
        BY <1>2, <2>2 DEF BlockNum
      <4> QED
        BY <4>1 DEF AllValid
    <3> QED
      BY <3>1
  <2>4. checked = executed
    BY <2>3
  <2>5. ASSUME NEW b \in accepted
        PROVE  b \in s.states /\ b \in Block /\ AllValid(b) /\ CommitNum(b) <= Len(new)
    <3>1. PICK i \in fresh : b = Ancestor(new, i)
      BY <2>5
    <3>2. i \in Nat /\ i \in Len(r)..Len(new)
      BY <1>1, <1>2, <2>2, <3>1 DEF BlockNum
    <3>3. b \in Block /\ b \in s.states /\ Len(b) = i /\ IsAncestor(b, new)
      BY <1>1, <3>1, <3>2, ForestFacts
    <3>4. CommitNum(b) \in 1..i
      BY <3>3, BlockFacts
    <3> QED
      BY <1>2, <3>2, <3>3, <3>4, AncestorValid
  <2> HIDE DEF accepted, index, bad, last
  <2>6. /\ DbType(mid) /\ mid.states = s.states /\ mid.invalid = s.invalid
        /\ mid.commitIndex = s.commitIndex /\ mid.revisions = s.revisions \cup accepted
    <3>1. accepted \subseteq Block
      BY <2>5
    <3> QED
      BY <1>1, <3>1 DEF DbType
  <2> HIDE DEF mid
  <2>7. Forest(mid, r)
    <3>1. mid.revisions \subseteq mid.states /\ \A b \in mid.revisions : AllValid(b)
      BY <2>5, <2>6 DEF Forest
    <3> QED
      BY <2>6, <3>1 DEF Forest
  <2>8. /\ DbType(executed) /\ SameChain(executed, mid) /\ executed.commitIndex \in Nat
        /\ executed.commitIndex >= mid.commitIndex
    <3>1. accepted \in SUBSET Block /\ \A b \in accepted : CommitNum(b) <= Len(new)
      BY <2>5
    <3>2. mid.commitIndex \in Nat
      BY <1>1, <2>6
    <3> QED
      BY <1>2, <2>6, <3>1, <3>2, AcceptBlocksFields
  <2> HIDE DEF executed
  <2>9. Forest(executed, r)
    BY <1>1, <1>2, <2>6, <2>7, <2>8, SameForestFacts DEF SameForest, SameChain
  <2> HIDE DEF checked
  <2>10. /\ d.states = executed.states /\ d.invalid = executed.invalid
         /\ d.revisions = executed.revisions /\ d.commitIndex = executed.commitIndex
    BY <2>4, <2>8 DEF DbType
  <2> HIDE DEF d
  <2>11. Forest(d, r)
    BY <2>9, <2>10 DEF Forest
  <2> QED
    BY <2>1, <2>6, <2>8, <2>10, <2>11 DEF SameChain
<1> QED
  BY <1>3, <1>4, <1>5

\* The process exits in the middle of a fork switch, wherever that is.
LEMMA CrashInv ==
  ASSUME Inv, NEW d, Ready(d), KeepsIrreversible(d, db), Crash(d)
  PROVE  /\ Inv' /\ restarts' # restarts
         /\ IsAncestor(Ancestor(db.head, db.commitIndex), db'.head)
<1>1. PICK k \in 0..Cardinality(d.states) :
        LET loop == SwitchLoop(d)[k] IN ~loop.done /\ CrashInIteration(loop.db, d.head)
  BY DEF Crash
<1> DEFINE e == SwitchLoop(d)[k].db
<1>2. PICK b \in e.states :
        /\ \A i \in 1..Len(b) : b[i].valid
        /\ db' = Reload(TrySetHead(e, b)) /\ stopped' = FALSE /\ restarts' = restarts + 1
  BY <1>1 DEF CrashInIteration
<1>3. /\ Good(d) /\ Indexed(d) /\ ~d.failed /\ d.databaseHead = d.head /\ PendingIsOwn(d)
      /\ \A c \in d.states : Term(c) <= d.currentTerm
  BY DEF Ready, Crash
<1>4. PICK r \in d.states : Forest(d, r)
  BY DEF Ready
<1>5. k \in Nat
  BY <1>1
<1>6. InLoop(e, SwitchLoop(d)[k].done, d, r, k)
  BY <1>3, <1>4, <1>5, LoopShape
<1> HIDE DEF e
<1>7. /\ Good(e) /\ KeepsIrreversible(e, d) /\ Forest(e, r) /\ e.states = d.states
  BY <1>6 DEF InLoop
<1> DEFINE s == TrySetHead(e, b)
<1>8. b \in Block /\ AllValid(b)
  BY <1>2, <1>7 DEF Good, DbType, AllValid
<1>9. Forest(s, r) /\ s.states = e.states
  BY <1>7, <1>8, <1>2, TrySetValidHead
<1>10. Good(s) /\ KeepsIrreversible(s, e)
  BY <1>7, <1>8, TrySetHeadGood
<1>11. db' = Reload(s) /\ r \in s.states
  BY <1>2, <1>4, <1>7, <1>9
<1> HIDE DEF s
<1>12. Good(db)
  BY DEF Inv, Ready
<1>13. KeepsIrreversible(s, d)
  BY <1>3, <1>7, <1>10, KeepsTrans
<1>14. KeepsIrreversible(s, db)
  BY <1>3, <1>10, <1>12, <1>13, KeepsTrans
<1> QED
  BY <1>2, <1>9, <1>10, <1>11, <1>14, StartAgain

LEMMA RecvBlockCrashesInv ==
  ASSUME Inv, NEW parent \in db.states,
         NEW header \in Header(0..MaxTerm, Producers, 1..MaxNum),
         RecvBlockCrashes(parent, header)
  PROVE  /\ Inv' /\ restarts' # restarts
         /\ IsAncestor(Ancestor(db.head, db.commitIndex), db'.head)
<1> DEFINE b == Append(parent, header)
           i == Insert(db, b)
<1>1. /\ ~db.failed /\ PeerBlock(b) /\ CanInsert(db, b)
      /\ CrashInUpdateTerm(i, Term(b)) \/ Crash(OnAcceptBlockHeader(i, b))
  BY DEF RecvBlockCrashes, CanReceive
<1>2. Ready(db) /\ Good(db) /\ parent \in Block
  BY DEF Inv, Ready, Good, DbType
<1>3. /\ b \in Block /\ ClaimsAreValid(b) /\ LeaderOf[Term(b)] # Self
      /\ Term(b) >= Term(Previous(b))
      /\ Ancestor(b, CommitNum(b)) \in Block /\ AllValid(Ancestor(b, CommitNum(b)))
  BY <1>1, <1>2, PeerBlockFacts
<1> HIDE DEF b
<1>4. CASE Crash(OnAcceptBlockHeader(i, b))
  <2> DEFINE d == OnAcceptBlockHeader(i, b)
  <2>1. Ready(d) /\ KeepsIrreversible(d, db)
    BY <1>1, <1>2, <1>3, AcceptHeaderReady
  <2> HIDE DEF d
  <2> QED
    BY <1>4, <2>1, CrashInv DEF d
<1>5. CASE CrashInUpdateTerm(i, Term(b))
  <2> DEFINE d == StopLeader(AdvanceTerm(i, Term(b)))
  <2>1. Term(b) > i.currentTerm /\ Crash(d)
    BY <1>5 DEF CrashInUpdateTerm
  <2>2. i.currentTerm = db.currentTerm
    BY <1>1, <1>2, <1>3, InsertFacts
  <2>3. Ready(d) /\ KeepsIrreversible(d, db)
    BY <1>1, <1>2, <1>3, <2>1, <2>2, InsertStopLeader
  <2> HIDE DEF d
  <2> QED
    BY <2>1, <2>3, CrashInv
<1> QED
  BY <1>1, <1>4, <1>5

LEMMA SelectSubtreeCrashesInv ==
  ASSUME Inv, NEW root \in db.states, SelectSubtreeCrashes(root)
  PROVE  /\ Inv' /\ restarts' # restarts
         /\ IsAncestor(Ancestor(db.head, db.commitIndex), db'.head)
<1> DEFINE d == SetSubtree(db, root)
<1>1. Crash(d) /\ AllValid(root)
  BY DEF SelectSubtreeCrashes, CanSelect, AllValid
<1>2. Ready(db) /\ root \in Block
  BY DEF Inv, Ready, Good, DbType
<1>3. Ready(d) /\ KeepsIrreversible(d, db)
  BY <1>1, <1>2, SetSubtreeReady
<1> HIDE DEF d
<1> QED
  BY <1>1, <1>3, CrashInv

LEMMA NewTermCrashesInv ==
  ASSUME Inv, NewTermCrashes
  PROVE  /\ Inv' /\ restarts' # restarts
         /\ IsAncestor(Ancestor(db.head, db.commitIndex), db'.head)
<1> DEFINE term == db.currentTerm + 1
           j == [db EXCEPT !.currentTerm = term]
           d == StopLeader(j)
<1>1. Ready(db) /\ Good(db) /\ DbType(db) /\ db.currentTerm \in Nat
  BY DEF Inv, Ready, Good, DbType
<1>2. term \in Nat /\ term > db.currentTerm /\ term >= db.currentTerm
  BY <1>1
<1>3. AdvanceTerm(db, term) = j
  BY <1>2 DEF AdvanceTerm
<1>4. Crash(d)
  <2> HIDE DEF d, j, term
  <2>1. Crash(StopLeader(AdvanceTerm(db, term)))
    BY DEF NewTermCrashes, CrashInUpdateTerm, term
  <2> QED
    BY <1>3, <2>1 DEF d
<1> HIDE DEF term
<1>5. Good(j) /\ j.currentTerm = term /\ SameData(j, db)
  BY <1>1, <1>2, SetTermGood, SameDataFacts
<1> HIDE DEF j
<1>6. /\ Good(d) /\ SameData(d, j) /\ d.currentTerm = term /\ d.blockContext = NoBlock
  BY <1>5, StopLeaderShape
<1> HIDE DEF d
<1>7. SameData(d, db)
  BY <1>5, <1>6, SameDataTrans
<1>8. PendingBuildsOnHead(d) /\ PendingIsOwn(d)
  BY <1>6 DEF PendingBuildsOnHead, PendingIsOwn
<1>9. Ready(d) /\ KeepsIrreversible(d, db)
  BY <1>1, <1>2, <1>6, <1>7, <1>8, SameDataReady
<1> QED
  BY <1>4, <1>9, CrashInv

LEMMA InitInv ==
  Init => Inv
<1>1. SUFFICES ASSUME Init PROVE Inv
  OBVIOUS
<1> DEFINE h == FirstBlock
<1>2. db = NewDb(h) /\ stopped = FALSE /\ restarts = 0
  BY <1>1 DEF Init
<1>3. h \in Block /\ Len(h) = 1 /\ AllValid(h) /\ TermsGrow(h)
  BY FirstBlockFacts
<1> HIDE DEF h
<1>4. /\ Good(db) /\ db.blockContext = NoBlock /\ db.currentTerm = Term(h) /\ db.head = h
      /\ db.commitIndex = 1
  BY <1>2, <1>3, NewDbGood
<1>5. /\ db.states = {h} /\ db.revisions = {h} /\ db.byOrderIndex = {h} /\ db.invalid = {}
      /\ db.databaseHead = h
  BY <1>2 DEF NewDb
<1>6. {h} = {Ancestor(h, i) : i \in 1..Len(h)}
  <2>1. Ancestor(h, Len(h)) = h
    BY <1>3, AncestorSelf
  <2>2. Ancestor(h, 1) = h
    BY <1>3, <2>1
  <2>3. 1 \in 1..Len(h) /\ \A i \in 1..Len(h) : i = 1
    BY <1>3
  <2> QED
    BY <2>2, <2>3
<1>7. 1 \in 1..Len(h)
  BY <1>3
<1>8. db.states = {Ancestor(h, i) : i \in 1..Len(h)} /\ db.revisions \subseteq db.states
      /\ db.byOrderIndex = db.states
  BY <1>5, <1>6
<1>9. /\ \E x \in db.states : Forest(db, x)
      /\ Indexed(db) /\ db.head \in db.byOrderIndex
      /\ \A b \in db.states : Term(b) <= Term(h)
      /\ IsBest(db, h)
  BY <1>3, <1>4, <1>5, <1>7, <1>8, ChainShape
<1>10. Ready(db)
  BY <1>4, <1>5, <1>9 DEF Ready, PendingBuildsOnHead, PendingIsOwn
<1>11. Settled(db) /\ NoBetter(db)
  BY <1>4, <1>9 DEF Settled, NoBetter, IsBest
<1> QED
  BY <1>2, <1>10, <1>11 DEF Inv

LEMMA NextInv ==
  Inv /\ [Next]_vars =>
    /\ Inv' /\ IsAncestor(Ancestor(db.head, db.commitIndex), db'.head)
    /\ restarts' = restarts => db'.commitIndex >= db.commitIndex
<1> DEFINE stays == IsAncestor(Ancestor(db.head, db.commitIndex), db'.head)
           grows == restarts' = restarts => db'.commitIndex >= db.commitIndex
<1> SUFFICES ASSUME Inv, [Next]_vars
             PROVE  Inv' /\ stays /\ grows
  OBVIOUS
<1>0. KeepsIrreversible(db', db) => stays /\ grows
  BY DEF KeepsIrreversible
<1>1. ASSUME NEW parent \in db.states,
             NEW header \in Header(0..MaxTerm, Producers, 1..MaxNum), RecvBlock(parent, header)
      PROVE  Inv' /\ KeepsIrreversible(db', db)
  BY <1>1, RecvBlockInv
<1>2. ASSUME NEW root \in db.states, SelectSubtree(root)
      PROVE  Inv' /\ KeepsIrreversible(db', db)
  BY <1>2, SelectSubtreeInv
<1>3. ASSUME NEW num \in 1..MaxNum, ConfirmBlock(num)
      PROVE  Inv' /\ KeepsIrreversible(db', db)
  <2>1. num \in Nat
    BY ForkDbNodeAssumption
  <2> QED
    BY <1>3, <2>1, ConfirmBlockInv
<1>4. NewTerm => Inv' /\ KeepsIrreversible(db', db)
  BY NewTermInv
<1>5. BecomeLeader => Inv' /\ KeepsIrreversible(db', db)
  BY BecomeLeaderInv
<1>6. LoseLeadership => Inv' /\ KeepsIrreversible(db', db)
  BY LoseLeadershipInv
<1>7. ProduceBlock => Inv' /\ KeepsIrreversible(db', db)
  BY ProduceBlockInv
<1>8. ProduceFails => Inv' /\ KeepsIrreversible(db', db)
  BY ProduceFailsInv
<1>9. Restart => Inv' /\ stays /\ grows
  BY RestartInv
<1>10. CASE UNCHANGED vars
  <2>1. db' = db /\ stopped' = stopped /\ restarts' = restarts
    BY <1>10 DEF vars
  <2>2. Inv'
    BY <2>1 DEF Inv
  <2>3. KeepsIrreversible(db, db)
    BY KeepsSelf DEF Inv, Ready
  <2> QED
    BY <1>0, <2>1, <2>2, <2>3
<1>11. ASSUME NEW parent \in db.states,
              NEW header \in Header(0..MaxTerm, Producers, 1..MaxNum),
              RecvBlockCrashes(parent, header)
       PROVE  Inv' /\ stays /\ grows
  BY <1>11, RecvBlockCrashesInv
<1>12. ASSUME NEW root \in db.states, SelectSubtreeCrashes(root)
       PROVE  Inv' /\ stays /\ grows
  BY <1>12, SelectSubtreeCrashesInv
<1>13. NewTermCrashes => Inv' /\ stays /\ grows
  BY NewTermCrashesInv
<1> HIDE DEF stays, grows
<1> QED
  BY <1>0, <1>1, <1>2, <1>3, <1>4, <1>5, <1>6, <1>7, <1>8, <1>9, <1>10, <1>11, <1>12, <1>13
     DEF Next

-----------------------------------------------------------------------------
(***************************************************************************)
(* The properties.                                                         *)
(***************************************************************************)
LEMMA InvAlways ==
  Spec => []Inv
<1>1. Inv /\ [Next]_vars => Inv'
  BY NextInv
<1> QED
  BY <1>1, InitInv, PTL DEF Spec

\* byBlocknumIndex is the chain of the head after every handler, for every tree of
\* blocks and whichever of them fail to execute (trySetHead, execute_fork).
THEOREM IndexIsAlwaysBestChain ==
  Spec => []IndexIsBestChain
<1>1. Inv => IndexIsBestChain
  BY DEF Inv, Ready, Good, IndexIsBestChain
<1> QED
  BY <1>1, InvAlways, PTL

\* A block that is being produced always builds on the head (start_block, and the
\* callback of async_switch_fork that starts it again).
THEOREM PendingAlwaysExtendsHead ==
  Spec => []PendingExtendsHead
<1>1. Inv => PendingExtendsHead
  BY DEF Inv, Ready, PendingExtendsHead
<1> QED
  BY <1>1, InvAlways, PTL

\* Descendants of a block that failed to execute are invalid, no invalid block may
\* become the head, and only blocks that execute have a revision (blacklist_subtree).
THEOREM InvalidIsAlwaysClosed ==
  Spec => []InvalidIsClosed
<1>1. Inv => InvalidIsClosed
  <2>1. SUFFICES ASSUME Inv PROVE InvalidIsClosed
    OBVIOUS
  <2>2. PICK r \in db.states : Forest(db, r)
    BY <2>1 DEF Inv, Ready
  <2>3. db.states \subseteq Block /\ Indexed(db) /\ DbType(db)
    BY <2>1 DEF Inv, Ready, Good, DbType
  <2>4. ASSUME NEW b \in db.states, Previous(b) \in db.invalid PROVE b \in db.invalid
    <3>1. Previous(b) \in db.states /\ b \in Block /\ Previous(b) \in Block
      BY <2>2, <2>3, <2>4 DEF Forest
    <3>2. Len(Previous(b)) \in Nat /\ Len(Previous(b)) >= 1 /\ Len(b) \in Nat /\ Len(b) >= 1
          /\ b \in Seq(Header(Nat, Nat, Nat))
      BY <3>1, BlockFacts
    <3>3. Len(b) # 1
      <4>1. SUFFICES ASSUME Len(b) = 1 PROVE FALSE
        OBVIOUS
      <4>2. Previous(b) = SubSeq(b, 1, 0)
        BY <4>1 DEF Previous
      <4>3. Len(SubSeq(b, 1, 0)) = 0
        BY <3>2
      <4> QED
        BY <3>2, <4>2, <4>3
    <3>4. Len(b) - 1 \in 1..Len(b) /\ Previous(b) = Ancestor(b, Len(b) - 1)
      BY <3>2, <3>3 DEF Previous, Ancestor
    <3>5. IsAncestor(Previous(b), b)
      BY <3>1, <3>4, IsAncestorOfBlock
    <3> QED
      BY <2>2, <2>4, <3>5 DEF Forest
  <2>5. db.invalid \cap db.byOrderIndex = {}
    BY <2>3, IndexedSubset
  <2>6. db.invalid \cap db.revisions = {}
    BY <2>2 DEF Forest
  <2> QED
    BY <2>4, <2>5, <2>6 DEF InvalidIsClosed
<1> QED
  BY <1>1, InvAlways, PTL

\* A node that stops after any handler finds its head when it starts again, with all
\* blocks down to the last irreversible one (the constructor of ForkDb).
THEOREM RestartAlwaysKeepsChain ==
  Spec => []RestartKeepsChain
<1>1. Inv => RestartKeepsChain
  <2>1. SUFFICES ASSUME Inv, ~db.failed
                 PROVE  /\ Reload(db).head = db.head
                        /\ Reload(db).commitIndex <= db.commitIndex
                        /\ \A i \in db.commitIndex..Len(db.head) :
                             Ancestor(db.head, i) \in Reload(db).states
    BY DEF RestartKeepsChain, BlockNum
  <2>2. PICK r \in db.states : Forest(db, r)
    BY <2>1 DEF Inv, Ready
  <2>3. Good(db) /\ db.databaseHead = db.head
    BY <2>1 DEF Inv, Ready
  <2>4. /\ Reload(db).head = db.databaseHead /\ Reload(db).commitIndex <= db.commitIndex
        /\ \A i \in db.commitIndex..Len(Reload(db).head) :
             Ancestor(Reload(db).head, i) \in Reload(db).states
    BY <2>2, <2>3, ReloadShape
  <2> QED
    BY <2>3, <2>4
<1> QED
  BY <1>1, InvAlways, PTL

\* order() is a strict order.
LEMMA OrderIsStrict ==
  ASSUME NEW b \in Block, NEW c \in Block
  PROVE  ~(OrderLess(b, c) /\ OrderLess(c, b))
<1>1. SUFFICES ASSUME OrderLess(b, c), OrderLess(c, b) PROVE FALSE
  OBVIOUS
<1>2. Term(b) \in Nat /\ Term(c) \in Nat /\ Len(b) \in Nat /\ Len(c) \in Nat
  BY BlockFacts
<1>3. Len(b) = Len(c) /\ IdLess(b, c) /\ IdLess(c, b)
  BY <1>1, <1>2 DEF OrderLess, BlockNum
<1>4. PICK i \in 1..Len(b) : HeaderLess(b[i], c[i]) /\ \A j \in (i + 1)..Len(b) : b[j] = c[j]
  BY <1>3 DEF IdLess
<1>5. PICK k \in 1..Len(c) : HeaderLess(c[k], b[k]) /\ \A j \in (k + 1)..Len(c) : c[j] = b[j]
  BY <1>3 DEF IdLess
<1>6. /\ b[i] \in Header(Nat, Nat, Nat) /\ c[i] \in Header(Nat, Nat, Nat)
      /\ b[k] \in Header(Nat, Nat, Nat) /\ c[k] \in Header(Nat, Nat, Nat)
  BY <1>3, BlockFacts
<1>7. ASSUME NEW g \in Header(Nat, Nat, Nat), NEW h \in Header(Nat, Nat, Nat),
             HeaderLess(g, h), HeaderLess(h, g)
      PROVE  FALSE
  <2>1. /\ g.term \in Nat /\ g.producer \in Nat /\ g.commitNum \in Nat
        /\ h.term \in Nat /\ h.producer \in Nat /\ h.commitNum \in Nat
    BY DEF Header
  <2>2. g.term = h.term
    BY <1>7, <2>1 DEF HeaderLess
  <2>3. g.producer = h.producer
    BY <1>7, <2>1, <2>2 DEF HeaderLess
  <2>4. g.commitNum = h.commitNum
    BY <1>7, <2>1, <2>2, <2>3 DEF HeaderLess
  <2> QED
    BY <1>7, <2>1, <2>2, <2>3, <2>4 DEF HeaderLess
<1>8. i = k
  <2>1. CASE i < k
    <3>1. k \in (i + 1)..Len(b)
      BY <1>2, <1>3, <2>1
    <3>2. b[k] = c[k]
      BY <1>4, <3>1
    <3> QED
      BY <1>5, <1>6, <1>7, <3>2
  <2>2. CASE k < i
    <3>1. i \in (k + 1)..Len(c)
      BY <1>2, <1>3, <2>2
    <3>2. b[i] = c[i]
      BY <1>5, <3>1
    <3> QED
      BY <1>4, <1>6, <1>7, <3>2
  <2> QED
    BY <1>2, <1>3, <2>1, <2>2
<1> QED
  BY <1>4, <1>5, <1>6, <1>7, <1>8

\* After every handler the head is the best viable block, or a better one is being
\* produced on it: async_switch_fork does not give up before it has tried every fork.
THEOREM HeadIsAlwaysBest ==
  Spec => []HeadIsBest
<1>1. Inv => HeadIsBest
  <2> DEFINE viable == {b \in db.byOrderIndex : Term(b) <= db.currentTerm}
  <2>1. SUFFICES ASSUME Inv, ~db.failed, ~stopped
                 PROVE  /\ db.head \in viable
                        /\ \A best \in LastOf(viable) :
                             db.head = best \/ KeepsPending(db, db.head, best)
    BY DEF HeadIsBest
  <2>2. /\ Indexed(db) /\ db.states \subseteq Block /\ db.head \in db.byOrderIndex
        /\ \A b \in db.states : Term(b) <= db.currentTerm
        /\ \A b \in db.byOrderIndex :
             b = db.head \/ OrderLess(b, db.head) \/ KeepsPending(db, db.head, b)
    BY <2>1 DEF Inv, Ready, Settled, NoBetter, Good, DbType
  <2>3. viable = db.byOrderIndex /\ db.byOrderIndex \subseteq Block
    BY <2>2, IndexedSubset
  <2> HIDE DEF viable
  <2>4. ASSUME NEW best \in LastOf(viable)
        PROVE  db.head = best \/ KeepsPending(db, db.head, best)
    <3>1. SUFFICES ASSUME db.head # best, OrderLess(best, db.head) PROVE FALSE
      BY <2>2, <2>3 DEF LastOf
    <3>2. best \in Block /\ db.head \in Block /\ OrderLess(db.head, best)
      BY <2>2, <2>3, <3>1 DEF LastOf
    <3> QED
      BY <3>1, <3>2, OrderIsStrict
  <2> QED
    BY <2>2, <2>3, <2>4
<1> QED
  BY <1>1, InvAlways, PTL

\* "An irreversible block cannot be forked out": no handler takes a block up to
\* commitIndex out of the best chain, and neither does a restart between two handlers or
\* in the middle of a fork switch, after any of the blocks that execute_fork saves.
THEOREM IrreversibleAlwaysStays ==
  Spec => IrreversibleStays
<1>1. Inv /\ [Next]_vars =>
        /\ IsAncestor(Ancestor(db.head, db.commitIndex), db'.head)
        /\ restarts' = restarts => db'.commitIndex >= db.commitIndex
  BY NextInv
<1> QED
  BY <1>1, InvAlways, PTL DEF Spec, IrreversibleStays
=============================================================================
