---------------------------- MODULE ForkDbProofs ----------------------------
(***************************************************************************)
(* Every function of the fork database keeps it well-formed, and none of   *)
(* them forks out an irreversible block, whatever blocks it is given.      *)
(***************************************************************************)
EXTENDS ForkDb, SequenceTheorems, FiniteSetTheorems, WellFoundedInduction, TLAPS

-----------------------------------------------------------------------------
(***************************************************************************)
(* Least and greatest numbers.                                             *)
(***************************************************************************)
LEMMA NatMin ==
  ASSUME NEW S \in SUBSET Nat, S # {}
  PROVE  \E x \in S : \A y \in S : x <= y
<1>1. \E x \in S : \A y \in S : ~ (<<y, x>> \in OpToRel(<, Nat))
  BY WFMin, NatLessThanWellFounded
<1>2. PICK x \in S : \A y \in S : ~ (<<y, x>> \in OpToRel(<, Nat))
  BY <1>1
<1>3. ASSUME NEW y \in S PROVE x <= y
  <2>1. <<y, x>> \in Nat \X Nat
    OBVIOUS
  <2>2. ~ (y < x)
    BY <1>2, <2>1 DEF OpToRel
  <2> QED
    BY <2>2
<1> QED
  BY <1>3

\* A non-empty set of numbers with an upper bound has a largest element.
LEMMA NatMax ==
  ASSUME NEW S \in SUBSET Nat, S # {}, NEW bound \in Nat, \A x \in S : x <= bound
  PROVE  \E x \in S : \A y \in S : y <= x
<1> DEFINE U == {k \in Nat : \A x \in S : x <= k}
<1>1. U \in SUBSET Nat /\ bound \in U
  OBVIOUS
<1>2. PICK k \in U : \A l \in U : k <= l
  BY <1>1, NatMin
<1>3. SUFFICES ASSUME k \notin S PROVE FALSE
  BY <1>2
<1>4. \A x \in S : x < k
  BY <1>2, <1>3
<1>5. PICK x \in S : x < k
  BY <1>4
<1>6. k - 1 \in Nat /\ \A z \in S : z <= k - 1
  BY <1>4, <1>5
<1>7. k - 1 \in U
  BY <1>6
<1> QED
  BY <1>2, <1>7

\* A non-empty finite set of numbers has a greatest element: among the sets of its
\* elements from k on, the smallest belongs to the greatest k.
LEMMA FiniteMax ==
  ASSUME NEW S \in SUBSET Nat, IsFiniteSet(S), S # {}
  PROVE  \E x \in S : \A y \in S : y <= x
<1> DEFINE Above(k) == {x \in S : x >= k}
           T == {Above(k) : k \in S}
<1>1. ASSUME NEW k \in S PROVE Above(k) \in FiniteSubsetsOf(S)
  <2>1. Above(k) \in SUBSET S
    OBVIOUS
  <2>2. IsFiniteSet(Above(k))
    BY <2>1, FS_Subset
  <2> QED
    BY <2>1, <2>2 DEF FiniteSubsetsOf
<1>2. PICK A \in T : \A B \in T : ~ (<<B, A>> \in StrictSubsetOrdering(S))
  <2>1. T \subseteq FiniteSubsetsOf(S) /\ T # {}
    BY <1>1
  <2> QED
    BY <2>1, FS_StrictSubsetOrderingWellFounded, WFMin
<1>3. PICK k \in S : A = Above(k)
  OBVIOUS
<1>4. ASSUME NEW y \in S, ~ (y <= k) PROVE FALSE
  <2>1. y > k
    BY <1>4
  <2>2. /\ \A x \in S : x >= y => x >= k
        /\ k >= k /\ ~ (k >= y)
    BY <2>1
  <2>3. Above(y) \subseteq Above(k) /\ Above(y) # Above(k)
    BY <2>2
  <2>4. Above(y) \in T /\ <<Above(y), Above(k)>> \in (SUBSET S) \X (SUBSET S)
    OBVIOUS
  <2>5. <<Above(y), Above(k)>> \in StrictSubsetOrdering(S)
    BY <2>3, <2>4 DEF StrictSubsetOrdering
  <2> QED
    BY <1>2, <1>3, <2>4, <2>5
<1> QED
  BY <1>4

-----------------------------------------------------------------------------
(***************************************************************************)
(* Blocks and their ancestors.                                             *)
(***************************************************************************)
LEMMA BlockFacts ==
  ASSUME NEW b \in Block
  PROVE  /\ b \in Seq(Header(Nat, Nat, Nat))
         /\ Len(b) \in Nat /\ Len(b) >= 1
         /\ \A i \in 1..Len(b) : b[i] \in Header(Nat, Nat, Nat) /\ b[i].commitNum \in 1..i
         /\ Term(b) \in Nat /\ b[Len(b)].producer \in Nat
         /\ CommitNum(b) \in 1..Len(b)
<1>1. /\ b \in Seq(Header(Nat, Nat, Nat)) /\ b # <<>>
      /\ \A i \in 1..Len(b) : b[i].commitNum \in 1..i
  BY DEF Block
<1>2. Len(b) \in Nat /\ Len(b) >= 1
  BY <1>1, EmptySeq
<1>3. \A i \in 1..Len(b) : b[i] \in Header(Nat, Nat, Nat)
  BY <1>1, LenProperties
<1>4. b[Len(b)] \in Header(Nat, Nat, Nat) /\ b[Len(b)].commitNum \in 1..Len(b)
  BY <1>1, <1>2, <1>3
<1>5. b[Len(b)].term \in Nat /\ b[Len(b)].producer \in Nat
  BY <1>4 DEF Header
<1> QED
  BY <1>1, <1>2, <1>3, <1>4, <1>5 DEF Term, CommitNum

\* The ancestor of a block with a number is a block with that number and the same headers.
LEMMA AncestorFacts ==
  ASSUME NEW b \in Block, NEW i \in 1..Len(b)
  PROVE  /\ Ancestor(b, i) \in Block
         /\ Len(Ancestor(b, i)) = i
         /\ \A j \in 1..i : Ancestor(b, i)[j] = b[j]
<1>1. i \in Nat /\ i >= 1 /\ \A j \in 1..i : j \in 1..Len(b)
  BY BlockFacts
<1>2. /\ SubSeq(b, 1, i) \in Seq(Header(Nat, Nat, Nat))
      /\ Len(SubSeq(b, 1, i)) = i
      /\ \A j \in 1..i : SubSeq(b, 1, i)[j] = b[j]
  <2>1. \A j \in 1..i : b[j] \in Header(Nat, Nat, Nat)
    BY <1>1, BlockFacts
  <2> QED
    BY <1>1, <2>1, SubSeqProperties
<1>3. SubSeq(b, 1, i) # <<>>
  BY <1>1, <1>2, EmptySeq
<1>4. \A j \in 1..i : SubSeq(b, 1, i)[j].commitNum \in 1..j
  BY <1>1, <1>2, BlockFacts
<1> QED
  BY <1>2, <1>3, <1>4 DEF Ancestor, Block

\* A block is its own ancestor with its own number.
LEMMA AncestorSelf ==
  ASSUME NEW b \in Block
  PROVE  Ancestor(b, Len(b)) = b
BY BlockFacts, SubSeqFull DEF Ancestor

\* An ancestor of an ancestor is an ancestor.
LEMMA AncestorOfAncestor ==
  ASSUME NEW b \in Block, NEW i \in 1..Len(b), NEW j \in 1..i
  PROVE  Ancestor(Ancestor(b, i), j) = Ancestor(b, j)
<1>1. Len(b) \in Nat /\ j \in 1..Len(b) /\ \A k \in 1..j : k \in 1..i
  BY BlockFacts
<1>2. /\ Ancestor(b, i) \in Block /\ Len(Ancestor(b, i)) = i
      /\ \A k \in 1..i : Ancestor(b, i)[k] = b[k]
  BY AncestorFacts
<1>3. /\ Ancestor(b, j) \in Block /\ Len(Ancestor(b, j)) = j
      /\ \A k \in 1..j : Ancestor(b, j)[k] = b[k]
  BY <1>1, AncestorFacts
<1>4. /\ Ancestor(Ancestor(b, i), j) \in Block /\ Len(Ancestor(Ancestor(b, i), j)) = j
      /\ \A k \in 1..j : Ancestor(Ancestor(b, i), j)[k] = Ancestor(b, i)[k]
  BY <1>2, AncestorFacts
<1>5. \A k \in 1..j : Ancestor(Ancestor(b, i), j)[k] = Ancestor(b, j)[k]
  BY <1>1, <1>2, <1>3, <1>4
<1>6. /\ Ancestor(b, j) \in Seq(Header(Nat, Nat, Nat))
      /\ Ancestor(Ancestor(b, i), j) \in Seq(Header(Nat, Nat, Nat))
  BY <1>3, <1>4, BlockFacts
<1> QED
  BY <1>3, <1>4, <1>5, <1>6, SeqEqual

\* What Ancestor returns satisfies is_ancestor.
LEMMA IsAncestorOfBlock ==
  ASSUME NEW b \in Block, NEW i \in 1..Len(b)
  PROVE  IsAncestor(Ancestor(b, i), b)
BY BlockFacts, AncestorFacts DEF IsAncestor

\* is_ancestor is reflexive.
LEMMA IsAncestorRefl ==
  ASSUME NEW b \in Block
  PROVE  IsAncestor(b, b)
BY BlockFacts, AncestorSelf DEF IsAncestor

\* Two blocks agree on the history of the older one.
LEMMA SameHistory ==
  ASSUME NEW a \in Block, NEW b \in Block, IsAncestor(a, b), NEW i \in 1..Len(a)
  PROVE  i \in 1..Len(b) /\ Ancestor(a, i) = Ancestor(b, i)
<1>1. Len(a) \in 1..Len(b) /\ a = Ancestor(b, Len(a)) /\ i \in 1..Len(b)
  BY BlockFacts DEF IsAncestor
<1>2. Ancestor(Ancestor(b, Len(a)), i) = Ancestor(b, i)
  BY <1>1, AncestorOfAncestor
<1> QED
  BY <1>1, <1>2

\* is_ancestor is transitive.
LEMMA IsAncestorTrans ==
  ASSUME NEW a \in Block, NEW b \in Block, NEW c \in Block,
         IsAncestor(a, b), IsAncestor(b, c)
  PROVE  IsAncestor(a, c)
<1>1. /\ Len(a) \in 1..Len(b) /\ Ancestor(b, Len(a)) = a
      /\ Len(a) \in Nat /\ Len(b) \in Nat /\ Len(c) \in Nat /\ Len(b) <= Len(c)
  BY BlockFacts DEF IsAncestor
<1>2. Ancestor(b, Len(a)) = Ancestor(c, Len(a))
  BY <1>1, SameHistory
<1>3. Len(a) <= Len(c)
  BY <1>1
<1>4. Ancestor(c, Len(a)) = a
  BY <1>1, <1>2
<1> QED
  BY <1>3, <1>4 DEF IsAncestor

\* Of two ancestors of a block the one with the smaller number is an ancestor of the
\* other.
LEMMA AncestorsAreOrdered ==
  ASSUME NEW b \in Block, NEW i \in 1..Len(b), NEW j \in 1..i
  PROVE  IsAncestor(Ancestor(b, j), Ancestor(b, i))
<1>1. j \in 1..Len(b) /\ Len(b) \in Nat
  BY BlockFacts
<1>2. Len(Ancestor(b, j)) = j /\ Len(Ancestor(b, i)) = i
  BY <1>1, AncestorFacts
<1>3. Ancestor(Ancestor(b, i), j) = Ancestor(b, j)
  BY AncestorOfAncestor
<1> QED
  BY <1>2, <1>3 DEF IsAncestor

-----------------------------------------------------------------------------
(***************************************************************************)
(* The functions of the database.  Good is what each of them preserves,    *)
(* and Same says which members it leaves alone.                            *)
(***************************************************************************)
Good(db) == DbType(db) /\ IndexIsChainOfHead(db) /\ DurableHead(db)

SameChain(d, db) ==
  /\ d.byBlocknumIndex = db.byBlocknumIndex
  /\ d.head = db.head
  /\ d.databaseHead = db.databaseHead
  /\ d.revisions = db.revisions
  /\ d.states = db.states
  /\ d.invalid = db.invalid

\* The call does not touch the pending block, nor does it forget a failure.
SameBlock(d, db) ==
  /\ d.blockContext = db.blockContext
  /\ d.currentTerm = db.currentTerm
  /\ db.failed => d.failed

\* The blocks that are irreversible in db are irreversible in d.
KeepsIrreversible(d, db) ==
  /\ d.commitIndex >= db.commitIndex
  /\ IsAncestor(Ancestor(db.head, db.commitIndex), d.head)

\* What a lookup in byBlocknumIndex returns.
LEMMA IndexFacts ==
  ASSUME NEW db, DbType(db), IndexIsChainOfHead(db)
  PROVE  /\ db.commitIndex \in Nat /\ db.commitIndex \in 1..Len(db.head)
         /\ db.commitIndex \in DOMAIN db.byBlocknumIndex
         /\ \A i \in DOMAIN db.byBlocknumIndex :
              /\ i \in 1..Len(db.head)
              /\ db.byBlocknumIndex[i] = Ancestor(db.head, i)
         /\ \A i \in DOMAIN db.byBlocknumIndex, j \in 1..Len(db.head) :
              i <= j => j \in DOMAIN db.byBlocknumIndex
<1>1. db.head \in Block /\ Len(db.head) \in Nat
  BY BlockFacts DEF DbType
<1>2. db.commitIndex \in Nat /\ db.commitIndex \in 1..Len(db.head)
  BY <1>1 DEF IndexIsChainOfHead, BlockNum
<1>3. PICK low \in 1..db.commitIndex :
        db.byBlocknumIndex = [i \in low..Len(db.head) |-> Ancestor(db.head, i)]
  BY DEF IndexIsChainOfHead, BlockNum
<1> QED
  BY <1>1, <1>2, <1>3

\* A database whose index is the chain of the head from some number on.
LEMMA IndexIntro ==
  ASSUME NEW db, NEW low \in 1..db.commitIndex, db.commitIndex \in 1..Len(db.head),
         db.byBlocknumIndex = [i \in low..Len(db.head) |-> Ancestor(db.head, i)]
  PROVE  IndexIsChainOfHead(db)
BY DEF IndexIsChainOfHead, BlockNum

\* Every block from the last irreversible one to the head has been executed.
LEMMA ChainHasRevisions ==
  ASSUME NEW db, Good(db), NEW i \in db.commitIndex..Len(db.head)
  PROVE  Ancestor(db.head, i) \in db.revisions
<1>1. /\ db.head \in Block /\ db.databaseHead \in Block /\ db.commitIndex \in 1..Len(db.head)
      /\ Len(db.head) \in Nat /\ Len(db.databaseHead) \in Nat
  BY BlockFacts, IndexFacts DEF Good, DbType
<1>2. IsAncestor(db.head, db.databaseHead) /\ i \in 1..Len(db.head)
  BY <1>1 DEF Good, DurableHead
<1>3. i \in 1..Len(db.databaseHead) /\ Ancestor(db.head, i) = Ancestor(db.databaseHead, i)
  BY <1>1, <1>2, SameHistory
<1>4. i \in db.commitIndex..Len(db.databaseHead)
  BY <1>1, <1>3
<1> QED
  BY <1>3, <1>4 DEF Good, DurableHead

\* What is irreversible before the first of two calls is so after the second.
LEMMA KeepsTrans ==
  ASSUME NEW b, NEW c, NEW d, Good(b), Good(c), Good(d),
         KeepsIrreversible(c, b), KeepsIrreversible(d, c)
  PROVE  KeepsIrreversible(d, b)
<1>1. /\ b.head \in Block /\ b.commitIndex \in Nat /\ b.commitIndex \in 1..Len(b.head)
      /\ c.head \in Block /\ c.commitIndex \in Nat /\ c.commitIndex \in 1..Len(c.head)
      /\ d.head \in Block /\ d.commitIndex \in Nat
  BY IndexFacts DEF Good, DbType
<1>2. /\ b.commitIndex <= c.commitIndex /\ c.commitIndex <= d.commitIndex
      /\ b.commitIndex \in 1..c.commitIndex
  BY <1>1 DEF KeepsIrreversible
<1> DEFINE B == Ancestor(b.head, b.commitIndex)
           C == Ancestor(c.head, c.commitIndex)
<1>3. B \in Block /\ Len(B) = b.commitIndex /\ C \in Block
  BY <1>1, AncestorFacts
<1>4. IsAncestor(B, c.head) /\ IsAncestor(C, d.head)
  BY DEF KeepsIrreversible
<1>5. B = Ancestor(c.head, b.commitIndex)
  BY <1>3, <1>4 DEF IsAncestor
<1>6. IsAncestor(B, C)
  BY <1>1, <1>2, <1>5, AncestorsAreOrdered
<1>7. IsAncestor(B, d.head)
  <2> HIDE DEF B, C
  <2> QED BY <1>1, <1>3, <1>4, <1>6, IsAncestorTrans
<1> QED
  BY <1>1, <1>2, <1>7 DEF KeepsIrreversible

\* A call that leaves the head alone and does not lower commitIndex.
LEMMA KeepsSameHead ==
  ASSUME NEW b, NEW d, Good(b), d.head = b.head, d.commitIndex >= b.commitIndex
  PROVE  KeepsIrreversible(d, b)
<1>1. b.head \in Block /\ b.commitIndex \in 1..Len(b.head)
  BY IndexFacts DEF Good, DbType
<1> QED
  BY <1>1, IsAncestorOfBlock DEF KeepsIrreversible

\* ForkDb::insert keeps the database well-formed and changes no chain.
LEMMA InsertGood ==
  ASSUME NEW db, Good(db), NEW b \in Block
  PROVE  /\ Good(Insert(db, b))
         /\ SameBlock(Insert(db, b), db)
         /\ Insert(db, b).head = db.head
         /\ Insert(db, b).commitIndex = db.commitIndex
         /\ Insert(db, b).failed = db.failed
<1> DEFINE d == Insert(db, b)
<1>1. /\ DOMAIN d = DOMAIN db
      /\ d.states = db.states \cup {b}
      /\ d.invalid \subseteq db.invalid \cup {b}
      /\ d.byOrderIndex \subseteq db.byOrderIndex \cup {b}
      /\ d.revisions = db.revisions /\ d.byBlocknumIndex = db.byBlocknumIndex
      /\ d.head = db.head /\ d.databaseHead = db.databaseHead
      /\ d.commitIndex = db.commitIndex /\ d.currentTerm = db.currentTerm
      /\ d.blockContext = db.blockContext /\ d.failed = db.failed
  BY DEF Good, DbType, Insert
<1> HIDE DEF d
<1>2. DbType(d)
  BY <1>1 DEF Good, DbType
<1>3. IndexIsChainOfHead(d) /\ DurableHead(d)
  BY <1>1 DEF Good, IndexIsChainOfHead, DurableHead
<1> QED
  BY <1>1, <1>2, <1>3 DEF Good, SameBlock, d

\* ForkDb::set_subtree changes only byOrderIndex, or fails.
LEMMA SetSubtreeFields ==
  ASSUME NEW db, DbType(db), NEW root
  PROVE  LET d == SetSubtree(db, root)
         IN  /\ DbType(d) /\ SameChain(d, db) /\ SameBlock(d, db)
             /\ d.commitIndex = db.commitIndex
<1> DEFINE d == SetSubtree(db, root)
<1>1. /\ DOMAIN d = DOMAIN db
      /\ d.byOrderIndex \subseteq db.byOrderIndex \cup db.states
      /\ d.failed \in BOOLEAN
      /\ SameChain(d, db) /\ SameBlock(d, db)
      /\ d.commitIndex = db.commitIndex
  BY DEF DbType, SetSubtree, ConsensusFailure, SameChain, SameBlock
<1> HIDE DEF d
<1>2. DbType(d)
  BY <1>1 DEF DbType, SameChain, SameBlock
<1> QED
  BY <1>1, <1>2 DEF d

\* set_subtree leaves the chain of the head alone.
LEMMA SetSubtreeGood ==
  ASSUME NEW db, Good(db), NEW root
  PROVE  LET d == SetSubtree(db, root)
         IN  Good(d) /\ SameChain(d, db) /\ SameBlock(d, db) /\ d.commitIndex = db.commitIndex
<1> DEFINE d == SetSubtree(db, root)
<1>1. DbType(d) /\ SameChain(d, db) /\ SameBlock(d, db) /\ d.commitIndex = db.commitIndex
  BY SetSubtreeFields DEF Good
<1> HIDE DEF d
<1>2. IndexIsChainOfHead(d) /\ DurableHead(d)
  BY <1>1 DEF Good, IndexIsChainOfHead, DurableHead, SameChain
<1> QED
  BY <1>1, <1>2 DEF Good, d

\* ForkDb::commit, also in the middle of a fork switch, when the index is not the chain
\* of the head.
LEMMA CommitFields ==
  ASSUME NEW db, DbType(db), db.commitIndex \in Nat, NEW num \in Nat
  PROVE  LET d == Commit(db, num)
         IN  /\ DbType(d) /\ SameChain(d, db) /\ SameBlock(d, db)
             /\ d.commitIndex \in Nat /\ d.commitIndex >= db.commitIndex
             /\ d.commitIndex # db.commitIndex =>
                  d.commitIndex <= num /\ d.commitIndex <= Len(db.head)
<1> DEFINE d == Commit(db, num)
           new == NewCommitIndex(db, num)
           p == SetSubtree(db, db.byBlocknumIndex[new])
<1>1. Len(db.head) \in Nat
  BY BlockFacts DEF DbType
<1>2. /\ new \in Nat /\ new >= db.commitIndex
      /\ new # db.commitIndex => new <= num /\ new <= Len(db.head)
  BY <1>1 DEF NewCommitIndex, BlockNum
<1> HIDE DEF new
<1>3. DbType(p) /\ SameChain(p, db) /\ SameBlock(p, db)
  BY SetSubtreeFields
<1>4. d = [p EXCEPT !.commitIndex = new] \/ d = [db EXCEPT !.commitIndex = new]
  BY DEF Commit, new
<1> HIDE DEF p, d
<1>5. DbType(d) /\ SameChain(d, db) /\ SameBlock(d, db) /\ d.commitIndex = new
  <2>1. CASE d = [p EXCEPT !.commitIndex = new]
    BY <1>3, <2>1 DEF DbType, SameChain, SameBlock
  <2>2. CASE d = [db EXCEPT !.commitIndex = new]
    BY <2>2 DEF DbType, SameChain, SameBlock
  <2> QED
    BY <1>4, <2>1, <2>2
<1> QED
  BY <1>2, <1>5 DEF d

\* ForkDb::commit raises commitIndex within the chain of the head.
LEMMA CommitGood ==
  ASSUME NEW db, Good(db), NEW num \in Nat
  PROVE  LET d == Commit(db, num)
         IN  /\ Good(d) /\ SameChain(d, db) /\ SameBlock(d, db)
             /\ d.commitIndex >= db.commitIndex
<1> DEFINE d == Commit(db, num)
<1>1. /\ db.commitIndex \in Nat /\ db.commitIndex \in 1..Len(db.head) /\ Len(db.head) \in Nat
      /\ \E low \in 1..db.commitIndex :
           db.byBlocknumIndex = [i \in low..Len(db.head) |-> Ancestor(db.head, i)]
  BY IndexFacts, BlockFacts DEF Good, DbType, IndexIsChainOfHead, BlockNum
<1>2. /\ DbType(d) /\ SameChain(d, db) /\ SameBlock(d, db)
      /\ d.commitIndex \in Nat /\ d.commitIndex >= db.commitIndex
      /\ d.commitIndex # db.commitIndex => d.commitIndex <= Len(db.head)
  BY <1>1, CommitFields DEF Good
<1> HIDE DEF d
<1>3. d.head = db.head /\ d.byBlocknumIndex = db.byBlocknumIndex
  BY <1>2 DEF SameChain
<1>4. d.commitIndex \in 1..Len(d.head) /\ \A low \in 1..db.commitIndex : low \in 1..d.commitIndex
  BY <1>1, <1>2, <1>3
<1>5. IndexIsChainOfHead(d)
  BY <1>1, <1>3, <1>4 DEF IndexIsChainOfHead, BlockNum
<1>6. DurableHead(d)
  <2>1. \A i \in d.commitIndex..Len(db.databaseHead) : i \in db.commitIndex..Len(db.databaseHead)
    BY <1>1, <1>2, BlockFacts DEF Good, DbType
  <2> QED
    BY <1>2, <2>1 DEF Good, DurableHead, SameChain
<1> QED
  BY <1>2, <1>5, <1>6 DEF Good, d

\* The commits of executed blocks go no further than their headers say.
LEMMA AcceptBlocksFields ==
  ASSUME NEW db, DbType(db), db.commitIndex \in Nat, NEW accepted \in SUBSET Block,
         NEW top \in Nat, \A b \in accepted : CommitNum(b) <= top
  PROVE  LET d == AcceptBlocks(db, accepted)
         IN  /\ DbType(d) /\ SameChain(d, db) /\ SameBlock(d, db)
             /\ d.commitIndex \in Nat /\ d.commitIndex >= db.commitIndex
             /\ d.commitIndex # db.commitIndex => d.commitIndex <= top
<1> DEFINE nums == {CommitNum(b) : b \in accepted}
           num == CHOOSE n \in nums : \A k \in nums : k <= n
<1>1. CASE accepted = {}
  BY <1>1 DEF AcceptBlocks, SameChain, SameBlock
<1>2. CASE accepted # {}
  <2>1. \A b \in accepted : CommitNum(b) \in Nat
    BY BlockFacts
  <2>2. nums \in SUBSET Nat /\ nums # {} /\ \A n \in nums : n <= top
    BY <1>2, <2>1
  <2>3. \E n \in nums : \A k \in nums : k <= n
    BY <2>2, NatMax
  <2>4. num \in nums
    BY <2>3
  <2>5. num \in Nat /\ num <= top
    BY <2>2, <2>4
  <2>6. AcceptBlocks(db, accepted) = Commit(db, num)
    BY <1>2 DEF AcceptBlocks
  <2> HIDE DEF num
  <2> DEFINE d == Commit(db, num)
  <2>7. /\ DbType(d) /\ SameChain(d, db) /\ SameBlock(d, db)
        /\ d.commitIndex \in Nat /\ d.commitIndex >= db.commitIndex
        /\ d.commitIndex # db.commitIndex => d.commitIndex <= num
    BY <2>5, CommitFields
  <2> QED
    BY <2>5, <2>6, <2>7
<1> QED
  BY <1>1, <1>2

\* trySetHead finds the last block of the best chain that is an ancestor of the new
\* head, at or above the last irreversible block.
LEMMA ForkPointFacts ==
  ASSUME NEW db, Good(db), NEW new \in Block, ~Conflicts(db, new)
  PROVE  LET fork == ForkPoint(db, new)
         IN  /\ fork \in Nat /\ fork >= db.commitIndex
             /\ fork \in DOMAIN db.byBlocknumIndex
             /\ fork \in 1..Len(new) /\ fork \in 1..Len(db.head)
             /\ Ancestor(new, fork) = Ancestor(db.head, fork)
<1> DEFINE S == {i \in DOMAIN db.byBlocknumIndex : IsAncestor(db.byBlocknumIndex[i], new)}
           fork == ForkPoint(db, new)
<1>1. /\ db.head \in Block /\ Len(db.head) \in Nat /\ Len(new) \in Nat
      /\ db.commitIndex \in Nat /\ db.commitIndex \in 1..Len(db.head)
      /\ db.commitIndex \in DOMAIN db.byBlocknumIndex
      /\ \A i \in DOMAIN db.byBlocknumIndex :
           i \in 1..Len(db.head) /\ db.byBlocknumIndex[i] = Ancestor(db.head, i)
  BY IndexFacts, BlockFacts DEF Good, DbType
<1>2. db.commitIndex \in S
  <2>1. Len(new) >= db.commitIndex /\ Ancestor(new, db.commitIndex) = db.byBlocknumIndex[db.commitIndex]
    BY <1>1 DEF Conflicts, BlockNum
  <2>2. IsAncestor(Ancestor(new, db.commitIndex), new)
    BY <1>1, <2>1, IsAncestorOfBlock
  <2> QED
    BY <1>1, <2>1, <2>2
<1>3. \E i \in S : \A j \in S : j <= i
  <2>1. S \in SUBSET Nat /\ S # {} /\ \A i \in S : i <= Len(db.head)
    BY <1>1, <1>2
  <2> HIDE DEF S
  <2> QED
    BY <1>1, <2>1, NatMax
<1>4. \E i \in DOMAIN db.byBlocknumIndex :
        /\ IsAncestor(db.byBlocknumIndex[i], new)
        /\ \A j \in DOMAIN db.byBlocknumIndex :
             j > i => ~IsAncestor(db.byBlocknumIndex[j], new)
  <2>1. PICK i \in S : \A j \in S : j <= i
    BY <1>3
  <2>2. \A j \in DOMAIN db.byBlocknumIndex : j \in Nat /\ i \in Nat
    BY <1>1
  <2>3. \A j \in DOMAIN db.byBlocknumIndex : j > i => j \notin S
    BY <2>1, <2>2
  <2> QED
    BY <2>1, <2>3
<1>5. /\ fork \in DOMAIN db.byBlocknumIndex
      /\ IsAncestor(db.byBlocknumIndex[fork], new)
      /\ \A j \in DOMAIN db.byBlocknumIndex : j > fork => ~IsAncestor(db.byBlocknumIndex[j], new)
  BY <1>4 DEF ForkPoint
<1> HIDE DEF fork
<1>6. fork \in 1..Len(db.head) /\ fork \in Nat /\ IsAncestor(Ancestor(db.head, fork), new)
  BY <1>1, <1>5
<1>7. fork >= db.commitIndex
  BY <1>1, <1>2, <1>5, <1>6
<1>8. Len(Ancestor(db.head, fork)) = fork
  BY <1>1, <1>6, AncestorFacts
<1>9. fork <= Len(new) /\ Ancestor(new, fork) = Ancestor(db.head, fork)
  BY <1>6, <1>8 DEF IsAncestor
<1> QED
  BY <1>1, <1>5, <1>6, <1>7, <1>9 DEF fork

\* blacklist_subtree leaves the chain of the head alone.
LEMMA BlacklistFields ==
  ASSUME NEW db, DbType(db), NEW root \in Block
  PROVE  LET d == BlacklistSubtree(db, root)
         IN  /\ DbType(d) /\ SameBlock(d, db)
             /\ d.commitIndex = db.commitIndex /\ d.revisions = db.revisions
             /\ d.databaseHead = db.databaseHead
<1> DEFINE d == BlacklistSubtree(db, root)
<1>1. /\ DOMAIN d = DOMAIN db
      /\ d.byOrderIndex \subseteq db.byOrderIndex
      /\ d.invalid \subseteq db.invalid \cup {root} \cup db.byOrderIndex
      /\ d.states = db.states /\ d.revisions = db.revisions
      /\ d.head = db.head /\ d.databaseHead = db.databaseHead
      /\ d.commitIndex = db.commitIndex /\ d.failed = db.failed
      /\ SameBlock(d, db)
  BY DEF DbType, BlacklistSubtree, SameBlock
<1> HIDE DEF d
<1>2. DbType(d)
  BY <1>1 DEF DbType, SameBlock
<1> QED
  BY <1>1, <1>2 DEF d

\* ForkDb::trySetHead keeps the database well-formed and the irreversible blocks in the
\* best chain, whichever block of the new fork fails to execute.
THEOREM TrySetHeadGood ==
  ASSUME NEW db, Good(db), NEW new \in Block
  PROVE  LET d == TrySetHead(db, new)
         IN  Good(d) /\ SameBlock(d, db) /\ KeepsIrreversible(d, db)
<1>0. /\ db.head \in Block /\ Len(db.head) \in Nat /\ Len(new) \in Nat
      /\ db.commitIndex \in Nat /\ db.commitIndex \in 1..Len(db.head)
  BY IndexFacts, BlockFacts DEF Good, DbType
<1>1. KeepsIrreversible(db, db)
  BY <1>0, IsAncestorOfBlock DEF KeepsIrreversible
<1>2. CASE new = db.head
  BY <1>1, <1>2 DEF TrySetHead, SameBlock
<1>3. CASE new # db.head /\ Conflicts(db, new)
  <2> DEFINE d == [db EXCEPT !.failed = TRUE]
  <2>1. TrySetHead(db, new) = d
    BY <1>3 DEF TrySetHead, ConsensusFailure
  <2>2. DbType(d) /\ SameChain(d, db) /\ SameBlock(d, db) /\ d.commitIndex = db.commitIndex
    BY DEF Good, DbType, SameChain, SameBlock
  <2> HIDE DEF d
  <2>3. IndexIsChainOfHead(d) /\ DurableHead(d) /\ KeepsIrreversible(d, db)
    BY <1>1, <2>2 DEF Good, IndexIsChainOfHead, DurableHead, SameChain, KeepsIrreversible
  <2> QED
    BY <2>1, <2>2, <2>3 DEF Good
<1>4. CASE new # db.head /\ ~Conflicts(db, new)
  <2> DEFINE fork == ForkPoint(db, new)
             above == (fork + 1)..BlockNum(new)
             fresh == {i \in above : Ancestor(new, i) \notin db.revisions}
             bad == {i \in fresh : ~new[i].valid}
             last == IF bad = {} THEN BlockNum(new)
                     ELSE (CHOOSE i \in bad : \A j \in bad : i <= j) - 1
             accepted == {Ancestor(new, i) : i \in {j \in fresh : j <= last}}
             index(top) == [i \in {j \in DOMAIN db.byBlocknumIndex \cup above : j <= top} |->
                              IF i > fork THEN Ancestor(new, i) ELSE db.byBlocknumIndex[i]]
             mid == [db EXCEPT !.byBlocknumIndex = index(BlockNum(new)),
                               !.revisions = @ \cup accepted]
             executed == AcceptBlocks(mid, accepted)
             checked == IF bad = {} THEN executed
                        ELSE BlacklistSubtree(executed, Ancestor(new, last + 1))
             d == [checked EXCEPT
                    !.byBlocknumIndex = index(last),
                    !.head = Ancestor(new, last),
                    !.databaseHead = IF last > fork THEN Ancestor(new, last) ELSE @]
  <2>1. TrySetHead(db, new) = d
    BY <1>4 DEF TrySetHead
  <2>2. /\ fork \in Nat /\ fork >= db.commitIndex /\ fork \in DOMAIN db.byBlocknumIndex
        /\ fork \in 1..Len(new) /\ fork \in 1..Len(db.head)
        /\ Ancestor(new, fork) = Ancestor(db.head, fork)
    BY <1>4, ForkPointFacts
  <2> HIDE DEF fork
  <2>3. /\ last \in Nat /\ last >= fork /\ last \in 1..Len(new)
        /\ bad # {} => last + 1 \in 1..Len(new)
    <3>1. CASE bad = {}
      BY <1>0, <2>2, <3>1 DEF BlockNum
    <3>2. CASE bad # {}
      <4>1. bad \in SUBSET Nat /\ \A i \in bad : i >= fork + 1 /\ i <= Len(new)
        BY <1>0, <2>2 DEF BlockNum
      <4> DEFINE least == CHOOSE i \in bad : \A j \in bad : i <= j
      <4> HIDE DEF bad
      <4>2. \E i \in bad : \A j \in bad : i <= j
        BY <3>2, <4>1, NatMin
      <4>3. least \in bad
        BY <4>2
      <4>4. last = least - 1
        BY <3>2
      <4> HIDE DEF least, last
      <4> QED
        BY <1>0, <2>2, <4>1, <4>3, <4>4
    <3> QED
      BY <3>1, <3>2
  <2> HIDE DEF last
  <2>4. /\ Ancestor(new, last) \in Block /\ Len(Ancestor(new, last)) = last
        /\ \A i \in 1..last : Ancestor(Ancestor(new, last), i) = Ancestor(new, i)
    BY <2>3, AncestorFacts, AncestorOfAncestor
  <2>5. accepted \in SUBSET Block /\ \A b \in accepted : CommitNum(b) <= last
    <3>1. ASSUME NEW i \in fresh, i <= last
          PROVE  Ancestor(new, i) \in Block /\ CommitNum(Ancestor(new, i)) <= last
      <4>1. i \in 1..Len(new) /\ i \in Nat
        BY <1>0, <2>2 DEF BlockNum
      <4>2. Ancestor(new, i) \in Block /\ Len(Ancestor(new, i)) = i
        BY <4>1, AncestorFacts
      <4>3. CommitNum(Ancestor(new, i)) \in 1..i
        BY <4>2, BlockFacts
      <4> QED
        BY <2>3, <3>1, <4>1, <4>2, <4>3
    <3> QED
      BY <3>1
  <2> HIDE DEF accepted, bad
  <2>6. /\ DbType(mid) /\ SameBlock(mid, db) /\ mid.commitIndex = db.commitIndex
        /\ mid.revisions = db.revisions \cup accepted
        /\ mid.databaseHead = db.databaseHead
    <3> HIDE DEF index
    <3> QED
      BY <2>5 DEF Good, DbType, SameBlock
  <2> HIDE DEF mid
  <2>7. /\ DbType(executed) /\ SameBlock(executed, db)
        /\ executed.revisions = db.revisions \cup accepted
        /\ executed.databaseHead = db.databaseHead
        /\ executed.commitIndex \in Nat /\ executed.commitIndex >= db.commitIndex
        /\ executed.commitIndex # db.commitIndex => executed.commitIndex <= last
    BY <1>0, <2>3, <2>5, <2>6, AcceptBlocksFields DEF SameChain, SameBlock
  <2> HIDE DEF executed
  <2>8. /\ DbType(checked) /\ SameBlock(checked, db)
        /\ checked.revisions = db.revisions \cup accepted
        /\ checked.databaseHead = db.databaseHead
        /\ checked.commitIndex = executed.commitIndex
    <3>1. CASE bad = {}
      BY <2>7, <3>1
    <3>2. CASE bad # {}
      <4>1. Ancestor(new, last + 1) \in Block
        BY <2>3, <3>2, AncestorFacts
      <4> DEFINE e == BlacklistSubtree(executed, Ancestor(new, last + 1))
      <4>2. /\ DbType(e) /\ SameBlock(e, executed)
            /\ e.commitIndex = executed.commitIndex /\ e.revisions = executed.revisions
            /\ e.databaseHead = executed.databaseHead
        BY <2>7, <4>1, BlacklistFields
      <4>3. checked = e
        BY <3>2
      <4> HIDE DEF e, checked
      <4> QED
        BY <2>7, <4>2, <4>3 DEF SameBlock
    <3> QED
      BY <3>1, <3>2
  <2> HIDE DEF checked
  <2>9. /\ DOMAIN d = DOMAIN checked
        /\ d.byBlocknumIndex = index(last)
        /\ d.head = Ancestor(new, last)
        /\ d.databaseHead = IF last > fork THEN Ancestor(new, last) ELSE db.databaseHead
        /\ d.revisions = db.revisions \cup accepted
        /\ d.commitIndex = executed.commitIndex
        /\ d.states = checked.states /\ d.invalid = checked.invalid
        /\ d.byOrderIndex = checked.byOrderIndex /\ d.failed = checked.failed
        /\ SameBlock(d, db)
    <3> HIDE DEF index
    <3> QED
      BY <2>8 DEF DbType, SameBlock
  <2> HIDE DEF d
  <2>10. DbType(d)
    BY <2>4, <2>8, <2>9 DEF Good, DbType, SameBlock
  <2>11. IndexIsChainOfHead(d)
    <3>1. PICK low \in 1..db.commitIndex :
            db.byBlocknumIndex = [i \in low..Len(db.head) |-> Ancestor(db.head, i)]
      BY DEF Good, IndexIsChainOfHead, BlockNum
    <3>2. {j \in DOMAIN db.byBlocknumIndex \cup above : j <= last} = low..last
      BY <1>0, <2>2, <2>3, <3>1 DEF BlockNum
    <3>3. \A i \in low..last :
            (IF i > fork THEN Ancestor(new, i) ELSE db.byBlocknumIndex[i])
              = Ancestor(Ancestor(new, last), i)
      <4>1. SUFFICES ASSUME NEW i \in low..last
                     PROVE  (IF i > fork THEN Ancestor(new, i) ELSE db.byBlocknumIndex[i])
                              = Ancestor(Ancestor(new, last), i)
        OBVIOUS
      <4>2. i \in 1..last /\ i \in Nat
        BY <1>0, <2>3
      <4>3. CASE i > fork
        BY <2>4, <4>2, <4>3
      <4>4. CASE ~ (i > fork)
        <5>1. i \in 1..fork /\ i \in low..Len(db.head)
          BY <1>0, <2>2, <4>2, <4>4
        <5>2. db.byBlocknumIndex[i] = Ancestor(db.head, i)
          BY <3>1, <5>1
        <5>3. Ancestor(db.head, i) = Ancestor(Ancestor(db.head, fork), i)
          BY <1>0, <2>2, <5>1, AncestorOfAncestor
        <5>4. Ancestor(new, i) = Ancestor(Ancestor(new, fork), i)
          BY <2>2, <5>1, AncestorOfAncestor
        <5> QED
          BY <2>2, <2>4, <4>2, <4>4, <5>2, <5>3, <5>4
      <4> QED
        BY <4>3, <4>4
    <3>4. d.byBlocknumIndex = [i \in low..Len(d.head) |-> Ancestor(d.head, i)]
      BY <2>4, <2>9, <3>2, <3>3
    <3>5. d.commitIndex \in 1..Len(d.head) /\ low \in 1..d.commitIndex
      BY <1>0, <2>2, <2>3, <2>4, <2>7, <2>9
    <3> QED
      BY <3>4, <3>5, IndexIntro
  <2>12. DurableHead(d)
    <3>0. /\ db.databaseHead \in Block /\ Len(db.databaseHead) \in Nat
          /\ IsAncestor(db.head, db.databaseHead)
      BY BlockFacts DEF Good, DbType, DurableHead
    <3>1. CASE last > fork
      <4>1. ASSUME NEW i \in d.commitIndex..last
            PROVE  Ancestor(new, i) \in db.revisions \cup accepted
        <5>1. i \in Nat /\ i >= db.commitIndex /\ i \in 1..Len(new)
          BY <1>0, <2>3, <2>7, <2>9
        <5>2. CASE i > fork
          <6>1. i \in above
            BY <5>1, <5>2, <2>2 DEF BlockNum
          <6> QED
            BY <6>1, <4>1 DEF accepted
        <5>3. CASE ~ (i > fork)
          <6>1. i \in 1..fork /\ i \in db.commitIndex..Len(db.head) /\ i \in 1..Len(db.head)
            BY <1>0, <2>2, <5>1, <5>3
          <6>2. Ancestor(new, i) = Ancestor(db.head, i)
            BY <1>0, <2>2, <6>1, AncestorOfAncestor
          <6> QED
            BY <6>1, <6>2, ChainHasRevisions
        <5> QED
          BY <5>2, <5>3
      <4>2. d.head = Ancestor(new, last) /\ d.databaseHead = Ancestor(new, last)
        BY <2>9, <3>1
      <4>3. IsAncestor(d.head, d.databaseHead)
        BY <2>4, <4>2, IsAncestorRefl
      <4>4. \A i \in d.commitIndex..Len(d.databaseHead) :
              i \in 1..last /\ Ancestor(d.databaseHead, i) \in d.revisions
        BY <1>0, <2>3, <2>4, <2>7, <2>9, <4>1, <4>2
      <4> QED
        BY <4>3, <4>4 DEF DurableHead
    <3>2. CASE ~ (last > fork)
      <4>1. last = fork
        BY <2>2, <2>3, <3>2
      <4>2. d.head = Ancestor(db.head, fork) /\ d.databaseHead = db.databaseHead
        BY <2>2, <2>9, <3>2, <4>1
      <4>3. IsAncestor(d.head, db.head) /\ d.head \in Block
        BY <1>0, <2>2, <4>2, IsAncestorOfBlock, AncestorFacts
      <4>4. IsAncestor(d.head, d.databaseHead)
        BY <1>0, <3>0, <4>2, <4>3, IsAncestorTrans
      <4>5. \A i \in d.commitIndex..Len(d.databaseHead) : i \in db.commitIndex..Len(db.databaseHead)
        BY <1>0, <2>7, <2>9, <3>0, <4>2
      <4>6. \A i \in d.commitIndex..Len(d.databaseHead) : Ancestor(d.databaseHead, i) \in d.revisions
        BY <2>9, <4>2, <4>5 DEF Good, DurableHead
      <4> QED
        BY <4>4, <4>6 DEF DurableHead
    <3> QED
      BY <3>1, <3>2
  <2>13. KeepsIrreversible(d, db)
    <3>1. db.commitIndex \in 1..fork /\ db.commitIndex \in 1..last
      BY <1>0, <2>2, <2>3
    <3>2. Ancestor(db.head, db.commitIndex) = Ancestor(new, db.commitIndex)
      BY <1>0, <2>2, <3>1, AncestorOfAncestor
    <3>3. IsAncestor(Ancestor(new, db.commitIndex), Ancestor(new, last))
      BY <2>3, <3>1, AncestorsAreOrdered
    <3> QED
      BY <2>7, <2>9, <3>2, <3>3 DEF KeepsIrreversible
  <2> QED
    BY <2>1, <2>9, <2>10, <2>11, <2>12, <2>13 DEF Good
<1> QED
  BY <1>2, <1>3, <1>4

\* A consensus failure leaves the chain of the head alone.
LEMMA ConsensusFailureGood ==
  ASSUME NEW db, Good(db)
  PROVE  LET d == ConsensusFailure(db)
         IN  Good(d) /\ SameBlock(d, db) /\ KeepsIrreversible(d, db)
<1> DEFINE d == ConsensusFailure(db)
<1>1. DbType(d) /\ SameChain(d, db) /\ SameBlock(d, db) /\ d.commitIndex = db.commitIndex
  BY DEF Good, DbType, SameChain, SameBlock, ConsensusFailure
<1> HIDE DEF d
<1>2. IndexIsChainOfHead(d) /\ DurableHead(d)
  BY <1>1 DEF Good, IndexIsChainOfHead, DurableHead, SameChain
<1>3. KeepsIrreversible(d, db)
  <2>1. db.head \in Block /\ db.commitIndex \in 1..Len(db.head) /\ db.commitIndex \in Nat
    BY IndexFacts DEF Good, DbType
  <2> QED
    BY <1>1, <2>1, IsAncestorOfBlock DEF KeepsIrreversible, SameChain
<1> QED
  BY <1>1, <1>2, <1>3 DEF Good, d

\* One iteration of ForkDb::async_switch_fork: whichever block it selects, irreversible
\* blocks stay in the best chain.
THEOREM SwitchOnceGood ==
  ASSUME NEW db, Good(db), NEW original \in Block
  PROVE  LET d == SwitchOnce(db, original).db
         IN  Good(d) /\ SameBlock(d, db) /\ KeepsIrreversible(d, db)
<1> DEFINE viable == {b \in db.byOrderIndex : Term(b) <= db.currentTerm}
           best == CHOOSE b \in LastOf(viable) : TRUE
           target == IF KeepsPending(db, original, best) THEN original ELSE best
<1>1. CASE LastOf(viable) = {}
  <2>1. SwitchOnce(db, original).db = ConsensusFailure(db)
    BY <1>1 DEF SwitchOnce
  <2> QED
    BY <2>1, ConsensusFailureGood
<1>2. CASE LastOf(viable) # {}
  <2>1. SwitchOnce(db, original).db = TrySetHead(db, target)
    BY <1>2 DEF SwitchOnce, TryBest, Target, Tried
  <2>2. best \in LastOf(viable)
    BY <1>2
  <2>3. best \in db.byOrderIndex
    BY <2>2 DEF LastOf
  <2>4. target \in Block
    BY <2>3 DEF Good, DbType
  <2> QED
    BY <2>1, <2>4, TrySetHeadGood
<1> QED
  BY <1>1, <1>2

\* ForkDb::gc and SharedDatabase::removeRevisions.
LEMMA GcGood ==
  ASSUME NEW db, Good(db)
  PROVE  LET d == Gc(db)
         IN  /\ Good(d) /\ SameBlock(d, db)
             /\ d.head = db.head /\ d.commitIndex = db.commitIndex /\ d.failed = db.failed
<1> DEFINE d == Gc(db)
           root == db.byBlocknumIndex[db.commitIndex]
           kept == {b \in db.states : IsAncestor(root, b)}
           index == [i \in {j \in DOMAIN db.byBlocknumIndex : j >= db.commitIndex} |->
                       db.byBlocknumIndex[i]]
<1>1. /\ DOMAIN d = DOMAIN db
      /\ d.states \subseteq db.states /\ d.invalid \subseteq db.invalid
      /\ d.revisions = RemoveRevisions(db.revisions, root)
      /\ d.byOrderIndex \subseteq db.byOrderIndex
      /\ d.byBlocknumIndex = index
      /\ d.head = db.head /\ d.databaseHead = db.databaseHead
      /\ d.commitIndex = db.commitIndex /\ d.failed = db.failed
      /\ SameBlock(d, db)
  BY DEF Good, DbType, Gc, SameBlock
<1> HIDE DEF d
<1>2. d.revisions \subseteq db.revisions
  BY <1>1 DEF RemoveRevisions
<1>3. DbType(d)
  BY <1>1, <1>2 DEF Good, DbType, SameBlock
<1>4. /\ db.head \in Block /\ Len(db.head) \in Nat
      /\ db.databaseHead \in Block /\ Len(db.databaseHead) \in Nat
      /\ db.commitIndex \in Nat /\ db.commitIndex \in 1..Len(db.head)
      /\ db.commitIndex \in DOMAIN db.byBlocknumIndex
      /\ \A i \in DOMAIN db.byBlocknumIndex :
           i \in 1..Len(db.head) /\ db.byBlocknumIndex[i] = Ancestor(db.head, i)
      /\ \A i \in DOMAIN db.byBlocknumIndex, j \in 1..Len(db.head) :
           i <= j => j \in DOMAIN db.byBlocknumIndex
  BY IndexFacts, BlockFacts DEF Good, DbType
<1>5. IndexIsChainOfHead(d)
  <2>1. {j \in DOMAIN db.byBlocknumIndex : j >= db.commitIndex} = db.commitIndex..Len(db.head)
    BY <1>4
  <2>2. index = [i \in db.commitIndex..Len(db.head) |-> Ancestor(db.head, i)]
    BY <1>4, <2>1
  <2>3. d.byBlocknumIndex = [i \in db.commitIndex..Len(d.head) |-> Ancestor(d.head, i)]
    BY <1>1, <2>2
  <2>4. d.commitIndex \in 1..Len(d.head) /\ db.commitIndex \in 1..d.commitIndex
    BY <1>1, <1>4
  <2> HIDE DEF index
  <2> QED
    BY <2>3, <2>4, IndexIntro
<1>6. DurableHead(d)
  <2>1. root = Ancestor(db.head, db.commitIndex) /\ Len(root) = db.commitIndex /\ root \in Block
    BY <1>4, AncestorFacts
  <2> HIDE DEF root
  <2>2. IsAncestor(db.head, db.databaseHead)
    BY DEF Good, DurableHead
  <2>3. /\ db.commitIndex \in 1..Len(db.databaseHead)
        /\ root = Ancestor(db.databaseHead, db.commitIndex)
    BY <1>4, <2>1, <2>2, SameHistory
  <2>4. ASSUME NEW i \in db.commitIndex..Len(db.databaseHead)
        PROVE  Ancestor(db.databaseHead, i) \in d.revisions
    <3>1. i \in 1..Len(db.databaseHead) /\ db.commitIndex \in 1..i /\ i \in Nat
      BY <1>4
    <3>2. IsAncestor(root, Ancestor(db.databaseHead, i))
      BY <1>4, <2>3, <3>1, AncestorsAreOrdered
    <3>3. Len(Ancestor(db.databaseHead, i)) = i
      BY <1>4, <3>1, AncestorFacts
    <3>4. Ancestor(db.databaseHead, i) \in db.revisions
      BY DEF Good, DurableHead
    <3>5. ASSUME NEW j \in Len(root)..i
          PROVE  Ancestor(Ancestor(db.databaseHead, i), j) \in db.revisions
      <4>1. j \in 1..i /\ j \in db.commitIndex..Len(db.databaseHead)
        BY <1>4, <2>1, <3>1
      <4>2. Ancestor(Ancestor(db.databaseHead, i), j) = Ancestor(db.databaseHead, j)
        BY <1>4, <3>1, <4>1, AncestorOfAncestor
      <4> QED
        BY <4>1, <4>2 DEF Good, DurableHead
    <3> QED
      BY <1>1, <3>2, <3>3, <3>4, <3>5 DEF RemoveRevisions
  <2> QED
    BY <1>1, <2>2, <2>4 DEF DurableHead
<1> QED
  BY <1>1, <1>3, <1>5, <1>6 DEF Good, d

\* ForkDb::start_block and abort_block.
LEMMA StartBlockGood ==
  ASSUME NEW db, Good(db), NEW term \in Nat
  PROVE  LET d == StartBlock(db, term)
         IN  /\ Good(d) /\ PendingBuildsOnHead(d)
             /\ d.blockContext # NoBlock /\ d.blockContext.term = term
             /\ d.head = db.head /\ d.commitIndex = db.commitIndex
             /\ d.currentTerm = db.currentTerm /\ d.failed = db.failed
<1> DEFINE d == StartBlock(db, term)
           c == [term |-> term, num |-> BlockNum(db.head) + 1, commitNum |-> db.commitIndex]
<1>1. /\ Len(db.head) \in Nat /\ db.commitIndex \in Nat /\ db.commitIndex >= 1
  BY IndexFacts, BlockFacts DEF Good, DbType
<1>2. c \in [term : Nat, num : Nat, commitNum : Nat] /\ c # NoBlock
  <2>1. c \in [term : Nat, num : Nat, commitNum : Nat]
    BY <1>1 DEF BlockNum
  <2>2. c.term # NoBlock.term
    BY DEF NoBlock
  <2> QED
    BY <2>1, <2>2
<1>3. /\ c.term = term /\ c.num = BlockNum(db.head) + 1 /\ c.commitNum \in 1..db.commitIndex
  BY <1>1
<1>4. d = [db EXCEPT !.blockContext = c]
  BY DEF StartBlock
<1> HIDE DEF c, d
<1>5. /\ DbType(d) /\ SameChain(d, db) /\ d.blockContext = c
      /\ d.commitIndex = db.commitIndex /\ d.currentTerm = db.currentTerm /\ d.failed = db.failed
  BY <1>2, <1>4 DEF Good, DbType, SameChain
<1>6. IndexIsChainOfHead(d) /\ DurableHead(d)
  BY <1>5 DEF Good, IndexIsChainOfHead, DurableHead, SameChain
<1>7. PendingBuildsOnHead(d)
  BY <1>3, <1>5 DEF PendingBuildsOnHead, SameChain
<1> QED
  BY <1>2, <1>3, <1>5, <1>6, <1>7 DEF Good, SameChain, d

\* ForkDb::abort_block drops the pending block and nothing else.
LEMMA AbortBlockGood ==
  ASSUME NEW db, Good(db)
  PROVE  LET d == AbortBlock(db)
         IN  /\ Good(d) /\ d.blockContext = NoBlock
             /\ d.head = db.head /\ d.commitIndex = db.commitIndex
             /\ d.currentTerm = db.currentTerm /\ d.failed = db.failed
<1> DEFINE d == AbortBlock(db)
<1>1. /\ DbType(d) /\ SameChain(d, db) /\ d.blockContext = NoBlock
      /\ d.commitIndex = db.commitIndex /\ d.currentTerm = db.currentTerm /\ d.failed = db.failed
  BY DEF Good, DbType, SameChain, AbortBlock
<1> HIDE DEF d
<1>2. IndexIsChainOfHead(d) /\ DurableHead(d)
  BY <1>1 DEF Good, IndexIsChainOfHead, DurableHead, SameChain
<1> QED
  BY <1>1, <1>2 DEF Good, SameChain, d

\* ForkDb::setTerm.
LEMMA SetTermGood ==
  ASSUME NEW db, Good(db), NEW term \in Nat
  PROVE  LET d == [db EXCEPT !.currentTerm = term]
         IN  /\ Good(d) /\ d.currentTerm = term /\ d.blockContext = db.blockContext
             /\ d.head = db.head /\ d.commitIndex = db.commitIndex /\ d.failed = db.failed
<1> DEFINE d == [db EXCEPT !.currentTerm = term]
<1>1. /\ DbType(d) /\ SameChain(d, db) /\ d.currentTerm = term
      /\ d.commitIndex = db.commitIndex /\ d.blockContext = db.blockContext /\ d.failed = db.failed
  BY DEF Good, DbType, SameChain
<1> HIDE DEF d
<1>2. IndexIsChainOfHead(d) /\ DurableHead(d)
  BY <1>1 DEF Good, IndexIsChainOfHead, DurableHead, SameChain
<1> QED
  BY <1>1, <1>2 DEF Good, SameChain, d

\* ForkDb::finish_block makes the pending block the head.
LEMMA FinishBlockGood ==
  ASSUME NEW db, Good(db), PendingBuildsOnHead(db), db.blockContext # NoBlock,
         NEW producer \in Nat
  PROVE  LET d == FinishBlock(db, producer)
             b == FinishedBlock(db, producer)
         IN  /\ Good(d) /\ KeepsIrreversible(d, db)
             /\ d.blockContext = NoBlock /\ d.currentTerm = db.currentTerm
             /\ d.commitIndex = db.commitIndex /\ d.failed = db.failed
             /\ d.head = b /\ b \in Block /\ Len(b) = Len(db.head) + 1
             /\ Term(b) = db.blockContext.term /\ b[Len(b)].producer = producer
<1> DEFINE d == FinishBlock(db, producer)
           b == FinishedBlock(db, producer)
           h == [term |-> db.blockContext.term, producer |-> producer,
                 commitNum |-> db.blockContext.commitNum, valid |-> TRUE]
           index == [i \in DOMAIN db.byBlocknumIndex \cup {Len(b)} |->
                       IF i = Len(b) THEN b ELSE db.byBlocknumIndex[i]]
<1>1. /\ db.head \in Block /\ db.head \in Seq(Header(Nat, Nat, Nat))
      /\ Len(db.head) \in Nat /\ Len(db.head) >= 1
      /\ \A i \in 1..Len(db.head) : db.head[i].commitNum \in 1..i
      /\ db.commitIndex \in Nat /\ db.commitIndex \in 1..Len(db.head)
  BY IndexFacts, BlockFacts DEF Good, DbType
<1>2. /\ db.blockContext.term \in Nat
      /\ db.blockContext.commitNum \in 1..db.commitIndex
  BY DEF Good, DbType, PendingBuildsOnHead
<1>3. h \in Header(Nat, Nat, Nat) /\ h.commitNum \in 1..(Len(db.head) + 1)
      /\ h.term = db.blockContext.term /\ h.producer = producer
  <2>1. /\ db.blockContext.commitNum \in Nat
        /\ db.blockContext.commitNum \in 1..(Len(db.head) + 1)
    BY <1>1, <1>2
  <2>2. h \in Header(Nat, Nat, Nat)
    BY <1>2, <2>1 DEF Header
  <2> QED
    BY <2>1, <2>2
<1>4. b = Append(db.head, h)
  BY DEF FinishedBlock
<1> HIDE DEF h
<1>5. /\ b \in Seq(Header(Nat, Nat, Nat)) /\ b # <<>> /\ Len(b) = Len(db.head) + 1
      /\ \A i \in 1..Len(db.head) : b[i] = db.head[i]
      /\ b[Len(b)] = h
  BY <1>1, <1>3, <1>4, AppendProperties
<1> HIDE DEF b
<1>6. b \in Block
  <2>1. ASSUME NEW i \in 1..Len(b) PROVE b[i].commitNum \in 1..i
    <3>1. CASE i = Len(b)
      BY <1>3, <1>5, <3>1
    <3>2. CASE i # Len(b)
      <4>1. i \in 1..Len(db.head)
        BY <1>1, <1>5, <3>2
      <4> QED
        BY <1>1, <1>5, <4>1
    <3> QED
      BY <3>1, <3>2
  <2> QED
    BY <1>5, <2>1 DEF Block
<1>7. IsAncestor(db.head, b)
  <2>1. Len(db.head) \in 1..Len(b)
    BY <1>1, <1>5
  <2>2. /\ Ancestor(b, Len(db.head)) \in Seq(Header(Nat, Nat, Nat))
        /\ Len(Ancestor(b, Len(db.head))) = Len(db.head)
        /\ \A i \in 1..Len(db.head) : Ancestor(b, Len(db.head))[i] = b[i]
    BY <1>6, <2>1, AncestorFacts, BlockFacts
  <2>3. Ancestor(b, Len(db.head)) = db.head
    BY <1>1, <1>5, <2>2, SeqEqual
  <2> QED
    BY <1>1, <1>5, <2>3 DEF IsAncestor
<1>8. \A i \in 1..Len(db.head) : Ancestor(b, i) = Ancestor(db.head, i)
  BY <1>1, <1>6, <1>7, SameHistory
<1>9. /\ DOMAIN d = DOMAIN db
      /\ d.states = db.states \cup {b} /\ d.revisions = db.revisions \cup {b}
      /\ d.byOrderIndex = db.byOrderIndex \cup {b} /\ d.invalid = db.invalid
      /\ d.byBlocknumIndex = index
      /\ d.head = b /\ d.databaseHead = b /\ d.blockContext = NoBlock
      /\ d.commitIndex = db.commitIndex /\ d.currentTerm = db.currentTerm /\ d.failed = db.failed
  BY DEF Good, DbType, FinishBlock, AddHead, b
<1> HIDE DEF d
<1>10. DbType(d)
  BY <1>6, <1>9 DEF Good, DbType
<1>11. IndexIsChainOfHead(d)
  <2>1. PICK low \in 1..db.commitIndex :
          db.byBlocknumIndex = [i \in low..Len(db.head) |-> Ancestor(db.head, i)]
    BY DEF Good, IndexIsChainOfHead, BlockNum
  <2>2. DOMAIN db.byBlocknumIndex \cup {Len(b)} = low..Len(b)
    BY <1>1, <1>5, <2>1
  <2>3. ASSUME NEW i \in low..Len(b)
        PROVE  (IF i = Len(b) THEN b ELSE db.byBlocknumIndex[i]) = Ancestor(b, i)
    <3>1. CASE i = Len(b)
      BY <1>6, <3>1, AncestorSelf
    <3>2. CASE i # Len(b)
      <4>1. i \in low..Len(db.head) /\ i \in 1..Len(db.head)
        BY <1>1, <1>5, <3>2
      <4> QED
        BY <1>8, <2>1, <3>2, <4>1
    <3> QED
      BY <3>1, <3>2
  <2>4. index = [i \in low..Len(b) |-> Ancestor(b, i)]
    BY <2>2, <2>3
  <2>5. /\ d.byBlocknumIndex = [i \in low..Len(d.head) |-> Ancestor(d.head, i)]
        /\ d.commitIndex \in 1..Len(d.head) /\ low \in 1..d.commitIndex
    BY <1>1, <1>5, <1>9, <2>4
  <2> HIDE DEF index
  <2> QED
    BY <2>5, IndexIntro
<1>12. DurableHead(d)
  <2>1. ASSUME NEW i \in db.commitIndex..Len(b) PROVE Ancestor(b, i) \in db.revisions \cup {b}
    <3>1. CASE i = Len(b)
      BY <1>6, <3>1, AncestorSelf
    <3>2. CASE i # Len(b)
      <4>1. i \in db.commitIndex..Len(db.head) /\ i \in 1..Len(db.head)
        BY <1>1, <1>5, <3>2
      <4> QED
        BY <1>8, <4>1, ChainHasRevisions
    <3> QED
      BY <3>1, <3>2
  <2> QED
    BY <1>6, <1>9, <2>1, IsAncestorRefl DEF DurableHead
<1>13. KeepsIrreversible(d, db)
  <2>1. IsAncestor(Ancestor(db.head, db.commitIndex), db.head)
    BY <1>1, IsAncestorOfBlock
  <2>2. IsAncestor(Ancestor(db.head, db.commitIndex), b)
    BY <1>1, <1>6, <1>7, <2>1, AncestorFacts, IsAncestorTrans
  <2> QED
    BY <1>1, <1>9, <2>2 DEF KeepsIrreversible
<1>14. Term(b) = db.blockContext.term /\ b[Len(b)].producer = producer
  BY <1>3, <1>5 DEF Term
<1> QED
  BY <1>5, <1>6, <1>9, <1>10, <1>11, <1>12, <1>13, <1>14 DEF Good, d, b

\* A new database.
LEMMA NewDbGood ==
  ASSUME NEW first \in Block
  PROVE  /\ Good(NewDb(first))
         /\ NewDb(first).blockContext = NoBlock /\ NewDb(first).currentTerm = Term(first)
         /\ NewDb(first).head = first /\ NewDb(first).commitIndex = Len(first)
         /\ NewDb(first).failed = FALSE
<1> DEFINE d == NewDb(first)
<1>1. Len(first) \in Nat /\ Len(first) >= 1 /\ Term(first) \in Nat
  BY BlockFacts
<1>2. DbType(d)
  BY <1>1 DEF DbType, NewDb
<1>3. /\ d.head = first /\ d.databaseHead = first /\ d.commitIndex = Len(first)
      /\ d.revisions = {first} /\ d.byBlocknumIndex = [i \in {Len(first)} |-> first]
      /\ d.blockContext = NoBlock /\ d.currentTerm = Term(first) /\ d.failed = FALSE
  BY DEF NewDb
<1> HIDE DEF d
<1>4. IndexIsChainOfHead(d)
  <2>1. Len(first)..Len(first) = {Len(first)} /\ Ancestor(first, Len(first)) = first
    BY <1>1, AncestorSelf
  <2>2. d.byBlocknumIndex = [i \in Len(first)..Len(d.head) |-> Ancestor(d.head, i)]
    BY <1>3, <2>1
  <2>3. d.commitIndex \in 1..Len(d.head) /\ Len(first) \in 1..d.commitIndex
    BY <1>1, <1>3
  <2> QED
    BY <2>2, <2>3, IndexIntro
<1>5. DurableHead(d)
  <2>1. \A i \in Len(first)..Len(first) : Ancestor(first, i) = first
    BY <1>1, AncestorSelf
  <2> QED
    BY <1>3, <2>1, IsAncestorRefl DEF DurableHead
<1> QED
  BY <1>2, <1>3, <1>4, <1>5 DEF Good, d

\* A restart loads the blocks from the durable head down to one at or below the last
\* irreversible block.
LEMMA ReloadFields ==
  ASSUME NEW db, Good(db)
  PROVE  LET head == db.databaseHead
             loaded(low) == {Ancestor(head, i) : i \in low..Len(head)}
         IN  \E low \in 1..Len(head) :
               /\ low <= db.commitIndex
               /\ \A j \in low..Len(head) : Ancestor(head, j) \in db.revisions
               /\ Reload(db) = [NewDb(head) EXCEPT
                    !.states = loaded(low), !.revisions = loaded(low), !.byOrderIndex = loaded(low),
                    !.byBlocknumIndex = [i \in low..Len(head) |-> Ancestor(head, i)],
                    !.commitIndex = low]
<1> DEFINE head == db.databaseHead
           ok(i) == /\ \A j \in i..Len(head) : Ancestor(head, j) \in db.revisions
                    /\ i > 1 => Ancestor(head, i - 1) \notin db.revisions
           low == CHOOSE i \in 1..Len(head) : ok(i)
           loaded(l) == {Ancestor(head, i) : i \in l..Len(head)}
           S == {i \in 1..Len(head) : \A j \in i..Len(head) : Ancestor(head, j) \in db.revisions}
<1>1. /\ head \in Block /\ Len(head) \in Nat /\ Len(head) >= 1 /\ Term(head) \in Nat
      /\ db.head \in Block /\ Len(db.head) \in Nat
      /\ db.commitIndex \in Nat /\ db.commitIndex \in 1..Len(db.head)
      /\ IsAncestor(db.head, head)
      /\ \A i \in db.commitIndex..Len(head) : Ancestor(head, i) \in db.revisions
  BY IndexFacts, BlockFacts DEF Good, DbType, DurableHead
<1>2. Len(db.head) <= Len(head)
  BY <1>1 DEF IsAncestor
<1>3. db.commitIndex \in S /\ S \in SUBSET Nat
  BY <1>1, <1>2
<1>4. \E i \in 1..Len(head) : ok(i)
  <2>1. PICK i \in S : \A j \in S : i <= j
    <3> HIDE DEF S
    <3> QED
      BY <1>3, NatMin
  <2>2. ASSUME i > 1, Ancestor(head, i - 1) \in db.revisions PROVE FALSE
    <3>1. \A j \in (i - 1)..Len(head) : j = i - 1 \/ j \in i..Len(head)
      BY <1>1
    <3>2. i - 1 \in S
      BY <1>1, <2>1, <2>2, <3>1
    <3>3. i <= i - 1
      BY <2>1, <3>2
    <3> QED
      BY <1>3, <3>3
  <2> QED
    BY <2>1, <2>2
<1>5. low \in 1..Len(head) /\ ok(low)
  BY <1>4
<1>6. low <= db.commitIndex
  <2>1. SUFFICES ASSUME ~(low <= db.commitIndex) PROVE FALSE
    OBVIOUS
  <2>2. low > 1 /\ low - 1 \in db.commitIndex..Len(head)
    <3> HIDE DEF low
    <3> QED
      BY <1>1, <1>5, <2>1
  <2> QED
    BY <1>1, <1>5, <2>2
<1>7. Reload(db) = [NewDb(head) EXCEPT
        !.states = loaded(low), !.revisions = loaded(low), !.byOrderIndex = loaded(low),
        !.byBlocknumIndex = [i \in low..Len(head) |-> Ancestor(head, i)],
        !.commitIndex = low]
  BY DEF Reload
<1> HIDE DEF low
<1> QED
  BY <1>5, <1>6, <1>7

\* The constructor on an existing database finds the head, or a descendant of it, and
\* so all irreversible blocks.
THEOREM ReloadGood ==
  ASSUME NEW db, Good(db)
  PROVE  LET d == Reload(db)
         IN  /\ Good(d) /\ IsAncestor(Ancestor(db.head, db.commitIndex), d.head)
             /\ d.blockContext = NoBlock /\ d.failed = FALSE
<1> DEFINE head == db.databaseHead
           d == Reload(db)
<1>1. /\ head \in Block /\ Len(head) \in Nat /\ Len(head) >= 1 /\ Term(head) \in Nat
      /\ db.head \in Block /\ Len(db.head) \in Nat
      /\ db.commitIndex \in Nat /\ db.commitIndex \in 1..Len(db.head)
      /\ IsAncestor(db.head, head)
  BY IndexFacts, BlockFacts DEF Good, DbType, DurableHead
<1>2. PICK low \in 1..Len(head) :
        d = [NewDb(head) EXCEPT
              !.states = {Ancestor(head, i) : i \in low..Len(head)},
              !.revisions = {Ancestor(head, i) : i \in low..Len(head)},
              !.byOrderIndex = {Ancestor(head, i) : i \in low..Len(head)},
              !.byBlocknumIndex = [i \in low..Len(head) |-> Ancestor(head, i)],
              !.commitIndex = low]
  BY ReloadFields
<1> DEFINE loaded == {Ancestor(head, i) : i \in low..Len(head)}
<1>3. low \in 1..Len(head)
  OBVIOUS
<1>4. d = [NewDb(head) EXCEPT
            !.states = loaded, !.revisions = loaded, !.byOrderIndex = loaded,
            !.byBlocknumIndex = [i \in low..Len(head) |-> Ancestor(head, i)],
            !.commitIndex = low]
  BY <1>2
<1> HIDE DEF d
<1>5. \A i \in low..Len(head) : Ancestor(head, i) \in Block
  BY <1>1, <1>3, AncestorFacts
<1>6. loaded \subseteq Block
  BY <1>5
<1>7. /\ d.head = head /\ d.databaseHead = head /\ d.commitIndex = low
      /\ d.revisions = loaded
      /\ d.byBlocknumIndex = [i \in low..Len(head) |-> Ancestor(head, i)]
      /\ d.blockContext = NoBlock /\ d.currentTerm = Term(head) /\ d.failed = FALSE
  BY <1>4 DEF NewDb
<1>8. DbType(d)
  <2> HIDE DEF loaded
  <2> QED
    BY <1>1, <1>4, <1>6 DEF NewDb, DbType
<1>9. IndexIsChainOfHead(d)
  <2>1. d.commitIndex \in 1..Len(d.head) /\ low \in 1..d.commitIndex
    BY <1>1, <1>3, <1>7
  <2>2. d.byBlocknumIndex = [i \in low..Len(d.head) |-> Ancestor(d.head, i)]
    BY <1>7
  <2> QED
    BY <2>1, <2>2, IndexIntro
<1>10. DurableHead(d)
  BY <1>1, <1>7, IsAncestorRefl DEF DurableHead
<1>11. IsAncestor(Ancestor(db.head, db.commitIndex), d.head)
  <2>1. IsAncestor(Ancestor(db.head, db.commitIndex), db.head)
    BY <1>1, IsAncestorOfBlock
  <2> QED
    BY <1>1, <1>7, <2>1, AncestorFacts, IsAncestorTrans
<1> QED
  BY <1>7, <1>8, <1>9, <1>10, <1>11 DEF Good, d

-----------------------------------------------------------------------------
(***************************************************************************)
(* The fork database as long as every block it is given executes: its      *)
(* states are a tree, the blocks that may become the head are the subtree  *)
(* of one block, and the terms decide between them.  This is what the      *)
(* consensus algorithms and the block exchange rely on when they compare   *)
(* heads by term and number only.                                          *)
(***************************************************************************)

\* All blocks of a chain execute.
AllValid(b) == \A i \in 1..Len(b) : b[i].valid

\* Terms never decrease along a chain.
TermsGrow(b) == \A i, j \in 1..Len(b) : i <= j => b[i].term <= b[j].term

\* The blocks of a term form one chain: a term and a number name one block.
OneChainPerTerm(S) ==
  \A b, c \in S : Term(b) = Term(c) /\ Len(b) <= Len(c) => IsAncestor(b, c)

\* Block b is at least as good a head as one with term t and number k.
AtLeast(b, t, k) == Term(b) > t \/ (Term(b) = t /\ Len(b) >= k)

\* The states are a tree with root r, and the blocks that may become the head are
\* those from q on, which is no older than the last irreversible block.
Tree(db, r, q) ==
  /\ r \in db.states /\ q \in db.states
  /\ \A b \in db.states :
       IsAncestor(r, b) /\ \A i \in Len(r)..Len(b) : Ancestor(b, i) \in db.states
  /\ db.byOrderIndex = {b \in db.states : IsAncestor(q, b)}
  /\ Len(r) <= db.commitIndex /\ db.commitIndex <= Len(q)
  /\ db.invalid = {} /\ ~db.failed

\* Between two callbacks the head is one of them.
Tidy(db) == db.head \in db.byOrderIndex /\ \E r, q \in db.states : Tree(db, r, q)

-----------------------------------------------------------------------------
(***************************************************************************)
(* Chains.                                                                 *)
(***************************************************************************)

\* Two ancestors of a block are ordered by their numbers.
LEMMA ComparableAncestors ==
  ASSUME NEW a \in Block, NEW b \in Block, NEW c \in Block,
         IsAncestor(a, c), IsAncestor(b, c), Len(a) <= Len(b)
  PROVE  IsAncestor(a, b)
<1>1. /\ Len(a) \in Nat /\ Len(b) \in Nat /\ Len(c) \in Nat /\ Len(a) >= 1
      /\ Len(b) \in 1..Len(c) /\ Len(a) \in 1..Len(b)
  BY BlockFacts DEF IsAncestor
<1>2. a = Ancestor(c, Len(a)) /\ b = Ancestor(c, Len(b))
  BY DEF IsAncestor
<1> QED
  BY <1>1, <1>2, AncestorsAreOrdered

\* An ancestor with the same number is the block itself.
LEMMA AncestorSameNum ==
  ASSUME NEW a \in Block, NEW b \in Block, IsAncestor(a, b), Len(a) = Len(b)
  PROVE  a = b
  BY AncestorSelf DEF IsAncestor

\* A proper ancestor of a block is an ancestor of its predecessor.
LEMMA AncestorOfPrevious ==
  ASSUME NEW a \in Block, NEW b \in Block, IsAncestor(a, b), a # b
  PROVE  /\ Len(b) - 1 \in 1..Len(b) /\ Previous(b) = Ancestor(b, Len(b) - 1)
         /\ Previous(b) \in Block /\ Len(Previous(b)) = Len(b) - 1
         /\ IsAncestor(Previous(b), b) /\ IsAncestor(a, Previous(b))
<1>1. Len(a) \in Nat /\ Len(b) \in Nat /\ Len(a) >= 1 /\ Len(a) <= Len(b) /\ Len(a) # Len(b)
  BY BlockFacts, AncestorSameNum DEF IsAncestor
<1>2. Len(b) - 1 \in 1..Len(b) /\ Previous(b) = Ancestor(b, Len(b) - 1)
  BY <1>1 DEF Previous, Ancestor
<1>3. /\ Previous(b) \in Block /\ Len(Previous(b)) = Len(b) - 1
      /\ IsAncestor(Previous(b), b)
  BY <1>2, AncestorFacts, IsAncestorOfBlock
<1>4. IsAncestor(a, Previous(b))
  BY <1>1, <1>3, ComparableAncestors
<1> QED
  BY <1>2, <1>3, <1>4

\* The ancestors of an ancestor of b are ancestors of b.
LEMMA AncestorAgrees ==
  ASSUME NEW a \in Block, NEW b \in Block, IsAncestor(a, b), NEW i \in 1..Len(a)
  PROVE  i \in 1..Len(b) /\ Ancestor(a, i) = Ancestor(b, i) /\ a[i] = b[i]
<1>1. Len(a) \in 1..Len(b) /\ a = Ancestor(b, Len(a))
  BY BlockFacts DEF IsAncestor
<1> QED
  BY <1>1, SameHistory, AncestorFacts

\* Terms do not decrease from an ancestor to a block.
LEMMA AncestorTerm ==
  ASSUME NEW a \in Block, NEW b \in Block, IsAncestor(a, b), TermsGrow(b)
  PROVE  Term(a) <= Term(b)
<1>1. /\ Len(a) \in 1..Len(a) /\ Len(a) \in 1..Len(b) /\ Len(b) \in 1..Len(b)
      /\ Len(a) <= Len(b)
  BY BlockFacts DEF IsAncestor
<1>2. a[Len(a)] = b[Len(a)]
  BY <1>1, AncestorAgrees
<1> QED
  BY <1>1, <1>2 DEF TermsGrow, Term
-----------------------------------------------------------------------------
(***************************************************************************)
(* The functions of the database.                                          *)
(***************************************************************************)

\* What the members of a tree are.
LEMMA TreeFacts ==
  ASSUME NEW db, DbType(db), NEW r, NEW q, Tree(db, r, q)
  PROVE  /\ db.states \subseteq Block /\ db.byOrderIndex \subseteq db.states
         /\ r \in Block /\ q \in Block /\ q \in db.byOrderIndex
         /\ Len(r) \in Nat /\ Len(q) \in Nat /\ Len(r) >= 1
         /\ IsAncestor(r, q)
         /\ \A b \in db.byOrderIndex : IsAncestor(q, b)
<1>1. db.states \subseteq Block /\ r \in Block /\ q \in Block
  BY DEF DbType, Tree
<1>2. IsAncestor(q, q)
  BY <1>1, IsAncestorRefl
<1> QED
  BY <1>1, <1>2, BlockFacts DEF Tree

\* The call does not touch what makes the database a tree.
SameTree(d, db) ==
  /\ d.states = db.states /\ d.invalid = db.invalid
  /\ d.byOrderIndex = db.byOrderIndex /\ d.commitIndex = db.commitIndex
  /\ d.head = db.head /\ d.failed = db.failed

\* start_block, abort_block and setTerm do not.
LEMMA SameTreeFacts ==
  ASSUME NEW db, DbType(db), NEW term
  PROVE  /\ SameTree(StartBlock(db, term), db)
         /\ SameTree(AbortBlock(db), db)
         /\ SameTree([db EXCEPT !.currentTerm = term], db)
  BY DEF DbType, SameTree, StartBlock, AbortBlock

\* Such a call keeps the tree.
LEMMA SameTreeTidy ==
  ASSUME NEW d, NEW db, SameTree(d, db)
  PROVE  /\ Tidy(db) => Tidy(d)
         /\ \A r, q : Tree(db, r, q) => Tree(d, r, q)
  BY DEF SameTree, Tidy, Tree

\* insert adds a leaf.
LEMMA InsertTree ==
  ASSUME NEW db, DbType(db), NEW r, NEW q, Tree(db, r, q), NEW b \in Block, CanInsert(db, b)
  PROVE  LET d == Insert(db, b)
         IN  /\ Tree(d, r, q) /\ d.states = db.states \cup {b}
             /\ db.byOrderIndex \subseteq d.byOrderIndex
<1> DEFINE d == Insert(db, b)
           p == Previous(b)
<1>1. /\ db.states \subseteq Block /\ r \in Block /\ q \in Block
      /\ Len(r) \in Nat /\ Len(q) \in Nat /\ Len(r) >= 1
      /\ \A c \in db.states :
           IsAncestor(r, c) /\ \A i \in Len(r)..Len(c) : Ancestor(c, i) \in db.states
      /\ db.byOrderIndex = {c \in db.states : IsAncestor(q, c)}
      /\ q \in db.states /\ r \in db.states
  BY TreeFacts DEF Tree
<1>2. p \in db.states /\ b \notin db.states /\ p \in Block /\ IsAncestor(r, p)
  BY <1>1 DEF CanInsert
<1>3. Len(b) \in Nat /\ Len(b) >= 1 /\ Len(p) \in Nat /\ Len(p) >= 1
  BY <1>2, BlockFacts
<1>4. Len(b) > 1
  <2>1. ASSUME Len(b) = 1 PROVE FALSE
    <3>1. p = << >>
      BY <1>3, <2>1, BlockFacts, SubSeqEmpty DEF Previous
    <3> QED
      BY <1>3, <3>1
  <2>2. Len(b) \in Nat /\ Len(b) >= 1 /\ Len(b) # 1
    BY <1>3, <2>1
  <2>3. \A k \in Nat : k >= 1 /\ k # 1 => k > 1
    OBVIOUS
  <2> QED
    BY <2>2, <2>3
<1>5. Len(b) - 1 \in 1..Len(b) /\ p = Ancestor(b, Len(b) - 1)
  BY <1>3, <1>4 DEF Previous, Ancestor
<1>6. Len(p) = Len(b) - 1 /\ IsAncestor(p, b)
  BY <1>5, AncestorFacts, IsAncestorOfBlock
<1>7. /\ DOMAIN d = DOMAIN db /\ d.states = db.states \cup {b}
      /\ d.invalid = {} /\ d.commitIndex = db.commitIndex /\ d.failed = db.failed
      /\ d.byOrderIndex = IF p \in db.byOrderIndex THEN db.byOrderIndex \cup {b}
                          ELSE db.byOrderIndex
  <2>1. db.invalid = {}
    BY DEF Tree
  <2> QED
    BY <2>1 DEF Insert, DbType
<1> HIDE DEF d, p
<1>8. IsAncestor(r, b)
  BY <1>1, <1>2, <1>6, IsAncestorTrans
<1>9. ASSUME NEW i \in Len(r)..Len(b)
      PROVE  Ancestor(b, i) \in d.states
  <2>1. CASE i = Len(b)
    BY <1>7, <2>1, AncestorSelf
  <2>2. CASE i # Len(b)
    <3>1. i \in Len(r)..Len(p) /\ i \in 1..Len(p)
      BY <1>1, <1>3, <1>6, <2>2
    <3>2. Ancestor(p, i) = Ancestor(b, i)
      BY <1>2, <1>6, <3>1, AncestorAgrees
    <3> QED
      BY <1>1, <1>2, <1>7, <3>1, <3>2
  <2> QED
    BY <2>1, <2>2
<1>10. IsAncestor(q, b) <=> p \in db.byOrderIndex
  <2>1. ASSUME IsAncestor(q, b) PROVE p \in db.byOrderIndex
    <3>1. q # b
      BY <1>1, <1>2
    <3>2. IsAncestor(q, p)
      BY <1>1, <2>1, <3>1, AncestorOfPrevious DEF p
    <3> QED
      BY <1>1, <1>2, <3>2
  <2>2. ASSUME p \in db.byOrderIndex PROVE IsAncestor(q, b)
    BY <1>1, <1>2, <1>6, <2>2, IsAncestorTrans
  <2> QED
    BY <2>1, <2>2
<1>11. d.byOrderIndex = {c \in d.states : IsAncestor(q, c)}
  BY <1>1, <1>7, <1>10
<1>12. \A c \in d.states :
         IsAncestor(r, c) /\ \A i \in Len(r)..Len(c) : Ancestor(c, i) \in d.states
  BY <1>1, <1>7, <1>8, <1>9
<1>13. Tree(d, r, q)
  <2>1. Len(r) <= d.commitIndex /\ d.commitIndex <= Len(q) /\ d.invalid = {} /\ ~d.failed
    BY <1>7 DEF Tree
  <2> QED
    BY <1>1, <1>7, <1>11, <1>12, <2>1 DEF Tree
<1> QED
  BY <1>7, <1>13 DEF d

\* set_subtree leaves exactly the blocks from the new root on.
LEMMA SetSubtreeTree ==
  ASSUME NEW db, DbType(db), NEW r, NEW q, Tree(db, r, q), NEW x \in db.states,
         db.commitIndex \in Nat, Len(x) >= db.commitIndex
  PROVE  LET d == SetSubtree(db, x)
         IN  Tree(d, r, x) /\ d.states = db.states
<1> DEFINE d == SetSubtree(db, x)
           pool == IF x \in db.byOrderIndex THEN db.byOrderIndex ELSE db.states \ db.invalid
           kept == {b \in pool : /\ IsAncestor(x, b)
                                 /\ \A i \in Len(x)..Len(b) : Ancestor(b, i) \in pool}
<1>1. /\ db.states \subseteq Block /\ r \in Block /\ q \in Block /\ x \in Block
      /\ Len(r) \in Nat /\ Len(q) \in Nat /\ Len(r) >= 1 /\ Len(x) \in Nat
      /\ \A c \in db.states :
           IsAncestor(r, c) /\ \A i \in Len(r)..Len(c) : Ancestor(c, i) \in db.states
      /\ db.byOrderIndex = {c \in db.states : IsAncestor(q, c)}
      /\ db.invalid = {}
  BY TreeFacts, BlockFacts DEF Tree
<1>2. /\ DOMAIN d = DOMAIN db /\ d.states = db.states /\ d.invalid = db.invalid
      /\ d.commitIndex = db.commitIndex /\ d.failed = db.failed /\ d.byOrderIndex = kept
  BY <1>1 DEF SetSubtree, DbType
<1> HIDE DEF d
<1>3. ASSUME NEW b \in db.states, IsAncestor(x, b)
      PROVE  b \in pool /\ \A i \in Len(x)..Len(b) : Ancestor(b, i) \in pool
  <2>1. ASSUME NEW i \in Len(x)..Len(b)
        PROVE  /\ Ancestor(b, i) \in db.states /\ Ancestor(b, i) \in Block
               /\ IsAncestor(x, Ancestor(b, i))
    <3>1. IsAncestor(r, x) /\ b \in Block /\ Len(b) \in Nat
      BY <1>1, BlockFacts
    <3>2. Len(r) <= Len(x)
      BY <3>1 DEF IsAncestor
    <3>3. i \in Len(r)..Len(b) /\ i \in 1..Len(b) /\ Len(x) <= i
      BY <1>1, <3>1, <3>2
    <3>4. /\ Ancestor(b, i) \in db.states /\ Ancestor(b, i) \in Block
          /\ Len(Ancestor(b, i)) = i /\ IsAncestor(Ancestor(b, i), b)
      BY <1>1, <3>1, <3>3, AncestorFacts, IsAncestorOfBlock
    <3> QED
      BY <1>1, <1>3, <3>1, <3>3, <3>4, ComparableAncestors
  <2>2. CASE x \in db.byOrderIndex
    <3>1. IsAncestor(q, x)
      BY <1>1, <2>2
    <3>2. \A c \in db.states : IsAncestor(x, c) => c \in db.byOrderIndex
      BY <1>1, <3>1, IsAncestorTrans
    <3> QED
      BY <1>3, <2>1, <2>2, <3>2
  <2>3. CASE x \notin db.byOrderIndex
    BY <1>1, <1>3, <2>1, <2>3
  <2> QED
    BY <2>2, <2>3
<1>4. pool \subseteq db.states
  BY <1>1
<1> HIDE DEF pool
<1>5. d.byOrderIndex = {b \in d.states : IsAncestor(x, b)}
  BY <1>2, <1>3, <1>4
<1> QED
  BY <1>1, <1>2, <1>5 DEF Tree, d

\* The first entry of byOrderIndex is the block that all others build on.
LEMMA FirstOfTree ==
  ASSUME NEW db, DbType(db), NEW r, NEW q, Tree(db, r, q),
         \A b \in db.states : TermsGrow(b)
  PROVE  FirstOf(db.byOrderIndex) = {q}
<1>1. /\ db.states \subseteq Block /\ db.byOrderIndex \subseteq db.states
      /\ q \in Block /\ q \in db.byOrderIndex /\ Len(q) \in Nat
      /\ \A b \in db.byOrderIndex : IsAncestor(q, b)
  BY TreeFacts
<1>2. ASSUME NEW c \in db.byOrderIndex, c # q
      PROVE  /\ Term(q) \in Nat /\ Term(c) \in Nat /\ Len(c) \in Nat
             /\ Term(q) <= Term(c) /\ Len(q) < Len(c)
  <2>1. /\ c \in Block /\ IsAncestor(q, c) /\ TermsGrow(c)
    BY <1>1
  <2>2. Term(q) \in Nat /\ Term(c) \in Nat /\ Len(c) \in Nat /\ Term(q) <= Term(c)
    BY <1>1, <2>1, BlockFacts, AncestorTerm
  <2>3. Len(q) <= Len(c) /\ Len(q) # Len(c)
    BY <1>1, <1>2, <2>1, AncestorSameNum DEF IsAncestor
  <2> QED
    BY <1>1, <2>2, <2>3
<1>3. q \in FirstOf(db.byOrderIndex)
  <2>1. ASSUME NEW c \in db.byOrderIndex \ {q} PROVE OrderLess(q, c)
    <3>1. /\ Term(q) \in Nat /\ Term(c) \in Nat /\ Len(c) \in Nat
          /\ Term(q) <= Term(c) /\ Len(q) < Len(c)
      BY <1>2, <2>1
    <3>2. Term(q) < Term(c) \/ Term(q) = Term(c)
      BY <3>1
    <3> QED
      BY <3>1, <3>2 DEF OrderLess, BlockNum
  <2> QED
    BY <1>1, <2>1 DEF FirstOf
<1>4. ASSUME NEW c \in FirstOf(db.byOrderIndex) PROVE c = q
  <2>1. SUFFICES ASSUME c # q PROVE FALSE
    OBVIOUS
  <2>2. c \in db.byOrderIndex /\ OrderLess(c, q)
    BY <1>1, <1>4, <2>1 DEF FirstOf
  <2>3. /\ Term(q) \in Nat /\ Term(c) \in Nat /\ Len(c) \in Nat
        /\ Term(q) <= Term(c) /\ Len(q) < Len(c)
    BY <1>2, <2>1, <2>2
  <2>4. ~(Term(c) < Term(q)) /\ ~(Len(c) < Len(q)) /\ Len(c) # Len(q)
    BY <1>1, <2>3
  <2> QED
    BY <2>2, <2>4 DEF OrderLess, BlockNum
<1> QED
  BY <1>3, <1>4

\* commit, when byBlocknumIndex is the chain of top, which may be a new head that is
\* not set yet: what may become the head still includes top, and nothing that does not
\* build on the last irreversible block.
LEMMA CommitTree ==
  ASSUME NEW db, DbType(db), NEW r, NEW q, Tree(db, r, q),
         \A b \in db.states : TermsGrow(b),
         NEW top \in db.byOrderIndex, NEW num \in Nat, num <= Len(top) \/ db.head = top,
         db.commitIndex \in Nat,
         \A i \in db.commitIndex..Len(top) : db.byBlocknumIndex[i] = Ancestor(top, i)
  PROVE  LET d == Commit(db, num)
         IN  /\ \E p \in db.states : Tree(d, r, p) /\ IsAncestor(p, top)
             /\ d.states = db.states
<1> DEFINE d == Commit(db, num)
           new == NewCommitIndex(db, num)
           x == db.byBlocknumIndex[new]
           sub == SetSubtree(db, x)
<1>1. /\ db.states \subseteq Block /\ db.byOrderIndex \subseteq db.states
      /\ q \in Block /\ q \in db.states /\ Len(q) \in Nat /\ Len(r) \in Nat /\ Len(r) >= 1
      /\ IsAncestor(q, top) /\ top \in Block /\ Len(top) \in Nat /\ Len(q) <= Len(top)
      /\ Len(r) <= db.commitIndex /\ db.commitIndex <= Len(q)
      /\ \A b \in db.states : \A i \in Len(r)..Len(b) : Ancestor(b, i) \in db.states
  BY TreeFacts, BlockFacts DEF Tree, IsAncestor
<1>2. Len(db.head) \in Nat
  BY BlockFacts DEF DbType
<1>3. new \in Nat /\ new >= db.commitIndex /\ new <= Len(top)
  BY <1>1, <1>2 DEF NewCommitIndex, BlockNum
<1> HIDE DEF new
<1>4. FirstOf(db.byOrderIndex) = {q}
  BY FirstOfTree
<1>5. d = [(IF Len(q) < new THEN sub ELSE db) EXCEPT !.commitIndex = new]
  BY <1>4 DEF Commit, BlockNum, new
<1> HIDE DEF d
<1>6. CASE Len(q) < new
  <2>1. new \in db.commitIndex..Len(top) /\ new \in Len(r)..Len(top) /\ new \in 1..Len(top)
    BY <1>1, <1>3
  <2>2. x = Ancestor(top, new) /\ x \in db.states /\ Len(x) = new /\ IsAncestor(x, top)
    BY <1>1, <2>1, AncestorFacts, IsAncestorOfBlock
  <2> HIDE DEF x
  <2>3. Tree(sub, r, x) /\ sub.states = db.states /\ DbType(sub)
    BY <1>3, <2>2, SetSubtreeTree, SetSubtreeFields
  <2> HIDE DEF sub
  <2>4. /\ d.states = sub.states /\ d.invalid = sub.invalid /\ d.failed = sub.failed
        /\ d.byOrderIndex = sub.byOrderIndex /\ d.commitIndex = new
    BY <1>5, <1>6, <2>3 DEF DbType
  <2>5. Tree(d, r, x)
    <3>1. Len(r) <= new /\ new <= Len(x)
      BY <1>1, <1>3, <2>2
    <3> QED
      BY <2>3, <2>4, <3>1 DEF Tree
  <2> QED
    BY <2>2, <2>3, <2>4, <2>5 DEF d
<1>7. CASE ~(Len(q) < new)
  <2>1. /\ d.states = db.states /\ d.invalid = db.invalid /\ d.failed = db.failed
        /\ d.byOrderIndex = db.byOrderIndex /\ d.commitIndex = new
    BY <1>5, <1>7 DEF DbType
  <2>2. Tree(d, r, q)
    <3>1. Len(r) <= new /\ new <= Len(q)
      BY <1>1, <1>3, <1>7
    <3> QED
      BY <2>1, <3>1 DEF Tree
  <2> QED
    BY <1>1, <2>1, <2>2 DEF d
<1> QED
  BY <1>6, <1>7

\* commit between two fork switches.
LEMMA CommitTidy ==
  ASSUME NEW db, Good(db), Tidy(db), \A b \in db.states : TermsGrow(b), NEW num \in Nat
  PROVE  LET d == Commit(db, num)
         IN  /\ Tidy(d) /\ d.states = db.states /\ d.head = db.head
             /\ \/ d.commitIndex = db.commitIndex
                \/ d.commitIndex \in 1..num /\ d.commitIndex \in 1..Len(db.head)
<1> DEFINE d == Commit(db, num)
<1>1. PICK r \in db.states, q \in db.states : Tree(db, r, q)
  BY DEF Tidy
<1>2. /\ DbType(db) /\ db.head \in db.byOrderIndex /\ db.head \in Block
      /\ db.commitIndex \in Nat /\ db.commitIndex \in 1..Len(db.head)
      /\ Len(db.head) \in Nat
  BY IndexFacts, BlockFacts DEF Good, Tidy, DbType
<1>3. \A i \in db.commitIndex..Len(db.head) : db.byBlocknumIndex[i] = Ancestor(db.head, i)
  <2>1. ASSUME NEW i \in db.commitIndex..Len(db.head)
        PROVE  db.byBlocknumIndex[i] = Ancestor(db.head, i)
    <3>1. i \in 1..Len(db.head) /\ db.commitIndex <= i
      BY <1>2
    <3> QED
      BY <1>2, <3>1, IndexFacts DEF Good
  <2> QED
    BY <2>1
<1>4. /\ \E p \in db.states : Tree(d, r, p) /\ IsAncestor(p, db.head)
      /\ d.states = db.states
  BY <1>1, <1>2, <1>3, CommitTree
<1>5. /\ DbType(d) /\ d.head = db.head /\ d.commitIndex \in Nat
      /\ d.commitIndex >= db.commitIndex
      /\ d.commitIndex # db.commitIndex => d.commitIndex <= num /\ d.commitIndex <= Len(db.head)
  BY <1>2, CommitFields DEF SameChain
<1> HIDE DEF d
<1>6. Tidy(d)
  <2>1. PICK p \in db.states : Tree(d, r, p) /\ IsAncestor(p, db.head)
    BY <1>4
  <2>2. db.head \in db.states
    BY <1>1, <1>2, TreeFacts
  <2>3. d.byOrderIndex = {b \in d.states : IsAncestor(p, b)}
    BY <2>1 DEF Tree
  <2> QED
    BY <1>1, <1>4, <1>5, <2>1, <2>2, <2>3 DEF Tidy
<1>7. \/ d.commitIndex = db.commitIndex
      \/ d.commitIndex \in 1..num /\ d.commitIndex \in 1..Len(db.head)
  BY <1>2, <1>5
<1> QED
  BY <1>4, <1>5, <1>6, <1>7 DEF d

\* The blocks of a new chain commit no more than one of their headers says.
LEMMA AcceptBlocksTree ==
  ASSUME NEW db, DbType(db), NEW r, NEW q, Tree(db, r, q),
         \A b \in db.states : TermsGrow(b),
         NEW top \in db.byOrderIndex, db.commitIndex \in Nat,
         \A i \in db.commitIndex..Len(top) : db.byBlocknumIndex[i] = Ancestor(top, i),
         NEW accepted \in SUBSET db.states, \A b \in accepted : IsAncestor(b, top)
  PROVE  LET d == AcceptBlocks(db, accepted)
         IN  /\ \E p \in db.states : Tree(d, r, p) /\ IsAncestor(p, top)
             /\ d.states = db.states
             /\ \/ d.commitIndex = db.commitIndex
                \/ \E b \in accepted : d.commitIndex \in 1..CommitNum(b)
<1> DEFINE nums == {CommitNum(b) : b \in accepted}
           num == CHOOSE n \in nums : \A k \in nums : k <= n
<1>1. /\ db.states \subseteq Block /\ db.byOrderIndex \subseteq db.states
      /\ top \in Block /\ q \in db.states /\ IsAncestor(q, top) /\ Len(top) \in Nat
      /\ Len(r) \in Nat /\ Len(r) >= 1
  BY TreeFacts, BlockFacts DEF Tree
<1>2. CASE accepted = {}
  BY <1>1, <1>2 DEF AcceptBlocks
<1>3. CASE accepted # {}
  <2>1. \A b \in accepted : CommitNum(b) \in Nat /\ CommitNum(b) <= Len(top)
    <3>1. ASSUME NEW b \in accepted
          PROVE  CommitNum(b) \in Nat /\ CommitNum(b) <= Len(top)
      <4>1. b \in Block /\ Len(b) <= Len(top)
        BY <1>1 DEF IsAncestor
      <4>2. CommitNum(b) \in 1..Len(b) /\ Len(b) \in Nat
        BY <4>1, BlockFacts
      <4> QED
        BY <1>1, <4>1, <4>2
    <3> QED
      BY <3>1
  <2>2. nums \in SUBSET Nat /\ nums # {} /\ \A n \in nums : n <= Len(top)
    BY <1>3, <2>1
  <2>3. \E n \in nums : \A k \in nums : k <= n
    BY <1>1, <2>2, NatMax
  <2>4. num \in nums
    BY <2>3
  <2>5. num \in Nat /\ num <= Len(top)
    BY <2>2, <2>4
  <2>6. PICK b \in accepted : num = CommitNum(b)
    BY <2>4
  <2>7. AcceptBlocks(db, accepted) = Commit(db, num)
    BY <1>3 DEF AcceptBlocks
  <2> HIDE DEF num
  <2> DEFINE d == Commit(db, num)
  <2>8. /\ \E p \in db.states : Tree(d, r, p) /\ IsAncestor(p, top)
        /\ d.states = db.states
    BY <2>5, CommitTree
  <2>9. /\ d.commitIndex \in Nat /\ d.commitIndex >= db.commitIndex
        /\ d.commitIndex # db.commitIndex => d.commitIndex <= num
    BY <2>5, CommitFields
  <2> HIDE DEF d
  <2>10. db.commitIndex >= 1
    BY <1>1 DEF Tree
  <2>11. d.commitIndex = db.commitIndex \/ d.commitIndex \in 1..CommitNum(b)
    BY <2>5, <2>6, <2>9, <2>10
  <2> QED
    BY <2>7, <2>8, <2>11 DEF d
<1> QED
  BY <1>2, <1>3

\* Whether b extends the last irreversible block: trySetHead requires it.
ExtendsCommitted(db, b) == IsAncestor(Ancestor(db.head, db.commitIndex), b)

\* Between two callbacks every block that may become the head does.
LEMMA TidyExtends ==
  ASSUME NEW db, Good(db), Tidy(db)
  PROVE  /\ \A b \in db.byOrderIndex : ExtendsCommitted(db, b)
         /\ db.head \in db.states /\ db.states \subseteq Block
         /\ db.byOrderIndex \subseteq db.states
<1> DEFINE c == Ancestor(db.head, db.commitIndex)
<1>1. PICK r \in db.states, q \in db.states : Tree(db, r, q)
  BY DEF Tidy
<1>2. /\ db.head \in Block /\ db.commitIndex \in Nat /\ db.commitIndex \in 1..Len(db.head)
      /\ db.commitIndex <= Len(q)
  BY <1>1, IndexFacts DEF Good, DbType, Tree
<1>3. /\ db.states \subseteq Block /\ db.byOrderIndex \subseteq db.states
      /\ q \in Block /\ Len(q) \in Nat
      /\ \A b \in db.byOrderIndex : IsAncestor(q, b)
  BY <1>1, TreeFacts DEF Good
<1>4. c \in Block /\ Len(c) = db.commitIndex /\ IsAncestor(c, db.head) /\ IsAncestor(q, db.head)
  BY <1>2, <1>3, AncestorFacts, IsAncestorOfBlock DEF Tidy
<1> HIDE DEF c
<1>5. IsAncestor(c, q)
  BY <1>2, <1>3, <1>4, ComparableAncestors
<1>6. ASSUME NEW b \in db.byOrderIndex PROVE IsAncestor(c, b)
  BY <1>3, <1>4, <1>5, IsAncestorTrans
<1> QED
  BY <1>3, <1>6 DEF ExtendsCommitted, Tidy, c

\* trySetHead makes the block the head, and commits no more than the headers of its
\* chain say.
LEMMA TrySetHeadTree ==
  ASSUME NEW db, Good(db), NEW r, NEW q, Tree(db, r, q),
         \A b \in db.states : TermsGrow(b) /\ AllValid(b),
         NEW new \in db.byOrderIndex, ExtendsCommitted(db, new)
  PROVE  LET d == TrySetHead(db, new)
         IN  /\ d.head = new /\ d.states = db.states
             /\ \E p \in db.states : Tree(d, r, p) /\ IsAncestor(p, new)
             /\ \/ d.commitIndex = db.commitIndex
                \/ \E b \in db.states :
                     IsAncestor(b, new) /\ d.commitIndex \in 1..CommitNum(b)
<1>0. /\ db.head \in Block /\ Len(db.head) \in Nat
      /\ db.commitIndex \in Nat /\ db.commitIndex \in 1..Len(db.head)
      /\ db.commitIndex \in DOMAIN db.byBlocknumIndex
      /\ \A i \in DOMAIN db.byBlocknumIndex : db.byBlocknumIndex[i] = Ancestor(db.head, i)
  BY IndexFacts, BlockFacts DEF Good, DbType
<1>1. /\ db.states \subseteq Block /\ db.byOrderIndex \subseteq db.states
      /\ new \in Block /\ Len(new) \in Nat /\ Len(new) >= 1
      /\ IsAncestor(q, new) /\ q \in db.states /\ IsAncestor(r, new)
      /\ Len(r) \in Nat /\ Len(r) >= 1 /\ Len(r) <= db.commitIndex
      /\ \A i \in Len(r)..Len(new) : Ancestor(new, i) \in db.states
  BY TreeFacts, BlockFacts DEF Tree, Good
<1>2. CASE new = db.head
  BY <1>1, <1>2 DEF TrySetHead
<1>3. CASE new # db.head
  <2> DEFINE fork == ForkPoint(db, new)
             above == (fork + 1)..BlockNum(new)
             fresh == {i \in above : Ancestor(new, i) \notin db.revisions}
             bad == {i \in fresh : ~new[i].valid}
             last == IF bad = {} THEN BlockNum(new)
                     ELSE (CHOOSE i \in bad : \A j \in bad : i <= j) - 1
             accepted == {Ancestor(new, i) : i \in {j \in fresh : j <= last}}
             index(top) == [i \in {j \in DOMAIN db.byBlocknumIndex \cup above : j <= top} |->
                              IF i > fork THEN Ancestor(new, i) ELSE db.byBlocknumIndex[i]]
             mid == [db EXCEPT !.byBlocknumIndex = index(BlockNum(new)),
                               !.revisions = @ \cup accepted]
             executed == AcceptBlocks(mid, accepted)
             checked == IF bad = {} THEN executed
                        ELSE BlacklistSubtree(executed, Ancestor(new, last + 1))
             d == [checked EXCEPT
                    !.byBlocknumIndex = index(last),
                    !.head = Ancestor(new, last),
                    !.databaseHead = IF last > fork THEN Ancestor(new, last) ELSE @]
  <2>1. ~Conflicts(db, new)
    <3>1. Len(Ancestor(db.head, db.commitIndex)) = db.commitIndex
      BY <1>0, AncestorFacts
    <3> QED
      BY <1>0, <1>1, <3>1 DEF Conflicts, ExtendsCommitted, IsAncestor, BlockNum
  <2>2. TrySetHead(db, new) = d
    BY <1>3, <2>1 DEF TrySetHead
  <2>3. /\ fork \in Nat /\ fork >= db.commitIndex /\ fork \in DOMAIN db.byBlocknumIndex
        /\ fork \in 1..Len(new) /\ fork \in 1..Len(db.head)
        /\ Ancestor(new, fork) = Ancestor(db.head, fork)
    BY <1>1, <2>1, ForkPointFacts
  <2> HIDE DEF fork
  <2>4. bad = {}
    <3>1. \A i \in above : i \in 1..Len(new)
      BY <1>1, <2>3 DEF BlockNum
    <3> QED
      BY <1>1, <3>1 DEF AllValid
  <2>5. last = Len(new) /\ Ancestor(new, last) = new
    BY <1>1, <2>4, AncestorSelf DEF BlockNum
  <2> HIDE DEF last, bad
  <2>6. accepted \subseteq db.states /\ \A b \in accepted : IsAncestor(b, new)
    <3>1. ASSUME NEW i \in fresh, i <= last
          PROVE  Ancestor(new, i) \in db.states /\ IsAncestor(Ancestor(new, i), new)
      <4>1. i \in Len(r)..Len(new) /\ i \in 1..Len(new)
        BY <1>0, <1>1, <2>3 DEF BlockNum
      <4> QED
        BY <1>1, <4>1, IsAncestorOfBlock
    <3> QED
      BY <3>1
  <2>7. \A i \in db.commitIndex..Len(new) : index(BlockNum(new))[i] = Ancestor(new, i)
    <3>1. ASSUME NEW i \in db.commitIndex..Len(new)
          PROVE  index(BlockNum(new))[i] = Ancestor(new, i)
      <4>1. i \in Nat /\ i \in 1..Len(new) /\ i <= BlockNum(new)
        BY <1>0, <1>1 DEF BlockNum
      <4>2. CASE i > fork
        <5>1. i \in above
          BY <1>1, <2>3, <4>1, <4>2 DEF BlockNum
        <5> QED
          BY <4>1, <4>2, <5>1
      <4>3. CASE ~(i > fork)
        <5>1. i \in 1..fork /\ i \in 1..Len(db.head)
          BY <1>0, <2>3, <4>1, <4>3
        <5>2. i \in DOMAIN db.byBlocknumIndex
          BY <1>0, <5>1, IndexFacts DEF Good
        <5>3. Ancestor(db.head, i) = Ancestor(new, i)
          BY <1>0, <1>1, <2>3, <5>1, AncestorOfAncestor
        <5>4. index(BlockNum(new))[i] = db.byBlocknumIndex[i]
          BY <4>1, <4>3, <5>2
        <5> QED
          BY <1>0, <5>2, <5>3, <5>4
      <4> QED
        BY <4>2, <4>3
    <3> QED
      BY <3>1
  <2> HIDE DEF accepted, index
  <2>8. /\ DbType(mid) /\ mid.states = db.states /\ mid.byOrderIndex = db.byOrderIndex
        /\ mid.invalid = db.invalid /\ mid.failed = db.failed
        /\ mid.commitIndex = db.commitIndex /\ mid.byBlocknumIndex = index(BlockNum(new))
    <3>1. accepted \subseteq Block
      BY <1>1, <2>6
    <3> QED
      BY <3>1 DEF Good, DbType
  <2> HIDE DEF mid
  <2>9. Tree(mid, r, q)
    BY <2>8 DEF Tree
  <2>10. /\ \E p \in mid.states : Tree(executed, r, p) /\ IsAncestor(p, new)
         /\ executed.states = mid.states
         /\ \/ executed.commitIndex = mid.commitIndex
            \/ \E b \in accepted : executed.commitIndex \in 1..CommitNum(b)
    <3>1. /\ new \in mid.byOrderIndex /\ mid.commitIndex \in Nat
          /\ accepted \in SUBSET mid.states
          /\ \A b \in accepted : IsAncestor(b, new)
          /\ \A b \in mid.states : TermsGrow(b)
      BY <1>0, <2>6, <2>8
    <3>2. \A i \in mid.commitIndex..Len(new) : mid.byBlocknumIndex[i] = Ancestor(new, i)
      BY <2>7, <2>8
    <3> QED
      BY <2>8, <2>9, <3>1, <3>2, AcceptBlocksTree
  <2>11. DbType(executed)
    <3>1. \A b \in accepted : b \in Block /\ CommitNum(b) <= Len(new)
      <4>1. ASSUME NEW b \in accepted PROVE b \in Block /\ CommitNum(b) <= Len(new)
        <5>1. b \in Block /\ Len(b) <= Len(new)
          BY <1>1, <2>6 DEF IsAncestor
        <5>2. CommitNum(b) \in 1..Len(b) /\ Len(b) \in Nat
          BY <5>1, BlockFacts
        <5> QED
          BY <1>1, <5>1, <5>2
      <4> QED
        BY <4>1
    <3> QED
      BY <1>0, <1>1, <2>8, <3>1, AcceptBlocksFields
  <2> HIDE DEF executed
  <2>12. /\ d.states = executed.states /\ d.byOrderIndex = executed.byOrderIndex
         /\ d.invalid = executed.invalid /\ d.failed = executed.failed
         /\ d.commitIndex = executed.commitIndex /\ d.head = new
    <3>1. checked = executed
      BY <2>4
    <3> QED
      BY <2>5, <2>11, <3>1 DEF DbType
  <2> HIDE DEF d
  <2>13. \E p \in db.states : Tree(d, r, p) /\ IsAncestor(p, new)
    BY <2>8, <2>10, <2>12 DEF Tree
  <2> QED
    BY <2>2, <2>6, <2>8, <2>10, <2>12, <2>13
<1> QED
  BY <1>2, <1>3

\* The last entry of byOrderIndex with a term that is not in the future: no other has a
\* later term, or the same term and a larger number.
LEMMA BestOfTree ==
  ASSUME NEW S \in SUBSET Block, NEW term \in Nat, NEW bound \in Nat,
         OneChainPerTerm(S), \A b \in S : Len(b) <= bound,
         NEW x \in S, Term(x) <= term
  PROVE  LET viable == {b \in S : Term(b) <= term}
         IN  \E best \in viable :
               /\ LastOf(viable) = {best}
               /\ \A c \in viable : AtLeast(best, Term(c), Len(c))
<1> DEFINE viable == {b \in S : Term(b) <= term}
           terms == {Term(b) : b \in viable}
<1>1. \A b \in viable : b \in Block /\ Term(b) \in Nat /\ Len(b) \in Nat
  BY BlockFacts
<1>2. PICK t \in terms : \A u \in terms : u <= t
  <2>1. terms \in SUBSET Nat /\ Term(x) \in terms /\ \A u \in terms : u <= term
    BY <1>1
  <2> HIDE DEF terms
  <2> QED
    BY <2>1, NatMax
<1> DEFINE newest == {b \in viable : Term(b) = t}
           nums == {Len(b) : b \in newest}
<1>3. PICK k \in nums : \A l \in nums : l <= k
  <2>1. nums \in SUBSET Nat /\ nums # {} /\ \A l \in nums : l <= bound
    BY <1>1, <1>2
  <2> HIDE DEF nums
  <2> QED
    BY <2>1, NatMax
<1>4. PICK best \in newest : Len(best) = k
  BY <1>3
<1>5. t \in Nat /\ k \in Nat /\ best \in viable /\ Term(best) = t
  BY <1>1, <1>4
<1>6. ASSUME NEW c \in viable
      PROVE  Term(c) < t \/ (Term(c) = t /\ Len(c) <= k)
  <2>1. Term(c) \in Nat /\ Term(c) <= t
    BY <1>1, <1>2
  <2>2. Term(c) = t => Len(c) <= k
    BY <1>3
  <2> QED
    BY <1>5, <2>1, <2>2
<1>7. ASSUME NEW c \in viable, c # best
      PROVE  OrderLess(c, best) /\ ~OrderLess(best, c)
  <2>1. c \in Block /\ best \in Block /\ Term(c) \in Nat /\ Len(c) \in Nat /\ c \in S /\ best \in S
    BY <1>1, <1>4
  <2>2. Term(c) = t => Len(c) # k
    BY <1>4, <1>5, <1>7, <2>1, AncestorSameNum DEF OneChainPerTerm
  <2>3. Term(c) < t \/ (Term(c) = t /\ Len(c) < k)
    BY <1>5, <1>6, <2>1, <2>2
  <2> QED
    BY <1>4, <1>5, <2>1, <2>3 DEF OrderLess, BlockNum
<1> HIDE DEF viable, newest, nums, terms
<1>8. LastOf(viable) = {best}
  BY <1>5, <1>7 DEF LastOf
<1>9. \A c \in viable : AtLeast(best, Term(c), Len(c))
  BY <1>1, <1>4, <1>5, <1>6 DEF AtLeast
<1> QED
  BY <1>5, <1>8, <1>9 DEF viable

\* One iteration of async_switch_fork of a node that produces no block: the best block
\* becomes the head.
LEMMA SwitchOnceTree ==
  ASSUME NEW db, Good(db), NEW r, NEW q, Tree(db, r, q),
         \A b \in db.states : TermsGrow(b) /\ AllValid(b),
         OneChainPerTerm(db.states),
         NEW bound \in Nat, \A b \in db.states : Len(b) <= bound,
         \A b \in db.byOrderIndex : ExtendsCommitted(db, b),
         NEW x \in db.byOrderIndex, Term(x) <= db.currentTerm,
         db.blockContext = NoBlock, NEW original
  PROVE  LET d == SwitchOnce(db, original).db
         IN  /\ d.head \in db.byOrderIndex /\ Term(d.head) <= db.currentTerm
             /\ \A c \in db.byOrderIndex :
                  Term(c) <= db.currentTerm => AtLeast(d.head, Term(c), Len(c))
             /\ Tidy(d) /\ d.states = db.states
             /\ \/ d.commitIndex = db.commitIndex
                \/ \E b \in db.states :
                     IsAncestor(b, d.head) /\ d.commitIndex \in 1..CommitNum(b)
<1> DEFINE viable == {b \in db.byOrderIndex : Term(b) <= db.currentTerm}
           chosen == CHOOSE b \in LastOf(viable) : TRUE
           d == TrySetHead(db, chosen)
<1>1. /\ db.states \subseteq Block /\ db.byOrderIndex \subseteq db.states
      /\ db.currentTerm \in Nat /\ DbType(db)
  BY TreeFacts DEF Good, DbType
<1>2. PICK best \in viable :
        /\ LastOf(viable) = {best}
        /\ \A c \in viable : AtLeast(best, Term(c), Len(c))
  <2>1. OneChainPerTerm(db.byOrderIndex) /\ db.byOrderIndex \in SUBSET Block
    BY <1>1 DEF OneChainPerTerm
  <2>2. \A b \in db.byOrderIndex : Len(b) <= bound
    BY <1>1
  <2> QED
    BY <1>1, <2>1, <2>2, BestOfTree
<1>3. chosen = best /\ LastOf(viable) # {}
  BY <1>2
<1>4. SwitchOnce(db, original).db = d
  BY <1>3 DEF SwitchOnce, TryBest, Target, Tried, KeepsPending
<1> HIDE DEF chosen
<1>5. /\ d.head = best /\ d.states = db.states
      /\ \E p \in db.states : Tree(d, r, p) /\ IsAncestor(p, best)
      /\ \/ d.commitIndex = db.commitIndex
         \/ \E b \in db.states :
              IsAncestor(b, best) /\ d.commitIndex \in 1..CommitNum(b)
  BY <1>2, <1>3, TrySetHeadTree
<1> HIDE DEF d
<1>6. Tidy(d)
  <2>1. PICK p \in db.states : Tree(d, r, p) /\ IsAncestor(p, best)
    BY <1>5
  <2>2. best \in db.states /\ d.byOrderIndex = {b \in d.states : IsAncestor(p, b)}
    BY <1>1, <1>2, <2>1 DEF Tree
  <2> QED
    BY <1>5, <2>1, <2>2 DEF Tidy, Tree
<1> QED
  BY <1>2, <1>4, <1>5, <1>6

\* A leader whose pending block is better than every block it knows stays where it is.
LEMMA SwitchOncePending ==
  ASSUME NEW db, Good(db), NEW r, NEW q, Tree(db, r, q),
         OneChainPerTerm(db.states),
         NEW bound \in Nat, \A b \in db.states : Len(b) <= bound,
         db.head \in db.byOrderIndex, Term(db.head) <= db.currentTerm,
         db.blockContext # NoBlock,
         \A b \in db.byOrderIndex : Term(b) <= db.currentTerm =>
           \/ Term(b) < db.blockContext.term
           \/ Term(b) = db.blockContext.term /\ BlockNum(b) < db.blockContext.num
  PROVE  SwitchOnce(db, db.head).db = db
<1> DEFINE viable == {b \in db.byOrderIndex : Term(b) <= db.currentTerm}
           chosen == CHOOSE b \in LastOf(viable) : TRUE
<1>1. /\ db.states \subseteq Block /\ db.byOrderIndex \subseteq db.states
      /\ db.currentTerm \in Nat
  BY TreeFacts DEF Good, DbType
<1>2. PICK best \in viable : LastOf(viable) = {best}
  <2>1. OneChainPerTerm(db.byOrderIndex) /\ db.byOrderIndex \in SUBSET Block
    BY <1>1 DEF OneChainPerTerm
  <2>2. \A b \in db.byOrderIndex : Len(b) <= bound
    BY <1>1
  <2> QED
    BY <1>1, <2>1, <2>2, BestOfTree
<1>3. chosen = best /\ LastOf(viable) # {}
  BY <1>2
<1>4. KeepsPending(db, db.head, best)
  BY <1>2 DEF KeepsPending
<1>5. SwitchOnce(db, db.head).db = TrySetHead(db, db.head)
  BY <1>3, <1>4 DEF SwitchOnce, TryBest, Target, Tried
<1> QED
  BY <1>5 DEF TrySetHead

\* gc cuts the tree at the last irreversible block.
LEMMA GcTree ==
  ASSUME NEW db, Good(db), Tidy(db)
  PROVE  LET d == Gc(db)
         IN  /\ Tidy(d)
             /\ d.states = {b \in db.states : ExtendsCommitted(db, b)}
<1> DEFINE d == Gc(db)
           root == db.byBlocknumIndex[db.commitIndex]
           kept == {b \in db.states : IsAncestor(root, b)}
<1>1. PICK r \in db.states, q \in db.states : Tree(db, r, q)
  BY DEF Tidy
<1>2. /\ db.head \in Block /\ Len(db.head) \in Nat
      /\ db.commitIndex \in Nat /\ db.commitIndex \in 1..Len(db.head)
      /\ root = Ancestor(db.head, db.commitIndex)
  BY IndexFacts, BlockFacts DEF Good, DbType
<1>3. /\ DOMAIN d = DOMAIN db /\ d.states = kept /\ d.invalid = db.invalid \cap kept
      /\ d.byOrderIndex = db.byOrderIndex \cap kept
      /\ d.head = db.head /\ d.commitIndex = db.commitIndex /\ d.failed = db.failed
  BY DEF Good, DbType, Gc
<1> HIDE DEF d, root
<1>4. /\ db.states \subseteq Block /\ db.byOrderIndex \subseteq db.states
      /\ q \in Block /\ Len(q) \in Nat /\ r \in Block /\ Len(r) \in Nat
      /\ db.byOrderIndex = {b \in db.states : IsAncestor(q, b)}
      /\ Len(r) <= db.commitIndex /\ db.commitIndex <= Len(q)
      /\ db.invalid = {} /\ ~db.failed
      /\ \A b \in db.states : \A i \in Len(r)..Len(b) : Ancestor(b, i) \in db.states
  BY <1>1, TreeFacts DEF Tree, Good
<1>5. db.head \in db.states /\ IsAncestor(q, db.head)
  BY <1>4 DEF Tidy
<1>6. root \in Block /\ Len(root) = db.commitIndex /\ IsAncestor(root, db.head)
  BY <1>2, AncestorFacts, IsAncestorOfBlock
<1>7. IsAncestor(root, q)
  BY <1>2, <1>4, <1>5, <1>6, ComparableAncestors
<1>8. \A b \in db.byOrderIndex : b \in kept
  BY <1>4, <1>6, <1>7, IsAncestorTrans
<1>9. root \in kept /\ q \in kept
  <2>1. db.commitIndex \in Len(r)..Len(db.head)
    BY <1>2, <1>4
  <2>2. root \in db.states
    BY <1>2, <1>4, <1>5, <2>1
  <2> QED
    BY <1>1, <1>6, <1>7, <2>2, IsAncestorRefl
<1>10. ASSUME NEW b \in kept, NEW i \in Len(root)..Len(b)
       PROVE  Ancestor(b, i) \in kept
  <2>1. b \in Block /\ Len(b) \in Nat /\ Len(b) >= 1 /\ b \in db.states /\ IsAncestor(root, b)
    BY <1>4, BlockFacts
  <2>2. i \in Len(r)..Len(b) /\ i \in 1..Len(b) /\ Len(root) <= i
    BY <1>2, <1>4, <1>6, <2>1
  <2>3. /\ Ancestor(b, i) \in Block /\ Len(Ancestor(b, i)) = i
        /\ IsAncestor(Ancestor(b, i), b) /\ Ancestor(b, i) \in db.states
    BY <1>4, <2>1, <2>2, AncestorFacts, IsAncestorOfBlock
  <2>4. IsAncestor(root, Ancestor(b, i))
    BY <1>6, <2>1, <2>2, <2>3, ComparableAncestors
  <2> QED
    BY <2>3, <2>4
<1>11. Tree(d, root, q)
  <2>1. d.byOrderIndex = {b \in d.states : IsAncestor(q, b)}
    BY <1>3, <1>4, <1>8
  <2>2. \A b \in d.states :
          IsAncestor(root, b) /\ \A i \in Len(root)..Len(b) : Ancestor(b, i) \in d.states
    BY <1>3, <1>10
  <2>3. Len(root) <= d.commitIndex /\ d.commitIndex <= Len(q) /\ d.invalid = {} /\ ~d.failed
    BY <1>2, <1>3, <1>4, <1>6
  <2> QED
    BY <1>3, <1>9, <2>1, <2>2, <2>3 DEF Tree
<1>12. Tidy(d)
  BY <1>3, <1>8, <1>9, <1>11 DEF Tidy
<1>13. d.states = {b \in db.states : ExtendsCommitted(db, b)}
  BY <1>2, <1>3 DEF ExtendsCommitted
<1> QED
  BY <1>12, <1>13 DEF d

\* The block that finish_block appends to the head.
LEMMA FinishedBlockFacts ==
  ASSUME NEW db, Good(db), PendingBuildsOnHead(db), db.blockContext # NoBlock,
         NEW producer \in Nat
  PROVE  LET d == FinishBlock(db, producer)
             b == FinishedBlock(db, producer)
         IN  /\ b \in Block /\ Len(b) = Len(db.head) + 1
             /\ IsAncestor(db.head, b) /\ CommitNum(b) = db.blockContext.commitNum
             /\ b[Len(b)].valid
             /\ d.states = db.states \cup {b} /\ d.invalid = db.invalid
             /\ d.byOrderIndex = db.byOrderIndex \cup {b} /\ d.revisions = db.revisions \cup {b}
             /\ d.head = b /\ d.databaseHead = b
             /\ d.commitIndex = db.commitIndex /\ d.failed = db.failed
<1> DEFINE d == FinishBlock(db, producer)
           b == FinishedBlock(db, producer)
           h == [term |-> db.blockContext.term, producer |-> producer,
                 commitNum |-> db.blockContext.commitNum, valid |-> TRUE]
<1>1. b \in Block /\ Len(b) = Len(db.head) + 1
  BY FinishBlockGood
<1>2. /\ db.head \in Block /\ Len(db.head) \in Nat /\ Len(db.head) >= 1
      /\ db.head \in Seq(Header(Nat, Nat, Nat))
  BY BlockFacts DEF Good, DbType
<1>3. /\ db.blockContext.term \in Nat /\ db.blockContext.commitNum \in Nat
  BY DEF Good, DbType
<1>4. h \in Header(Nat, Nat, Nat)
  BY <1>3 DEF Header
<1>5. b = Append(db.head, h)
  BY DEF FinishedBlock
<1>6. h.commitNum = db.blockContext.commitNum /\ h.valid
  OBVIOUS
<1> HIDE DEF h
<1>7. b[Len(b)] = h /\ \A i \in 1..Len(db.head) : b[i] = db.head[i]
  BY <1>1, <1>2, <1>4, <1>5
<1>8. IsAncestor(db.head, b)
  <2>1. SubSeq(b, 1, Len(db.head)) = db.head
    BY <1>2, <1>4, <1>5, AppendProperties
  <2> QED
    BY <1>1, <1>2, <2>1 DEF IsAncestor, Ancestor
<1>9. /\ d.states = db.states \cup {b} /\ d.invalid = db.invalid
      /\ d.byOrderIndex = db.byOrderIndex \cup {b} /\ d.revisions = db.revisions \cup {b}
      /\ d.head = b /\ d.databaseHead = b
      /\ d.commitIndex = db.commitIndex /\ d.failed = db.failed
  BY DEF Good, DbType, FinishBlock, AddHead
<1> QED
  BY <1>1, <1>6, <1>7, <1>8, <1>9 DEF CommitNum

\* finish_block adds the new head to the tree.
LEMMA FinishBlockTree ==
  ASSUME NEW db, Good(db), Tidy(db), PendingBuildsOnHead(db), db.blockContext # NoBlock,
         NEW producer \in Nat
  PROVE  LET d == FinishBlock(db, producer)
             b == FinishedBlock(db, producer)
         IN  /\ Tidy(d) /\ d.states = db.states \cup {b}
             /\ IsAncestor(db.head, b) /\ CommitNum(b) = db.blockContext.commitNum
             /\ b[Len(b)].valid
<1> DEFINE d == FinishBlock(db, producer)
           b == FinishedBlock(db, producer)
<1>1. PICK r \in db.states, q \in db.states : Tree(db, r, q)
  BY DEF Tidy
<1>2. /\ b \in Block /\ Len(b) = Len(db.head) + 1
      /\ CommitNum(b) = db.blockContext.commitNum /\ b[Len(b)].valid
  BY FinishedBlockFacts
<1>3. /\ db.head \in Block /\ Len(db.head) \in Nat /\ Len(db.head) >= 1
  BY BlockFacts DEF Good, DbType
<1>4. IsAncestor(db.head, b)
  BY FinishedBlockFacts
<1>5. /\ d.states = db.states \cup {b} /\ d.invalid = db.invalid
       /\ d.byOrderIndex = db.byOrderIndex \cup {b} /\ d.head = b
       /\ d.commitIndex = db.commitIndex /\ d.failed = db.failed
  BY FinishedBlockFacts
<1> HIDE DEF d, b
<1>6. /\ db.states \subseteq Block /\ db.byOrderIndex \subseteq db.states
       /\ q \in Block /\ r \in Block /\ Len(r) \in Nat /\ Len(r) >= 1
       /\ db.byOrderIndex = {c \in db.states : IsAncestor(q, c)}
       /\ \A c \in db.states :
            IsAncestor(r, c) /\ \A i \in Len(r)..Len(c) : Ancestor(c, i) \in db.states
  BY <1>1, TreeFacts DEF Tree, Good
<1>7. db.head \in db.states /\ IsAncestor(q, db.head) /\ IsAncestor(r, db.head)
  BY <1>6 DEF Tidy
<1>8. IsAncestor(q, b) /\ IsAncestor(r, b)
  BY <1>2, <1>3, <1>4, <1>6, <1>7, IsAncestorTrans
<1>9. ASSUME NEW i \in Len(r)..Len(b) PROVE Ancestor(b, i) \in d.states
  <2>1. CASE i = Len(b)
    BY <1>2, <1>5, <2>1, AncestorSelf
  <2>2. CASE i # Len(b)
    <3>1. i \in Len(r)..Len(db.head) /\ i \in 1..Len(db.head)
      BY <1>2, <1>3, <1>6, <2>2
    <3>2. Ancestor(db.head, i) = Ancestor(b, i)
      BY <1>2, <1>3, <1>4, <3>1, AncestorAgrees
    <3> QED
      BY <1>5, <1>6, <1>7, <3>1, <3>2
  <2> QED
    BY <2>1, <2>2
<1>10. Tree(d, r, q)
  <2>1. d.byOrderIndex = {c \in d.states : IsAncestor(q, c)}
    BY <1>5, <1>6, <1>8
  <2>2. \A c \in d.states :
          IsAncestor(r, c) /\ \A i \in Len(r)..Len(c) : Ancestor(c, i) \in d.states
    BY <1>5, <1>6, <1>8, <1>9
  <2> QED
    BY <1>1, <1>5, <2>1, <2>2 DEF Tree
<1>11. Tidy(d)
  BY <1>5, <1>10 DEF Tidy, Tree
<1> QED
  BY <1>2, <1>4, <1>5, <1>11 DEF d, b

\* A database with one block.
LEMMA NewDbTree ==
  ASSUME NEW first \in Block
  PROVE  Tidy(NewDb(first)) /\ NewDb(first).states = {first}
<1> DEFINE d == NewDb(first)
<1>1. /\ d.states = {first} /\ d.byOrderIndex = {first} /\ d.head = first
      /\ d.invalid = {} /\ ~d.failed /\ d.commitIndex = Len(first)
  BY DEF NewDb
<1>2. IsAncestor(first, first) /\ Len(first) \in Nat /\ Ancestor(first, Len(first)) = first
  BY BlockFacts, IsAncestorRefl, AncestorSelf
<1> HIDE DEF d
<1>3. \A i \in Len(first)..Len(first) : Ancestor(first, i) \in d.states
  BY <1>1, <1>2
<1>4. Tree(d, first, first)
  BY <1>1, <1>2, <1>3 DEF Tree
<1> QED
  BY <1>1, <1>4 DEF Tidy, d
=============================================================================
