------------------------------ MODULE BftProofs ------------------------------
(***************************************************************************)
(* What every correct node keeps to, whatever the faulty producers sign    *)
(* and in whichever order messages arrive: it prepares only one fork in a  *)
(* term, it commits only what a quorum has prepared, and it never drops a  *)
(* block that it considers irreversible.                                   *)
(***************************************************************************)
EXTENDS Bft, ForkDbProofs, ProducerSetProofs

(***************************************************************************)
(* The producers that may have prepared block b if the correct nodes have  *)
(* sent the messages M.  A node may count the producers S for b if all of  *)
(* them have prepared it, or if a quorum has.                              *)
(***************************************************************************)
Preparers(M, b) == Faulty \cup {p \in Correct : PrepareMessage(b, p) \in M}
Prepared(M, b) == Quorum(Preparers(M, b))
Justified(M, b, S) == S \subseteq Producer /\ (S \subseteq Preparers(M, b) \/ Prepared(M, b))

(***************************************************************************)
(* The invariant of a node.  A callback runs several functions of the node *)
(* before its messages are sent, so M contains what all nodes have sent    *)
(* before and what the callback is about to send.  No term is above T.     *)
(***************************************************************************)
NodeFields ==
  {"_state", "current_term", "confirmations", "views", "pendingBlocks", "best_prepared",
   "best_confirm", "blockData", "db", "out"}

\* The prepares that the node has counted were sent.
ConfirmationOK(c, M, b) ==
  /\ DOMAIN c = {"prepares", "commits", "committedByBlock"}
  /\ Justified(M, b, c.prepares)

ConfirmationsOK(confirmations, M) ==
  \A b \in DOMAIN confirmations : ConfirmationOK(confirmations[b], M, b)

\* A view change that proves a block to be prepared is right.
ProofOK(m, M) ==
  m.proved \in BOOLEAN /\ (m.proved => m.best_prepared # NoId /\ Prepared(M, m.best_prepared))

MessageOK(m, M, T) ==
  /\ m.producer \in Correct
  /\ m.type = "Commit" => Prepared(M, m.block)
  /\ m.type = "ViewChange" => m.term \in 0..T /\ ProofOK(m, M)

ViewsOK(views, M, T) ==
  /\ DOMAIN views = Producer
  /\ \A p \in Producer : /\ DOMAIN views[p] = {"term", "best_message"}
                         /\ views[p].term \in 0..T
                         /\ ProofOK(views[p].best_message, M)

\* best_confirm is the last block of the only fork that the node has prepared in the
\* latest of the terms in which it has prepared any.
PreparesOf(n, M) == {m.block : m \in {k \in M : k.type = "Prepare" /\ k.producer = n}}

PreparesOK(n, best_confirm, term, M) ==
  /\ best_confirm \in Block \cup {NoId}
  /\ best_confirm # NoId => Term(best_confirm) <= term
  /\ \A b \in PreparesOf(n, M) :
       /\ b \in Block
       /\ best_confirm # NoId /\ Term(b) <= Term(best_confirm)
       /\ Term(b) = Term(best_confirm) => IsAncestor(b, best_confirm)
  /\ \A b, c \in PreparesOf(n, M) : Term(b) = Term(c) => SameFork(b, c)

\* The invariant except for the fork database.
VotesOK(n, s, M, T) ==
  /\ DOMAIN s = NodeFields
  /\ s.current_term \in 0..T
  /\ ConfirmationsOK(s.confirmations, M \cup s.out)
  /\ ViewsOK(s.views, M \cup s.out, T)
  /\ PreparesOK(n, s.best_confirm, s.current_term, M \cup s.out)
  /\ \A m \in s.out : m.producer = n /\ MessageOK(m, M \cup s.out, T)

\* The fork database is well-formed.  A leader always has a pending block.
TermsBounded(db, T) == \A b \in db.states : Term(b) <= T

HasPending(db, T) ==
  db.blockContext # NoBlock /\ PendingBuildsOnHead(db) /\ db.blockContext.term <= T

DatabaseOK(s, T) ==
  /\ Good(s.db) /\ TermsBounded(s.db, T)
  /\ s._state = "leader" => HasPending(s.db, T)

NodeOK(n, s, M, T) == VotesOK(n, s, M, T) /\ DatabaseOK(s, T)

BftInv ==
  /\ scenario \in ScenarioType
  /\ DOMAIN node = Correct
  /\ \A n \in Correct : NodeOK(n, node[n], msgs, scenario.term) /\ node[n].out = {}
  /\ \A m \in msgs : MessageOK(m, msgs, scenario.term)
  /\ IsFiniteSet(produced)
  /\ \A m \in produced : m.block \in Block /\ Term(m.block) <= scenario.term

-----------------------------------------------------------------------------
(***************************************************************************)
(* Producers and quorums.                                                  *)
(***************************************************************************)
LEMMA ProducerFacts ==
  /\ N \in Nat /\ N >= 1 /\ Cardinality(Producer) = N
  /\ IsFiniteSet(Producer) /\ Faulty \subseteq Producer /\ Correct \subseteq Producer
  /\ \A i \in 1..N : Order[i] \in Producer
<1>1. /\ N \in Nat /\ Order \in Seq(Producer) /\ Cardinality(Producer) = N
      /\ Faulty \subseteq Producer /\ 3 * Cardinality(Faulty) < N
  BY BftAssumption, LenProperties DEF N
<1>2. IsFiniteSet(Producer)
  <2> DEFINE f == [i \in 1..N |-> Order[i]]
  <2>1. f \in [1..N -> Producer] /\ \A p \in Producer : \E i \in 1..N : f[i] = p
    BY DEF Producer, N
  <2>2. f \in Surjection(1..N, Producer)
    BY <2>1 DEF Surjection
  <2>3. IsFiniteSet(1..N)
    BY <1>1, FS_Interval
  <2> QED
    BY <2>2, <2>3, FS_Surjection
<1>3. Cardinality(Faulty) \in Nat
  BY <1>1, <1>2, FS_Subset, FS_CardinalityType
<1>4. N >= 1
  BY <1>1, <1>3
<1>5. \A i \in 1..N : Order[i] \in Producer
  BY DEF Producer, N
<1> QED
  BY <1>1, <1>2, <1>4, <1>5 DEF Correct

\* A set with a quorum is a quorum.
LEMMA QuorumGrows ==
  ASSUME NEW Q, Quorum(Q), NEW R \in SUBSET Producer, Q \subseteq R
  PROVE  Quorum(R)
<1>1. Q \in SUBSET Producer /\ Q \in SUBSET R
      /\ Cardinality(Q) >= Threshold("bft", Cardinality(Producer))
  BY DEF Quorum, IsQuorum
<1>2. IsFiniteSet(Q) /\ IsFiniteSet(R)
  BY <1>1, ProducerFacts, FS_Subset
<1>3. /\ Cardinality(Q) \in Nat /\ Cardinality(R) \in Nat /\ Cardinality(Q) <= Cardinality(R)
      /\ Cardinality(Producer) \in Nat
  BY <1>1, <1>2, ProducerFacts, FS_Subset, FS_CardinalityType
<1>4. Threshold("bft", Cardinality(Producer)) \in Int
  BY <1>3 DEF Threshold
<1>5. Cardinality(R) >= Threshold("bft", Cardinality(Producer))
  BY <1>1, <1>3, <1>4
<1> QED
  BY <1>5 DEF Quorum, IsQuorum

LEMMA PreparersFacts ==
  ASSUME NEW M, NEW b
  PROVE  /\ Preparers(M, b) \in SUBSET Producer /\ Faulty \subseteq Preparers(M, b)
         /\ \A p \in Producer : PrepareMessage(b, p) \in M => p \in Preparers(M, b)
BY ProducerFacts DEF Preparers, Correct

\* What is prepared stays prepared.
LEMMA PreparedGrows ==
  ASSUME NEW M, NEW W, M \subseteq W, NEW b, Prepared(M, b)
  PROVE  Prepared(W, b)
<1>1. Preparers(M, b) \subseteq Preparers(W, b)
  BY DEF Preparers
<1> QED
  BY <1>1, PreparersFacts, QuorumGrows DEF Prepared

LEMMA JustifiedGrows ==
  ASSUME NEW M, NEW W, M \subseteq W, NEW b, NEW S, Justified(M, b, S)
  PROVE  Justified(W, b, S)
<1>1. Preparers(M, b) \subseteq Preparers(W, b)
  BY DEF Preparers
<1>2. Prepared(M, b) => Prepared(W, b)
  BY PreparedGrows
<1> QED
  BY <1>1, <1>2 DEF Justified

\* A quorum of justified producers has prepared the block.
LEMMA JustifiedQuorum ==
  ASSUME NEW M, NEW b, NEW S, Justified(M, b, S), Quorum(S)
  PROVE  Prepared(M, b)
<1>1. CASE S \subseteq Preparers(M, b)
  BY <1>1, PreparersFacts, QuorumGrows DEF Prepared
<1> QED
  BY <1>1 DEF Justified

\* block_info::confirm: the node may count more producers.
LEMMA JustifiedUnion ==
  ASSUME NEW M, NEW b, NEW S, NEW P, Justified(M, b, S), Justified(M, b, P)
  PROVE  Justified(M, b, S \cup P) /\ Justified(M, b, Complete(S \cup P))
<1>1. Justified(M, b, S \cup P)
  BY DEF Justified
<1>2. CASE Quorum(S \cup P)
  <2>1. Prepared(M, b)
    BY <1>1, <1>2, JustifiedQuorum
  <2> QED
    BY <1>1, <1>2, <2>1 DEF Justified, Complete
<1>3. CASE ~Quorum(S \cup P)
  BY <1>1, <1>3 DEF Complete
<1> QED
  BY <1>2, <1>3

LEMMA SigningFacts == Signing \subseteq Faulty
BY DEF Signing

\* The confirmations of a block that the node knows nothing about are those of the
\* faulty producers.
LEMMA ConfirmsFacts ==
  ASSUME NEW s, NEW M, ConfirmationsOK(s.confirmations, M), NEW b
  PROVE  ConfirmationOK(Confirms(s, b), M, b)
<1>1. CASE b \in DOMAIN s.confirmations
  BY <1>1 DEF Confirms, ConfirmationsOK
<1>2. CASE b \notin DOMAIN s.confirmations
  <2>1. Confirms(s, b) = NoConfirms
    BY <1>2 DEF Confirms
  <2>2. /\ DOMAIN NoConfirms = {"prepares", "commits", "committedByBlock"}
        /\ NoConfirms.prepares = Signing
    BY DEF NoConfirms
  <2>3. Justified(M, b, Signing)
    BY SigningFacts, PreparersFacts DEF Justified
  <2> QED
    BY <2>1, <2>2, <2>3 DEF ConfirmationOK
<1> QED
  BY <1>1, <1>2

\* make_view_change and load_prepares: what is proved stays proved.
LEMMA ProofGrows ==
  ASSUME NEW M, NEW W, M \subseteq W, NEW m, ProofOK(m, M)
  PROVE  ProofOK(m, W)
BY PreparedGrows DEF ProofOK

LEMMA MessageGrows ==
  ASSUME NEW M, NEW W, M \subseteq W, NEW m, NEW T, MessageOK(m, M, T)
  PROVE  MessageOK(m, W, T)
<1>1. m.type = "ViewChange" => ProofOK(m, W)
  BY ProofGrows DEF MessageOK
<1>2. m.type = "Commit" => Prepared(W, m.block)
  BY PreparedGrows DEF MessageOK
<1> QED
  BY <1>1, <1>2 DEF MessageOK

LEMMA ConfirmationsGrow ==
  ASSUME NEW M, NEW W, M \subseteq W, NEW c, ConfirmationsOK(c, M)
  PROVE  ConfirmationsOK(c, W)
<1>1. ASSUME NEW b \in DOMAIN c PROVE ConfirmationOK(c[b], W, b)
  BY JustifiedGrows DEF ConfirmationsOK, ConfirmationOK
<1> QED
  BY <1>1 DEF ConfirmationsOK

LEMMA ViewsGrow ==
  ASSUME NEW M, NEW W, M \subseteq W, NEW v, NEW T, ViewsOK(v, M, T)
  PROVE  ViewsOK(v, W, T)
<1>1. ASSUME NEW p \in Producer PROVE ProofOK(v[p].best_message, W)
  BY ProofGrows DEF ViewsOK
<1> QED
  BY <1>1 DEF ViewsOK

-----------------------------------------------------------------------------
(***************************************************************************)
(* The fork database while blocks are confirmed.  During a fork switch the *)
(* index is already the chain of the new head top, when head is still the  *)
(* old one.  Confirming blocks only raises commitIndex and prunes the      *)
(* blocks that may become the head.                                        *)
(***************************************************************************)
Chain(db, top) ==
  /\ DbType(db) /\ top \in Block
  /\ db.commitIndex \in 1..Len(top)
  /\ \E low \in 1..db.commitIndex :
       db.byBlocknumIndex = [i \in low..Len(top) |-> Ancestor(top, i)]

Raised(d, db) ==
  /\ DbType(d) /\ SameChain(d, db) /\ SameBlock(d, db)
  /\ d.commitIndex \in Nat /\ db.commitIndex \in Nat /\ d.commitIndex >= db.commitIndex

LEMMA GoodChain ==
  ASSUME NEW db, Good(db)
  PROVE  Chain(db, db.head)
BY DEF Good, DbType, IndexIsChainOfHead, Chain, BlockNum

LEMMA ChainFacts ==
  ASSUME NEW db, NEW top, Chain(db, top)
  PROVE  /\ DbType(db) /\ top \in Block /\ Len(top) \in Nat
         /\ db.commitIndex \in Nat /\ db.commitIndex \in 1..Len(top)
         /\ db.commitIndex \in DOMAIN db.byBlocknumIndex
         /\ \A i \in DOMAIN db.byBlocknumIndex :
              i \in 1..Len(top) /\ db.byBlocknumIndex[i] = Ancestor(top, i)
<1>1. top \in Block /\ Len(top) \in Nat /\ db.commitIndex \in 1..Len(top) /\ DbType(db)
  BY BlockFacts DEF Chain
<1>2. PICK low \in 1..db.commitIndex :
        db.byBlocknumIndex = [i \in low..Len(top) |-> Ancestor(top, i)]
  BY DEF Chain
<1> QED
  BY <1>1, <1>2

LEMMA RaisedRefl ==
  ASSUME NEW db, DbType(db), db.commitIndex \in Nat
  PROVE  Raised(db, db)
BY DEF Raised, SameChain, SameBlock

LEMMA RaisedTrans ==
  ASSUME NEW b, NEW c, NEW d, Raised(c, b), Raised(d, c)
  PROVE  Raised(d, b)
<1>1. /\ SameChain(d, b) /\ SameBlock(d, b) /\ DbType(d)
  BY DEF Raised, SameChain, SameBlock
<1>2. /\ b.commitIndex \in Nat /\ c.commitIndex \in Nat /\ d.commitIndex \in Nat
      /\ c.commitIndex >= b.commitIndex /\ d.commitIndex >= c.commitIndex
  BY DEF Raised
<1>3. d.commitIndex >= b.commitIndex
  BY <1>2
<1> QED
  BY <1>1, <1>2, <1>3 DEF Raised

\* The index stays the chain of top if commitIndex does not go beyond it.
LEMMA RaisedChain ==
  ASSUME NEW db, NEW d, NEW top, Chain(db, top), Raised(d, db),
         d.commitIndex # db.commitIndex => d.commitIndex <= Len(top)
  PROVE  Chain(d, top)
<1>1. /\ top \in Block /\ Len(top) \in Nat
      /\ db.commitIndex \in Nat /\ db.commitIndex \in 1..Len(top)
  BY ChainFacts
<1>2. d.commitIndex \in Nat /\ d.commitIndex >= db.commitIndex
      /\ d.byBlocknumIndex = db.byBlocknumIndex /\ DbType(d)
  BY DEF Raised, SameChain
<1>3. d.commitIndex \in 1..Len(top) /\ \A low \in 1..db.commitIndex : low \in 1..d.commitIndex
  BY <1>1, <1>2
<1>4. PICK low \in 1..db.commitIndex :
        db.byBlocknumIndex = [i \in low..Len(top) |-> Ancestor(top, i)]
  BY DEF Chain
<1>5. low \in 1..d.commitIndex /\ d.byBlocknumIndex = [i \in low..Len(top) |-> Ancestor(top, i)]
  BY <1>2, <1>3, <1>4
<1> QED
  BY <1>1, <1>2, <1>3, <1>5 DEF Chain

\* Between fork switches, the database stays well-formed.
LEMMA RaisedGood ==
  ASSUME NEW db, Good(db), NEW d, Raised(d, db), Chain(d, db.head)
  PROVE  Good(d) /\ KeepsIrreversible(d, db)
<1>1. /\ DbType(d) /\ SameChain(d, db)
      /\ d.commitIndex \in Nat /\ db.commitIndex \in Nat /\ d.commitIndex >= db.commitIndex
      /\ d.head = db.head
  BY DEF Raised, SameChain
<1>2. IndexIsChainOfHead(d)
  BY <1>1 DEF Chain, IndexIsChainOfHead, BlockNum
<1>3. DurableHead(d)
  <2>1. Len(db.databaseHead) \in Nat
    BY BlockFacts DEF Good, DbType
  <2>2. \A i \in d.commitIndex..Len(db.databaseHead) : i \in db.commitIndex..Len(db.databaseHead)
    BY <1>1, <2>1
  <2> QED
    BY <1>1, <2>2 DEF Good, DurableHead, SameChain
<1>4. KeepsIrreversible(d, db)
  BY <1>1, KeepsSameHead
<1> QED
  BY <1>1, <1>2, <1>3, <1>4 DEF Good

\* ForkDb::commit in the middle of a fork switch and between two.
LEMMA CommitChain ==
  ASSUME NEW db, NEW top, Chain(db, top), NEW num \in Nat, num <= Len(top)
  PROVE  Raised(Commit(db, num), db) /\ Chain(Commit(db, num), top)
<1> DEFINE d == Commit(db, num)
<1>1. /\ DbType(db) /\ db.commitIndex \in Nat /\ Len(top) \in Nat
  BY ChainFacts
<1>2. /\ DbType(d) /\ SameChain(d, db) /\ SameBlock(d, db)
      /\ d.commitIndex \in Nat /\ d.commitIndex >= db.commitIndex
      /\ d.commitIndex # db.commitIndex => d.commitIndex <= num
  BY <1>1, CommitFields
<1> HIDE DEF d
<1>3. Raised(d, db) /\ (d.commitIndex # db.commitIndex => d.commitIndex <= Len(top))
  BY <1>1, <1>2 DEF Raised
<1>4. Chain(d, top)
  BY <1>3, RaisedChain
<1> QED
  BY <1>3, <1>4 DEF d

LEMMA SetSubtreeChain ==
  ASSUME NEW db, NEW top, Chain(db, top), NEW root
  PROVE  Raised(SetSubtree(db, root), db) /\ Chain(SetSubtree(db, root), top)
<1> DEFINE d == SetSubtree(db, root)
<1>1. DbType(db) /\ db.commitIndex \in Nat
  BY ChainFacts
<1>2. DbType(d) /\ SameChain(d, db) /\ SameBlock(d, db) /\ d.commitIndex = db.commitIndex
  BY <1>1, SetSubtreeFields
<1> HIDE DEF d
<1>3. Raised(d, db)
  BY <1>1, <1>2 DEF Raised
<1>4. Chain(d, top)
  BY <1>2, <1>3, RaisedChain
<1> QED
  BY <1>3, <1>4 DEF d

LEMMA FailureChain ==
  ASSUME NEW db, NEW top, Chain(db, top)
  PROVE  Raised(ConsensusFailure(db), db) /\ Chain(ConsensusFailure(db), top)
<1> DEFINE d == ConsensusFailure(db)
<1>1. DbType(db) /\ db.commitIndex \in Nat
  BY ChainFacts
<1>2. DbType(d) /\ SameChain(d, db) /\ SameBlock(d, db) /\ d.commitIndex = db.commitIndex
  BY <1>1 DEF DbType, SameChain, SameBlock, ConsensusFailure
<1> HIDE DEF d
<1>3. Raised(d, db)
  BY <1>1, <1>2 DEF Raised
<1>4. Chain(d, top)
  BY <1>2, <1>3, RaisedChain
<1> QED
  BY <1>3, <1>4 DEF d

\* in_best_chain: such a block is an ancestor of the head.
LEMMA OnBestChainFacts ==
  ASSUME NEW db, NEW top, Chain(db, top), NEW b \in Block, OnBestChain(db, b)
  PROVE  Len(b) \in 1..Len(top) /\ b = Ancestor(top, Len(b))
<1>1. /\ top \in Block /\ Len(top) \in Nat
      /\ db.commitIndex \in Nat /\ db.commitIndex \in 1..Len(top)
      /\ db.commitIndex \in DOMAIN db.byBlocknumIndex
      /\ \A i \in DOMAIN db.byBlocknumIndex :
           i \in 1..Len(top) /\ db.byBlocknumIndex[i] = Ancestor(top, i)
      /\ Len(b) \in Nat /\ Len(b) >= 1
  BY ChainFacts, BlockFacts
<1>2. CASE Len(b) < db.commitIndex
  <2> DEFINE a == Ancestor(top, db.commitIndex)
  <2>1. IsAncestor(b, a)
    BY <1>1, <1>2 DEF OnBestChain
  <2>2. a \in Block /\ Len(a) = db.commitIndex
    BY <1>1, AncestorFacts
  <2>3. Len(b) \in 1..db.commitIndex
    BY <1>1, <1>2
  <2>4. Ancestor(a, Len(b)) = Ancestor(top, Len(b))
    BY <1>1, <2>3, AncestorOfAncestor
  <2>5. Ancestor(a, Len(b)) = b
    BY <2>1 DEF IsAncestor
  <2> QED
    BY <1>1, <2>3, <2>4, <2>5
<1>3. CASE ~(Len(b) < db.commitIndex)
  <2>1. Len(b) \in DOMAIN db.byBlocknumIndex /\ db.byBlocknumIndex[Len(b)] = b
    BY <1>3 DEF OnBestChain, InBestChain
  <2> QED
    BY <1>1, <2>1
<1> QED
  BY <1>2, <1>3

\* Two blocks of the best chain are on the same fork.
LEMMA BestChainIsOneFork ==
  ASSUME NEW db, NEW top, Chain(db, top), NEW b \in Block, NEW c \in Block,
         OnBestChain(db, b), OnBestChain(db, c)
  PROVE  /\ Len(b) <= Len(c) => IsAncestor(b, c)
         /\ Len(c) <= Len(b) => IsAncestor(c, b)
<1>1. /\ Len(b) \in 1..Len(top) /\ b = Ancestor(top, Len(b))
      /\ Len(c) \in 1..Len(top) /\ c = Ancestor(top, Len(c)) /\ top \in Block
      /\ Len(b) \in Nat /\ Len(c) \in Nat /\ Len(b) >= 1 /\ Len(c) >= 1
  BY OnBestChainFacts, BlockFacts, ChainFacts
<1>2. ASSUME Len(b) <= Len(c) PROVE IsAncestor(b, c)
  <2>1. Len(b) \in 1..Len(c)
    BY <1>1, <1>2
  <2>2. IsAncestor(Ancestor(top, Len(b)), Ancestor(top, Len(c)))
    BY <1>1, <2>1, AncestorsAreOrdered
  <2> QED
    BY <1>1, <2>2
<1>3. ASSUME Len(c) <= Len(b) PROVE IsAncestor(c, b)
  <2>1. Len(c) \in 1..Len(b)
    BY <1>1, <1>3
  <2>2. IsAncestor(Ancestor(top, Len(c)), Ancestor(top, Len(b)))
    BY <1>1, <2>1, AncestorsAreOrdered
  <2> QED
    BY <1>1, <2>2
<1> QED
  BY <1>2, <1>3

-----------------------------------------------------------------------------
(***************************************************************************)
(* What the node confirms itself.                                          *)
(***************************************************************************)
LEMMA NoIdIsNoBlock == NoId \notin Block
BY DEF NoId, Block

\* Two ancestors of a block are on the same fork.
LEMMA AncestorsSameFork ==
  ASSUME NEW a \in Block, NEW b \in Block, NEW c \in Block, IsAncestor(a, c), IsAncestor(b, c)
  PROVE  SameFork(a, b)
<1>1. /\ Len(a) \in 1..Len(c) /\ Len(b) \in 1..Len(c) /\ Len(a) \in Nat /\ Len(b) \in Nat
      /\ Len(a) >= 1 /\ Len(b) >= 1
      /\ a = Ancestor(c, Len(a)) /\ b = Ancestor(c, Len(b))
  BY BlockFacts DEF IsAncestor
<1>2. CASE Len(a) <= Len(b)
  <2>1. Len(a) \in 1..Len(b)
    BY <1>1, <1>2
  <2>2. IsAncestor(Ancestor(c, Len(a)), Ancestor(c, Len(b)))
    BY <1>1, <2>1, AncestorsAreOrdered
  <2> QED
    BY <1>1, <2>2 DEF SameFork
<1>3. CASE Len(b) <= Len(a)
  <2>1. Len(b) \in 1..Len(a)
    BY <1>1, <1>3
  <2>2. IsAncestor(Ancestor(c, Len(b)), Ancestor(c, Len(a)))
    BY <1>1, <2>1, AncestorsAreOrdered
  <2> QED
    BY <1>1, <2>2 DEF SameFork
<1> QED
  BY <1>1, <1>2, <1>3

\* is_forbidden_fork: the block is of a later term than best_confirm, or on its fork.
LEMMA NotForbidden ==
  ASSUME NEW s, NEW top, Chain(s.db, top), NEW b \in Block, s.best_confirm \in Block \cup {NoId},
         ~IsForbiddenFork(s, b)
  PROVE  LET c == s.best_confirm
         IN  \/ c = NoId
             \/ Term(c) < Term(b)
             \/ (Len(b) <= Len(c) => IsAncestor(b, c)) /\ (Len(c) <= Len(b) => IsAncestor(c, b))
<1> DEFINE c == s.best_confirm
<1>1. SUFFICES ASSUME c # NoId, ~(Term(c) < Term(b))
               PROVE  /\ Len(b) <= Len(c) => IsAncestor(b, c)
                      /\ Len(c) <= Len(b) => IsAncestor(c, b)
  OBVIOUS
<1>2. c \in Block
  BY <1>1
<1>3. Term(c) >= Term(b)
  BY <1>1, <1>2, BlockFacts
<1>4. OnBestChain(s.db, b) /\ OnBestChain(s.db, c)
  BY <1>1, <1>3 DEF IsForbiddenFork
<1> QED
  BY <1>2, <1>4, BestChainIsOneFork

\* do_prepare and do_commit: best_confirm stays the end of the fork that the node has
\* prepared in this term.
LEMMA PreparesGrow ==
  ASSUME NEW n, NEW c, NEW term, NEW M, NEW W, PreparesOK(n, c, term, M),
         NEW b \in Block, Term(b) = term,
         \/ c = NoId
         \/ Term(c) < Term(b)
         \/ (Len(b) <= Len(c) => IsAncestor(b, c)) /\ (Len(c) <= Len(b) => IsAncestor(c, b)),
         PreparesOf(n, W) \subseteq PreparesOf(n, M) \cup {b}
  PROVE  PreparesOK(n, BetterOf(b, c), term, W)
<1> DEFINE d == BetterOf(b, c)
           Old == PreparesOf(n, M)
           New == PreparesOf(n, W)
<1>1. /\ \A x \in Old : /\ x \in Block /\ c # NoId /\ Term(x) <= Term(c)
                        /\ Term(x) = Term(c) => IsAncestor(x, c)
      /\ \A x, y \in Old : Term(x) = Term(y) => SameFork(x, y)
      /\ c \in Block \cup {NoId} /\ (c # NoId => Term(c) <= term)
      /\ New \subseteq Old \cup {b}
  BY DEF PreparesOK
<1>2. Term(b) \in Nat /\ Len(b) \in Nat /\ term \in Nat /\ b # NoId /\ IsAncestor(b, b)
  BY BlockFacts, NoIdIsNoBlock, IsAncestorRefl
<1> HIDE DEF Old, New
<1>3. /\ d \in Block /\ Term(d) = term
      /\ \A x \in New : Term(x) = term => IsAncestor(x, d)
      /\ \A x \in Old : Term(x) <= term
  <2>1. CASE c = NoId
    <3>1. d = b /\ Old = {}
      BY <1>1, <2>1 DEF BetterOf, Better
    <3> QED
      BY <1>1, <1>2, <3>1
  <2>2. CASE c # NoId
    <3>1. c \in Block /\ Term(c) \in Nat /\ Len(c) \in Nat /\ Term(c) <= term
      BY <1>1, <2>2, BlockFacts
    <3>2. \A x \in Old : Term(x) \in Nat
      BY <1>1, BlockFacts
    <3>3. CASE Term(c) < Term(b)
      <4>1. d = b
        BY <3>3 DEF BetterOf, Better, OrderLess
      <4>2. \A x \in Old : Term(x) < term
        BY <1>1, <1>2, <3>1, <3>2, <3>3
      <4> QED
        BY <1>1, <1>2, <3>2, <4>1, <4>2
    <3>4. CASE ~(Term(c) < Term(b))
      <4>1. Term(c) = term
        BY <1>2, <3>1, <3>4
      <4>2. (Len(b) <= Len(c) => IsAncestor(b, c)) /\ (Len(c) <= Len(b) => IsAncestor(c, b))
        BY <2>2, <3>4
      <4>3. \A x \in Old : Term(x) = term => IsAncestor(x, c) /\ x \in Block
        BY <1>1, <4>1
      <4>4. CASE Len(c) < Len(b)
        <5>1. OrderLess(c, b)
          BY <4>1, <4>4 DEF OrderLess, BlockNum
        <5>2. d = b /\ IsAncestor(c, b)
          BY <1>2, <3>1, <4>2, <4>4, <5>1 DEF BetterOf, Better
        <5>3. ASSUME NEW x \in Old, Term(x) = term PROVE IsAncestor(x, b)
          BY <3>1, <4>3, <5>2, <5>3, IsAncestorTrans
        <5> QED
          BY <1>1, <1>2, <4>1, <5>2, <5>3
      <4>5. CASE Len(b) <= Len(c)
        <5>1. IsAncestor(b, c)
          BY <4>2, <4>5
        <5>2. d = c
          <6>1. CASE Len(b) = Len(c)
            <7>1. b = c
              BY <3>1, <5>1, <6>1, AncestorSelf DEF IsAncestor
            <7> QED
              BY <7>1 DEF BetterOf
          <6>2. CASE Len(b) # Len(c)
            <7>1. ~OrderLess(c, b)
              BY <1>2, <3>1, <4>1, <4>5, <6>2 DEF OrderLess, BlockNum
            <7> QED
              BY <2>2, <7>1 DEF BetterOf, Better
          <6> QED
            BY <6>1, <6>2
        <5> QED
          BY <1>1, <3>1, <4>1, <4>3, <5>1, <5>2
      <4> QED
        BY <1>2, <3>1, <4>4, <4>5
    <3> QED
      BY <3>3, <3>4
  <2> QED
    BY <2>1, <2>2
<1> HIDE DEF d
<1>4. \A x \in New : x \in Block
  BY <1>1
<1>5. ASSUME NEW x \in New, NEW y \in New, Term(x) = Term(y) PROVE SameFork(x, y)
  <2>1. CASE x \in Old /\ y \in Old
    BY <1>1, <1>5, <2>1
  <2>2. CASE x = b \/ y = b
    <3>1. IsAncestor(x, d) /\ IsAncestor(y, d)
      BY <1>3, <1>5, <2>2
    <3> QED
      BY <1>3, <1>4, <3>1, AncestorsSameFork
  <2> QED
    BY <1>1, <2>1, <2>2
<1>6. d # NoId /\ Term(d) <= term
  BY <1>2, <1>3, NoIdIsNoBlock
<1>7. ASSUME NEW x \in New
      PROVE  Term(x) <= Term(d) /\ (Term(x) = Term(d) => IsAncestor(x, d))
  BY <1>1, <1>2, <1>3
<1>8. PreparesOK(n, d, term, W)
  BY <1>3, <1>4, <1>5, <1>6, <1>7 DEF PreparesOK, New
<1> QED
  BY <1>8 DEF d

-----------------------------------------------------------------------------
(***************************************************************************)
(* Confirming blocks, with the index being the chain of top.               *)
(***************************************************************************)
\* Nothing that VotesOK looks at has changed.
SameVotes(t, s) ==
  /\ DOMAIN t = DOMAIN s /\ t.current_term = s.current_term
  /\ t.confirmations = s.confirmations /\ t.views = s.views
  /\ t.best_confirm = s.best_confirm /\ t.out = s.out

LEMMA VotesSame ==
  ASSUME NEW n, NEW s, NEW t, NEW M, NEW T, VotesOK(n, s, M, T), SameVotes(t, s)
  PROVE  VotesOK(n, t, M, T)
BY DEF VotesOK, SameVotes

\* What a node does when it confirms a block.
Confirmed(n, t, s, M, T, top) ==
  /\ VotesOK(n, t, M, T) /\ s.out \subseteq t.out /\ t._state = s._state
  /\ Raised(t.db, s.db) /\ Chain(t.db, top)

LEMMA ConfirmedRefl ==
  ASSUME NEW n, NEW s, NEW M, NEW T, NEW top, VotesOK(n, s, M, T), Chain(s.db, top)
  PROVE  Confirmed(n, s, s, M, T, top)
BY ChainFacts, RaisedRefl DEF Confirmed

LEMMA ConfirmedTrans ==
  ASSUME NEW n, NEW s, NEW t, NEW u, NEW M, NEW T, NEW top,
         Confirmed(n, t, s, M, T, top), Confirmed(n, u, t, M, T, top)
  PROVE  Confirmed(n, u, s, M, T, top)
<1>1. Raised(u.db, s.db)
  BY RaisedTrans DEF Confirmed
<1> QED
  BY <1>1 DEF Confirmed

\* A step that changes only the database, and what VotesOK does not look at.
LEMMA ConfirmedSame ==
  ASSUME NEW n, NEW s, NEW t, NEW M, NEW T, NEW top, VotesOK(n, s, M, T), SameVotes(t, s),
         t._state = s._state, Raised(t.db, s.db), Chain(t.db, top)
  PROVE  Confirmed(n, t, s, M, T, top)
BY VotesSame DEF Confirmed, SameVotes

\* block_info is updated.
LEMMA SetConfirmsFacts ==
  ASSUME NEW n, NEW s, NEW M, NEW T, VotesOK(n, s, M, T), NEW b, NEW c,
         ConfirmationOK(c, M \cup s.out, b)
  PROVE  LET t == SetConfirms(s, b, c)
         IN  /\ VotesOK(n, t, M, T) /\ t.out = s.out /\ t._state = s._state /\ t.db = s.db
             /\ t.best_confirm = s.best_confirm /\ t.current_term = s.current_term
<1> DEFINE cs == [x \in DOMAIN s.confirmations \cup {b} |->
                    IF x = b THEN c ELSE s.confirmations[x]]
           t == SetConfirms(s, b, c)
<1>1. DOMAIN s = NodeFields
  BY DEF VotesOK
<1>2. ConfirmationsOK(cs, M \cup s.out)
  BY DEF VotesOK, ConfirmationsOK
<1>3. t = [s EXCEPT !.confirmations = cs]
  BY DEF SetConfirms
<1> HIDE DEF cs, t
<1>4. /\ DOMAIN t = NodeFields /\ t.confirmations = cs /\ t.views = s.views /\ t.out = s.out
      /\ t._state = s._state /\ t.db = s.db /\ t.best_confirm = s.best_confirm
      /\ t.current_term = s.current_term
  BY <1>1, <1>3 DEF NodeFields
<1>5. VotesOK(n, t, M, T)
  BY <1>2, <1>4 DEF VotesOK
<1> QED
  BY <1>4, <1>5 DEF t

LEMMA AddCommitsFacts ==
  ASSUME NEW n, NEW s, NEW M, NEW T, VotesOK(n, s, M, T), NEW b, NEW P
  PROVE  LET t == AddCommits(s, b, P)
         IN  /\ VotesOK(n, t, M, T) /\ t.out = s.out /\ t._state = s._state /\ t.db = s.db
             /\ t.best_confirm = s.best_confirm /\ t.current_term = s.current_term
<1> DEFINE old == Confirms(s, b)
           c == [old EXCEPT !.commits = Complete(@ \cup P)]
<1>1. ConfirmationOK(old, M \cup s.out, b)
  BY ConfirmsFacts DEF VotesOK
<1> HIDE DEF old
<1>2. DOMAIN c = DOMAIN old /\ c.prepares = old.prepares
  BY <1>1 DEF ConfirmationOK
<1>3. AddCommits(s, b, P) = SetConfirms(s, b, c)
  BY DEF AddCommits, old
<1> HIDE DEF c
<1>4. ConfirmationOK(c, M \cup s.out, b)
  BY <1>1, <1>2 DEF ConfirmationOK
<1> QED
  BY <1>3, <1>4, SetConfirmsFacts

LEMMA AddPreparesFacts ==
  ASSUME NEW n, NEW s, NEW M, NEW T, VotesOK(n, s, M, T), NEW b, NEW P,
         Justified(M \cup s.out, b, P)
  PROVE  LET t == AddPrepares(s, b, P)
         IN  /\ VotesOK(n, t, M, T) /\ t.out = s.out /\ t._state = s._state /\ t.db = s.db
             /\ t.best_confirm = s.best_confirm /\ t.current_term = s.current_term
             /\ Completes(Confirms(s, b).prepares, P) => Prepared(M \cup s.out, b)
<1> DEFINE old == Confirms(s, b)
           S == old.prepares
           c == [old EXCEPT !.prepares = Complete(@ \cup P)]
<1>1. ConfirmationOK(old, M \cup s.out, b)
  BY ConfirmsFacts DEF VotesOK
<1> HIDE DEF old
<1>2. DOMAIN c = DOMAIN old /\ c.prepares = Complete(S \cup P)
  BY <1>1 DEF ConfirmationOK
<1>3. AddPrepares(s, b, P) = SetConfirms(s, b, c)
  BY DEF AddPrepares, old
<1> HIDE DEF c
<1>4. Justified(M \cup s.out, b, S \cup P) /\ Justified(M \cup s.out, b, Complete(S \cup P))
  BY <1>1, JustifiedUnion DEF ConfirmationOK
<1>5. ConfirmationOK(c, M \cup s.out, b)
  BY <1>1, <1>2, <1>4 DEF ConfirmationOK
<1>6. Completes(S, P) => Prepared(M \cup s.out, b)
  BY <1>4, JustifiedQuorum DEF Completes
<1> QED
  BY <1>3, <1>5, <1>6, SetConfirmsFacts DEF old

\* do_prepare and do_commit: the node sends its confirmation m of block b.
Confirming(s, b, m) == [s EXCEPT !.best_confirm = BetterOf(b, @), !.out = @ \cup {m}]

IsConfirming(n, t, s, m, M, T) ==
  /\ VotesOK(n, t, M, T) /\ t.out = s.out \cup {m}
  /\ t._state = s._state /\ t.db = s.db
  /\ t.confirmations = s.confirmations

LEMMA SendConfirmation ==
  ASSUME NEW n \in Correct, NEW s, NEW M, NEW T, VotesOK(n, s, M, T),
         NEW top, Chain(s.db, top), NEW b \in Block, CanConfirm(s, b),
         NEW m, m.producer = n, m.type # "ViewChange", m.block = b,
         m.type = "Commit" => Prepared(M \cup s.out, b)
  PROVE  IsConfirming(n, Confirming(s, b, m), s, m, M, T)
<1> DEFINE t == Confirming(s, b, m)
           A == M \cup s.out
           W == M \cup t.out
<1>1. /\ DOMAIN s = NodeFields /\ s.current_term \in 0..T
      /\ ConfirmationsOK(s.confirmations, A) /\ ViewsOK(s.views, A, T)
      /\ PreparesOK(n, s.best_confirm, s.current_term, A)
      /\ \A k \in s.out : k.producer = n /\ MessageOK(k, A, T)
  BY DEF VotesOK
<1>2. /\ DOMAIN t = NodeFields /\ t.confirmations = s.confirmations /\ t.views = s.views
      /\ t.out = s.out \cup {m} /\ t.best_confirm = BetterOf(b, s.best_confirm)
      /\ t._state = s._state /\ t.db = s.db /\ t.current_term = s.current_term
  BY <1>1 DEF NodeFields, Confirming
<1> HIDE DEF t
<1>3. A \subseteq W /\ W = A \cup {m}
  BY <1>2
<1>4. ConfirmationsOK(s.confirmations, W) /\ ViewsOK(s.views, W, T)
  BY <1>1, <1>3, ConfirmationsGrow, ViewsGrow
<1>5. PreparesOK(n, t.best_confirm, s.current_term, W)
  <2>1. PreparesOf(n, W) \subseteq PreparesOf(n, A) \cup {b}
    BY <1>3 DEF PreparesOf
  <2>2. Term(b) = s.current_term /\ ~IsForbiddenFork(s, b)
    BY DEF CanConfirm
  <2> DEFINE c == s.best_confirm
  <2>3. c \in Block \cup {NoId}
    BY <1>1 DEF PreparesOK
  <2>4. \/ c = NoId
        \/ Term(c) < Term(b)
        \/ (Len(b) <= Len(c) => IsAncestor(b, c)) /\ (Len(c) <= Len(b) => IsAncestor(c, b))
    BY <2>2, <2>3, NotForbidden
  <2>5. PreparesOK(n, c, s.current_term, A)
    BY <1>1
  <2> HIDE DEF c, A, W
  <2>6. PreparesOK(n, BetterOf(b, c), s.current_term, W)
    BY <2>1, <2>2, <2>4, <2>5, PreparesGrow
  <2> QED
    BY <1>2, <2>6 DEF c
<1>6. ASSUME NEW k \in t.out PROVE k.producer = n /\ MessageOK(k, W, T)
  <2>1. CASE k \in s.out
    <3>1. k.producer = n /\ MessageOK(k, A, T)
      BY <1>1, <2>1
    <3> HIDE DEF A, W
    <3> QED
      BY <1>3, <3>1, MessageGrows
  <2>2. CASE k = m
    <3>1. m.type = "Commit" => Prepared(W, b)
      BY <1>3, PreparedGrows
    <3> QED
      BY <2>2, <3>1 DEF MessageOK
  <2> QED
    BY <1>2, <2>1, <2>2
<1>7. VotesOK(n, t, M, T)
  BY <1>1, <1>2, <1>4, <1>5, <1>6 DEF VotesOK
<1> QED
  BY <1>2, <1>7 DEF t, IsConfirming

LEMMA SetBlockDataFacts ==
  ASSUME NEW s, DOMAIN s = NodeFields, NEW b
  PROVE  LET t == SetBlockData(s, b)
         IN  SameVotes(t, s) /\ t._state = s._state /\ t.db = s.db
BY DEF SetBlockData, SameVotes, NodeFields

LEMMA RecordPreparedFacts ==
  ASSUME NEW s, DOMAIN s = NodeFields, NEW b
  PROVE  LET t == RecordPrepared(s, b)
         IN  SameVotes(t, s) /\ t._state = s._state /\ t.db = s.db
BY DEF RecordPrepared, SameVotes, NodeFields

\* The end of on_commit, when set_view has had no effect.
LEMMA CommitConfirmedFacts ==
  ASSUME NEW n, NEW s, NEW M, NEW T, VotesOK(n, s, M, T), NEW top, Chain(s.db, top),
         NEW b \in Block
  PROVE  Confirmed(n, CommitConfirmed(s, s, b), s, M, T, top)
<1> DEFINE d == IF OnBestChain(s.db, b) THEN Commit(s.db, BlockNum(b))
                ELSE IF ContradictsPrepared(s, b) THEN ConsensusFailure(s.db)
                ELSE SetSubtree(s.db, b)
           u == [s EXCEPT !.db = d]
           t == CommitConfirmed(s, s, b)
<1>1. Raised(d, s.db) /\ Chain(d, top)
  <2>1. CASE OnBestChain(s.db, b)
    <3>1. BlockNum(b) \in Nat /\ BlockNum(b) <= Len(top)
      BY <2>1, OnBestChainFacts, BlockFacts DEF BlockNum
    <3> QED
      BY <2>1, <3>1, CommitChain
  <2>2. CASE ~OnBestChain(s.db, b)
    BY <2>2, FailureChain, SetSubtreeChain
  <2> QED
    BY <2>1, <2>2
<1>2. t = [u EXCEPT !.best_prepared = BetterOf(b, @)]
  BY DEF CommitConfirmed
<1>3. DOMAIN s = NodeFields
  BY DEF VotesOK
<1> HIDE DEF d, t
<1>4. SameVotes(t, s) /\ t._state = s._state /\ t.db = d
  BY <1>2, <1>3 DEF SameVotes, NodeFields
<1>5. Confirmed(n, t, s, M, T, top)
  BY <1>1, <1>4, ConfirmedSame
<1> QED
  BY <1>5 DEF t

LEMMA DoCommitFacts ==
  ASSUME NEW n \in Correct, NEW s, NEW M, NEW T, VotesOK(n, s, M, T),
         NEW top, Chain(s.db, top), NEW b \in Block, CanConfirm(s, b), Prepared(M \cup s.out, b)
  PROVE  Confirmed(n, DoCommit(n, s, b), s, M, T, top)
<1> DEFINE m == CommitMessage(b, n)
           s1 == Confirming(s, b, m)
           t == AddCommits(s1, b, {n})
           u == SetBlockData(t, b)
           v == CommitConfirmed(u, u, b)
<1>1. m.producer = n /\ m.type = "Commit" /\ m.type # "ViewChange" /\ m.block = b
  BY DEF CommitMessage
<1>2. DoCommit(n, s, b) = IF Completes(Confirms(s, b).commits, {n}) THEN v ELSE t
  BY DEF DoCommit, Confirming
<1> HIDE DEF m
<1>3. /\ VotesOK(n, s1, M, T) /\ s1.out = s.out \cup {m} /\ s1._state = s._state /\ s1.db = s.db
  <2>1. IsConfirming(n, s1, s, m, M, T)
    BY <1>1, SendConfirmation
  <2> QED
    BY <2>1 DEF IsConfirming
<1> HIDE DEF s1
<1>4. /\ VotesOK(n, t, M, T) /\ t.out = s.out \cup {m} /\ t._state = s._state /\ t.db = s.db
  BY <1>3, AddCommitsFacts
<1> HIDE DEF t
<1>5. Confirmed(n, t, s, M, T, top)
  BY <1>4, ChainFacts, RaisedRefl DEF Confirmed
<1>6. SameVotes(u, t) /\ u._state = t._state /\ u.db = t.db
  BY <1>4, SetBlockDataFacts DEF VotesOK
<1> HIDE DEF u
<1>7. Confirmed(n, u, t, M, T, top)
  BY <1>4, <1>6, ConfirmedSame, ChainFacts, RaisedRefl
<1>8. Confirmed(n, v, u, M, T, top)
  BY <1>7, CommitConfirmedFacts DEF Confirmed
<1> HIDE DEF v
<1>9. Confirmed(n, v, s, M, T, top)
  BY <1>5, <1>7, <1>8, ConfirmedTrans
<1> QED
  BY <1>2, <1>5, <1>9

LEMMA CommitPreparedFacts ==
  ASSUME NEW n \in Correct, NEW s, NEW M, NEW T, VotesOK(n, s, M, T),
         NEW top, Chain(s.db, top), NEW b \in Block, Prepared(M \cup s.out, b)
  PROVE  Confirmed(n, CommitPrepared(n, s, b), s, M, T, top)
BY DoCommitFacts, ConfirmedRefl DEF CommitPrepared

LEMMA PrepareAcceptedFacts ==
  ASSUME NEW n \in Correct, NEW s, NEW M, NEW T, VotesOK(n, s, M, T),
         NEW top, Chain(s.db, top), NEW b \in Block
  PROVE  Confirmed(n, PrepareAccepted(n, s, b), s, M, T, top)
<1>1. CASE ~CanConfirm(s, b)
  BY <1>1, ConfirmedRefl DEF PrepareAccepted
<1>2. CASE CanConfirm(s, b)
  <2> DEFINE m == PrepareMessage(b, n)
             s1 == Confirming(s, b, m)
             t == AddPrepares(s1, b, {n})
             u == RecordPrepared(t, b)
             v == CommitPrepared(n, u, b)
             completes == Completes(Confirms(s, b).prepares, {n})
  <2>1. m.producer = n /\ m.type # "Commit" /\ m.type # "ViewChange" /\ m.block = b
    BY DEF PrepareMessage
  <2>2. PrepareAccepted(n, s, b) = IF completes THEN v ELSE t
    BY <1>2 DEF PrepareAccepted, DoPrepare, Confirming
  <2>3. PrepareMessage(b, n) = m
    OBVIOUS
  <2> HIDE DEF m
  <2>4. /\ VotesOK(n, s1, M, T) /\ s1.out = s.out \cup {m}
        /\ s1._state = s._state /\ s1.db = s.db /\ s1.confirmations = s.confirmations
    <3>1. IsConfirming(n, s1, s, m, M, T)
      BY <1>2, <2>1, SendConfirmation
    <3> QED
      BY <3>1 DEF IsConfirming
  <2> HIDE DEF s1
  <2>5. Confirms(s1, b) = Confirms(s, b)
    BY <2>4 DEF Confirms
  <2>6. Justified(M \cup s1.out, b, {n})
    BY <2>3, <2>4, PreparersFacts, ProducerFacts DEF Justified
  <2>7. /\ VotesOK(n, t, M, T) /\ t.out = s.out \cup {m} /\ t._state = s._state /\ t.db = s.db
        /\ completes => Prepared(M \cup t.out, b)
    <3>1. completes = Completes(Confirms(s1, b).prepares, {n})
      BY <2>5
    <3> HIDE DEF completes
    <3>2. /\ VotesOK(n, t, M, T) /\ t.out = s1.out /\ t._state = s1._state /\ t.db = s1.db
          /\ Completes(Confirms(s1, b).prepares, {n}) => Prepared(M \cup t.out, b)
      BY <2>4, <2>6, AddPreparesFacts
    <3> HIDE DEF t
    <3> QED
      BY <2>4, <3>1, <3>2
  <2> HIDE DEF t, completes
  <2>8. Confirmed(n, t, s, M, T, top)
    BY <2>7, ChainFacts, RaisedRefl DEF Confirmed
  <2>9. CASE completes
    <3>1. SameVotes(u, t) /\ u._state = t._state /\ u.db = t.db
      BY <2>7, RecordPreparedFacts DEF VotesOK
    <3> HIDE DEF u
    <3>2. Confirmed(n, u, t, M, T, top)
      BY <2>7, <3>1, ConfirmedSame, ChainFacts, RaisedRefl
    <3>3. Prepared(M \cup u.out, b)
      BY <2>7, <2>9, <3>1 DEF SameVotes
    <3>4. Confirmed(n, v, u, M, T, top)
      BY <3>2, <3>3, CommitPreparedFacts DEF Confirmed
    <3> HIDE DEF v
    <3> QED
      BY <2>2, <2>8, <2>9, <3>2, <3>4, ConfirmedTrans
  <2> QED
    BY <2>2, <2>8, <2>9
<1> QED
  BY <1>1, <1>2

\* on_accept_block
LEMMA OnAcceptBlockFacts ==
  ASSUME NEW n \in Correct, NEW s, NEW M, NEW T, VotesOK(n, s, M, T),
         NEW top, Chain(s.db, top), NEW b \in Block, Len(b) <= Len(top)
  PROVE  Confirmed(n, OnAcceptBlock(n, s, b), s, M, T, top)
<1> DEFINE c == [s EXCEPT !.db = Commit(@, BlockNum(b))]
           t == IF IsCommitted(s, b) THEN c ELSE s
<1>1. Raised(Commit(s.db, BlockNum(b)), s.db) /\ Chain(Commit(s.db, BlockNum(b)), top)
  BY BlockFacts, CommitChain DEF BlockNum
<1>2. SameVotes(c, s) /\ c._state = s._state /\ c.db = Commit(s.db, BlockNum(b))
  BY DEF VotesOK, SameVotes, NodeFields
<1> HIDE DEF c
<1>3. Confirmed(n, c, s, M, T, top)
  BY <1>1, <1>2, ConfirmedSame
<1>4. Confirmed(n, t, s, M, T, top)
  BY <1>3, ConfirmedRefl
<1>5. OnAcceptBlock(n, s, b) = PrepareAccepted(n, t, b)
  BY DEF OnAcceptBlock, c
<1> HIDE DEF t
<1>6. Confirmed(n, PrepareAccepted(n, t, b), t, M, T, top)
  BY <1>4, PrepareAcceptedFacts DEF Confirmed
<1> QED
  BY <1>4, <1>5, <1>6, ConfirmedTrans

-----------------------------------------------------------------------------
(***************************************************************************)
(* A fork switch.  t is the state of a node that was s when the switch to  *)
(* new began, and has executed the blocks with numbers up to i.            *)
(***************************************************************************)
Switching(n, t, s, M, T, new, fork, i) ==
  /\ VotesOK(n, t, M, T) /\ s.out \subseteq t.out /\ t._state = s._state
  /\ Chain(t.db, new)
  /\ t.db.head = s.db.head /\ t.db.databaseHead = s.db.databaseHead
  /\ t.db.states = s.db.states
  /\ t.db.commitIndex \in Nat /\ t.db.commitIndex >= s.db.commitIndex
  /\ s.db.revisions \subseteq t.db.revisions
  /\ \A j \in (fork + 1)..i : Ancestor(new, j) \in t.db.revisions

\* execute_block
LEMMA ExecuteBlockFacts ==
  ASSUME NEW n \in Correct, NEW t, NEW s, NEW M, NEW T, NEW new \in Block,
         s.db.commitIndex \in Nat, NEW fork \in Nat, NEW i \in (fork + 1)..Len(new),
         Switching(n, t, s, M, T, new, fork, i - 1)
  PROVE  Switching(n, ExecuteBlock(n, t, Ancestor(new, i)), s, M, T, new, fork, i)
<1> DEFINE b == Ancestor(new, i)
           e == [t.db EXCEPT !.revisions = @ \cup {b}]
           r == [t EXCEPT !.db = e]
           u == OnAcceptBlock(n, r, b)
<1>1. Len(new) \in Nat /\ i \in 1..Len(new) /\ \A j \in (fork + 1)..i : j = i \/ j \in (fork + 1)..(i - 1)
  BY BlockFacts
<1>2. b \in Block /\ Len(b) = i /\ Len(b) <= Len(new)
  BY <1>1, AncestorFacts
<1>3. Ancestor(new, i) = b
  OBVIOUS
<1>4. /\ VotesOK(n, t, M, T) /\ s.out \subseteq t.out /\ t._state = s._state
      /\ Chain(t.db, new)
      /\ t.db.head = s.db.head /\ t.db.databaseHead = s.db.databaseHead
      /\ t.db.states = s.db.states
      /\ t.db.commitIndex \in Nat /\ t.db.commitIndex >= s.db.commitIndex
      /\ s.db.revisions \subseteq t.db.revisions
      /\ \A j \in (fork + 1)..(i - 1) : Ancestor(new, j) \in t.db.revisions
  BY DEF Switching
<1> HIDE DEF b
<1>5. CASE b \in t.db.revisions
  <2>1. \A j \in (fork + 1)..i : Ancestor(new, j) \in t.db.revisions
    BY <1>1, <1>3, <1>4, <1>5
  <2>2. Switching(n, t, s, M, T, new, fork, i)
    BY <1>4, <2>1 DEF Switching
  <2> QED
    BY <1>3, <1>5, <2>2 DEF ExecuteBlock
<1>6. CASE b \notin t.db.revisions
  <2>1. DbType(t.db) /\ DOMAIN t = NodeFields
    BY <1>4 DEF Chain, VotesOK
  <2>2. /\ DbType(e) /\ e.head = t.db.head /\ e.databaseHead = t.db.databaseHead
        /\ e.states = t.db.states /\ e.commitIndex = t.db.commitIndex
        /\ e.byBlocknumIndex = t.db.byBlocknumIndex
        /\ e.revisions = t.db.revisions \cup {b}
    BY <1>2, <2>1 DEF DbType
  <2>3. r = [t EXCEPT !.db.revisions = @ \cup {b}]
    OBVIOUS
  <2> HIDE DEF e
  <2>4. SameVotes(r, t) /\ r._state = t._state /\ r.db = e
    BY <2>1 DEF SameVotes, NodeFields
  <2>5. ExecuteBlock(n, t, Ancestor(new, i)) = u
    BY <1>3, <1>6, <2>3 DEF ExecuteBlock
  <2> HIDE DEF r
  <2>6. Chain(e, new)
    BY <1>4, <2>2 DEF Chain
  <2>7. VotesOK(n, r, M, T) /\ Chain(r.db, new) /\ r.out = t.out
    BY <1>4, <2>4, <2>6, VotesSame DEF SameVotes
  <2>8. Confirmed(n, u, r, M, T, new)
    BY <1>2, <2>7, OnAcceptBlockFacts
  <2> HIDE DEF u
  <2>9. /\ VotesOK(n, u, M, T) /\ r.out \subseteq u.out /\ u._state = r._state
        /\ Chain(u.db, new) /\ SameChain(u.db, e)
        /\ u.db.commitIndex \in Nat /\ e.commitIndex \in Nat /\ u.db.commitIndex >= e.commitIndex
    BY <2>4, <2>8 DEF Confirmed, Raised
  <2>10. /\ u.db.head = s.db.head /\ u.db.databaseHead = s.db.databaseHead
         /\ u.db.states = s.db.states /\ u.db.revisions = t.db.revisions \cup {b}
    BY <1>4, <2>2, <2>9 DEF SameChain
  <2>11. u.db.commitIndex >= s.db.commitIndex
    BY <1>4, <2>2, <2>9
  <2>12. \A j \in (fork + 1)..i : Ancestor(new, j) \in u.db.revisions
    BY <1>1, <1>3, <1>4, <2>10
  <2>13. s.out \subseteq u.out /\ u._state = s._state /\ s.db.revisions \subseteq u.db.revisions
    BY <1>4, <2>4, <2>7, <2>9, <2>10
  <2>14. Switching(n, u, s, M, T, new, fork, i)
    BY <2>9, <2>10, <2>11, <2>12, <2>13 DEF Switching
  <2> QED
    BY <2>5, <2>14
<1> QED
  BY <1>5, <1>6

\* trySetHead: the index is edited first.
SwitchIndex(db, new) ==
  LET fork == ForkPoint(db, new)
      above == (fork + 1)..BlockNum(new)
  IN  [i \in {j \in DOMAIN db.byBlocknumIndex : j <= fork} \cup above |->
         IF i > fork THEN Ancestor(new, i) ELSE db.byBlocknumIndex[i]]

Edited(s, new) == [s EXCEPT !.db.byBlocknumIndex = SwitchIndex(s.db, new)]

LEMMA EditedFacts ==
  ASSUME NEW n, NEW s, NEW M, NEW T, VotesOK(n, s, M, T), Good(s.db),
         NEW new \in Block, ~Conflicts(s.db, new)
  PROVE  LET fork == ForkPoint(s.db, new)
         IN  Switching(n, Edited(s, new), s, M, T, new, fork, fork)
<1> DEFINE db == s.db
           fork == ForkPoint(db, new)
           index == SwitchIndex(db, new)
           e == [db EXCEPT !.byBlocknumIndex = index]
           t == Edited(s, new)
<1>1. /\ fork \in Nat /\ fork >= db.commitIndex /\ fork \in DOMAIN db.byBlocknumIndex
      /\ fork \in 1..Len(new) /\ fork \in 1..Len(db.head)
      /\ Ancestor(new, fork) = Ancestor(db.head, fork)
  BY ForkPointFacts
<1>2. /\ DbType(db) /\ db.head \in Block /\ Len(db.head) \in Nat /\ Len(new) \in Nat
      /\ db.commitIndex \in Nat /\ db.commitIndex \in 1..Len(db.head)
  BY IndexFacts, BlockFacts DEF Good, DbType
<1>3. PICK low \in 1..db.commitIndex :
        db.byBlocknumIndex = [i \in low..Len(db.head) |-> Ancestor(db.head, i)]
  BY DEF Good, IndexIsChainOfHead, BlockNum
<1>4. index = [i \in {j \in DOMAIN db.byBlocknumIndex : j <= fork} \cup ((fork + 1)..Len(new)) |->
                 IF i > fork THEN Ancestor(new, i) ELSE db.byBlocknumIndex[i]]
  BY DEF SwitchIndex, BlockNum
<1>5. t = [s EXCEPT !.db = e]
  BY DEF Edited
<1> HIDE DEF fork, index, t
<1>6. {j \in DOMAIN db.byBlocknumIndex : j <= fork} \cup ((fork + 1)..Len(new)) = low..Len(new)
  BY <1>1, <1>2, <1>3
<1>7. ASSUME NEW i \in low..Len(new)
      PROVE  (IF i > fork THEN Ancestor(new, i) ELSE db.byBlocknumIndex[i]) = Ancestor(new, i)
  <2>1. CASE i > fork
    BY <2>1
  <2>2. CASE ~(i > fork)
    <3>1. i \in 1..fork /\ i \in low..Len(db.head)
      BY <1>1, <1>2, <1>3, <2>2
    <3>2. Ancestor(Ancestor(new, fork), i) = Ancestor(new, i)
      BY <1>1, <3>1, AncestorOfAncestor
    <3>3. Ancestor(Ancestor(db.head, fork), i) = Ancestor(db.head, i)
      BY <1>1, <1>2, <3>1, AncestorOfAncestor
    <3> QED
      BY <1>1, <1>3, <2>2, <3>1, <3>2, <3>3
  <2> QED
    BY <2>1, <2>2
<1>8. index = [i \in low..Len(new) |-> Ancestor(new, i)]
  BY <1>4, <1>6, <1>7
<1>9. /\ DbType(e) /\ e.byBlocknumIndex = index
      /\ e.commitIndex = db.commitIndex /\ e.head = db.head /\ e.databaseHead = db.databaseHead
      /\ e.states = db.states /\ e.revisions = db.revisions
  BY <1>2 DEF DbType
<1> HIDE DEF e
<1>10. SameVotes(t, s) /\ t._state = s._state /\ t.db = e
  BY <1>5 DEF VotesOK, SameVotes, NodeFields
<1>11. e.commitIndex \in 1..Len(new) /\ low \in 1..e.commitIndex /\ e.commitIndex >= db.commitIndex
  BY <1>1, <1>2, <1>9
<1>12. Chain(e, new)
  BY <1>8, <1>9, <1>11 DEF Chain
<1>13. \A j \in (fork + 1)..fork : FALSE
  BY <1>1
<1>14. VotesOK(n, t, M, T) /\ s.out \subseteq t.out
  BY <1>10, VotesSame DEF SameVotes
<1>15. Switching(n, t, s, M, T, new, fork, fork)
  BY <1>2, <1>9, <1>10, <1>11, <1>12, <1>13, <1>14 DEF Switching
<1> QED
  BY <1>15 DEF t, fork

\* execute_fork, from the fork point to the block with number top.
IsExecution(f, n, s, new, fork, top) ==
  f = [i \in fork..top |-> IF i = fork THEN Edited(s, new)
                           ELSE ExecuteBlock(n, f[i - 1], Ancestor(new, i))]

LEMMA ExecutionExists ==
  ASSUME NEW n, NEW s, NEW new, NEW fork \in Nat, NEW top \in Nat, top >= fork
  PROVE  \E f : IsExecution(f, n, s, new, fork, top)
<1> DEFINE Bad == {k \in Nat : k >= fork /\ ~\E f : IsExecution(f, n, s, new, fork, k)}
<1>1. SUFFICES ASSUME Bad # {} PROVE FALSE
  OBVIOUS
<1>2. PICK k \in Bad : \A j \in Bad : k <= j
  <2>1. Bad \in SUBSET Nat
    OBVIOUS
  <2> QED
    BY <1>1, <2>1, NatMin
<1>3. CASE k = fork
  <2> DEFINE f == [i \in fork..k |-> Edited(s, new)]
  <2>1. \A i \in fork..k : i = fork
    BY <1>3
  <2>2. IsExecution(f, n, s, new, fork, k)
    BY <2>1 DEF IsExecution
  <2> QED
    BY <1>2, <2>2
<1>4. CASE k # fork
  <2>1. k - 1 \in Nat /\ k - 1 >= fork /\ k - 1 \notin Bad
    BY <1>2, <1>4
  <2>2. PICK g : IsExecution(g, n, s, new, fork, k - 1)
    BY <2>1
  <2> DEFINE last == ExecuteBlock(n, g[k - 1], Ancestor(new, k))
             f == [i \in fork..k |-> IF i = k THEN last ELSE g[i]]
             body(i) == IF i = fork THEN Edited(s, new)
                        ELSE ExecuteBlock(n, f[i - 1], Ancestor(new, i))
  <2>3. ASSUME NEW i \in fork..k PROVE f[i] = body(i)
    <3>1. CASE i = k
      <4>1. f[i] = last /\ i - 1 \in fork..k /\ i - 1 # k
        BY <2>1, <3>1
      <4>2. f[i - 1] = g[k - 1]
        BY <3>1, <4>1
      <4> QED
        BY <1>4, <3>1, <4>1, <4>2
    <3>2. CASE i # k
      <4>1. i \in fork..(k - 1) /\ f[i] = g[i]
        BY <3>2
      <4>2. g[i] = IF i = fork THEN Edited(s, new)
                   ELSE ExecuteBlock(n, g[i - 1], Ancestor(new, i))
        BY <2>2, <4>1 DEF IsExecution
      <4>3. i # fork => i - 1 \in fork..k /\ i - 1 # k
        BY <4>1, <2>1
      <4>4. i # fork => f[i - 1] = g[i - 1]
        BY <4>3
      <4> HIDE DEF f
      <4> QED
        BY <4>1, <4>2, <4>4
    <3> QED
      BY <3>1, <3>2
  <2>4. f = [i \in fork..k |-> f[i]]
    OBVIOUS
  <2> HIDE DEF f
  <2>5. f = [i \in fork..k |-> body(i)]
    BY <2>3, <2>4
  <2>6. IsExecution(f, n, s, new, fork, k)
    BY <2>5 DEF IsExecution
  <2> QED
    BY <1>2, <2>6
<1> QED
  BY <1>3, <1>4

LEMMA ExecutionFacts ==
  ASSUME NEW n \in Correct, NEW s, NEW M, NEW T, VotesOK(n, s, M, T), Good(s.db),
         NEW new \in Block, ~Conflicts(s.db, new),
         NEW f, IsExecution(f, n, s, new, ForkPoint(s.db, new), Len(new))
  PROVE  Switching(n, f[Len(new)], s, M, T, new, ForkPoint(s.db, new), Len(new))
<1> DEFINE fork == ForkPoint(s.db, new)
           Bad == {k \in fork..Len(new) : ~Switching(n, f[k], s, M, T, new, fork, k)}
<1>1. fork \in Nat /\ fork \in 1..Len(new) /\ Len(new) \in Nat
  BY ForkPointFacts, BlockFacts
<1>2. Switching(n, Edited(s, new), s, M, T, new, fork, fork)
  BY EditedFacts
<1>3. IsExecution(f, n, s, new, fork, Len(new))
  OBVIOUS
<1>4. s.db.commitIndex \in Nat
  BY IndexFacts DEF Good
<1> HIDE DEF fork
<1>5. SUFFICES ASSUME Bad # {} PROVE FALSE
  BY <1>1 DEF fork
<1>6. PICK k \in Bad : \A j \in Bad : k <= j
  <2>1. Bad \in SUBSET Nat
    BY <1>1
  <2> QED
    BY <1>5, <2>1, NatMin
<1>7. k \in fork..Len(new) /\ ~Switching(n, f[k], s, M, T, new, fork, k)
  BY <1>6
<1>8. CASE k = fork
  <2>1. f[k] = Edited(s, new)
    BY <1>3, <1>7, <1>8 DEF IsExecution
  <2> QED
    BY <1>2, <1>7, <1>8, <2>1
<1>9. CASE k # fork
  <2>1. k \in (fork + 1)..Len(new) /\ k - 1 \in fork..Len(new) /\ ~(k <= k - 1)
    BY <1>1, <1>7, <1>9
  <2>2. Switching(n, f[k - 1], s, M, T, new, fork, k - 1)
    BY <1>6, <2>1
  <2>3. f[k] = ExecuteBlock(n, f[k - 1], Ancestor(new, k))
    BY <1>3, <1>7, <1>9 DEF IsExecution
  <2>4. Switching(n, ExecuteBlock(n, f[k - 1], Ancestor(new, k)), s, M, T, new, fork, k)
    BY <1>1, <1>4, <2>1, <2>2, ExecuteBlockFacts
  <2> QED
    BY <1>7, <2>3, <2>4
<1> QED
  BY <1>8, <1>9

\* The database at the end of the switch.
LEMMA SwitchedDb ==
  ASSUME NEW n, NEW t, NEW s, NEW M, NEW T, Good(s.db), NEW new \in Block,
         ~Conflicts(s.db, new),
         Switching(n, t, s, M, T, new, ForkPoint(s.db, new), Len(new)),
         NEW d, DOMAIN d = DOMAIN t.db, d.head = new,
         d.databaseHead = IF (ForkPoint(s.db, new) + 1)..Len(new) = {} THEN t.db.databaseHead ELSE new,
         d.states = t.db.states, d.invalid = t.db.invalid, d.revisions = t.db.revisions,
         d.byOrderIndex = t.db.byOrderIndex, d.byBlocknumIndex = t.db.byBlocknumIndex,
         d.commitIndex = t.db.commitIndex, d.currentTerm = t.db.currentTerm,
         d.blockContext = t.db.blockContext, d.failed = t.db.failed
  PROVE  Good(d) /\ KeepsIrreversible(d, s.db)
<1> DEFINE fork == ForkPoint(s.db, new)
           db == s.db
<1>1. /\ fork \in Nat /\ fork >= db.commitIndex
      /\ fork \in 1..Len(new) /\ fork \in 1..Len(db.head)
      /\ Ancestor(new, fork) = Ancestor(db.head, fork)
  BY ForkPointFacts
<1>2. /\ db.head \in Block /\ Len(db.head) \in Nat /\ Len(new) \in Nat
      /\ db.databaseHead \in Block /\ Len(db.databaseHead) \in Nat
      /\ db.commitIndex \in Nat /\ db.commitIndex \in 1..Len(db.head)
  BY IndexFacts, BlockFacts DEF Good, DbType
<1>3. /\ Chain(t.db, new) /\ t.db.databaseHead = db.databaseHead
      /\ t.db.commitIndex \in Nat /\ t.db.commitIndex >= db.commitIndex
      /\ db.revisions \subseteq t.db.revisions
      /\ \A j \in (fork + 1)..Len(new) : Ancestor(new, j) \in t.db.revisions
  BY DEF Switching
<1>4. d.databaseHead = IF (fork + 1)..Len(new) = {} THEN db.databaseHead ELSE new
  BY <1>3
<1> HIDE DEF fork
<1>5. DbType(d)
  BY <1>2, <1>3, <1>4 DEF Chain, DbType
<1>6. IndexIsChainOfHead(d)
  BY <1>3 DEF Chain, IndexIsChainOfHead, BlockNum
<1>7. ASSUME NEW i \in 1..fork
      PROVE  i \in 1..Len(new) /\ Ancestor(new, i) = Ancestor(db.head, i)
  <2>1. Ancestor(Ancestor(new, fork), i) = Ancestor(new, i)
    BY <1>1, AncestorOfAncestor
  <2>2. Ancestor(Ancestor(db.head, fork), i) = Ancestor(db.head, i)
    BY <1>1, <1>2, AncestorOfAncestor
  <2> QED
    BY <1>1, <1>2, <2>1, <2>2
<1>8. DurableHead(d)
  <2>1. CASE (fork + 1)..Len(new) = {}
    <3>1. fork = Len(new) /\ d.databaseHead = db.databaseHead
      <4>1. ~(fork < Len(new))
        <5>1. SUFFICES ASSUME fork < Len(new) PROVE FALSE
          OBVIOUS
        <5>2. fork + 1 \in (fork + 1)..Len(new)
          BY <1>1, <1>2, <5>1
        <5> QED
          BY <2>1, <5>2
      <4> QED
        BY <1>1, <1>2, <1>4, <2>1, <4>1
    <3>2. new = Ancestor(db.head, fork)
      BY <1>1, <3>1, AncestorSelf
    <3>3. IsAncestor(new, db.head) /\ IsAncestor(db.head, db.databaseHead)
      BY <1>1, <1>2, <3>2, IsAncestorOfBlock DEF Good, DurableHead
    <3>4. IsAncestor(new, db.databaseHead)
      BY <1>2, <3>3, IsAncestorTrans
    <3>5. \A i \in d.commitIndex..Len(db.databaseHead) : i \in db.commitIndex..Len(db.databaseHead)
      BY <1>2, <1>3
    <3>6. \A i \in db.commitIndex..Len(db.databaseHead) :
            Ancestor(db.databaseHead, i) \in db.revisions
      BY DEF Good, DurableHead
    <3> QED
      BY <1>3, <3>1, <3>4, <3>5, <3>6 DEF DurableHead
  <2>2. CASE (fork + 1)..Len(new) # {}
    <3>1. d.databaseHead = new /\ IsAncestor(new, new)
      BY <1>4, <2>2, IsAncestorRefl
    <3>2. ASSUME NEW i \in d.commitIndex..Len(new) PROVE Ancestor(new, i) \in t.db.revisions
      <4>1. CASE i <= fork
        <5>1. i \in 1..fork /\ i \in db.commitIndex..Len(db.head)
          BY <1>1, <1>2, <1>3, <4>1
        <5>2. Ancestor(db.head, i) \in db.revisions
          BY <5>1, ChainHasRevisions
        <5> QED
          BY <1>3, <1>7, <5>1, <5>2
      <4>2. CASE ~(i <= fork)
        <5>1. i \in (fork + 1)..Len(new)
          BY <1>1, <1>2, <1>3, <4>2
        <5> QED
          BY <1>3, <5>1
      <4> QED
        BY <4>1, <4>2
    <3> QED
      BY <3>1, <3>2 DEF DurableHead
  <2> QED
    BY <2>1, <2>2
<1>9. KeepsIrreversible(d, db)
  <2>1. db.commitIndex \in 1..fork
    BY <1>1, <1>2
  <2>2. db.commitIndex \in 1..Len(new) /\ Ancestor(new, db.commitIndex) = Ancestor(db.head, db.commitIndex)
    BY <1>7, <2>1
  <2>3. IsAncestor(Ancestor(db.head, db.commitIndex), new)
    <3>1. IsAncestor(Ancestor(new, db.commitIndex), new)
      BY <2>2, IsAncestorOfBlock
    <3> QED
      BY <2>2, <3>1
  <2> QED
    BY <1>3, <2>3 DEF KeepsIrreversible
<1> QED
  BY <1>5, <1>6, <1>8, <1>9 DEF Good

\* trySetHead with execute_fork.
LEMMA ExecuteForkFacts ==
  ASSUME NEW n \in Correct, NEW s, NEW M, NEW T, VotesOK(n, s, M, T), Good(s.db),
         NEW new \in Block, ~Conflicts(s.db, new)
  PROVE  LET t == ExecuteFork(n, s, new)
         IN  /\ VotesOK(n, t, M, T) /\ Good(t.db) /\ KeepsIrreversible(t.db, s.db)
             /\ s.out \subseteq t.out /\ t._state = s._state /\ t.db.states = s.db.states
<1> DEFINE fork == ForkPoint(s.db, new)
           f == CHOOSE g : IsExecution(g, n, s, new, fork, Len(new))
           u == f[Len(new)]
           above == (fork + 1)..Len(new)
           d == [u.db EXCEPT !.head = new, !.databaseHead = IF above = {} THEN @ ELSE new]
           t == ExecuteFork(n, s, new)
<1>1. t = [f[Len(new)] EXCEPT !.db.head = new, !.db.databaseHead = IF above = {} THEN @ ELSE new]
  BY Zenon DEF ExecuteFork, IsExecution, Edited, SwitchIndex, BlockNum
<1>2. fork \in Nat /\ Len(new) \in Nat /\ Len(new) >= fork
  BY ForkPointFacts, BlockFacts
<1> HIDE DEF t
<1>3. IsExecution(f, n, s, new, fork, Len(new))
  <2>1. \E g : IsExecution(g, n, s, new, fork, Len(new))
    <3> HIDE DEF fork
    <3> QED BY <1>2, ExecutionExists
  <2> QED
    BY <2>1
<1> HIDE DEF f
<1>4. Switching(n, u, s, M, T, new, fork, Len(new))
  BY <1>3, ExecutionFacts
<1>5. t = [u EXCEPT !.db.head = new, !.db.databaseHead = IF above = {} THEN @ ELSE new]
  BY <1>1
<1> HIDE DEF u
<1>6. DbType(u.db) /\ DOMAIN u = NodeFields /\ VotesOK(n, u, M, T)
  BY <1>4 DEF Switching, Chain, VotesOK
<1>7. /\ DOMAIN d = DOMAIN u.db /\ d.head = new
      /\ d.databaseHead = IF above = {} THEN u.db.databaseHead ELSE new
      /\ d.states = u.db.states /\ d.invalid = u.db.invalid /\ d.revisions = u.db.revisions
      /\ d.byOrderIndex = u.db.byOrderIndex /\ d.byBlocknumIndex = u.db.byBlocknumIndex
      /\ d.commitIndex = u.db.commitIndex /\ d.currentTerm = u.db.currentTerm
      /\ d.blockContext = u.db.blockContext /\ d.failed = u.db.failed
  <2> HIDE DEF above
  <2> QED BY <1>6 DEF DbType
<1>8. SameVotes(t, u) /\ t._state = u._state /\ t.db = d
  <2> HIDE DEF above
  <2> QED BY <1>5, <1>6 DEF SameVotes, NodeFields, DbType
<1> HIDE DEF d
<1>9. Good(d) /\ KeepsIrreversible(d, s.db)
  BY <1>4, <1>7, SwitchedDb
<1>10. VotesOK(n, t, M, T)
  BY <1>6, <1>8, VotesSame
<1>11. s.out \subseteq t.out /\ t._state = s._state /\ t.db.states = s.db.states
  BY <1>4, <1>7, <1>8 DEF Switching, SameVotes
<1> QED
  BY <1>8, <1>9, <1>10, <1>11 DEF t

-----------------------------------------------------------------------------
(***************************************************************************)
(* Every function of a node leads from a state s that satisfies the        *)
(* invariant to a state t that does, forgets no message, and keeps what is *)
(* irreversible.                                                           *)
(***************************************************************************)
Step(n, t, s, M, T) ==
  NodeOK(n, t, M, T) /\ s.out \subseteq t.out /\ KeepsIrreversible(t.db, s.db)

LEMMA KeepsRefl ==
  ASSUME NEW db, Good(db)
  PROVE  KeepsIrreversible(db, db)
<1>1. db.commitIndex \in Nat
  BY IndexFacts DEF Good
<1> QED
  BY <1>1, KeepsSameHead

LEMMA StepRefl ==
  ASSUME NEW n, NEW s, NEW M, NEW T, NodeOK(n, s, M, T)
  PROVE  Step(n, s, s, M, T)
BY KeepsRefl DEF Step, NodeOK, DatabaseOK

LEMMA StepTrans ==
  ASSUME NEW n, NEW s, NEW t, NEW u, NEW M, NEW T, NodeOK(n, s, M, T),
         Step(n, t, s, M, T), Step(n, u, t, M, T)
  PROVE  Step(n, u, s, M, T)
<1>1. Good(s.db) /\ Good(t.db) /\ Good(u.db)
  BY DEF Step, NodeOK, DatabaseOK
<1>2. KeepsIrreversible(u.db, s.db)
  BY <1>1, KeepsTrans DEF Step
<1> QED
  BY <1>2 DEF Step

\* Confirming blocks between fork switches.
LEMMA ConfirmedStep ==
  ASSUME NEW n, NEW s, NEW t, NEW M, NEW T, NodeOK(n, s, M, T),
         Confirmed(n, t, s, M, T, s.db.head)
  PROVE  Step(n, t, s, M, T)
<1>1. Good(s.db) /\ Raised(t.db, s.db) /\ Chain(t.db, s.db.head)
  BY DEF NodeOK, DatabaseOK, Confirmed
<1>2. Good(t.db) /\ KeepsIrreversible(t.db, s.db)
  BY <1>1, RaisedGood
<1>3. /\ t.db.states = s.db.states /\ t.db.head = s.db.head
      /\ t.db.blockContext = s.db.blockContext
      /\ t.db.commitIndex \in Nat /\ s.db.commitIndex \in Nat
      /\ t.db.commitIndex >= s.db.commitIndex
  BY <1>1 DEF Raised, SameChain, SameBlock
<1>4. TermsBounded(t.db, T)
  BY <1>3 DEF NodeOK, DatabaseOK, TermsBounded
<1>5. HasPending(s.db, T) => HasPending(t.db, T)
  <2>1. \A i \in 1..s.db.commitIndex : i \in 1..t.db.commitIndex
    BY <1>3
  <2> QED
    BY <1>3, <2>1 DEF HasPending, PendingBuildsOnHead
<1>6. DatabaseOK(t, T)
  BY <1>2, <1>4, <1>5 DEF NodeOK, DatabaseOK, Confirmed
<1> QED
  BY <1>2, <1>6 DEF Step, NodeOK, Confirmed

\* A function that raises the commit index or prunes the tree.
LEMMA RaisedStep ==
  ASSUME NEW n, NEW s, NEW t, NEW M, NEW T, NodeOK(n, s, M, T), SameVotes(t, s),
         t._state = s._state, Raised(t.db, s.db), Chain(t.db, s.db.head)
  PROVE  Step(n, t, s, M, T)
<1>1. Confirmed(n, t, s, M, T, s.db.head)
  BY ConfirmedSame DEF NodeOK
<1> QED
  BY <1>1, ConfirmedStep

\* A function that touches neither the votes nor the database.
LEMMA SameStep ==
  ASSUME NEW n, NEW s, NEW t, NEW M, NEW T, NodeOK(n, s, M, T), SameVotes(t, s),
         t._state = s._state, t.db = s.db
  PROVE  Step(n, t, s, M, T)
<1>1. Good(s.db)
  BY DEF NodeOK, DatabaseOK
<1>2. Chain(s.db, s.db.head)
  BY <1>1, GoodChain
<1>3. Raised(s.db, s.db)
  BY <1>2, ChainFacts, RaisedRefl
<1> QED
  BY <1>2, <1>3, RaisedStep

\* Only the votes have changed.
LEMMA VotesStep ==
  ASSUME NEW n, NEW s, NEW t, NEW M, NEW T, NodeOK(n, s, M, T), VotesOK(n, t, M, T),
         s.out \subseteq t.out, t._state = s._state, t.db = s.db
  PROVE  Step(n, t, s, M, T)
<1>1. Good(s.db) /\ DatabaseOK(t, T)
  BY DEF NodeOK, DatabaseOK
<1>2. KeepsIrreversible(t.db, s.db)
  BY <1>1, KeepsRefl
<1> QED
  BY <1>1, <1>2 DEF Step, NodeOK

\* start_leader
LEMMA StartLeaderFacts ==
  ASSUME NEW n, NEW s, NEW M, NEW T \in Nat, VotesOK(n, s, M, T), Good(s.db),
         TermsBounded(s.db, T)
  PROVE  Step(n, StartLeader(s), s, M, T)
<1> DEFINE d == StartBlock(s.db, s.current_term)
           t == StartLeader(s)
<1>1. s.current_term \in Nat /\ s.current_term <= T /\ DOMAIN s = NodeFields
  BY DEF VotesOK
<1>2. /\ Good(d) /\ PendingBuildsOnHead(d)
      /\ d.blockContext # NoBlock /\ d.blockContext.term = s.current_term
      /\ d.head = s.db.head /\ d.commitIndex = s.db.commitIndex
  BY <1>1, StartBlockGood
<1>3. d.states = s.db.states
  BY DEF StartBlock, Good, DbType
<1>4. t = [s EXCEPT !._state = "leader", !.db = d]
  BY DEF StartLeader
<1> HIDE DEF d, t
<1>5. SameVotes(t, s) /\ t.db = d
  BY <1>1, <1>4 DEF SameVotes, NodeFields
<1>6. DatabaseOK(t, T)
  BY <1>1, <1>2, <1>3, <1>5 DEF DatabaseOK, TermsBounded, HasPending
<1>7. KeepsIrreversible(d, s.db)
  <2>1. d.commitIndex >= s.db.commitIndex
    BY <1>2, IndexFacts DEF Good
  <2> QED
    BY <1>2, <2>1, KeepsSameHead
<1>8. VotesOK(n, t, M, T)
  BY <1>5, VotesSame
<1> QED
  BY <1>5, <1>6, <1>7, <1>8 DEF Step, NodeOK, SameVotes, t

\* stop_leader, also when the head has changed.
LEMMA StopLeaderFacts ==
  ASSUME NEW n, NEW s, NEW M, NEW T, VotesOK(n, s, M, T), Good(s.db), TermsBounded(s.db, T)
  PROVE  Step(n, StopLeader(s), s, M, T)
<1> DEFINE d == AbortBlock(s.db)
           t == StopLeader(s)
<1>1. DOMAIN s = NodeFields
  BY DEF VotesOK
<1>2. Good(d) /\ d.head = s.db.head /\ d.commitIndex = s.db.commitIndex
  BY AbortBlockGood
<1>3. d.states = s.db.states
  BY DEF AbortBlock, Good, DbType
<1>4. t = [s EXCEPT !._state = "follower", !.db = d]
  BY DEF StopLeader
<1> HIDE DEF d, t
<1>5. SameVotes(t, s) /\ t.db = d /\ t._state # "leader"
  BY <1>1, <1>4 DEF SameVotes, NodeFields
<1>6. DatabaseOK(t, T)
  BY <1>2, <1>3, <1>5 DEF DatabaseOK, TermsBounded
<1>7. KeepsIrreversible(d, s.db)
  <2>1. d.commitIndex >= s.db.commitIndex
    BY <1>2, IndexFacts DEF Good
  <2> QED
    BY <1>2, <2>1, KeepsSameHead
<1>8. VotesOK(n, t, M, T)
  BY <1>5, VotesSame
<1> QED
  BY <1>5, <1>6, <1>7, <1>8 DEF Step, NodeOK, SameVotes, t

\* do_gc
LEMMA DoGcFacts ==
  ASSUME NEW n, NEW s, NEW M, NEW T, NodeOK(n, s, M, T)
  PROVE  Step(n, DoGc(s), s, M, T)
<1> DEFINE d == Gc(s.db)
           cs == [b \in DOMAIN s.confirmations \cap d.states |-> s.confirmations[b]]
           t == DoGc(s)
<1>1. DOMAIN s = NodeFields /\ VotesOK(n, s, M, T) /\ DatabaseOK(s, T) /\ Good(s.db)
  BY DEF NodeOK, VotesOK, DatabaseOK
<1>2. /\ Good(d) /\ d.head = s.db.head /\ d.commitIndex = s.db.commitIndex
      /\ d.blockContext = s.db.blockContext
  BY <1>1, GcGood DEF SameBlock
<1>3. d.states \subseteq s.db.states
  BY <1>1 DEF Gc, Good, DbType
<1>4. t = [s EXCEPT !.db = d, !.confirmations = cs]
  BY DEF DoGc
<1> HIDE DEF d, t
<1>5. ConfirmationsOK(cs, M \cup s.out)
  BY <1>1 DEF VotesOK, ConfirmationsOK
<1> HIDE DEF cs
<1>6. /\ DOMAIN t = NodeFields /\ t.confirmations = cs /\ t.views = s.views /\ t.out = s.out
      /\ t._state = s._state /\ t.db = d /\ t.best_confirm = s.best_confirm
      /\ t.current_term = s.current_term
  BY <1>1, <1>4 DEF NodeFields
<1>7. VotesOK(n, t, M, T)
  BY <1>1, <1>5, <1>6 DEF VotesOK
<1>8. DatabaseOK(t, T)
  <2>1. HasPending(s.db, T) => HasPending(d, T)
    BY <1>2 DEF HasPending, PendingBuildsOnHead
  <2> QED
    BY <1>1, <1>2, <1>3, <1>6, <2>1 DEF DatabaseOK, TermsBounded
<1>9. KeepsIrreversible(d, s.db)
  <2>1. d.commitIndex >= s.db.commitIndex
    BY <1>1, <1>2, IndexFacts DEF Good
  <2> QED
    BY <1>1, <1>2, <2>1, KeepsSameHead
<1> QED
  BY <1>6, <1>7, <1>8, <1>9 DEF Step, NodeOK, t

\* The callback of switch_fork: a leader starts a new block on the new head.
LEMMA AfterSwitchFacts ==
  ASSUME NEW n, NEW s, NEW M, NEW T \in Nat, VotesOK(n, s, M, T), Good(s.db),
         TermsBounded(s.db, T)
  PROVE  Step(n, AfterSwitch(s), s, M, T)
<1>1. CASE s._state = "leader"
  <2> DEFINE t == StopLeader(s)
             u == StartLeader(t)
             v == DoGc(u)
  <2>1. AfterSwitch(s) = v
    BY <1>1 DEF AfterSwitch
  <2>2. Step(n, t, s, M, T)
    BY StopLeaderFacts
  <2> HIDE DEF t
  <2>3. Step(n, u, t, M, T)
    BY <2>2, StartLeaderFacts DEF Step, NodeOK, DatabaseOK
  <2> HIDE DEF u
  <2>4. Step(n, v, u, M, T)
    BY <2>3, DoGcFacts DEF Step
  <2> HIDE DEF v
  <2>5. Step(n, v, t, M, T)
    BY <2>2, <2>3, <2>4, StepTrans DEF Step
  <2>6. Good(t.db) /\ Good(v.db)
    BY <2>2, <2>5 DEF Step, NodeOK, DatabaseOK
  <2>7. KeepsIrreversible(v.db, s.db)
    BY <2>2, <2>5, <2>6, KeepsTrans DEF Step
  <2> QED
    BY <2>1, <2>2, <2>5, <2>7 DEF Step
<1>2. CASE s._state # "leader"
  <2>1. NodeOK(n, s, M, T)
    BY <1>2 DEF NodeOK, DatabaseOK
  <2>2. AfterSwitch(s) = DoGc(s)
    BY <1>2 DEF AfterSwitch
  <2> QED
    BY <2>1, <2>2, DoGcFacts
<1> QED
  BY <1>1, <1>2

\* switch_fork
LEMMA SwitchHeadFacts ==
  ASSUME NEW n \in Correct, NEW s, NEW M, NEW T \in Nat, NodeOK(n, s, M, T)
  PROVE  Step(n, SwitchHead(n, s), s, M, T)
<1> DEFINE viable == {b \in s.db.byOrderIndex : Term(b) <= s.db.currentTerm}
           best == CHOOSE b \in LastOf(viable) : TRUE
           failed == [s EXCEPT !.db = ConsensusFailure(@)]
           e == ExecuteFork(n, s, best)
           v == AfterSwitch(e)
<1>1. /\ VotesOK(n, s, M, T) /\ Good(s.db) /\ TermsBounded(s.db, T) /\ DOMAIN s = NodeFields
      /\ Chain(s.db, s.db.head)
  BY GoodChain DEF NodeOK, DatabaseOK, VotesOK
<1>2. Step(n, failed, s, M, T)
  <2>1. Raised(ConsensusFailure(s.db), s.db) /\ Chain(ConsensusFailure(s.db), s.db.head)
    BY <1>1, FailureChain
  <2>2. SameVotes(failed, s) /\ failed._state = s._state /\ failed.db = ConsensusFailure(s.db)
    BY <1>1 DEF SameVotes, NodeFields
  <2> HIDE DEF failed
  <2> QED
    BY <2>1, <2>2, RaisedStep
<1>3. Step(n, s, s, M, T)
  BY StepRefl
<1>4. ASSUME LastOf(viable) # {}, ~Conflicts(s.db, best) PROVE Step(n, v, s, M, T)
  <2>1. best \in LastOf(viable)
    BY <1>4
  <2>2. best \in s.db.byOrderIndex
    BY <2>1 DEF LastOf
  <2>3. best \in Block
    BY <1>1, <2>2 DEF Good, DbType
  <2> HIDE DEF best
  <2>4. /\ VotesOK(n, e, M, T) /\ Good(e.db) /\ KeepsIrreversible(e.db, s.db)
        /\ s.out \subseteq e.out /\ e.db.states = s.db.states
    BY <1>1, <1>4, <2>3, ExecuteForkFacts
  <2>5. TermsBounded(e.db, T)
    BY <1>1, <2>4 DEF TermsBounded
  <2> HIDE DEF e
  <2>6. Step(n, v, e, M, T)
    BY <2>4, <2>5, AfterSwitchFacts
  <2> HIDE DEF v
  <2>7. Good(v.db)
    BY <2>6 DEF Step, NodeOK, DatabaseOK
  <2>8. KeepsIrreversible(v.db, s.db)
    BY <1>1, <2>4, <2>6, <2>7, KeepsTrans DEF Step
  <2> QED
    BY <2>4, <2>6, <2>8 DEF Step
<1>5. SwitchHead(n, s) \in {failed, s} \/
        (LastOf(viable) # {} /\ ~Conflicts(s.db, best) /\ SwitchHead(n, s) = v)
  <2> HIDE DEF failed, v
  <2> QED BY DEF SwitchHead, failed, v
<1> QED
  BY <1>2, <1>3, <1>4, <1>5

-----------------------------------------------------------------------------
(***************************************************************************)
(* Views.                                                                  *)
(***************************************************************************)
LEMMA NoMessageFacts ==
  ASSUME NEW M
  PROVE  ProofOK(NoMessage, M)
BY DEF ProofOK, NoMessage, ViewChangeMessage

LEMMA StartOrStopLeaderFacts ==
  ASSUME NEW n \in Correct, NEW s, NEW M, NEW T \in Nat, NodeOK(n, s, M, T)
  PROVE  Step(n, StartOrStopLeader(n, s), s, M, T)
<1> DEFINE t == StopLeader(s)
<1>1. VotesOK(n, s, M, T) /\ Good(s.db) /\ TermsBounded(s.db, T)
  BY DEF NodeOK, DatabaseOK
<1>2. Step(n, s, s, M, T)
  BY StepRefl
<1>3. Step(n, StartLeader(s), s, M, T)
  BY <1>1, StartLeaderFacts
<1>4. Step(n, t, s, M, T)
  BY <1>1, StopLeaderFacts
<1>5. StartOrStopLeader(n, s) \in {s, StartLeader(s), SwitchHead(n, t)}
  BY DEF StartOrStopLeader
<1> HIDE DEF t
<1>6. Step(n, SwitchHead(n, t), t, M, T)
  BY <1>4, SwitchHeadFacts DEF Step
<1>7. Step(n, SwitchHead(n, t), s, M, T)
  BY <1>4, <1>6, StepTrans
<1> QED
  BY <1>2, <1>3, <1>5, <1>7

\* set_producer_view
LEMMA SetProducerViewFacts ==
  ASSUME NEW n \in Correct, NEW s, NEW M, NEW T \in Nat, NodeOK(n, s, M, T),
         NEW p \in Producer, NEW term \in 0..T, NEW m, ProofOK(m, M \cup s.out)
  PROVE  Step(n, SetProducerView(n, s, p, term, m), s, M, T)
<1> DEFINE view == NewView(s.views[p], term, m)
           vs == [s.views EXCEPT ![p] = view]
           t == [s EXCEPT !.views = vs]
<1>1. /\ VotesOK(n, s, M, T) /\ DOMAIN s = NodeFields /\ ViewsOK(s.views, M \cup s.out, T)
  BY DEF NodeOK, VotesOK
<1>2. /\ DOMAIN s.views = Producer /\ s.views[p].term \in 0..T
      /\ ProofOK(s.views[p].best_message, M \cup s.out)
  BY <1>1 DEF ViewsOK
<1>3. /\ DOMAIN view = {"term", "best_message"} /\ view.term \in 0..T
      /\ ProofOK(view.best_message, M \cup s.out)
  BY <1>2 DEF NewView
<1>4. SetProducerView(n, s, p, term, m) = StartOrStopLeader(n, t)
  BY DEF SetProducerView
<1> HIDE DEF view
<1>5. ViewsOK(vs, M \cup s.out, T)
  <2>1. DOMAIN vs = Producer
    BY <1>2
  <2>2. ASSUME NEW q \in Producer
        PROVE  /\ DOMAIN vs[q] = {"term", "best_message"} /\ vs[q].term \in 0..T
               /\ ProofOK(vs[q].best_message, M \cup s.out)
    <3>1. vs[q] = IF q = p THEN view ELSE s.views[q]
      BY <1>2
    <3> QED
      BY <1>1, <1>3, <3>1 DEF ViewsOK
  <2> QED
    BY <2>1, <2>2 DEF ViewsOK
<1> HIDE DEF vs
<1>6. /\ DOMAIN t = NodeFields /\ t.views = vs /\ t.confirmations = s.confirmations
      /\ t.out = s.out /\ t._state = s._state /\ t.db = s.db
      /\ t.best_confirm = s.best_confirm /\ t.current_term = s.current_term
  BY <1>1 DEF NodeFields
<1> HIDE DEF t
<1>7. VotesOK(n, t, M, T)
  BY <1>1, <1>5, <1>6 DEF VotesOK
<1>8. Step(n, t, s, M, T)
  BY <1>6, <1>7, VotesStep
<1>9. Step(n, StartOrStopLeader(n, t), t, M, T)
  BY <1>8, StartOrStopLeaderFacts DEF Step
<1> QED
  BY <1>4, <1>8, <1>9, StepTrans

\* A view change is sent.
LEMMA SendFacts ==
  ASSUME NEW n, NEW s, NEW M, NEW T, NodeOK(n, s, M, T),
         NEW m, m.producer = n, m.type = "ViewChange", MessageOK(m, M \cup s.out, T)
  PROVE  Step(n, [s EXCEPT !.out = @ \cup {m}], s, M, T)
<1> DEFINE t == [s EXCEPT !.out = @ \cup {m}]
           A == M \cup s.out
           W == M \cup t.out
<1>1. /\ VotesOK(n, s, M, T) /\ DOMAIN s = NodeFields /\ s.current_term \in 0..T
      /\ ConfirmationsOK(s.confirmations, A) /\ ViewsOK(s.views, A, T)
      /\ PreparesOK(n, s.best_confirm, s.current_term, A)
      /\ \A k \in s.out : k.producer = n /\ MessageOK(k, A, T)
  BY DEF NodeOK, VotesOK
<1>2. /\ DOMAIN t = NodeFields /\ t.confirmations = s.confirmations /\ t.views = s.views
      /\ t.out = s.out \cup {m} /\ t.best_confirm = s.best_confirm
      /\ t._state = s._state /\ t.db = s.db /\ t.current_term = s.current_term
  BY <1>1 DEF NodeFields
<1> HIDE DEF t
<1>3. A \subseteq W /\ W = A \cup {m}
  BY <1>2
<1>4. ConfirmationsOK(s.confirmations, W) /\ ViewsOK(s.views, W, T)
  BY <1>1, <1>3, ConfirmationsGrow, ViewsGrow
<1>5. PreparesOK(n, s.best_confirm, s.current_term, W)
  <2>1. PreparesOf(n, W) = PreparesOf(n, A)
    BY <1>3 DEF PreparesOf
  <2> QED
    BY <1>1, <2>1 DEF PreparesOK
<1>6. ASSUME NEW k \in t.out PROVE k.producer = n /\ MessageOK(k, W, T)
  <2>1. k.producer = n /\ MessageOK(k, A, T)
    BY <1>1, <1>2
  <2> HIDE DEF A, W
  <2> QED
    BY <1>3, <2>1, MessageGrows
<1>7. VotesOK(n, t, M, T)
  BY <1>1, <1>2, <1>4, <1>5, <1>6 DEF VotesOK
<1>8. Step(n, t, s, M, T)
  BY <1>2, <1>7, VotesStep
<1> QED
  BY <1>8 DEF t

\* make_view_change: the block is proved if a quorum is known to have prepared it.
LEMMA MakeViewChangeFacts ==
  ASSUME NEW n \in Correct, NEW s, NEW M, NEW T, NodeOK(n, s, M, T)
  PROVE  LET m == MakeViewChange(n, s)
         IN  /\ m.producer = n /\ m.type = "ViewChange" /\ m.term = s.current_term
             /\ ProofOK(m, M \cup s.out)
<1> DEFINE m == MakeViewChange(n, s)
           b == s.best_prepared
           c == Confirms(s, b)
<1>1. CASE b \in s.db.states
  <2>1. m = ViewChangeMessage(s.current_term, n, b, Term(b), Quorum(c.prepares))
    BY <1>1 DEF MakeViewChange
  <2>2. b # NoId
    BY <1>1, NoIdIsNoBlock DEF NodeOK, DatabaseOK, Good, DbType
  <2>3. Justified(M \cup s.out, b, c.prepares)
    BY ConfirmsFacts DEF NodeOK, VotesOK, ConfirmationOK
  <2>4. Quorum(c.prepares) => Prepared(M \cup s.out, b)
    BY <2>3, JustifiedQuorum
  <2>5. Quorum(c.prepares) \in BOOLEAN
    BY DEF Quorum, IsQuorum
  <2> HIDE DEF b, c, m
  <2> DEFINE proved == Quorum(c.prepares)
  <2> HIDE DEF proved
  <2>6. /\ m.producer = n /\ m.type = "ViewChange" /\ m.term = s.current_term
        /\ m.best_prepared = b /\ m.proved = proved
    BY <2>1 DEF ViewChangeMessage, proved
  <2>7. ProofOK(m, M \cup s.out)
    BY <2>2, <2>4, <2>5, <2>6 DEF ProofOK, proved
  <2> QED
    BY <2>6, <2>7 DEF m
<1>2. CASE b \notin s.db.states
  <2>1. m = ViewChangeMessage(s.current_term, n, b, 0, FALSE)
    BY <1>2 DEF MakeViewChange
  <2> QED
    BY <2>1 DEF ViewChangeMessage, ProofOK
<1> QED
  BY <1>1, <1>2

LEMMA SyncCurrentTermFacts ==
  ASSUME NEW n \in Correct, NEW s, NEW M, NEW T \in Nat, NodeOK(n, s, M, T)
  PROVE  Step(n, SyncCurrentTerm(n, s), s, M, T)
<1> DEFINE m == MakeViewChange(n, s)
           t == SetProducerView(n, s, n, s.current_term, m)
           u == [t EXCEPT !.out = @ \cup {m}]
<1>1. /\ m.producer = n /\ m.type = "ViewChange" /\ m.term = s.current_term
      /\ ProofOK(m, M \cup s.out)
  BY MakeViewChangeFacts
<1>2. s.current_term \in 0..T
  BY DEF NodeOK, VotesOK
<1>3. SyncCurrentTerm(n, s) = u
  BY DEF SyncCurrentTerm, SendViewChange
<1> HIDE DEF m
<1>4. Step(n, t, s, M, T)
  BY <1>1, <1>2, ProducerFacts, SetProducerViewFacts
<1> HIDE DEF t
<1>5. M \cup s.out \subseteq M \cup t.out
  BY <1>4 DEF Step
<1>6. MessageOK(m, M \cup t.out, T)
  <2>1. ProofOK(m, M \cup t.out)
    BY <1>1, <1>5, ProofGrows
  <2> QED
    BY <1>1, <1>2, <2>1 DEF MessageOK
<1>7. Step(n, u, t, M, T)
  BY <1>1, <1>4, <1>6, SendFacts DEF Step
<1> QED
  BY <1>3, <1>4, <1>7, StepTrans

\* set_view
LEMMA SetViewFacts ==
  ASSUME NEW n \in Correct, NEW s, NEW M, NEW T \in Nat, NodeOK(n, s, M, T), NEW term \in 0..T
  PROVE  Step(n, SetView(n, s, term), s, M, T)
<1>1. CASE ~(term > s.current_term)
  BY <1>1, StepRefl DEF SetView
<1>2. CASE term > s.current_term
  <2> DEFINE d == [s.db EXCEPT !.currentTerm = term]
             t == [s EXCEPT !.current_term = term, !.db = d]
             u == SyncCurrentTerm(n, t)
  <2>1. /\ VotesOK(n, s, M, T) /\ DOMAIN s = NodeFields /\ s.current_term \in 0..T
        /\ ConfirmationsOK(s.confirmations, M \cup s.out) /\ ViewsOK(s.views, M \cup s.out, T)
        /\ PreparesOK(n, s.best_confirm, s.current_term, M \cup s.out)
        /\ \A k \in s.out : k.producer = n /\ MessageOK(k, M \cup s.out, T)
        /\ Good(s.db) /\ DatabaseOK(s, T)
    BY DEF NodeOK, VotesOK, DatabaseOK
  <2>2. SetView(n, s, term) = u
    BY <1>2 DEF SetView
  <2>3. /\ Good(d) /\ d.blockContext = s.db.blockContext
        /\ d.head = s.db.head /\ d.commitIndex = s.db.commitIndex
    BY <2>1, SetTermGood
  <2>4. d.states = s.db.states
    BY <2>1 DEF Good, DbType
  <2> HIDE DEF d
  <2>5. /\ DOMAIN t = NodeFields /\ t.confirmations = s.confirmations /\ t.views = s.views
        /\ t.out = s.out /\ t.best_confirm = s.best_confirm
        /\ t._state = s._state /\ t.db = d /\ t.current_term = term
    BY <2>1 DEF NodeFields
  <2> HIDE DEF t
  <2>6. PreparesOK(n, s.best_confirm, term, M \cup s.out)
    <3>1. s.best_confirm # NoId => Term(s.best_confirm) \in Nat
      BY <2>1, BlockFacts DEF PreparesOK
    <3>2. s.best_confirm # NoId => Term(s.best_confirm) <= term
      BY <1>2, <2>1, <3>1 DEF PreparesOK
    <3> QED
      BY <2>1, <3>2 DEF PreparesOK
  <2>7. VotesOK(n, t, M, T)
    BY <2>1, <2>5, <2>6 DEF VotesOK
  <2>8. DatabaseOK(t, T)
    <3>1. HasPending(s.db, T) => HasPending(d, T)
      BY <2>3 DEF HasPending, PendingBuildsOnHead
    <3> QED
      BY <2>1, <2>3, <2>4, <2>5, <3>1 DEF DatabaseOK, TermsBounded
  <2>9. KeepsIrreversible(d, s.db)
    <3>1. d.commitIndex >= s.db.commitIndex
      BY <2>1, <2>3, IndexFacts DEF Good
    <3> QED
      BY <2>1, <2>3, <3>1, KeepsSameHead
  <2>10. Step(n, t, s, M, T)
    BY <2>5, <2>7, <2>8, <2>9 DEF Step, NodeOK
  <2>11. Step(n, u, t, M, T)
    BY <2>10, SyncCurrentTermFacts DEF Step
  <2> HIDE DEF u
  <2> QED
    BY <2>2, <2>10, <2>11, StepTrans
<1> QED
  BY <1>1, <1>2

LEMMA LeaderFacts ==
  ASSUME NEW t \in Nat
  PROVE  LeaderIndex(t) \in 1..N /\ LeaderOf(t) \in Producer
<1>1. N \in Nat /\ N >= 1
  BY ProducerFacts
<1>2. t % N \in 0..(N - 1)
  BY <1>1
<1>3. LeaderIndex(t) \in 1..N
  BY <1>1, <1>2 DEF LeaderIndex
<1> QED
  BY <1>3, ProducerFacts DEF LeaderOf

LEMMA ViewTermFacts ==
  ASSUME NEW n, NEW s, NEW M, NEW T \in Nat, VotesOK(n, s, M, T), NEW p \in Producer
  PROVE  View(s, p).term \in 0..T /\ ProofOK(View(s, p).best_message, M \cup s.out)
BY DEF VotesOK, ViewsOK, View

\* skip_advanced_leaders finds a term: no leader is beyond the last one.
LEMMA SkipAdvancedLeadersFacts ==
  ASSUME scenario \in ScenarioType, NEW n, NEW s, NEW M, VotesOK(n, s, M, scenario.term),
         NEW term \in 0..(scenario.term + 1)
  PROVE  LET r == SkipAdvancedLeaders(s, term)
         IN  r \in Nat /\ (term <= scenario.term => r \in 0..scenario.term)
<1> DEFINE T == scenario.term
           V(t) == View(s, LeaderOf(t)).term
           S == {t \in term..T + N : V(t) <= t}
           r == SkipAdvancedLeaders(s, term)
<1>1. T \in Nat /\ N \in Nat /\ N >= 1 /\ term \in Nat /\ term <= T + 1
  BY ProducerFacts DEF ScenarioType
<1>2. \A t \in Nat : V(t) \in 0..T
  BY <1>1, LeaderFacts, ViewTermFacts
<1>3. r = CHOOSE t \in term..T + N : V(t) <= t /\ \A u \in term..t - 1 : V(u) > u
  BY DEF SkipAdvancedLeaders
<1> HIDE DEF V, T, r
<1>4. S \in SUBSET Nat /\ S # {}
  <2>1. CASE term <= T
    <3>1. T \in term..T + N /\ V(T) <= T
      BY <1>1, <1>2, <2>1
    <3> QED
      BY <1>1, <3>1
  <2>2. CASE ~(term <= T)
    <3>1. term \in term..T + N /\ V(term) <= term
      BY <1>1, <1>2, <2>2
    <3> QED
      BY <1>1, <3>1
  <2> QED
    BY <2>1, <2>2
<1>5. PICK t \in S : \A u \in S : t <= u
  BY <1>4, NatMin
<1>6. \A u \in term..t - 1 : V(u) > u
  <2>1. ASSUME NEW u \in term..t - 1 PROVE V(u) > u
    <3>1. t \in term..T + N
      BY <1>5
    <3>2. u \in Nat /\ u \in term..T + N /\ ~(t <= u)
      BY <1>1, <3>1
    <3>3. u \notin S
      BY <1>5, <3>2
    <3>4. V(u) \in Nat /\ ~(V(u) <= u)
      BY <1>2, <3>2, <3>3
    <3> QED
      BY <3>2, <3>4
  <2> QED
    BY <2>1
<1>7. t \in term..T + N /\ V(t) <= t
  BY <1>5
<1>8. \E x \in term..T + N : V(x) <= x /\ \A u \in term..x - 1 : V(u) > u
  BY <1>6, <1>7
<1>9. r \in term..T + N /\ \A u \in term..r - 1 : V(u) > u
  BY <1>3, <1>8
<1>10. r \in Nat
  BY <1>1, <1>9
<1>11. ASSUME term <= T PROVE r \in 0..T
  <2>1. SUFFICES ASSUME r > T PROVE FALSE
    BY <1>1, <1>10
  <2>2. T \in term..r - 1
    BY <1>1, <1>10, <1>11, <2>1
  <2>3. V(T) > T /\ V(T) \in 0..T
    BY <1>1, <1>2, <1>9, <2>2
  <2> QED
    BY <1>1, <2>3
<1> QED
  BY <1>10, <1>11 DEF r, T

\* minimum_viable_view: all producers are in the least view or later, and they are more
\* than a third.
LEMMA MinimumViableViewFacts ==
  ASSUME NEW n, NEW s, NEW M, NEW T \in Nat, VotesOK(n, s, M, T)
  PROVE  MinimumViableView(s) \in 0..T
<1> DEFINE terms == {s.views[p].term : p \in Producer}
           ahead(t) == {p \in Producer : s.views[p].term >= t}
           viable == {t \in terms : Cardinality(ahead(t)) >= N - (N * 2) \div 3}
<1>1. \A p \in Producer : s.views[p].term \in 0..T
  BY DEF VotesOK, ViewsOK
<1>2. N \in Nat /\ N >= 1 /\ Cardinality(Producer) = N
  BY ProducerFacts, BftAssumption
<1>3. Producer # {}
  BY <1>2, FS_EmptySet
<1>4. terms \in SUBSET Nat /\ terms # {} /\ \A t \in terms : t \in 0..T
  BY <1>1, <1>3
<1>5. PICK low \in terms : \A t \in terms : low <= t
  <2> HIDE DEF terms
  <2> QED BY <1>4, NatMin
<1>6. low \in viable
  <2>1. \A p \in Producer : s.views[p].term >= low
    BY <1>1, <1>4, <1>5
  <2>2. ahead(low) = Producer
    BY <2>1
  <2> HIDE DEF ahead
  <2>3. Cardinality(ahead(low)) >= N - (N * 2) \div 3
    BY <1>2, <2>2
  <2> QED
    BY <1>5, <2>3
<1>7. viable \in SUBSET Nat /\ viable # {} /\ \A t \in viable : t <= T /\ t \in 0..T
  <2>1. viable \subseteq terms
    OBVIOUS
  <2> HIDE DEF viable, terms
  <2> QED
    BY <1>4, <1>6, <2>1
<1>8. MinimumViableView(s) = CHOOSE t \in viable : \A u \in viable : u <= t
  BY DEF MinimumViableView
<1> HIDE DEF viable
<1>9. \E t \in viable : \A u \in viable : u <= t
  BY <1>7, NatMax
<1> QED
  BY <1>7, <1>8, <1>9

LEMMA CheckViewChangeThresholdFacts ==
  ASSUME scenario \in ScenarioType, NEW n \in Correct, NEW s, NEW M,
         NodeOK(n, s, M, scenario.term)
  PROVE  Step(n, CheckViewChangeThreshold(n, s), s, M, scenario.term)
<1> DEFINE T == scenario.term
           v == MinimumViableView(s)
           x == IF v > s.current_term THEN v ELSE s.current_term
           term == SkipAdvancedLeaders(s, x)
<1>1. T \in Nat /\ VotesOK(n, s, M, T)
  BY DEF ScenarioType, NodeOK
<1>2. v \in 0..T /\ s.current_term \in 0..T
  BY <1>1, MinimumViableViewFacts DEF VotesOK
<1>3. CheckViewChangeThreshold(n, s) = SetView(n, s, term)
  BY DEF CheckViewChangeThreshold
<1> HIDE DEF v
<1>4. x \in 0..T /\ x \in 0..(T + 1) /\ x <= T
  BY <1>1, <1>2
<1> HIDE DEF x
<1>5. term \in 0..T
  BY <1>1, <1>4, SkipAdvancedLeadersFacts
<1> HIDE DEF term
<1> QED
  BY <1>1, <1>3, <1>5, SetViewFacts

\* do_view_change
LEMMA DoViewChangeFacts ==
  ASSUME scenario \in ScenarioType, NEW n \in Correct, NEW s, NEW M,
         NodeOK(n, s, M, scenario.term), NEW p \in Producer, NEW term \in 0..scenario.term
  PROVE  Step(n, DoViewChange(n, s, p, term), s, M, scenario.term)
<1> DEFINE t == SetProducerView(n, s, p, term, NoMessage)
           u == CheckViewChangeThreshold(n, t)
<1>1. scenario.term \in Nat
  BY DEF ScenarioType
<1>2. Step(n, t, s, M, scenario.term)
  BY <1>1, NoMessageFacts, SetProducerViewFacts
<1>3. DoViewChange(n, s, p, term) \in {t, u}
  BY DEF DoViewChange, CheckIfImproved
<1> HIDE DEF t
<1>4. Step(n, u, t, M, scenario.term)
  BY <1>2, CheckViewChangeThresholdFacts DEF Step
<1> HIDE DEF u
<1>5. Step(n, u, s, M, scenario.term)
  BY <1>2, <1>4, StepTrans
<1> QED
  BY <1>2, <1>3, <1>5

\* The producers of Order up to number top are handled one after the other.
IsHandling(f, n, s, P, term, top) ==
  f = [i \in 0..top |-> IF i = 0 THEN s
                        ELSE IF Order[i] \in P THEN DoViewChange(n, f[i - 1], Order[i], term)
                        ELSE f[i - 1]]

LEMMA HandlingExists ==
  ASSUME NEW n, NEW s, NEW P, NEW term, NEW top \in Nat
  PROVE  \E f : IsHandling(f, n, s, P, term, top)
<1> DEFINE Bad == {k \in Nat : ~\E f : IsHandling(f, n, s, P, term, k)}
<1>1. SUFFICES ASSUME Bad # {} PROVE FALSE
  OBVIOUS
<1>2. PICK k \in Bad : \A j \in Bad : k <= j
  <2>1. Bad \in SUBSET Nat
    OBVIOUS
  <2> QED
    BY <1>1, <2>1, NatMin
<1>3. CASE k = 0
  <2> DEFINE f == [i \in 0..k |-> s]
  <2>1. \A i \in 0..k : i = 0
    BY <1>3
  <2>2. IsHandling(f, n, s, P, term, k)
    BY <2>1 DEF IsHandling
  <2> QED
    BY <1>2, <2>2
<1>4. CASE k # 0
  <2>1. k - 1 \in Nat /\ k - 1 \notin Bad
    BY <1>2, <1>4
  <2>2. PICK g : IsHandling(g, n, s, P, term, k - 1)
    BY <2>1
  <2> DEFINE last == IF Order[k] \in P THEN DoViewChange(n, g[k - 1], Order[k], term)
                     ELSE g[k - 1]
             f == [i \in 0..k |-> IF i = k THEN last ELSE g[i]]
             body(i) == IF i = 0 THEN s
                        ELSE IF Order[i] \in P THEN DoViewChange(n, f[i - 1], Order[i], term)
                        ELSE f[i - 1]
  <2>3. ASSUME NEW i \in 0..k PROVE f[i] = body(i)
    <3>1. CASE i = k
      <4>1. f[i] = last /\ i - 1 \in 0..k /\ i - 1 # k
        BY <2>1, <3>1
      <4>2. f[i - 1] = g[k - 1]
        BY <3>1, <4>1
      <4> HIDE DEF f
      <4> QED
        BY <1>4, <3>1, <4>1, <4>2
    <3>2. CASE i # k
      <4>1. i \in 0..(k - 1) /\ f[i] = g[i]
        BY <3>2
      <4>2. g[i] = IF i = 0 THEN s
                   ELSE IF Order[i] \in P THEN DoViewChange(n, g[i - 1], Order[i], term)
                   ELSE g[i - 1]
        BY <2>2, <4>1 DEF IsHandling
      <4>3. i # 0 => i - 1 \in 0..k /\ i - 1 # k
        BY <4>1, <2>1
      <4>4. i # 0 => f[i - 1] = g[i - 1]
        BY <4>3
      <4> HIDE DEF f
      <4> QED
        BY <4>1, <4>2, <4>4
    <3> QED
      BY <3>1, <3>2
  <2>4. f = [i \in 0..k |-> f[i]]
    OBVIOUS
  <2> HIDE DEF f
  <2>5. f = [i \in 0..k |-> body(i)]
    BY <2>3, <2>4
  <2>6. IsHandling(f, n, s, P, term, k)
    BY <2>5 DEF IsHandling
  <2> QED
    BY <1>2, <2>6
<1> QED
  BY <1>3, <1>4

LEMMA DoViewChangesFacts ==
  ASSUME scenario \in ScenarioType, NEW n \in Correct, NEW s, NEW M,
         NodeOK(n, s, M, scenario.term), NEW P \in SUBSET Producer, NEW term \in 0..scenario.term
  PROVE  Step(n, DoViewChanges(n, s, P, term), s, M, scenario.term)
<1> DEFINE T == scenario.term
           f == CHOOSE g : IsHandling(g, n, s, P, term, N)
           Bad == {k \in 0..N : ~Step(n, f[k], s, M, T)}
<1>1. DoViewChanges(n, s, P, term) = f[N]
  BY Zenon DEF DoViewChanges, IsHandling
<1>2. N \in Nat
  BY ProducerFacts
<1>3. IsHandling(f, n, s, P, term, N)
  BY <1>2, HandlingExists
<1> HIDE DEF f
<1>4. SUFFICES ASSUME Bad # {} PROVE FALSE
  BY <1>1, <1>2
<1>5. PICK k \in Bad : \A j \in Bad : k <= j
  <2>1. Bad \in SUBSET Nat
    BY <1>2
  <2> QED
    BY <1>4, <2>1, NatMin
<1>6. k \in 0..N /\ ~Step(n, f[k], s, M, T)
  BY <1>5
<1>7. CASE k = 0
  <2>1. f[k] = s
    BY <1>3, <1>6, <1>7 DEF IsHandling
  <2> QED
    BY <1>6, <2>1, StepRefl
<1>8. CASE k # 0
  <2>1. k - 1 \in 0..N /\ ~(k <= k - 1)
    BY <1>2, <1>6, <1>8
  <2>2. Step(n, f[k - 1], s, M, T)
    BY <1>5, <2>1
  <2>3. f[k] = IF Order[k] \in P THEN DoViewChange(n, f[k - 1], Order[k], term) ELSE f[k - 1]
    BY <1>3, <1>6, <1>8 DEF IsHandling
  <2>4. CASE Order[k] \in P
    <3>1. Step(n, DoViewChange(n, f[k - 1], Order[k], term), f[k - 1], M, T)
      BY <2>2, <2>4, DoViewChangeFacts DEF Step
    <3> QED
      BY <1>6, <2>2, <2>3, <2>4, <3>1, StepTrans
  <2>5. CASE Order[k] \notin P
    BY <1>6, <2>2, <2>3, <2>5
  <2> QED
    BY <2>4, <2>5
<1> QED
  BY <1>7, <1>8

-----------------------------------------------------------------------------
(***************************************************************************)
(* Confirmations of others.                                                *)
(***************************************************************************)
\* The blocks that functions are called with.
KnownBlock(b, T) == b \in Block /\ Term(b) \in 0..T

LEMMA StatesAreKnown ==
  ASSUME NEW n, NEW s, NEW M, NEW T, NodeOK(n, s, M, T), NEW b \in s.db.states
  PROVE  KnownBlock(b, T)
<1>1. b \in Block /\ Term(b) <= T
  BY DEF NodeOK, DatabaseOK, Good, DbType, TermsBounded
<1>2. Term(b) \in Nat
  BY <1>1, BlockFacts
<1> QED
  BY <1>1, <1>2 DEF KnownBlock

\* CommitConfirmed after set_view: the last of its cases continues in the new view.
LEMMA CommitConfirmedStep ==
  ASSUME NEW n \in Correct, NEW s, NEW v, NEW M, NEW T, NodeOK(n, s, M, T),
         Step(n, v, s, M, T), NEW b \in Block
  PROVE  Step(n, CommitConfirmed(s, v, b), s, M, T)
<1> DEFINE inView == ~OnBestChain(s.db, b) /\ ~ContradictsPrepared(s, b)
<1>1. /\ VotesOK(n, s, M, T) /\ Chain(s.db, s.db.head) /\ DOMAIN v = NodeFields
      /\ Chain(v.db, v.db.head) /\ NodeOK(n, v, M, T)
  BY GoodChain DEF NodeOK, DatabaseOK, Step, VotesOK
<1>2. CASE ~inView
  <2>1. CommitConfirmed(s, v, b) = CommitConfirmed(s, s, b)
    BY <1>2 DEF CommitConfirmed
  <2>2. Confirmed(n, CommitConfirmed(s, s, b), s, M, T, s.db.head)
    BY <1>1, CommitConfirmedFacts
  <2> QED
    BY <2>1, <2>2, ConfirmedStep
<1>3. CASE inView
  <2> DEFINE d == SetSubtree(v.db, b)
             u == [v EXCEPT !.db = d]
             t == CommitConfirmed(s, v, b)
  <2>1. t = [u EXCEPT !.best_prepared = BetterOf(b, @)]
    BY <1>3 DEF CommitConfirmed
  <2>2. Raised(d, v.db) /\ Chain(d, v.db.head)
    BY <1>1, SetSubtreeChain
  <2> HIDE DEF t, d
  <2>3. SameVotes(t, v) /\ t._state = v._state /\ t.db = d
    BY <1>1, <2>1 DEF SameVotes, NodeFields
  <2>4. Step(n, t, v, M, T)
    BY <1>1, <2>2, <2>3, RaisedStep
  <2>5. Step(n, t, s, M, T)
    BY <2>4, StepTrans
  <2> QED
    BY <2>5 DEF t
<1> QED
  BY <1>2, <1>3

\* on_commit
LEMMA OnCommitFacts ==
  ASSUME NEW n \in Correct, NEW s, NEW M, NEW T \in Nat, NodeOK(n, s, M, T),
         NEW b, KnownBlock(b, T), NEW P
  PROVE  Step(n, OnCommit(n, s, b, P), s, M, T)
<1> DEFINE t == AddCommits(s, b, P)
           u == SetBlockData(t, b)
           v == SetView(n, u, Term(b))
           w == CommitConfirmed(u, v, b)
<1>1. b \in Block /\ Term(b) \in 0..T
  BY DEF KnownBlock
<1>2. OnCommit(n, s, b, P) \in {t, w}
  BY DEF OnCommit
<1>3. VotesOK(n, t, M, T) /\ t.out = s.out /\ t._state = s._state /\ t.db = s.db
  BY AddCommitsFacts DEF NodeOK
<1> HIDE DEF t
<1>4. Step(n, t, s, M, T)
  BY <1>3, VotesStep
<1>5. SameVotes(u, t) /\ u._state = t._state /\ u.db = t.db
  BY <1>3, SetBlockDataFacts DEF VotesOK
<1> HIDE DEF u
<1>6. Step(n, u, t, M, T)
  BY <1>4, <1>5, SameStep DEF Step
<1>7. Step(n, v, u, M, T)
  BY <1>1, <1>6, SetViewFacts DEF Step
<1> HIDE DEF v
<1>8. Step(n, w, u, M, T)
  BY <1>1, <1>6, <1>7, CommitConfirmedStep DEF Step
<1> HIDE DEF w
<1>9. Step(n, w, s, M, T)
  BY <1>4, <1>6, <1>8, StepTrans
<1> QED
  BY <1>2, <1>4, <1>9

\* on_prepare and load_prepares
LEMMA OnPrepareFacts ==
  ASSUME NEW n \in Correct, NEW s, NEW M, NEW T \in Nat, NodeOK(n, s, M, T),
         NEW b, NEW P, Justified(M \cup s.out, b, P), P # {} => KnownBlock(b, T)
  PROVE  Step(n, OnPrepare(n, s, b, P), s, M, T)
<1> DEFINE t == AddPrepares(s, b, P)
           r == RecordPrepared(t, b)
           v == SetView(n, r, Term(b))
           u == BecomePrepared(n, t, b)
           w == CommitPrepared(n, u, b)
           completes == Completes(Confirms(s, b).prepares, P)
<1>1. OnPrepare(n, s, b, P) = IF completes THEN w ELSE t
  BY DEF OnPrepare
<1>2. completes => P # {}
  <2>1. Confirms(s, b).prepares \cup {} = Confirms(s, b).prepares
    OBVIOUS
  <2> QED
    BY <2>1 DEF Completes
<1>3. /\ VotesOK(n, t, M, T) /\ t.out = s.out /\ t._state = s._state /\ t.db = s.db
      /\ completes => Prepared(M \cup s.out, b)
  BY AddPreparesFacts DEF NodeOK
<1> HIDE DEF t, completes
<1>4. Step(n, t, s, M, T)
  BY <1>3, VotesStep
<1>5. ASSUME completes PROVE Step(n, w, s, M, T)
  <2>1. b \in Block /\ Term(b) \in 0..T /\ Prepared(M \cup t.out, b)
    BY <1>2, <1>3, <1>5 DEF KnownBlock
  <2>2. SameVotes(r, t) /\ r._state = t._state /\ r.db = t.db
    BY <1>3, RecordPreparedFacts DEF VotesOK
  <2>3. u \in {v, t}
    BY DEF BecomePrepared
  <2> HIDE DEF r
  <2>4. Step(n, r, t, M, T)
    BY <1>4, <2>2, SameStep DEF Step
  <2>5. Step(n, v, r, M, T)
    BY <2>1, <2>4, SetViewFacts DEF Step
  <2> HIDE DEF v, u
  <2>6. Step(n, v, t, M, T)
    BY <1>4, <2>4, <2>5, StepTrans DEF Step
  <2>7. Step(n, u, t, M, T)
    BY <1>4, <2>3, <2>6, StepRefl DEF Step
  <2>8. M \cup t.out \subseteq M \cup u.out
    BY <2>7 DEF Step
  <2>9. Prepared(M \cup u.out, b)
    BY <2>1, <2>8, PreparedGrows
  <2>10. VotesOK(n, u, M, T) /\ Chain(u.db, u.db.head) /\ NodeOK(n, u, M, T)
    BY <2>7, GoodChain DEF Step, NodeOK, DatabaseOK
  <2>11. Confirmed(n, w, u, M, T, u.db.head)
    BY <2>1, <2>9, <2>10, CommitPreparedFacts
  <2> HIDE DEF w
  <2>12. Step(n, w, u, M, T)
    BY <2>10, <2>11, ConfirmedStep
  <2> QED
    BY <1>4, <2>7, <2>12, StepTrans
<1> HIDE DEF w
<1> QED
  BY <1>1, <1>4, <1>5

\* A function that selects the subtree of a block.
LEMMA SelectSubtree ==
  ASSUME NEW n, NEW s, NEW M, NEW T, NodeOK(n, s, M, T), NEW root
  PROVE  Step(n, [s EXCEPT !.db = SetSubtree(@, root)], s, M, T)
<1> DEFINE d == SetSubtree(s.db, root)
           t == [s EXCEPT !.db = d]
<1>1. DOMAIN s = NodeFields /\ Chain(s.db, s.db.head)
  BY GoodChain DEF NodeOK, VotesOK, DatabaseOK
<1>2. Raised(d, s.db) /\ Chain(d, s.db.head)
  BY <1>1, SetSubtreeChain
<1> HIDE DEF d
<1>3. SameVotes(t, s) /\ t._state = s._state /\ t.db = d
  BY <1>1 DEF SameVotes, NodeFields
<1> HIDE DEF t
<1>4. Step(n, t, s, M, T)
  BY <1>2, <1>3, RaisedStep
<1> QED
  BY <1>4 DEF t, d

\* load_prepares: a view change contains the prepares that prove its block.
LEMMA LoadPreparesFacts ==
  ASSUME NEW n \in Correct, NEW s, NEW M, NEW T \in Nat, NodeOK(n, s, M, T),
         NEW best, ProofOK(best, M \cup s.out), SubtreeFromViewChange(s, best) # {}
  PROVE  Step(n, LoadPrepares(n, s, best), s, M, T)
<1> DEFINE root == CHOOSE b \in SubtreeFromViewChange(s, best) : TRUE
           P == IF best.proved THEN Producer ELSE {}
           t == OnPrepare(n, s, root, P)
<1>1. LoadPrepares(n, s, best) = SyncCurrentTerm(n, t)
  BY DEF LoadPrepares
<1>2. Justified(M \cup s.out, root, P) /\ (P # {} => KnownBlock(root, T))
  <2>1. CASE best.proved
    <3>1. best.best_prepared # NoId /\ Prepared(M \cup s.out, best.best_prepared)
      BY <2>1 DEF ProofOK
    <3>2. /\ SubtreeFromViewChange(s, best) = {best.best_prepared}
          /\ best.best_prepared \in s.db.states
      BY <3>1 DEF SubtreeFromViewChange
    <3>3. root = best.best_prepared
      BY <3>2
    <3>4. KnownBlock(root, T)
      BY <3>2, <3>3, StatesAreKnown
    <3> HIDE DEF root
    <3> QED
      BY <2>1, <3>1, <3>3, <3>4 DEF Justified
  <2>2. CASE ~best.proved
    <3> HIDE DEF root
    <3> QED
      BY <2>2 DEF Justified
  <2> QED
    BY <2>1, <2>2 DEF ProofOK
<1> HIDE DEF root, P
<1>3. Step(n, t, s, M, T)
  BY <1>2, OnPrepareFacts
<1> HIDE DEF t
<1>4. Step(n, SyncCurrentTerm(n, t), t, M, T)
  BY <1>3, SyncCurrentTermFacts DEF Step
<1> QED
  BY <1>1, <1>3, <1>4, StepTrans

LEMMA AwaitRootFacts ==
  ASSUME NEW n \in Correct, NEW s, NEW M, NEW T \in Nat, NodeOK(n, s, M, T)
  PROVE  Step(n, AwaitRoot(n, s), s, M, T)
<1> DEFINE usable == {m \in ViewChangesInTerm(s) : SubtreeFromViewChange(s, m) # {}}
           best == {m \in usable : \A k \in usable : ~PreparedLess(m, k)}
           m == CHOOSE m \in best : TRUE
<1>1. CASE best = {} \/ ~IsLeader(n, s)
  BY <1>1, StepRefl DEF AwaitRoot
<1>2. CASE ~(best = {} \/ ~IsLeader(n, s))
  <2>1. AwaitRoot(n, s) = LoadPrepares(n, s, m)
    BY <1>2 DEF AwaitRoot
  <2>2. m \in best
    BY <1>2
  <2>3. m \in ViewChangesInTerm(s) /\ SubtreeFromViewChange(s, m) # {}
    BY <2>2
  <2> HIDE DEF m
  <2>4. PICK p \in Producer : m = View(s, p).best_message
    BY <2>3 DEF ViewChangesInTerm
  <2>5. ProofOK(m, M \cup s.out)
    BY <2>4, ViewTermFacts DEF NodeOK
  <2> QED
    BY <2>1, <2>3, <2>5, LoadPreparesFacts
<1> QED
  BY <1>1, <1>2

\* set_root
LEMMA SetRootFacts ==
  ASSUME NEW n \in Correct, NEW s, NEW M, NEW T \in Nat, NodeOK(n, s, M, T)
  PROVE  Step(n, SetRoot(n, s), s, M, T)
<1>1. CASE IsTermReady(s)
  <2> DEFINE root == CHOOSE b \in SubtreeFromLeader(s) : TRUE
  <2>1. SetRoot(n, s) = [s EXCEPT !.db = SetSubtree(@, root)]
    BY <1>1 DEF SetRoot
  <2> HIDE DEF root
  <2> QED
    BY <2>1, SelectSubtree
<1>2. CASE ~IsTermReady(s)
  <2> DEFINE B == {b \in {m.best_prepared : m \in ViewChangesInTerm(s)} \ s.db.states :
                     BlockNum(b) > s.db.commitIndex}
             r == [s EXCEPT !.pendingBlocks = B]
             t == AwaitRoot(n, r)
             root == BestPreparedRoot(t)
             u == BestPreparedSubtree(t)
  <2>1. SetRoot(n, s) = u
    BY <1>2 DEF SetRoot
  <2>2. DOMAIN s = NodeFields
    BY DEF NodeOK, VotesOK
  <2> HIDE DEF B
  <2>3. SameVotes(r, s) /\ r._state = s._state /\ r.db = s.db
    BY <2>2 DEF SameVotes, NodeFields
  <2> HIDE DEF r
  <2>4. Step(n, r, s, M, T)
    BY <2>3, SameStep
  <2>5. Step(n, t, r, M, T)
    BY <2>4, AwaitRootFacts DEF Step
  <2> HIDE DEF t
  <2>6. u = [t EXCEPT !.db = SetSubtree(@, root)]
    BY DEF BestPreparedSubtree
  <2> HIDE DEF root, u
  <2>7. Step(n, u, t, M, T)
    BY <2>5, <2>6, SelectSubtree DEF Step
  <2> QED
    BY <2>1, <2>4, <2>5, <2>7, StepTrans
<1> QED
  BY <1>1, <1>2

-----------------------------------------------------------------------------
(***************************************************************************)
(* Blocks of others.                                                       *)
(***************************************************************************)
LEMMA CommitCertifiedFacts ==
  ASSUME NEW n \in Correct, NEW s, NEW M, NEW T, NodeOK(n, s, M, T), NEW b \in Block
  PROVE  Step(n, CommitCertified(s, b), s, M, T)
<1> DEFINE old == Confirms(s, b)
           c == [old EXCEPT !.committedByBlock = TRUE]
           onChain == OnBestChain(s.db, b)
           contradicts == ContradictsPrepared(s, b)
           d == IF onChain THEN Commit(s.db, BlockNum(b)) ELSE ConsensusFailure(s.db)
           r == [s EXCEPT !.db = d]
           k == SetConfirms(s, b, c)
           u == IF onChain \/ contradicts THEN r ELSE k
           t == CommitCertified(s, b)
<1>1. VotesOK(n, s, M, T) /\ DOMAIN s = NodeFields /\ Chain(s.db, s.db.head)
  BY GoodChain DEF NodeOK, VotesOK, DatabaseOK
<1>2. t = [u EXCEPT !.best_prepared = BetterOf(b, @)]
  BY DEF CommitCertified
<1>3. Raised(d, s.db) /\ Chain(d, s.db.head)
  <2>1. CASE onChain
    <3>1. BlockNum(b) \in Nat /\ BlockNum(b) <= Len(s.db.head)
      BY <1>1, <2>1, OnBestChainFacts, BlockFacts DEF BlockNum
    <3> QED
      BY <1>1, <2>1, <3>1, CommitChain
  <2>2. CASE ~onChain
    BY <1>1, <2>2, FailureChain
  <2> QED
    BY <2>1, <2>2
<1> HIDE DEF d, onChain, contradicts
<1>4. Step(n, r, s, M, T)
  <2>1. SameVotes(r, s) /\ r._state = s._state /\ r.db = d
    BY <1>1 DEF SameVotes, NodeFields
  <2> HIDE DEF r
  <2> QED
    BY <1>3, <2>1, RaisedStep
<1> HIDE DEF r
<1>5. Step(n, k, s, M, T)
  <2>1. ConfirmationOK(old, M \cup s.out, b)
    BY <1>1, ConfirmsFacts DEF VotesOK
  <2> HIDE DEF old
  <2>2. ConfirmationOK(c, M \cup s.out, b)
    BY <2>1 DEF ConfirmationOK
  <2> HIDE DEF c
  <2>3. VotesOK(n, k, M, T) /\ k.out = s.out /\ k._state = s._state /\ k.db = s.db
    BY <1>1, <2>2, SetConfirmsFacts
  <2> QED
    BY <2>3, VotesStep
<1> HIDE DEF k
<1>6. Step(n, u, s, M, T)
  BY <1>4, <1>5
<1> HIDE DEF u, t
<1>7. SameVotes(t, u) /\ t._state = u._state /\ t.db = u.db
  <2>1. DOMAIN u = NodeFields
    BY <1>6 DEF Step, NodeOK, VotesOK
  <2> QED
    BY <1>2, <2>1 DEF SameVotes, NodeFields
<1>8. Step(n, t, u, M, T)
  BY <1>6, <1>7, SameStep DEF Step
<1>9. Step(n, t, s, M, T)
  BY <1>6, <1>8, StepTrans
<1> QED
  BY <1>9 DEF t

\* validate_aux_consensus_data
LEMMA ValidateAuxFacts ==
  ASSUME NEW n \in Correct, NEW s, NEW M, NEW T \in Nat, NodeOK(n, s, M, T), NEW b
  PROVE  Step(n, ValidateAux(n, s, b), s, M, T)
<1>1. CASE b \notin s.db.states
  BY <1>1, StepRefl DEF ValidateAux
<1>2. CASE b \in s.db.states
  <2> DEFINE old == Confirms(s, b)
             c == [old EXCEPT !.commits = Producer]
             k == SetConfirms(s, b, c)
             u == SetBlockData(k, b)
             v == SetView(n, u, Term(b))
             w == CommitCertified(v, b)
  <2>1. ValidateAux(n, s, b) = w
    BY <1>2 DEF ValidateAux
  <2>2. b \in Block /\ Term(b) \in 0..T
    BY <1>2, StatesAreKnown DEF KnownBlock
  <2>3. ConfirmationOK(old, M \cup s.out, b)
    BY ConfirmsFacts DEF NodeOK, VotesOK
  <2> HIDE DEF old
  <2>4. ConfirmationOK(c, M \cup s.out, b)
    BY <2>3 DEF ConfirmationOK
  <2> HIDE DEF c
  <2>5. VotesOK(n, k, M, T) /\ k.out = s.out /\ k._state = s._state /\ k.db = s.db
    BY <2>4, SetConfirmsFacts DEF NodeOK
  <2> HIDE DEF k
  <2>6. Step(n, k, s, M, T)
    BY <2>5, VotesStep
  <2>7. SameVotes(u, k) /\ u._state = k._state /\ u.db = k.db
    BY <2>5, SetBlockDataFacts DEF VotesOK
  <2> HIDE DEF u
  <2>8. Step(n, u, k, M, T)
    BY <2>6, <2>7, SameStep DEF Step
  <2>9. Step(n, v, u, M, T)
    BY <2>2, <2>8, SetViewFacts DEF Step
  <2> HIDE DEF v
  <2>10. Step(n, w, v, M, T)
    BY <2>2, <2>9, CommitCertifiedFacts DEF Step
  <2> HIDE DEF w
  <2>11. Step(n, v, s, M, T)
    BY <2>6, <2>8, <2>9, StepTrans
  <2> QED
    BY <2>1, <2>10, <2>11, StepTrans
<1> QED
  BY <1>1, <1>2

\* on_accept_block_header
LEMMA OnAcceptBlockHeaderFacts ==
  ASSUME NEW n \in Correct, NEW s, NEW M, NEW T \in Nat, NodeOK(n, s, M, T), NEW b, NEW aux
  PROVE  Step(n, OnAcceptBlockHeader(n, s, b, aux), s, M, T)
<1> DEFINE t == IF aux THEN ValidateAux(n, s, Ancestor(b, CommitNum(b))) ELSE s
           u == SetRoot(n, t)
<1>1. OnAcceptBlockHeader(n, s, b, aux) \in {t, u}
  BY DEF OnAcceptBlockHeader, RetryRoot
<1>2. Step(n, t, s, M, T)
  BY ValidateAuxFacts, StepRefl
<1> HIDE DEF t
<1>3. Step(n, u, t, M, T)
  BY <1>2, SetRootFacts DEF Step
<1> HIDE DEF u
<1>4. Step(n, u, s, M, T)
  BY <1>2, <1>3, StepTrans
<1> QED
  BY <1>1, <1>2, <1>4

-----------------------------------------------------------------------------
(***************************************************************************)
(* Each callback of a correct node is a step of that node.                 *)
(***************************************************************************)
Callback(n) == \E t : Step(n, t, node[n], msgs, scenario.term) /\ Finish(n, t)

LEMMA InvFacts ==
  ASSUME BftInv, NEW n \in Correct
  PROVE  /\ scenario \in ScenarioType /\ scenario.term \in Nat
         /\ NodeOK(n, node[n], msgs, scenario.term) /\ node[n].out = {}
         /\ msgs \cup node[n].out = msgs
BY DEF BftInv, ScenarioType

LEMMA TimeoutCallback ==
  ASSUME BftInv, NEW n \in Correct, Timeout(n)
  PROVE  Callback(n)
<1> DEFINE s == node[n]
           T == scenario.term
           term == SkipAdvancedLeaders(s, s.current_term + 1)
           t == SetView(n, s, term)
<1>1. scenario \in ScenarioType /\ T \in Nat /\ NodeOK(n, s, msgs, T) /\ VotesOK(n, s, msgs, T)
  BY InvFacts DEF NodeOK
<1>2. term <= T /\ Finish(n, t)
  BY DEF Timeout, CanTimeout
<1>3. s.current_term + 1 \in 0..(T + 1)
  BY <1>1 DEF VotesOK
<1>4. term \in Nat
  BY <1>1, <1>3, SkipAdvancedLeadersFacts
<1> HIDE DEF term
<1>5. Step(n, t, s, msgs, T)
  BY <1>1, <1>2, <1>4, SetViewFacts
<1> QED
  BY <1>2, <1>5 DEF Callback

\* A leader produces a block, starts the next one and prepares the block that it produced.
LEMMA ProduceBlockFacts ==
  ASSUME NEW n \in Correct, NEW s, NEW M, NEW T \in Nat, NodeOK(n, s, M, T), s._state = "leader"
  PROVE  LET producer == LeaderIndex(s.db.blockContext.term)
             b == FinishedBlock(s.db, producer)
             started == StartLeader([s EXCEPT !.db = FinishBlock(@, producer)])
         IN  /\ Step(n, DoGc(PrepareAccepted(n, started, b)), s, M, T)
             /\ b \in Block /\ Term(b) <= T
<1> DEFINE producer == LeaderIndex(s.db.blockContext.term)
           b == FinishedBlock(s.db, producer)
           d == FinishBlock(s.db, producer)
           f == [s EXCEPT !.db = d]
           t == StartLeader(f)
           u == PrepareAccepted(n, t, b)
           v == DoGc(u)
<1>1. /\ VotesOK(n, s, M, T) /\ DOMAIN s = NodeFields /\ Good(s.db) /\ TermsBounded(s.db, T)
      /\ s.db.blockContext # NoBlock /\ PendingBuildsOnHead(s.db) /\ s.db.blockContext.term <= T
  BY DEF NodeOK, VotesOK, DatabaseOK, HasPending
<1>2. s.db.blockContext.term \in Nat
  BY <1>1 DEF Good, DbType
<1>3. producer \in Nat
  BY <1>2, LeaderFacts, ProducerFacts
<1> HIDE DEF producer
<1>4. /\ Good(d) /\ KeepsIrreversible(d, s.db) /\ b \in Block
      /\ Term(b) = s.db.blockContext.term
  BY <1>1, <1>3, FinishBlockGood
<1>5. d.states = s.db.states \cup {b}
  BY <1>1 DEF FinishBlock, AddHead, Good, DbType
<1> HIDE DEF b, d
<1>6. SameVotes(f, s) /\ f.db = d
  BY <1>1 DEF SameVotes, NodeFields
<1> HIDE DEF f
<1>7. VotesOK(n, f, M, T) /\ f.out = s.out
  BY <1>1, <1>6, VotesSame DEF SameVotes
<1>8. TermsBounded(f.db, T)
  BY <1>1, <1>4, <1>5, <1>6 DEF TermsBounded
<1>9. Step(n, t, f, M, T)
  BY <1>4, <1>6, <1>7, <1>8, StartLeaderFacts
<1> HIDE DEF t
<1>10. VotesOK(n, t, M, T) /\ NodeOK(n, t, M, T) /\ Chain(t.db, t.db.head)
  BY <1>9, GoodChain DEF Step, NodeOK, DatabaseOK
<1>11. Confirmed(n, u, t, M, T, t.db.head)
  BY <1>4, <1>10, PrepareAcceptedFacts
<1> HIDE DEF u
<1>12. Step(n, u, t, M, T)
  BY <1>10, <1>11, ConfirmedStep
<1>13. Step(n, v, u, M, T)
  BY <1>12, DoGcFacts DEF Step
<1> HIDE DEF v
<1>14. Step(n, v, t, M, T)
  BY <1>10, <1>12, <1>13, StepTrans
<1>15. Good(t.db) /\ Good(v.db) /\ KeepsIrreversible(t.db, d) /\ KeepsIrreversible(v.db, t.db)
       /\ t.out \subseteq v.out /\ s.out \subseteq t.out /\ NodeOK(n, v, M, T)
  BY <1>6, <1>7, <1>9, <1>14 DEF Step, NodeOK, DatabaseOK
<1>16. KeepsIrreversible(t.db, s.db)
  BY <1>1, <1>4, <1>15, KeepsTrans
<1>17. KeepsIrreversible(v.db, s.db)
  BY <1>1, <1>15, <1>16, KeepsTrans
<1>18. Step(n, v, s, M, T)
  BY <1>15, <1>17 DEF Step
<1> QED
  BY <1>1, <1>4, <1>18 DEF b, v, u, t, f, d, producer

LEMMA ProduceBlockCallback ==
  ASSUME BftInv, NEW n \in Correct, ProduceBlock(n)
  PROVE  /\ Callback(n)
         /\ \E m : produced' = produced \cup {m} /\ m.block \in Block /\ Term(m.block) <= scenario.term
<1> DEFINE s == node[n]
           T == scenario.term
           producer == LeaderIndex(s.db.blockContext.term)
           b == FinishedBlock(s.db, producer)
           started == StartLeader([s EXCEPT !.db = FinishBlock(@, producer)])
           t == DoGc(PrepareAccepted(n, started, b))
           m == [block |-> b, aux |-> Ancestor(b, CommitNum(b)) \in s.blockData]
<1>1. T \in Nat /\ NodeOK(n, s, msgs, T)
  BY InvFacts
<1>2. s._state = "leader" /\ Finish(n, t) /\ produced' = produced \cup {m}
  BY DEF ProduceBlock, CanProduce
<1>3. Step(n, t, s, msgs, T) /\ b \in Block /\ Term(b) <= T
  BY <1>1, <1>2, ProduceBlockFacts
<1>4. m.block = b
  OBVIOUS
<1> HIDE DEF t, m, b
<1> QED
  BY <1>2, <1>3, <1>4 DEF Callback

LEMMA RecvBlockCallback ==
  ASSUME BftInv, NEW n \in Correct, NEW m \in produced, RecvBlock(n, m)
  PROVE  Callback(n)
<1> DEFINE s == node[n]
           T == scenario.term
           d == Insert(s.db, m.block)
           r == [s EXCEPT !.db = d]
           t == OnAcceptBlockHeader(n, r, m.block, m.aux)
           u == SwitchHead(n, t)
<1>1. T \in Nat /\ NodeOK(n, s, msgs, T) /\ m.block \in Block /\ Term(m.block) <= T
  BY InvFacts DEF BftInv
<1>2. Finish(n, u)
  BY DEF RecvBlock
<1>3. /\ VotesOK(n, s, msgs, T) /\ DOMAIN s = NodeFields /\ Good(s.db) /\ DatabaseOK(s, T)
  BY <1>1 DEF NodeOK, VotesOK, DatabaseOK
<1>4. /\ Good(d) /\ SameBlock(d, s.db) /\ d.head = s.db.head
      /\ d.commitIndex = s.db.commitIndex
  BY <1>1, <1>3, InsertGood
<1>5. d.states = s.db.states \cup {m.block}
  BY <1>3 DEF Insert, Good, DbType
<1> HIDE DEF d
<1>6. SameVotes(r, s) /\ r._state = s._state /\ r.db = d
  BY <1>3 DEF SameVotes, NodeFields
<1> HIDE DEF r
<1>7. Step(n, r, s, msgs, T)
  <2>1. HasPending(s.db, T) => HasPending(d, T)
    BY <1>4 DEF HasPending, PendingBuildsOnHead, SameBlock
  <2>2. DatabaseOK(r, T)
    BY <1>1, <1>3, <1>4, <1>5, <1>6, <2>1 DEF DatabaseOK, TermsBounded
  <2>3. d.commitIndex >= s.db.commitIndex
    BY <1>3, <1>4, IndexFacts DEF Good
  <2>4. KeepsIrreversible(d, s.db)
    BY <1>3, <1>4, <2>3, KeepsSameHead
  <2>5. VotesOK(n, r, msgs, T)
    BY <1>3, <1>6, VotesSame
  <2> QED
    BY <1>6, <2>2, <2>4, <2>5 DEF Step, NodeOK, SameVotes
<1>8. Step(n, t, r, msgs, T)
  BY <1>1, <1>7, OnAcceptBlockHeaderFacts DEF Step
<1> HIDE DEF t
<1>9. Step(n, u, t, msgs, T)
  BY <1>1, <1>8, SwitchHeadFacts DEF Step
<1> HIDE DEF u
<1>10. Step(n, u, s, msgs, T)
  <2>1. Step(n, u, r, msgs, T)
    BY <1>7, <1>8, <1>9, StepTrans DEF Step
  <2> QED
    BY <1>1, <1>7, <2>1, StepTrans
<1> QED
  BY <1>2, <1>10 DEF Callback

LEMMA RecvPreparesCallback ==
  ASSUME BftInv, NEW n \in Correct, NEW b, NEW P \in SUBSET Correct, RecvPrepares(n, b, P)
  PROVE  Callback(n)
<1> DEFINE s == node[n]
           T == scenario.term
           t == DoViewChanges(n, s, P, Term(b))
           u == OnPrepare(n, t, b, P)
<1>1. scenario \in ScenarioType /\ T \in Nat /\ NodeOK(n, s, msgs, T)
  BY InvFacts
<1>2. /\ Finish(n, u) /\ b \in s.db.states
      /\ \A p \in P : PrepareMessage(b, p) \in msgs
  BY DEF RecvPrepares, CanPrepare
<1>3. KnownBlock(b, T)
  BY <1>1, <1>2, StatesAreKnown
<1>4. Step(n, t, s, msgs, T)
  BY <1>1, <1>3, ProducerFacts, DoViewChangesFacts DEF KnownBlock
<1> HIDE DEF t
<1>5. Justified(msgs, b, P)
  BY <1>2, PreparersFacts, ProducerFacts DEF Justified
<1>6. Justified(msgs \cup t.out, b, P)
  BY <1>5, JustifiedGrows
<1>7. Step(n, u, t, msgs, T)
  BY <1>1, <1>3, <1>4, <1>6, OnPrepareFacts DEF Step
<1> HIDE DEF u
<1>8. Step(n, u, s, msgs, T)
  BY <1>1, <1>4, <1>7, StepTrans
<1> QED
  BY <1>2, <1>8 DEF Callback

LEMMA RecvCommitsCallback ==
  ASSUME BftInv, NEW n \in Correct, NEW b, NEW P \in SUBSET Correct, RecvCommits(n, b, P)
  PROVE  Callback(n)
<1> DEFINE s == node[n]
           T == scenario.term
           t == DoViewChanges(n, s, P, Term(b))
           u == OnCommit(n, t, b, P)
           v == SwitchHead(n, u)
<1>1. scenario \in ScenarioType /\ T \in Nat /\ NodeOK(n, s, msgs, T)
  BY InvFacts
<1>2. Finish(n, v) /\ b \in s.db.states
  BY DEF RecvCommits, CanCommit
<1>3. KnownBlock(b, T)
  BY <1>1, <1>2, StatesAreKnown
<1>4. Step(n, t, s, msgs, T)
  BY <1>1, <1>3, ProducerFacts, DoViewChangesFacts DEF KnownBlock
<1> HIDE DEF t
<1>5. Step(n, u, t, msgs, T)
  BY <1>1, <1>3, <1>4, OnCommitFacts DEF Step
<1> HIDE DEF u
<1>6. Step(n, v, u, msgs, T)
  BY <1>1, <1>5, SwitchHeadFacts DEF Step
<1> HIDE DEF v
<1>7. Step(n, u, s, msgs, T)
  BY <1>1, <1>4, <1>5, StepTrans
<1>8. Step(n, v, s, msgs, T)
  BY <1>1, <1>6, <1>7, StepTrans
<1> QED
  BY <1>2, <1>8 DEF Callback

\* The view changes of correct producers are right, and the faulty ones cannot make up a
\* proof.
LEMMA ForgedViewChangeFacts ==
  ASSUME scenario \in ScenarioType, NEW n, NEW m \in ForgedViewChanges(n)
  PROVE  m.producer \in Producer /\ m.term \in 0..scenario.term /\ ProofOK(m, msgs)
<1>1. PICK t \in scenario.first..scenario.term, p \in Faulty, b \in Blocks \cup {NoId} :
        m = ViewChangeMessage(t, p, b, IF b = NoId THEN 0 ELSE Term(b), b # NoId /\ CanProve(b))
  BY DEF ForgedViewChanges
<1>2. m.producer = p /\ m.term = t /\ m.best_prepared = b
  BY <1>1 DEF ViewChangeMessage
<1>3. m.proved = (b # NoId /\ CanProve(b))
  BY <1>1, Zenon DEF ViewChangeMessage
<1>4. t \in 0..scenario.term
  BY DEF ScenarioType
<1>5. CanProve(b) = Prepared(msgs, b)
  BY DEF CanProve, Prepared, Preparers
<1>6. ProofOK(m, msgs)
  BY <1>2, <1>3, <1>5, Zenon DEF ProofOK
<1>7. p \in Producer
  BY BftAssumption
<1> QED
  BY <1>2, <1>4, <1>6, <1>7

LEMMA RecvViewChangeCallback ==
  ASSUME BftInv, NEW n \in Correct, NEW m \in msgs \cup ForgedViewChanges(n),
         RecvViewChange(n, m)
  PROVE  Callback(n)
<1> DEFINE s == node[n]
           T == scenario.term
           t == SetProducerView(n, s, m.producer, m.term, m)
           c == CheckViewChangeThreshold(n, t)
           r == SetRoot(n, c)
           h == SwitchHead(n, r)
           u == FollowViewChange(n, t, ViewImproves(s, m.producer, m.term, m))
           v == SwitchIfNewTerm(n, u, s.current_term)
<1>1. /\ scenario \in ScenarioType /\ T \in Nat /\ NodeOK(n, s, msgs, T)
      /\ msgs \cup s.out = msgs
  BY InvFacts
<1>2. Finish(n, v) /\ m.type = "ViewChange"
  BY DEF RecvViewChange, CanChangeView
<1>3. m.producer \in Producer /\ m.term \in 0..T /\ ProofOK(m, msgs)
  <2>1. CASE m \in msgs
    BY <1>2, <2>1, ProducerFacts DEF BftInv, MessageOK
  <2>2. CASE m \in ForgedViewChanges(n)
    BY <1>1, <2>2, ForgedViewChangeFacts
  <2> QED
    BY <2>1, <2>2
<1>4. Step(n, t, s, msgs, T)
  BY <1>1, <1>3, SetProducerViewFacts
<1>5. u \in {t, h}
  BY DEF FollowViewChange
<1> HIDE DEF t
<1>6. Step(n, c, t, msgs, T)
  BY <1>1, <1>4, CheckViewChangeThresholdFacts DEF Step
<1> HIDE DEF c
<1>7. Step(n, r, c, msgs, T)
  BY <1>1, <1>6, SetRootFacts DEF Step
<1> HIDE DEF r
<1>8. Step(n, h, r, msgs, T)
  BY <1>1, <1>7, SwitchHeadFacts DEF Step
<1> HIDE DEF h
<1>9. Step(n, c, s, msgs, T)
  BY <1>1, <1>4, <1>6, StepTrans
<1>10. Step(n, r, s, msgs, T)
  BY <1>1, <1>7, <1>9, StepTrans
<1>11. Step(n, h, s, msgs, T)
  BY <1>1, <1>8, <1>10, StepTrans
<1> DEFINE x == SwitchHead(n, u)
<1>12. v \in {u, x}
  BY DEF SwitchIfNewTerm
<1> HIDE DEF u
<1>13. Step(n, u, s, msgs, T)
  BY <1>4, <1>5, <1>11
<1>14. Step(n, x, u, msgs, T)
  BY <1>1, <1>13, SwitchHeadFacts DEF Step
<1> HIDE DEF x, v
<1>15. Step(n, x, s, msgs, T)
  BY <1>1, <1>13, <1>14, StepTrans
<1>16. Step(n, v, s, msgs, T)
  BY <1>12, <1>13, <1>15
<1> QED
  BY <1>2, <1>16 DEF Callback

-----------------------------------------------------------------------------
(***************************************************************************)
(* The end of a callback: the messages are sent.                           *)
(***************************************************************************)
\* The node that has run the callback.
LEMMA ClearOut ==
  ASSUME NEW n, NEW t, NEW M, NEW T, NodeOK(n, t, M, T)
  PROVE  LET u == [t EXCEPT !.out = {}]
         IN  NodeOK(n, u, M \cup t.out, T) /\ u.out = {} /\ u.db = t.db
<1> DEFINE u == [t EXCEPT !.out = {}]
           W == M \cup t.out
<1>1. VotesOK(n, t, M, T) /\ DatabaseOK(t, T) /\ DOMAIN t = NodeFields
  BY DEF NodeOK, VotesOK
<1>2. /\ DOMAIN u = NodeFields /\ u.out = {} /\ u.db = t.db /\ u._state = t._state
      /\ u.current_term = t.current_term /\ u.confirmations = t.confirmations
      /\ u.views = t.views /\ u.best_confirm = t.best_confirm
  BY <1>1 DEF NodeFields
<1> HIDE DEF u
<1>3. W \cup u.out = W
  BY <1>2
<1>4. VotesOK(n, u, W, T)
  BY <1>1, <1>2, <1>3 DEF VotesOK
<1>5. DatabaseOK(u, T)
  BY <1>1, <1>2 DEF DatabaseOK
<1> QED
  BY <1>2, <1>4, <1>5 DEF NodeOK, u

\* The other nodes may find more messages, but none of their own.
LEMMA OthersKeep ==
  ASSUME NEW n, NEW k, k # n, NEW s, NEW M, NEW T, NodeOK(k, s, M, T), s.out = {},
         NEW out, \A m \in out : m.producer = n
  PROVE  NodeOK(k, s, M \cup out, T)
<1> DEFINE W == M \cup out
<1>1. VotesOK(k, s, M, T) /\ DatabaseOK(s, T) /\ M \cup s.out = M /\ W \cup s.out = W
  BY DEF NodeOK
<1>2. M \subseteq W
  OBVIOUS
<1>3. PreparesOf(k, W) = PreparesOf(k, M)
  BY DEF PreparesOf
<1> HIDE DEF W
<1>4. ConfirmationsOK(s.confirmations, W)
  BY <1>1, <1>2, ConfirmationsGrow DEF VotesOK
<1>5. ViewsOK(s.views, W, T)
  BY <1>1, <1>2, ViewsGrow DEF VotesOK
<1>6. PreparesOK(k, s.best_confirm, s.current_term, W)
  BY <1>1, <1>3 DEF VotesOK, PreparesOK
<1>7. VotesOK(k, s, W, T)
  BY <1>1, <1>4, <1>5, <1>6 DEF VotesOK
<1> QED
  BY <1>1, <1>7 DEF NodeOK, W

NodesKeepIrreversible ==
  \A n \in Correct : KeepsIrreversible(node'[n].db, node[n].db)

LEMMA CallbackInv ==
  ASSUME BftInv, NEW n \in Correct, Callback(n), UNCHANGED scenario,
         \/ produced' = produced
         \/ \E m : produced' = produced \cup {m} /\ m.block \in Block
                   /\ Term(m.block) <= scenario.term
  PROVE  BftInv' /\ NodesKeepIrreversible
<1> DEFINE T == scenario.term
<1>1. PICK t : Step(n, t, node[n], msgs, T) /\ Finish(n, t)
  BY DEF Callback
<1> DEFINE u == [t EXCEPT !.out = {}]
<1>2. NodeOK(n, t, msgs, T) /\ KeepsIrreversible(t.db, node[n].db) /\ DOMAIN node = Correct
  BY <1>1 DEF Step, BftInv
<1>3. NodeOK(n, u, msgs \cup t.out, T) /\ u.out = {} /\ u.db = t.db
  BY <1>2, ClearOut
<1>4. /\ DOMAIN node' = Correct /\ node'[n] = u /\ msgs' = msgs \cup t.out
      /\ \A k \in Correct : k # n => node'[k] = node[k]
  BY <1>1, <1>2 DEF Finish
<1> HIDE DEF u
<1>5. \A m \in t.out : m.producer = n /\ MessageOK(m, msgs', T)
  BY <1>2, <1>4 DEF NodeOK, VotesOK
<1>6. ASSUME NEW k \in Correct
      PROVE  /\ NodeOK(k, node'[k], msgs', T) /\ node'[k].out = {}
             /\ KeepsIrreversible(node'[k].db, node[k].db)
  <2>1. CASE k = n
    BY <1>2, <1>3, <1>4, <2>1
  <2>2. CASE k # n
    <3>1. NodeOK(k, node[k], msgs, T) /\ node[k].out = {}
      BY InvFacts
    <3>2. NodeOK(k, node[k], msgs \cup t.out, T)
      BY <1>5, <2>2, <3>1, OthersKeep
    <3>3. KeepsIrreversible(node[k].db, node[k].db)
      BY <3>1, KeepsRefl DEF NodeOK, DatabaseOK
    <3> QED
      BY <1>4, <2>2, <3>1, <3>2, <3>3
  <2> QED
    BY <2>1, <2>2
<1>7. ASSUME NEW m \in msgs' PROVE MessageOK(m, msgs', T)
  <2>1. CASE m \in msgs
    <3>1. MessageOK(m, msgs, T) /\ msgs \subseteq msgs'
      BY <1>4, <2>1 DEF BftInv
    <3> QED
      BY <3>1, MessageGrows
  <2> QED
    BY <1>4, <1>5, <2>1
<1>8. IsFiniteSet(produced') /\ \A m \in produced' : m.block \in Block /\ Term(m.block) <= T
  BY FS_AddElement DEF BftInv
<1>9. scenario' = scenario /\ scenario' \in ScenarioType
  BY DEF BftInv
<1>10. BftInv'
  BY <1>4, <1>6, <1>7, <1>8, <1>9 DEF BftInv
<1> QED
  BY <1>6, <1>10 DEF NodesKeepIrreversible

\* The first block is a block.
LEMMA FirstIsBlock == FirstBlock \in Block /\ Term(FirstBlock) = 0
<1> DEFINE h == [term |-> 0, producer |-> 0, commitNum |-> 1, valid |-> TRUE]
<1>1. h \in Header(Nat, Nat, Nat) /\ h.commitNum = 1 /\ h.term = 0
  BY DEF Header
<1> HIDE DEF h
<1>2. <<h>> \in Seq(Header(Nat, Nat, Nat)) /\ Len(<<h>>) = 1 /\ <<h>>[1] = h /\ <<h>> # <<>>
  BY <1>1
<1>3. <<h>> \in Block /\ Term(<<h>>) = 0
  BY <1>1, <1>2 DEF Block, Term
<1> QED
  BY <1>3 DEF FirstBlock, h

\* A block on top of another one.
LEMMA AppendIsBlock ==
  ASSUME NEW prev \in Block, NEW h \in Header(Nat, Nat, Nat), h.commitNum \in 1..Len(prev) + 1
  PROVE  Append(prev, h) \in Block /\ Term(Append(prev, h)) = h.term
<1> DEFINE b == Append(prev, h)
<1>1. prev \in Seq(Header(Nat, Nat, Nat)) /\ \A i \in 1..Len(prev) : prev[i].commitNum \in 1..i
  BY DEF Block
<1>2. /\ b \in Seq(Header(Nat, Nat, Nat)) /\ Len(b) = Len(prev) + 1 /\ Len(prev) \in Nat
      /\ b[Len(prev) + 1] = h /\ \A i \in 1..Len(prev) : b[i] = prev[i]
  BY <1>1
<1> HIDE DEF b
<1>3. b # <<>>
  BY <1>2
<1>4. \A i \in 1..Len(b) : b[i].commitNum \in 1..i
  BY <1>1, <1>2
<1> QED
  BY <1>2, <1>3, <1>4 DEF Block, Term, b

\* There are only finitely many blocks.
LEMMA BlocksFinite ==
  ASSUME BftInv
  PROVE  IsFiniteSet(Blocks) /\ Blocks \subseteq Block
<1> DEFINE B == {m.block : m \in produced}
           f == [m \in produced |-> m.block]
<1>1. f \in Surjection(produced, B)
  <2>1. f \in [produced -> B] /\ \A b \in B : \E m \in produced : f[m] = b
    OBVIOUS
  <2> QED
    BY <2>1 DEF Surjection
<1>2. IsFiniteSet(B)
  BY <1>1, FS_Surjection DEF BftInv
<1>3. IsFiniteSet(B \cup {FirstBlock})
  BY <1>2, FS_AddElement
<1>4. Blocks = B \cup {FirstBlock}
  BY DEF Blocks
<1> QED
  BY <1>3, <1>4, FirstIsBlock DEF BftInv

\* A block of a faulty leader is a block.
LEMMA ForgeInv ==
  ASSUME BftInv, NEW t \in scenario.first..scenario.term, NEW prev \in Blocks, Forge(t, prev)
  PROVE  BftInv' /\ NodesKeepIrreversible
<1> DEFINE S == {c \in Blocks \ {FirstBlock} : Previous(c) = prev /\ Term(c) = t}
           num == 1 + Cardinality(S)
           h == [term |-> t, producer |-> LeaderIndex(t), commitNum |-> num, valid |-> TRUE]
           b == Append(prev, h)
           m == [block |-> b, aux |-> FALSE]
<1>1. scenario.term \in Nat /\ t \in Nat /\ t <= scenario.term
  BY DEF BftInv, ScenarioType
<1>2. prev \in Block /\ Len(prev) \in Nat
  BY BlocksFinite DEF Block
<1>3. Cardinality(S) \in Nat
  <2>1. S \subseteq Blocks
    OBVIOUS
  <2> QED
    BY <2>1, BlocksFinite, FS_Subset, FS_CardinalityType
<1>4. num <= Len(b) /\ produced' = produced \cup {m} /\ UNCHANGED <<node, msgs, scenario>>
  BY DEF Forge, BlockNum
<1> HIDE DEF S
<1>5. LeaderIndex(t) \in Nat
  BY <1>1, LeaderFacts, ProducerFacts
<1>6. num \in Nat /\ num >= 1
  BY <1>3
<1> HIDE DEF num
<1>7. h \in Header(Nat, Nat, Nat) /\ h.commitNum = num /\ h.term = t
  BY <1>1, <1>5, <1>6 DEF Header
<1> HIDE DEF h
<1>8. Len(b) = Len(prev) + 1
  BY <1>2, <1>7 DEF Block
<1>9. b \in Block /\ Term(b) = t
  BY <1>2, <1>4, <1>6, <1>7, <1>8, AppendIsBlock
<1>10. m.block = b
  OBVIOUS
<1> HIDE DEF b, m
<1>11. IsFiniteSet(produced') /\ \A k \in produced' : k.block \in Block /\ Term(k.block) <= scenario.term
  BY <1>1, <1>4, <1>9, <1>10, FS_AddElement DEF BftInv
<1>12. BftInv'
  BY <1>4, <1>11 DEF BftInv
<1>13. ASSUME NEW n \in Correct PROVE KeepsIrreversible(node'[n].db, node[n].db)
  BY <1>4, InvFacts, KeepsRefl DEF NodeOK, DatabaseOK
<1> QED
  BY <1>12, <1>13 DEF NodesKeepIrreversible

\* The initial state satisfies the invariant.
LEMMA InitInv == Init => BftInv
<1> SUFFICES ASSUME Init PROVE BftInv
  OBVIOUS
<1> DEFINE T == scenario.term
           first == scenario.first
           start == [NewDb(FirstBlock) EXCEPT !.currentTerm = first]
<1>1. scenario \in ScenarioType /\ T \in Nat /\ first \in Nat /\ first <= T
  BY BftAssumption DEF Init, ScenarioType
<1>2. ASSUME NEW n \in Correct
      PROVE  NodeOK(n, FirstNode(n), {}, T) /\ FirstNode(n).out = {}
  <2> DEFINE s == [_state        |-> "follower",
                   current_term  |-> first,
                   confirmations |-> NoConfirmations,
                   views         |-> [p \in Producer |-> FirstView(p)],
                   pendingBlocks |-> {},
                   best_prepared |-> NoId,
                   best_confirm  |-> NoId,
                   blockData     |-> {},
                   db            |-> start,
                   out           |-> {}]
  <2>1. FirstNode(n) = IF LeaderOf(first) = n THEN StartLeader(s) ELSE s
    BY DEF FirstNode
  <2>2. /\ DOMAIN s = NodeFields /\ s._state = "follower" /\ s.current_term = first
        /\ s.confirmations = NoConfirmations /\ s.views = [p \in Producer |-> FirstView(p)]
        /\ s.best_confirm = NoId /\ s.db = start /\ s.out = {}
    BY DEF NodeFields
  <2> HIDE DEF s
  <2>3. Good(s.db)
    BY <1>1, <2>2, FirstIsBlock, NewDbGood, SetTermGood
  <2>4. TermsBounded(s.db, T)
    <3>1. s.db.states = {FirstBlock}
      BY <2>2 DEF NewDb
    <3> QED
      BY <1>1, <3>1, FirstIsBlock DEF TermsBounded
  <2>5. ConfirmationsOK(s.confirmations, {} \cup s.out)
    BY <2>2 DEF ConfirmationsOK, NoConfirmations
  <2>6. ViewsOK(s.views, {} \cup s.out, T)
    <3>1. ASSUME NEW p \in Producer
          PROVE  /\ DOMAIN s.views[p] = {"term", "best_message"} /\ s.views[p].term = first
                 /\ s.views[p].best_message.proved = FALSE
      <4>1. s.views[p] = FirstView(p)
        BY <2>2
      <4>2. /\ DOMAIN FirstView(p) = {"term", "best_message"} /\ FirstView(p).term = first
            /\ FirstView(p).best_message.proved = FALSE
        BY DEF FirstView, ViewChangeMessage
      <4> QED
        BY <4>1, <4>2, Zenon
    <3>2. DOMAIN s.views = Producer
      BY <2>2
    <3>3. ASSUME NEW p \in Producer
          PROVE  /\ DOMAIN s.views[p] = {"term", "best_message"} /\ s.views[p].term \in 0..T
                 /\ ProofOK(s.views[p].best_message, {} \cup s.out)
      <4>1. ProofOK(s.views[p].best_message, {} \cup s.out)
        BY <3>1, Zenon DEF ProofOK
      <4>2. first \in 0..T
        BY <1>1
      <4> QED
        BY <3>1, <4>1, <4>2, Zenon
    <3> QED
      BY <3>2, <3>3 DEF ViewsOK
  <2>7. PreparesOK(n, s.best_confirm, s.current_term, {} \cup s.out)
    BY <2>2 DEF PreparesOK, PreparesOf
  <2>8. VotesOK(n, s, {}, T)
    BY <1>1, <2>2, <2>5, <2>6, <2>7 DEF VotesOK
  <2>9. NodeOK(n, s, {}, T)
    BY <2>2, <2>3, <2>4, <2>8 DEF NodeOK, DatabaseOK
  <2>10. NodeOK(n, StartLeader(s), {}, T)
    BY <1>1, <2>3, <2>4, <2>8, StartLeaderFacts DEF Step
  <2>11. StartLeader(s).out = {}
    BY <2>2 DEF StartLeader, NodeFields
  <2> QED
    BY <2>1, <2>2, <2>9, <2>10, <2>11
<1>3. IsFiniteSet(produced)
  BY FS_EmptySet DEF Init
<1> QED
  BY <1>1, <1>2, <1>3 DEF Init, BftInv

LEMMA NextInv ==
  ASSUME BftInv, [Next]_vars
  PROVE  BftInv' /\ NodesKeepIrreversible
<1> DEFINE Goal == BftInv' /\ NodesKeepIrreversible
<1>1. ASSUME NEW n \in Correct, Timeout(n) PROVE Goal
  BY <1>1, TimeoutCallback, CallbackInv DEF Timeout
<1>2. ASSUME NEW n \in Correct, ProduceBlock(n) PROVE Goal
  BY <1>2, ProduceBlockCallback, CallbackInv DEF ProduceBlock
<1>3. ASSUME NEW n \in Correct, NEW m \in produced, RecvBlock(n, m) PROVE Goal
  BY <1>3, RecvBlockCallback, CallbackInv DEF RecvBlock
<1>4. ASSUME NEW n \in Correct, NEW b, NEW P \in SUBSET Correct, RecvPrepares(n, b, P) PROVE Goal
  BY <1>4, RecvPreparesCallback, CallbackInv DEF RecvPrepares
<1>5. ASSUME NEW n \in Correct, NEW b, NEW P \in SUBSET Correct, RecvCommits(n, b, P) PROVE Goal
  BY <1>5, RecvCommitsCallback, CallbackInv DEF RecvCommits
<1>6. ASSUME NEW n \in Correct, NEW m \in msgs \cup ForgedViewChanges(n), RecvViewChange(n, m)
      PROVE  Goal
  BY <1>6, RecvViewChangeCallback, CallbackInv DEF RecvViewChange
<1>7. ASSUME NEW t \in scenario.first..scenario.term, NEW prev \in Blocks, Forge(t, prev) PROVE Goal
  BY <1>7, ForgeInv
<1>8. ASSUME UNCHANGED vars PROVE Goal
  <2>1. node' = node /\ msgs' = msgs /\ produced' = produced /\ scenario' = scenario
    BY <1>8 DEF vars
  <2>2. ASSUME NEW n \in Correct PROVE KeepsIrreversible(node'[n].db, node[n].db)
    BY <2>1, InvFacts, KeepsRefl DEF NodeOK, DatabaseOK
  <2> QED
    BY <2>1, <2>2 DEF BftInv, NodesKeepIrreversible
<1> QED
  BY <1>1, <1>2, <1>3, <1>4, <1>5, <1>6, <1>7, <1>8 DEF Next

-----------------------------------------------------------------------------
(***************************************************************************)
(* The theorems.                                                           *)
(***************************************************************************)
\* The inductive invariant: in every reachable state a node has counted only prepares that
\* were sent or that a quorum has sent, knows the end of the one fork that it prepares, and
\* has a well-formed fork database.
THEOREM BftInvariant == Spec => []BftInv
<1>1. Init => BftInv
  BY InitInv
<1>2. BftInv /\ [Next]_vars => BftInv'
  BY NextInv
<1> QED
  BY <1>1, <1>2, PTL DEF Spec

LEMMA InvOneFork == BftInv => OneForkPerTerm
<1> SUFFICES ASSUME BftInv, NEW m \in Sent("Prepare"), NEW k \in Sent("Prepare"),
                    m.producer = k.producer, Term(m.block) = Term(k.block)
             PROVE  SameFork(m.block, k.block)
  BY DEF OneForkPerTerm
<1> DEFINE p == m.producer
<1>1. m \in msgs /\ k \in msgs /\ m.type = "Prepare" /\ k.type = "Prepare"
  BY DEF Sent
<1>2. p \in Correct
  BY <1>1 DEF BftInv, MessageOK
<1>3. NodeOK(p, node[p], msgs, scenario.term) /\ msgs \cup node[p].out = msgs
  BY <1>2, InvFacts
<1>4. PreparesOK(p, node[p].best_confirm, node[p].current_term, msgs)
  BY <1>3 DEF NodeOK, VotesOK
<1>5. m.block \in PreparesOf(p, msgs) /\ k.block \in PreparesOf(p, msgs)
  BY <1>1 DEF PreparesOf
<1> QED
  BY <1>4, <1>5 DEF PreparesOK

\* is_forbidden_fork: for any number of producers of which less than a third is faulty, a
\* correct producer prepares only one fork in each term, whatever the leader signs and
\* however often the node switches between forks.
THEOREM BftOneForkPerTerm == Spec => []OneForkPerTerm
BY BftInvariant, InvOneFork, PTL

LEMMA InvCommitsPrepared == BftInv => CommitsArePrepared
<1> SUFFICES ASSUME BftInv, NEW m \in Sent("Commit")
             PROVE  Quorum(Faulty \cup {p \in Correct : PrepareMessage(m.block, p) \in msgs})
  BY DEF CommitsArePrepared
<1>1. m \in msgs /\ m.type = "Commit"
  BY DEF Sent
<1>2. Prepared(msgs, m.block)
  BY <1>1 DEF BftInv, MessageOK
<1> QED
  BY <1>2 DEF Prepared, Preparers

\* do_commit: a correct producer commits a block only if, with the faulty producers, a
\* quorum has prepared it, also when the node has learnt so from the proof in a view change
\* and not from the prepares themselves.
THEOREM BftCommitsArePrepared == Spec => []CommitsArePrepared
BY BftInvariant, InvCommitsPrepared, PTL

\* commit, switch_fork and gc: in no step does a correct node leave a block that it
\* considers irreversible or lower its commit index, whatever it receives.
BftIrreversibleStays == [][NodesKeepIrreversible]_vars

THEOREM BftKeepsIrreversible == Spec => BftIrreversibleStays
<1>1. BftInv /\ [Next]_vars => [NodesKeepIrreversible]_vars
  BY NextInv
<1> QED
  BY <1>1, BftInvariant, PTL DEF Spec, BftIrreversibleStays
=============================================================================
