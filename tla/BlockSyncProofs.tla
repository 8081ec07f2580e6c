--------------------------- MODULE BlockSyncProofs ---------------------------
(***************************************************************************)
(* The block exchange, for all trees of blocks that correct producers can  *)
(* make: no connection fails, blocks arrive in order, a node is right      *)
(* about what its peer has, and the peers never wait for each other.       *)
(*                                                                         *)
(* The inductive invariant says, for each direction of the connection,     *)
(* what the sender knows about the receiver: it relates the state of the   *)
(* sender, the messages on their way and the fork database of the          *)
(* receiver, which goes on learning, switching and pruning meanwhile.      *)
(***************************************************************************)
EXTENDS BlockSync, ForkDbProofs

-----------------------------------------------------------------------------
(***************************************************************************)
(* The invariant.  A block is had by a node if it is one of its states,    *)
(* unless it does not descend from the last irreversible block: then it is *)
(* older, and in the log, or forked out.                                   *)
(***************************************************************************)
Has(db, b) == ExtendsCommitted(db, b) => b \in db.states

\* The fork database of a node between two callbacks.
DbOK(db) ==
  /\ Good(db) /\ Tidy(db)
  /\ db.blockContext = NoBlock
  /\ db.states \subseteq World
  /\ \E bound \in Nat : \A b \in db.states : Len(b) <= bound
  /\ MayCommit(db.head, db.commitIndex)
  /\ Term(db.head) <= db.currentTerm

Message == [type : {"hello", "block"}, xid : World, committed : BOOLEAN]

\* Block b is in a message of C.
Carries(C, b) == \E j \in 1..Len(C) : C[j] = BlockMessage(b)

\* The receiver y has b already, or will when it has received the messages C.
WillHave(y, C, b) == Has(y.db, b) \/ Carries(C, b)

\* c is the irreversible block with which the node in state st ended its search.
EndedWith(st, c) == st.tag = "start" => st.committed /\ st.hello = c

\* The common block that a node has found is in its best chain, or is an
\* irreversible block of its peer y.
CommonOK(db, y, c) ==
  /\ c \in World /\ Has(y.db, c) /\ y.state.tag # "none"
  /\ \/ IsAncestor(c, db.head)
     \/ IsAncestor(c, Final) /\ EndedWith(y.state, c)

StartOK(s, y) ==
  LET st == s.state
  IN  /\ st = ConnectionStateStart(st.hello, st.committed, st.hello_sent, st.common)
      /\ st.committed \in BOOLEAN /\ st.hello_sent \in BOOLEAN
      /\ st.hello \in World /\ IsAncestor(st.hello, s.db.head)
      /\ st.committed => Len(st.hello) <= s.db.commitIndex
      /\ st.common # None => CommonOK(s.db, y, st.common)

ReadyOK(s, C, y) ==
  LET st == s.state
  IN  /\ st = ConnectionStateReady(st.last_sent, st.last_received)
      /\ st.last_sent \in World /\ IsAncestor(st.last_sent, s.db.head)
      /\ WillHave(y, C, st.last_sent)
      /\ st.last_received \in World /\ Has(y.db, st.last_received)

StateOK(s, C, y) ==
  \/ s.state = NotConnected /\ s.sending = FALSE /\ C = <<>>
  \/ s.state.tag = "start" /\ StartOK(s, y)
  \/ s.state.tag = "ready" /\ ReadyOK(s, C, y)

\* The i-th message from s to y.
MessageOK(s, C, y, i) ==
  LET m == C[i]
  IN  /\ Has(s.db, m.xid)
      /\ m.committed => IsAncestor(m.xid, Final) /\ EndedWith(s.state, m.xid)
      /\ m.type = "block" =>
           /\ m = BlockMessage(m.xid) /\ Len(m.xid) >= 2
           /\ Has(y.db, Previous(m.xid))
              \/ \E j \in 1..(i - 1) : C[j] = BlockMessage(Previous(m.xid))

Fields == {"db", "state", "sending", "out", "posted"}

\* What holds of a node s that has sent K in earlier callbacks, and its peer y,
\* while a callback of s runs.
Flow(s, K, y) ==
  LET C == K \o s.out
  IN  /\ DOMAIN s = Fields /\ s.sending \in BOOLEAN
      /\ K \in Seq(Message) /\ s.out \in Seq(Message)
      /\ DbOK(s.db)
      /\ StateOK(s, C, y)
      /\ \A i \in 1..Len(C) : MessageOK(s, C, y, i)

\* A node that waits for its peer has ended its search with an older block.
WaitOK(s, y) ==
  s.state.tag = "start" /\ s.state.committed /\ s.sending = FALSE /\ s.state.common # None =>
    /\ y.state.tag # "none"
    /\ y.state.tag = "start" => y.state.committed /\ Len(y.state.hello) > Len(s.state.hello)

Link(s, K, y) == Flow(s, K, y) /\ WaitOK(s, y)

SyncInv ==
  /\ DOMAIN node = Node /\ DOMAIN chan = Node
  /\ \A n \in Node : node[n].out = <<>> /\ Link(node[n], chan[n], node[Peer(n)])


-----------------------------------------------------------------------------
(***************************************************************************)
(* The blocks that producers produce.                                      *)
(***************************************************************************)
LEMMA WorldBlock ==
  ASSUME NEW b \in World
  PROVE  /\ b \in Block /\ Len(b) \in Nat /\ Len(b) >= 1
         /\ \A i \in 1..Len(b) : Ancestor(b, i) \in World
         /\ Ancestor(b, 1) = FirstBlock
         /\ MayCommit(b, CommitNum(b))
  BY BlockSyncAssumption, BlockFacts DEF BlockNum

\* The world has the ancestors of its blocks.
LEMMA WorldAncestor ==
  ASSUME NEW a \in Block, NEW b \in World, IsAncestor(a, b)
  PROVE  a \in World
<1>1. Len(a) \in 1..Len(b) /\ Ancestor(b, Len(a)) = a
  BY WorldBlock, BlockFacts DEF IsAncestor
<1> QED
  BY <1>1, WorldBlock

LEMMA WorldTerms ==
  ASSUME NEW b \in World
  PROVE  TermsGrow(b) /\ AllValid(b)
<1>0. b \in Block
  BY WorldBlock
<1>1. AllValid(b)
  BY BlockSyncAssumption DEF AllValid, BlockNum
<1>2. ASSUME NEW i \in 1..Len(b), NEW j \in 1..Len(b), i <= j
      PROVE  b[i].term <= b[j].term
  <2> DEFINE a == Ancestor(b, j)
  <2>1. a \in World /\ Len(a) = j /\ \A k \in 1..j : a[k] = b[k]
    BY <1>0, WorldBlock, AncestorFacts
  <2>2. Len(b) \in Nat /\ i \in 1..j /\ j \in 1..j
    BY <1>0, <1>2, BlockFacts
  <2>3. a[i].term <= Term(a)
    BY <2>1, <2>2, BlockSyncAssumption DEF BlockNum
  <2>4. Term(a) = a[j].term
    BY <2>1 DEF Term
  <2> QED
    BY <2>1, <2>2, <2>3, <2>4
<1> QED
  BY <1>1, <1>2 DEF TermsGrow

LEMMA WorldOneChain ==
  ASSUME NEW S \in SUBSET World
  PROVE  OneChainPerTerm(S)
  BY BlockSyncAssumption DEF OneChainPerTerm, BlockNum

\* What may be irreversible with a head may be with every better one, and so may
\* what comes before it.
LEMMA MayCommitLater ==
  ASSUME NEW h \in World, NEW new \in World, NEW k \in 1..Len(h), NEW i \in 1..k,
         MayCommit(h, k), k <= Len(new), Ancestor(h, k) = Ancestor(new, k),
         AtLeast(new, Term(h), Len(h))
  PROVE  MayCommit(new, i)
<1>1. /\ h \in Block /\ new \in Block /\ Final \in Block
      /\ Len(h) \in Nat /\ Len(new) \in Nat /\ Term(h) \in Nat /\ Term(new) \in Nat
  BY BlockSyncAssumption, WorldBlock, BlockFacts
<1>2. k \in 1..Len(new) /\ i \in 1..Len(new)
  BY <1>1
<1> DEFINE c == Ancestor(h, k)
           a == Ancestor(new, i)
<1>3. a \in Block /\ c \in Block /\ IsAncestor(a, c)
  BY <1>1, <1>2, AncestorFacts, AncestorsAreOrdered
<1>4. IsAncestor(c, Final)
  BY DEF MayCommit
<1>5. IsAncestor(a, Final)
  BY <1>1, <1>3, <1>4, IsAncestorTrans
<1>6. ASSUME NEW b \in World, OrderLess(new, b)
      PROVE  IsAncestor(a, b)
  <2>1. b \in Block /\ Len(b) \in Nat /\ Term(b) \in Nat
    BY WorldBlock, BlockFacts
  <2>2. CASE Term(new) = Term(h) /\ Len(new) = Len(h)
    <3>1. IsAncestor(h, new)
      BY <1>1, <2>2, BlockSyncAssumption DEF BlockNum
    <3>2. h = new
      BY <1>1, <2>2, <3>1, AncestorSameNum
    <3>3. IsAncestor(c, b)
      BY <1>6, <3>2 DEF MayCommit
    <3> QED
      BY <1>3, <2>1, <3>3, IsAncestorTrans
  <2>3. CASE ~(Term(new) = Term(h) /\ Len(new) = Len(h))
    <3>1. OrderLess(h, b)
      BY <1>1, <1>6, <2>1, <2>3 DEF OrderLess, AtLeast, BlockNum
    <3>2. IsAncestor(c, b)
      BY <3>1 DEF MayCommit
    <3> QED
      BY <1>3, <2>1, <3>2, IsAncestorTrans
  <2> QED
    BY <2>2, <2>3
<1> QED
  BY <1>5, <1>6 DEF MayCommit

\* A better head than an ancestor is better than the ancestor.
LEMMA AncestorAtLeast ==
  ASSUME NEW a \in Block, NEW b \in World, IsAncestor(a, b)
  PROVE  AtLeast(b, Term(a), Len(a))
<1>1. b \in Block /\ TermsGrow(b) /\ Len(a) \in Nat /\ Len(b) \in Nat /\ Len(a) <= Len(b)
  BY WorldBlock, WorldTerms, BlockFacts DEF IsAncestor
<1>2. Term(a) <= Term(b) /\ Term(a) \in Nat /\ Term(b) \in Nat
  BY <1>1, AncestorTerm, BlockFacts
<1> QED
  BY <1>1, <1>2 DEF AtLeast

-----------------------------------------------------------------------------
(***************************************************************************)
(* The fork database of a node.                                            *)
(***************************************************************************)
LEMMA DbFacts ==
  ASSUME NEW db, DbOK(db)
  PROVE  /\ db.head \in World /\ db.head \in db.states /\ db.head \in Block
         /\ Len(db.head) \in Nat /\ Len(db.head) >= 1
         /\ db.commitIndex \in Nat /\ db.commitIndex \in 1..Len(db.head)
         /\ \A b \in db.byOrderIndex : ExtendsCommitted(db, b)
         /\ Ancestor(db.head, db.commitIndex) \in World
         /\ Ancestor(db.head, db.commitIndex) \in Block
         /\ Len(Ancestor(db.head, db.commitIndex)) = db.commitIndex
         /\ IsAncestor(Ancestor(db.head, db.commitIndex), db.head)
         /\ IsAncestor(Ancestor(db.head, db.commitIndex), Final)
<1>1. /\ db.head \in db.states /\ db.states \subseteq World
      /\ \A b \in db.byOrderIndex : ExtendsCommitted(db, b)
  BY TidyExtends DEF DbOK
<1>2. /\ db.head \in World /\ db.head \in Block
      /\ Len(db.head) \in Nat /\ Len(db.head) >= 1
  BY <1>1, WorldBlock
<1>3. db.commitIndex \in Nat /\ db.commitIndex \in 1..Len(db.head)
  BY IndexFacts DEF DbOK, Good
<1>4. /\ Ancestor(db.head, db.commitIndex) \in World
      /\ Ancestor(db.head, db.commitIndex) \in Block
      /\ Len(Ancestor(db.head, db.commitIndex)) = db.commitIndex
      /\ IsAncestor(Ancestor(db.head, db.commitIndex), db.head)
  BY <1>2, <1>3, WorldBlock, AncestorFacts, IsAncestorOfBlock
<1>5. IsAncestor(Ancestor(db.head, db.commitIndex), Final)
  BY DEF DbOK, MayCommit
<1> QED
  BY <1>1, <1>2, <1>3, <1>4, <1>5

\* The states have the history of a state, from the last irreversible block on.
LEMMA DbTree ==
  ASSUME NEW db, DbOK(db), NEW b \in db.states, NEW a \in Block, IsAncestor(a, b)
  PROVE  /\ a \in db.states \/ (Len(a) < db.commitIndex /\ IsAncestor(a, db.head))
         /\ Len(a) >= db.commitIndex => a \in db.states
<1>0. /\ db.head \in db.states /\ db.head \in Block /\ db.commitIndex \in Nat
      /\ db.states \subseteq Block /\ Len(a) \in Nat /\ Len(a) >= 1
  BY DbFacts, WorldBlock, BlockFacts DEF DbOK
<1>1. PICK r, q \in db.states : Tree(db, r, q)
  BY DEF DbOK, Tidy
<1>2. /\ r \in Block /\ IsAncestor(r, b) /\ IsAncestor(r, db.head)
      /\ \A i \in Len(r)..Len(b) : Ancestor(b, i) \in db.states
      /\ Len(r) <= db.commitIndex /\ Len(r) \in Nat
  BY <1>0, <1>1, BlockFacts DEF Tree
<1>3. b \in Block /\ Len(b) \in Nat /\ Len(a) <= Len(b) /\ Ancestor(b, Len(a)) = a
  BY <1>0, BlockFacts DEF IsAncestor
<1>4. Len(a) >= Len(r) => a \in db.states
  BY <1>0, <1>2, <1>3
<1>5. ASSUME Len(a) < Len(r) PROVE Len(a) < db.commitIndex /\ IsAncestor(a, db.head)
  <2>1. IsAncestor(a, r)
    BY <1>0, <1>2, <1>3, <1>5, ComparableAncestors
  <2> QED
    BY <1>0, <1>2, <1>5, <2>1, IsAncestorTrans
<1> QED
  BY <1>0, <1>2, <1>4, <1>5

\* What a node has: the code's point of view.
LEMMA HasKnown ==
  ASSUME NEW db, DbOK(db), NEW b \in World
  PROVE  Has(db, b) <=> Known(db, b) \/ ForkedOut(db, b)
<1>1. b \in Block /\ db.head \in db.states /\ Len(b) \in Nat
  BY WorldBlock, DbFacts
<1>2. ASSUME IsAncestor(b, db.head), ExtendsCommitted(db, b) PROVE b \in db.states
  <2>1. Len(b) >= db.commitIndex
    BY <1>1, <1>2, DbFacts DEF ExtendsCommitted, IsAncestor
  <2> QED
    BY <1>1, <1>2, <2>1, DbTree
<1> QED
  BY <1>2 DEF Has, Known, ForkedOut, ExtendsCommitted

\* A node has all blocks of its best chain.
LEMMA HasBestChain ==
  ASSUME NEW db, DbOK(db), NEW b \in World, IsAncestor(b, db.head)
  PROVE  Has(db, b)
  BY HasKnown DEF Known

\* A node that has a block has its ancestors.
LEMMA HasAncestors ==
  ASSUME NEW db, DbOK(db), NEW a \in Block, NEW b \in World, IsAncestor(a, b), Has(db, b)
  PROVE  Has(db, a)
<1>1. SUFFICES ASSUME ExtendsCommitted(db, a) PROVE a \in db.states
  BY DEF Has
<1>2. /\ Ancestor(db.head, db.commitIndex) \in Block /\ b \in Block
      /\ Len(Ancestor(db.head, db.commitIndex)) = db.commitIndex
  BY DbFacts, WorldBlock
<1>3. ExtendsCommitted(db, b) /\ Len(a) >= db.commitIndex
  <2>1. IsAncestor(Ancestor(db.head, db.commitIndex), a)
    BY <1>1 DEF ExtendsCommitted
  <2>2. IsAncestor(Ancestor(db.head, db.commitIndex), b)
    BY <1>2, <2>1, IsAncestorTrans
  <2>3. db.commitIndex <= Len(a) /\ db.commitIndex \in Nat /\ Len(a) \in Nat
    BY <1>2, <2>1, DbFacts, BlockFacts DEF IsAncestor
  <2> QED
    BY <2>2, <2>3 DEF ExtendsCommitted
<1>4. b \in db.states
  BY <1>3 DEF Has
<1> QED
  BY <1>3, <1>4, DbTree

\* What a node has it goes on having, whatever becomes irreversible and is pruned.
LEMMA HasStays ==
  ASSUME NEW db, NEW d, DbOK(db), DbOK(d), KeepsIrreversible(d, db),
         \A x \in db.states : ExtendsCommitted(d, x) => x \in d.states,
         NEW b \in World, Has(db, b)
  PROVE  Has(d, b)
<1> DEFINE c == Ancestor(db.head, db.commitIndex)
           k == Ancestor(d.head, d.commitIndex)
<1>1. /\ b \in Block /\ c \in Block /\ k \in Block /\ d.head \in Block
      /\ Len(c) = db.commitIndex /\ Len(k) = d.commitIndex /\ IsAncestor(k, d.head)
  BY DbFacts, WorldBlock
<1>2. SUFFICES ASSUME IsAncestor(k, b) PROVE b \in d.states
  BY DEF Has, ExtendsCommitted
<1>3. IsAncestor(c, d.head) /\ Len(c) <= Len(k)
  BY <1>1, DbFacts DEF KeepsIrreversible
<1>4. IsAncestor(c, k)
  BY <1>1, <1>3, ComparableAncestors
<1>5. IsAncestor(c, b)
  BY <1>1, <1>2, <1>4, IsAncestorTrans
<1>6. b \in db.states
  BY <1>5 DEF Has, ExtendsCommitted
<1> QED
  BY <1>2, <1>6 DEF ExtendsCommitted

\* get_common_ancestor: an ancestor of b in the best chain; b itself if it is there.
LEMMA CommonAncestor ==
  ASSUME NEW db, db.head \in World, NEW b \in World
  PROVE  LET a == GetCommonAncestor(db, b)
         IN  /\ a \in World /\ IsAncestor(a, b) /\ IsAncestor(a, db.head)
             /\ IsAncestor(b, db.head) => a = b
<1>1. /\ b \in Block /\ Len(b) \in Nat /\ Len(b) >= 1
      /\ db.head \in Block /\ Len(db.head) \in Nat /\ Len(db.head) >= 1
      /\ Ancestor(b, 1) = Ancestor(db.head, 1)
  BY WorldBlock
<1> DEFINE S == {i \in 1..Len(b) : IsAncestor(Ancestor(b, i), db.head)}
<1>2. IsAncestor(Ancestor(db.head, 1), db.head)
  <2>1. 1 \in 1..Len(db.head)
    BY <1>1
  <2> QED
    BY <1>1, <2>1, IsAncestorOfBlock
<1>3. 1 \in S
  BY <1>1, <1>2
<1>4. S \in SUBSET Nat /\ \A x \in S : x <= Len(b)
  OBVIOUS
<1>5. PICK k \in S : \A i \in S : i <= k
  <2> HIDE DEF S
  <2> QED
    BY <1>1, <1>3, <1>4, NatMax
<1>6. \A i \in 1..Len(b) : Ancestor(b, i) \in World /\ Len(Ancestor(b, i)) = i
                           /\ IsAncestor(Ancestor(b, i), b)
  BY <1>1, WorldBlock, AncestorFacts, IsAncestorOfBlock
<1> DEFINE P(a) == /\ IsAncestor(a, db.head)
                   /\ \A i \in (BlockNum(a) + 1)..BlockNum(b) : ~IsAncestor(Ancestor(b, i), db.head)
           T == {Ancestor(b, i) : i \in 1..BlockNum(b)}
<1>7. Ancestor(b, k) \in T /\ P(Ancestor(b, k))
  <2>1. Ancestor(b, k) \in T /\ IsAncestor(Ancestor(b, k), db.head) /\ BlockNum(Ancestor(b, k)) = k
    BY <1>5, <1>6 DEF BlockNum
  <2>2. ASSUME NEW i \in (k + 1)..Len(b) PROVE ~IsAncestor(Ancestor(b, i), db.head)
    <3>1. i \in 1..Len(b) /\ ~(i <= k)
      BY <1>1, <1>5
    <3>2. i \notin S
      BY <1>5, <3>1
    <3> QED
      BY <3>1, <3>2
  <2> QED
    BY <2>1, <2>2 DEF BlockNum
<1> DEFINE a == GetCommonAncestor(db, b)
<1>8. a = CHOOSE x \in T : P(x)
  BY Zenon DEF GetCommonAncestor
<1> HIDE DEF a
<1>9. a \in T /\ P(a)
  <2> HIDE DEF T, P
  <2> QED
    BY <1>7, <1>8
<1>10. PICK i \in 1..Len(b) : a = Ancestor(b, i)
  BY <1>9 DEF BlockNum
<1>11. ASSUME IsAncestor(b, db.head) PROVE a = b
  <2>1. Ancestor(b, Len(b)) = b
    BY <1>1, AncestorSelf
  <2>2. Len(a) = i
    BY <1>6, <1>10
  <2>3. i = Len(b)
    <3>1. SUFFICES ASSUME i # Len(b) PROVE FALSE
      OBVIOUS
    <3>2. Len(b) \in (i + 1)..Len(b)
      BY <1>1, <3>1
    <3> QED
      BY <1>9, <1>11, <2>1, <2>2, <3>2 DEF BlockNum
  <2> QED
    BY <1>10, <2>1, <2>3
<1> QED
  BY <1>6, <1>9, <1>10, <1>11 DEF a

\* It looks at the head only.
LEMMA CommonAncestorHead ==
  ASSUME NEW d, NEW db, NEW b, d.head = db.head
  PROVE  GetCommonAncestor(d, b) = GetCommonAncestor(db, b)
  BY DEF GetCommonAncestor

-----------------------------------------------------------------------------
(***************************************************************************)
(* A block is inserted, on_accept_block_header follows it, and the best    *)
(* block becomes the head.                                                 *)
(***************************************************************************)
Accepted(db, b) == FollowCommitNum(FollowTerm(Insert(db, b), Term(b)), b)

\* The database after on_accept_block_header: its head may not be allowed any more,
\* but then there is a better one that is.
AcceptedOK(e, db, b) ==
  /\ Good(e) /\ \E r, q \in e.states : Tree(e, r, q)
  /\ e.states = db.states \cup {b}
  /\ e.head = db.head /\ e.commitIndex = db.commitIndex
  /\ e.byBlocknumIndex = db.byBlocknumIndex /\ e.blockContext = NoBlock
  /\ \A x \in e.byOrderIndex : ExtendsCommitted(e, x)
  /\ \E x \in e.byOrderIndex : Term(x) <= e.currentTerm /\ AtLeast(x, Term(db.head), Len(db.head))

LEMMA InsertedDb ==
  ASSUME NEW db, DbOK(db), NEW b \in World, CanInsert(db, b)
  PROVE  LET d == FollowTerm(Insert(db, b), Term(b))
         IN  /\ Good(d) /\ \E r, q \in d.states : Tree(d, r, q)
             /\ d.states = db.states \cup {b}
             /\ d.head = db.head /\ d.commitIndex = db.commitIndex
             /\ d.byBlocknumIndex = db.byBlocknumIndex /\ d.blockContext = NoBlock
             /\ d.head \in d.byOrderIndex
             /\ Term(d.head) <= d.currentTerm /\ Term(b) <= d.currentTerm
<1>0. b \in Block /\ Term(b) \in Nat
  BY WorldBlock, BlockFacts
<1>1. Good(db) /\ DbType(db) /\ db.head \in db.byOrderIndex /\ db.blockContext = NoBlock
      /\ Term(db.head) <= db.currentTerm
  BY DEF DbOK, Tidy, Good
<1>2. PICK r, q \in db.states : Tree(db, r, q)
  BY DEF DbOK, Tidy
<1> DEFINE e == Insert(db, b)
<1>3. /\ Good(e) /\ SameBlock(e, db) /\ e.head = db.head /\ e.commitIndex = db.commitIndex
  BY <1>0, <1>1, InsertGood
<1>4. Tree(e, r, q) /\ e.states = db.states \cup {b} /\ db.byOrderIndex \subseteq e.byOrderIndex
  BY <1>0, <1>1, <1>2, InsertTree
<1>5. e.byBlocknumIndex = db.byBlocknumIndex
  BY <1>1 DEF Insert, DbType
<1>6. DbType(e) /\ e.currentTerm \in Nat /\ e.currentTerm = db.currentTerm
      /\ e.blockContext = NoBlock
  BY <1>1, <1>3 DEF Good, DbType, SameBlock
<1> HIDE DEF e
<1> DEFINE d == FollowTerm(e, Term(b))
<1>7. CASE Term(b) > e.currentTerm
  <2>1. d = [e EXCEPT !.currentTerm = Term(b)]
    BY <1>7 DEF FollowTerm
  <2>2. /\ Good(d) /\ d.currentTerm = Term(b) /\ d.blockContext = e.blockContext
        /\ d.head = e.head /\ d.commitIndex = e.commitIndex
    BY <1>0, <1>3, <2>1, SetTermGood
  <2>3. SameTree(d, e)
    BY <1>6, <2>1, SameTreeFacts
  <2>4. Tree(d, r, q) /\ d.states = e.states /\ d.byOrderIndex = e.byOrderIndex
    BY <1>4, <2>3, SameTreeTidy DEF SameTree
  <2>5. d.byBlocknumIndex = e.byBlocknumIndex
    BY <1>6, <2>1 DEF DbType
  <2>6. Term(db.head) <= d.currentTerm /\ Term(b) <= d.currentTerm
    <3>1. Term(db.head) \in Nat
      BY <1>1, BlockFacts DEF DbType
    <3> QED
      BY <1>0, <1>1, <1>6, <1>7, <2>2, <3>1
  <2> HIDE DEF d
  <2>7. \E rr, qq \in d.states : Tree(d, rr, qq)
    BY <1>4, <2>4
  <2> QED
    BY <1>1, <1>3, <1>4, <1>5, <1>6, <2>2, <2>4, <2>5, <2>6, <2>7 DEF d, e
<1>8. CASE ~(Term(b) > e.currentTerm)
  <2>1. d = e
    BY <1>8 DEF FollowTerm
  <2>2. Term(b) <= e.currentTerm
    BY <1>0, <1>6, <1>8
  <2>3. \E rr, qq \in e.states : Tree(e, rr, qq)
    BY <1>4
  <2> HIDE DEF d
  <2> QED
    BY <1>1, <1>3, <1>4, <1>5, <1>6, <2>1, <2>2, <2>3 DEF d, e
<1> QED
  BY <1>7, <1>8

LEMMA AcceptedDb ==
  ASSUME NEW db, DbOK(db), NEW b \in World, CanInsert(db, b)
  PROVE  AcceptedOK(Accepted(db, b), db, b)
<1> DEFINE d == FollowTerm(Insert(db, b), Term(b))
<1>1. /\ Good(d) /\ \E r, q \in d.states : Tree(d, r, q)
      /\ d.states = db.states \cup {b}
      /\ d.head = db.head /\ d.commitIndex = db.commitIndex
      /\ d.byBlocknumIndex = db.byBlocknumIndex /\ d.blockContext = NoBlock
      /\ d.head \in d.byOrderIndex
      /\ Term(d.head) <= d.currentTerm /\ Term(b) <= d.currentTerm
  BY InsertedDb
<1> HIDE DEF d
<1> DEFINE e == FollowCommitNum(d, b)
<1>2. e = Accepted(db, b)
  BY DEF Accepted, d
<1>3. /\ db.head \in World /\ db.head \in Block /\ Len(db.head) \in Nat
      /\ b \in Block /\ Term(b) \in Nat /\ Len(b) \in Nat /\ Term(db.head) \in Nat
      /\ CommitNum(b) \in 1..Len(b)
      /\ db.commitIndex \in Nat /\ db.commitIndex \in 1..Len(db.head)
  BY DbFacts, WorldBlock, BlockFacts
<1> DEFINE k == Ancestor(b, CommitNum(b))
<1>4. ASSUME e = d PROVE AcceptedOK(e, db, b)
  <2>1. Tidy(d)
    BY <1>1 DEF Tidy
  <2>2. \A x \in d.byOrderIndex : ExtendsCommitted(d, x)
    BY <1>1, <2>1, TidyExtends
  <2>3. AtLeast(d.head, Term(db.head), Len(db.head))
    BY <1>1, <1>3 DEF AtLeast
  <2> QED
    BY <1>1, <1>4, <2>2, <2>3 DEF AcceptedOK
<1>5. ASSUME CommitNum(b) > d.commitIndex, ~InBestChain(d, k)
      PROVE  AcceptedOK(e, db, b)
  <2>1. e = SetSubtree(d, k)
    BY <1>5, Zenon DEF FollowCommitNum
  <2>2. PICK r, q \in d.states : Tree(d, r, q)
    BY <1>1
  <2>3. k \in Block /\ Len(k) = CommitNum(b) /\ IsAncestor(k, b)
    BY <1>3, AncestorFacts, IsAncestorOfBlock
  <2>4. k \in d.states
    <3>1. Len(r) <= d.commitIndex /\ \A i \in Len(r)..Len(b) : Ancestor(b, i) \in d.states
      BY <1>1, <2>2 DEF Tree
    <3>2. r \in Block
      BY <1>1 DEF Good, DbType
    <3>3. CommitNum(b) \in Len(r)..Len(b)
      BY <1>1, <1>3, <1>5, <3>1, <3>2, BlockFacts
    <3> QED
      BY <3>1, <3>3
  <2> HIDE DEF k, e
  <2>5. Tree(e, r, k) /\ e.states = d.states
    <3>1. DbType(d) /\ d.commitIndex \in Nat /\ Len(k) >= d.commitIndex
      BY <1>1, <1>3, <1>5, <2>3 DEF Good
    <3> QED
      BY <2>1, <2>2, <2>4, <3>1, SetSubtreeTree
  <2>6. Good(e) /\ SameChain(e, d) /\ SameBlock(e, d) /\ e.commitIndex = d.commitIndex
    BY <1>1, <2>1, SetSubtreeGood
  <2>7. /\ e.head = db.head /\ e.byBlocknumIndex = db.byBlocknumIndex
        /\ e.blockContext = NoBlock /\ e.currentTerm = d.currentTerm
        /\ e.commitIndex = db.commitIndex
    BY <1>1, <2>6 DEF SameChain, SameBlock
  <2> DEFINE c == Ancestor(db.head, db.commitIndex)
  <2>8. IsAncestor(c, k)
    <3>1. c \in Block /\ IsAncestor(c, Final) /\ Len(c) = db.commitIndex
      BY DbFacts
    <3>2. IsAncestor(k, Final) /\ Final \in Block
      BY WorldBlock, BlockSyncAssumption DEF MayCommit, k
    <3>3. Len(c) <= Len(k)
      BY <1>1, <1>3, <1>5, <2>3, <3>1
    <3> QED
      BY <2>3, <3>1, <3>2, <3>3, ComparableAncestors
  <2>9. ASSUME NEW x \in e.byOrderIndex PROVE ExtendsCommitted(e, x)
    <3>1. IsAncestor(k, x) /\ x \in Block
      BY <2>5, <2>6 DEF Tree, Good, DbType
    <3>2. c \in Block
      BY DbFacts
    <3>3. IsAncestor(c, x)
      BY <2>3, <2>8, <3>1, <3>2, IsAncestorTrans
    <3> QED
      BY <2>7, <3>3 DEF ExtendsCommitted
  <2>10. b \in e.byOrderIndex
    BY <1>1, <2>3, <2>5 DEF Tree
  <2>11. AtLeast(b, Term(db.head), Len(db.head))
    <3>1. SUFFICES ASSUME OrderLess(b, db.head) PROVE FALSE
      BY <1>3 DEF OrderLess, AtLeast, BlockNum
    <3>2. IsAncestor(k, db.head)
      BY <1>3, <3>1, WorldBlock DEF MayCommit, k
    <3>3. Len(k) \in 1..Len(db.head) /\ Ancestor(db.head, Len(k)) = k
      BY <1>3, <2>3, <3>2, BlockFacts DEF IsAncestor
    <3>4. /\ d.commitIndex \in DOMAIN d.byBlocknumIndex
          /\ \A i \in DOMAIN d.byBlocknumIndex : d.byBlocknumIndex[i] = Ancestor(d.head, i)
          /\ \A i \in DOMAIN d.byBlocknumIndex, j \in 1..Len(d.head) :
               i <= j => j \in DOMAIN d.byBlocknumIndex
      BY <1>1, IndexFacts DEF Good
    <3>5. d.commitIndex <= Len(k)
      BY <1>1, <1>3, <1>5, <2>3
    <3>6. Len(k) \in DOMAIN d.byBlocknumIndex
      BY <1>1, <3>3, <3>4, <3>5
    <3> QED
      BY <1>1, <1>5, <3>3, <3>4, <3>6 DEF InBestChain
  <2>12. \E rr, qq \in e.states : Tree(e, rr, qq)
    BY <2>2, <2>4, <2>5
  <2> QED
    BY <1>1, <2>5, <2>6, <2>7, <2>9, <2>10, <2>11, <2>12 DEF AcceptedOK
<1>6. e = d \/ (CommitNum(b) > d.commitIndex /\ ~InBestChain(d, k))
  BY Zenon DEF FollowCommitNum
<1> QED
  BY <1>2, <1>4, <1>5, <1>6

\* The best block becomes the head, and may commit what the new blocks say.
LEMMA SwitchedDb ==
  ASSUME NEW db, DbOK(db), NEW b \in World, NEW e, AcceptedOK(e, db, b), NEW original \in Block
  PROVE  LET d == SwitchOnce(e, original).db
         IN  /\ DbOK(d) /\ d.states = db.states \cup {b} /\ KeepsIrreversible(d, db)
<1>0. /\ db.head \in World /\ db.head \in Block /\ Len(db.head) \in Nat /\ Term(db.head) \in Nat
      /\ db.commitIndex \in Nat /\ db.commitIndex \in 1..Len(db.head) /\ db.states \subseteq World
      /\ MayCommit(db.head, db.commitIndex)
  BY DbFacts, BlockFacts DEF DbOK
<1>1. /\ Good(e) /\ e.states = db.states \cup {b} /\ e.head = db.head
      /\ e.commitIndex = db.commitIndex /\ e.blockContext = NoBlock
      /\ \A x \in e.byOrderIndex : ExtendsCommitted(e, x)
  BY DEF AcceptedOK
<1>2. PICK r, q \in e.states : Tree(e, r, q)
  BY DEF AcceptedOK
<1>3. PICK x \in e.byOrderIndex : Term(x) <= e.currentTerm
                                  /\ AtLeast(x, Term(db.head), Len(db.head))
  BY DEF AcceptedOK
<1>4. e.states \subseteq World
  BY <1>0, <1>1
<1>5. \A y \in e.states : TermsGrow(y) /\ AllValid(y)
  BY <1>4, WorldTerms
<1>6. OneChainPerTerm(e.states)
  BY <1>4, WorldOneChain
<1>7. PICK bound \in Nat : \A y \in e.states : Len(y) <= bound
  <2>1. PICK n \in Nat : \A y \in db.states : Len(y) <= n
    BY DEF DbOK
  <2>2. Len(b) \in Nat /\ \A y \in db.states : Len(y) \in Nat
    BY <1>0, WorldBlock
  <2>3. n + Len(b) \in Nat /\ \A y \in e.states : Len(y) <= n + Len(b)
    BY <1>1, <2>1, <2>2
  <2> QED
    BY <2>3
<1> DEFINE d == SwitchOnce(e, original).db
<1>8. /\ d.head \in e.byOrderIndex /\ Term(d.head) <= e.currentTerm
      /\ \A y \in e.byOrderIndex : Term(y) <= e.currentTerm => AtLeast(d.head, Term(y), Len(y))
      /\ Tidy(d) /\ d.states = e.states
      /\ \/ d.commitIndex = e.commitIndex
         \/ \E y \in e.states : IsAncestor(y, d.head) /\ d.commitIndex \in 1..CommitNum(y)
  BY <1>1, <1>2, <1>3, <1>5, <1>6, <1>7, SwitchOnceTree
<1>9. Good(d) /\ SameBlock(d, e) /\ KeepsIrreversible(d, e)
  BY <1>1, SwitchOnceGood
<1> HIDE DEF d
<1>10. e.byOrderIndex \subseteq e.states
  BY <1>2 DEF Tree
<1>11. d.head \in World /\ x \in World /\ d.head \in Block /\ x \in Block
       /\ Term(d.head) \in Nat /\ Term(x) \in Nat
       /\ Len(d.head) \in Nat /\ Len(x) \in Nat
  BY <1>3, <1>4, <1>8, <1>10, WorldBlock, BlockFacts
<1>12. AtLeast(d.head, Term(db.head), Len(db.head))
  BY <1>0, <1>3, <1>8, <1>11 DEF AtLeast
<1>13. KeepsIrreversible(d, db)
  BY <1>1, <1>9 DEF KeepsIrreversible
<1>14. MayCommit(d.head, d.commitIndex)
  <2>1. CASE d.commitIndex = e.commitIndex
    <3>1. /\ db.commitIndex <= Len(d.head)
          /\ Ancestor(db.head, db.commitIndex) = Ancestor(d.head, db.commitIndex)
      BY <1>0, <1>13, AncestorFacts DEF KeepsIrreversible, IsAncestor
    <3> QED
      BY <1>0, <1>1, <1>11, <1>12, <2>1, <3>1, MayCommitLater
  <2>2. ASSUME NEW y \in e.states, IsAncestor(y, d.head), d.commitIndex \in 1..CommitNum(y)
        PROVE  MayCommit(d.head, d.commitIndex)
    <3>1. y \in World /\ y \in Block /\ CommitNum(y) \in 1..Len(y) /\ MayCommit(y, CommitNum(y))
      BY <1>4, WorldBlock, BlockFacts
    <3>2. CommitNum(y) \in 1..Len(d.head) /\ Ancestor(y, CommitNum(y)) = Ancestor(d.head, CommitNum(y))
      BY <1>11, <2>2, <3>1, SameHistory
    <3>3. AtLeast(d.head, Term(y), Len(y))
      BY <1>11, <2>2, <3>1, AncestorAtLeast
    <3>4. CommitNum(y) <= Len(d.head)
      BY <3>2
    <3> QED
      BY <1>11, <2>2, <3>1, <3>2, <3>3, <3>4, MayCommitLater
  <2> QED
    BY <1>8, <2>1, <2>2
<1>15. d.blockContext = NoBlock /\ d.currentTerm = e.currentTerm
  BY <1>1, <1>9 DEF SameBlock
<1>16. DbOK(d)
  BY <1>4, <1>7, <1>8, <1>9, <1>14, <1>15 DEF DbOK
<1> QED
  BY <1>1, <1>8, <1>13, <1>16 DEF d

\* gc.
LEMMA GcDb ==
  ASSUME NEW db, DbOK(db)
  PROVE  LET d == Gc(db)
         IN  /\ DbOK(d) /\ d.head = db.head /\ d.commitIndex = db.commitIndex
             /\ \A b \in World : Has(db, b) => Has(d, b)
<1> DEFINE d == Gc(db)
<1>1. Good(db) /\ Tidy(db) /\ db.states \subseteq World
  BY DEF DbOK
<1>2. /\ Good(d) /\ SameBlock(d, db) /\ d.head = db.head /\ d.commitIndex = db.commitIndex
  BY <1>1, GcGood
<1>3. Tidy(d) /\ d.states = {b \in db.states : ExtendsCommitted(db, b)}
  BY <1>1, GcTree
<1> HIDE DEF d
<1>4. DbOK(d)
  BY <1>1, <1>2, <1>3 DEF DbOK, SameBlock
<1>5. \A b \in World : Has(db, b) => Has(d, b)
  BY <1>2, <1>3 DEF Has, ExtendsCommitted
<1> QED
  BY <1>2, <1>4, <1>5 DEF d

\* commit.
LEMMA CommitDb ==
  ASSUME NEW db, DbOK(db), NEW num \in 1..Len(db.head), MayCommit(db.head, num)
  PROVE  LET d == Commit(db, num)
         IN  /\ DbOK(d) /\ d.head = db.head /\ d.commitIndex >= db.commitIndex
             /\ \A b \in World : Has(db, b) => Has(d, b)
<1> DEFINE d == Commit(db, num)
<1>0. /\ db.head \in World /\ db.head \in Block /\ Len(db.head) \in Nat /\ Term(db.head) \in Nat
      /\ db.commitIndex \in Nat /\ db.commitIndex \in 1..Len(db.head) /\ num \in Nat
  BY DbFacts, BlockFacts
<1>1. Good(db) /\ Tidy(db) /\ db.states \subseteq World
  BY DEF DbOK
<1>2. \A b \in db.states : TermsGrow(b)
  BY <1>1, WorldTerms
<1>3. /\ Tidy(d) /\ d.states = db.states /\ d.head = db.head
      /\ \/ d.commitIndex = db.commitIndex
         \/ d.commitIndex \in 1..num /\ d.commitIndex \in 1..Len(db.head)
  BY <1>0, <1>1, <1>2, CommitTidy
<1>4. Good(d) /\ SameBlock(d, db) /\ d.commitIndex >= db.commitIndex
  BY <1>0, <1>1, CommitGood
<1> HIDE DEF d
<1>5. MayCommit(d.head, d.commitIndex)
  <2>1. CASE d.commitIndex = db.commitIndex
    BY <1>3, <2>1 DEF DbOK
  <2>2. CASE d.commitIndex \in 1..num
    <3>1. AtLeast(db.head, Term(db.head), Len(db.head)) /\ num <= Len(db.head)
      BY <1>0 DEF AtLeast
    <3> QED
      BY <1>0, <1>3, <2>2, <3>1, MayCommitLater
  <2> QED
    BY <1>3, <2>1, <2>2
<1>6. DbOK(d)
  BY <1>3, <1>4, <1>5 DEF DbOK, SameBlock
<1>7. KeepsIrreversible(d, db)
  BY <1>1, <1>3, <1>4, KeepsSameHead
<1>8. \A x \in db.states : ExtendsCommitted(d, x) => x \in d.states
  BY <1>3
<1>9. \A b \in World : Has(db, b) => Has(d, b)
  BY <1>6, <1>7, <1>8, HasStays
<1> QED
  BY <1>3, <1>4, <1>6, <1>9 DEF d

LEMMA NewDbOK == DbOK(NewDb(FirstBlock))
<1> DEFINE d == NewDb(FirstBlock)
<1>1. Final \in World /\ Final \in Block /\ 1 \in 1..Len(Final)
  BY BlockSyncAssumption, WorldBlock
<1>2. /\ FirstBlock \in World /\ FirstBlock \in Block /\ Len(FirstBlock) = 1
      /\ Ancestor(FirstBlock, 1) = FirstBlock
  BY <1>1, WorldBlock, AncestorFacts DEF FirstBlock
<1>3. /\ Good(d) /\ d.blockContext = NoBlock /\ d.currentTerm = Term(FirstBlock)
      /\ d.head = FirstBlock /\ d.commitIndex = 1
  BY <1>2, NewDbGood
<1>4. Tidy(d) /\ d.states = {FirstBlock}
  BY <1>2, NewDbTree
<1> HIDE DEF d
<1>5. \A b \in World : IsAncestor(FirstBlock, b)
  BY <1>2, WorldBlock DEF IsAncestor
<1>6. MayCommit(d.head, d.commitIndex)
  BY <1>1, <1>2, <1>3, <1>5 DEF MayCommit
<1>7. Term(FirstBlock) \in Nat
  BY <1>2, BlockFacts
<1>8. /\ \E bound \in Nat : \A b \in d.states : Len(b) <= bound
      /\ Term(d.head) <= d.currentTerm
  BY <1>2, <1>3, <1>4, <1>7
<1> QED
  BY <1>2, <1>3, <1>4, <1>6, <1>8 DEF DbOK, d

-----------------------------------------------------------------------------
(***************************************************************************)
(* What a node's peer may rely on: the node goes on having what it has,    *)
(* and a search for a common block that has ended is not resumed.          *)
(***************************************************************************)
StateAdvance(new, old) ==
  old.tag # "none" =>
    /\ new.tag # "none"
    /\ new.tag = "start" =>
         /\ old.tag = "start"
         /\ old.committed => new.committed /\ new.hello = old.hello

Advance(t, s) ==
  /\ \A b \in World : Has(s.db, b) => Has(t.db, b)
  /\ StateAdvance(t.state, s.state)

LEMMA AdvanceTrans ==
  ASSUME NEW s, NEW t, NEW u, Advance(t, s), Advance(u, t)
  PROVE  Advance(u, s)
  BY DEF Advance, StateAdvance

LEMMA EndedStays ==
  ASSUME NEW new, NEW old, StateAdvance(new, old), old.tag # "none", NEW c, EndedWith(old, c)
  PROVE  EndedWith(new, c)
  BY DEF StateAdvance, EndedWith

\* The parts of a flow.
LEMMA FlowFacts ==
  ASSUME NEW s, NEW K, NEW y, Flow(s, K, y)
  PROVE  /\ DOMAIN s = Fields /\ s.sending \in BOOLEAN
         /\ K \in Seq(Message) /\ s.out \in Seq(Message)
         /\ K \o s.out \in Seq(Message) /\ Len(K \o s.out) \in Nat
         /\ \A i \in 1..Len(K \o s.out) :
              /\ (K \o s.out)[i] \in Message /\ (K \o s.out)[i].xid \in World
              /\ MessageOK(s, K \o s.out, y, i)
         /\ DbOK(s.db) /\ StateOK(s, K \o s.out, y)
<1>1. /\ DOMAIN s = Fields /\ s.sending \in BOOLEAN
      /\ K \in Seq(Message) /\ s.out \in Seq(Message)
      /\ DbOK(s.db) /\ StateOK(s, K \o s.out, y)
      /\ \A i \in 1..Len(K \o s.out) : MessageOK(s, K \o s.out, y, i)
  BY DEF Flow
<1> DEFINE C == K \o s.out
<1>2. C \in Seq(Message)
  BY <1>1
<1> HIDE DEF C
<1>3. Len(C) \in Nat /\ \A i \in 1..Len(C) : C[i] \in Message
  BY <1>2
<1>4. \A i \in 1..Len(C) : C[i].xid \in World
  BY <1>3 DEF Message
<1> QED
  BY <1>1, <1>2, <1>3, <1>4 DEF C

\* A node that is not connected has sent nothing.
LEMMA NoneSent ==
  ASSUME NEW s, NEW K, NEW y, Flow(s, K, y), NEW i \in 1..Len(K \o s.out)
  PROVE  s.state.tag # "none"
<1>1. StateOK(s, K \o s.out, y)
  BY FlowFacts
<1>2. K \o s.out # <<>>
  BY FlowFacts
<1> QED
  BY <1>1, <1>2 DEF StateOK

\* The messages on their way remain what they are when the sender goes on.
LEMMA MessagesStay ==
  ASSUME NEW s, NEW t, NEW K, NEW y, Flow(s, K, y), Advance(t, s),
         NEW i \in 1..Len(K \o s.out)
  PROVE  MessageOK(t, K \o s.out, y, i)
<1> DEFINE C == K \o s.out
<1>1. s.state.tag # "none"
  BY NoneSent
<1>2. MessageOK(s, C, y, i) /\ C[i].xid \in World
  BY FlowFacts
<1> HIDE DEF C
<1>3. Has(t.db, C[i].xid)
  BY <1>2 DEF MessageOK, Advance
<1>4. ASSUME C[i].committed PROVE EndedWith(t.state, C[i].xid)
  <2>1. EndedWith(s.state, C[i].xid) /\ StateAdvance(t.state, s.state)
    BY <1>2, <1>4 DEF MessageOK, Advance
  <2> QED
    BY <1>1, <2>1, EndedStays
<1>5. MessageOK(t, C, y, i)
  BY <1>2, <1>3, <1>4 DEF MessageOK
<1> QED
  BY <1>5 DEF C

\* One more message is sent.
LEMMA MessageAdded ==
  ASSUME NEW s, NEW t, NEW K, NEW y, Flow(s, K, y), Advance(t, s),
         NEW m \in Message, t.out = Append(s.out, m),
         Has(t.db, m.xid),
         m.committed => IsAncestor(m.xid, Final) /\ EndedWith(t.state, m.xid),
         m.type = "block" => /\ m = BlockMessage(m.xid) /\ Len(m.xid) >= 2
                             /\ WillHave(y, K \o s.out, Previous(m.xid))
  PROVE  /\ t.out \in Seq(Message) /\ K \o t.out = Append(K \o s.out, m)
         /\ \A i \in 1..Len(K \o t.out) : MessageOK(t, K \o t.out, y, i)
<1> DEFINE C == K \o s.out
           D == Append(C, m)
<1>1. K \in Seq(Message) /\ s.out \in Seq(Message)
  BY FlowFacts
<1>2. t.out \in Seq(Message) /\ K \o t.out = D
  <2>1. K \o Append(s.out, m) = Append(K \o s.out, m)
    BY <1>1
  <2> QED
    BY <1>1, <2>1
<1>3. C \in Seq(Message) /\ Len(C) \in Nat
  BY FlowFacts
<1>4. \A i \in 1..Len(C) : MessageOK(t, C, y, i)
  BY MessagesStay
<1> HIDE DEF C
<1>5. Len(D) = Len(C) + 1 /\ D[Len(C) + 1] = m /\ \A i \in 1..Len(C) : D[i] = C[i]
  BY <1>3
<1> HIDE DEF D
<1>6. ASSUME NEW i \in 1..Len(C) PROVE MessageOK(t, D, y, i)
  <2>1. MessageOK(t, C, y, i) /\ D[i] = C[i] /\ \A j \in 1..(i - 1) : D[j] = C[j]
    BY <1>3, <1>4, <1>5
  <2> QED
    BY <2>1 DEF MessageOK
<1>7. MessageOK(t, D, y, Len(C) + 1)
  <2>1. ASSUME Carries(C, Previous(m.xid))
        PROVE  \E j \in 1..((Len(C) + 1) - 1) : D[j] = BlockMessage(Previous(m.xid))
    <3>1. PICK j \in 1..Len(C) : C[j] = BlockMessage(Previous(m.xid))
      BY <2>1 DEF Carries
    <3>2. D[j] = BlockMessage(Previous(m.xid)) /\ j \in 1..((Len(C) + 1) - 1)
      BY <1>3, <1>5, <3>1
    <3> QED
      BY <3>2
  <2>2. D[Len(C) + 1] = m
    BY <1>5
  <2>3. m.type = "block" => /\ m = BlockMessage(m.xid) /\ Len(m.xid) >= 2
                            /\ Has(y.db, Previous(m.xid)) \/ Carries(C, Previous(m.xid))
    BY DEF WillHave, C
  <2> QED
    BY <2>1, <2>2, <2>3 DEF MessageOK
<1>8. \A i \in 1..Len(D) : MessageOK(t, D, y, i)
  <2>1. \A i \in 1..Len(D) : i \in 1..Len(C) \/ i = Len(C) + 1
    BY <1>3, <1>5
  <2> QED
    BY <1>6, <1>7, <2>1
<1> QED
  BY <1>2, <1>8 DEF D, C

LEMMA PreviousInWorld ==
  ASSUME NEW b \in World, Len(b) >= 2
  PROVE  /\ Previous(b) \in World /\ IsAncestor(Previous(b), b)
         /\ Len(Previous(b)) = Len(b) - 1 /\ Previous(b) = Ancestor(b, Len(b) - 1)
<1>1. b \in Block /\ Len(b) \in Nat /\ Len(b) - 1 \in 1..Len(b)
  BY WorldBlock
<1>2. Previous(b) = Ancestor(b, Len(b) - 1)
  BY DEF Previous, Ancestor
<1> QED
  BY <1>1, <1>2, WorldBlock, AncestorFacts, IsAncestorOfBlock

\* A step of the receiver disturbs nothing.
LEMMA ReceiverAdvances ==
  ASSUME NEW s, NEW K, NEW y, NEW t, Link(s, K, y), Advance(t, y)
  PROVE  Link(s, K, t)
<1> DEFINE C == K \o s.out
<1>1. /\ DOMAIN s = Fields /\ s.sending \in BOOLEAN
      /\ K \in Seq(Message) /\ s.out \in Seq(Message)
      /\ \A i \in 1..Len(C) : C[i].xid \in World /\ MessageOK(s, C, y, i)
      /\ DbOK(s.db) /\ StateOK(s, C, y)
  BY FlowFacts DEF Link
<1> HIDE DEF C
<1>2. StateOK(s, C, t)
  <2>1. ASSUME s.state.tag = "start", StartOK(s, y) PROVE StartOK(s, t)
    <3>1. ASSUME s.state.common # None PROVE CommonOK(s.db, t, s.state.common)
      <4>1. CommonOK(s.db, y, s.state.common)
        BY <2>1, <3>1 DEF StartOK
      <4>2. /\ s.state.common \in World /\ Has(t.db, s.state.common)
            /\ t.state.tag # "none" /\ y.state.tag # "none"
        BY <4>1 DEF CommonOK, Advance, StateAdvance
      <4>3. EndedWith(y.state, s.state.common) => EndedWith(t.state, s.state.common)
        BY <4>2, EndedStays DEF Advance
      <4> QED
        BY <4>1, <4>2, <4>3 DEF CommonOK
    <3> QED
      BY <2>1, <3>1 DEF StartOK
  <2>2. ASSUME ReadyOK(s, C, y) PROVE ReadyOK(s, C, t)
    BY <2>2 DEF ReadyOK, WillHave, Advance
  <2> QED
    BY <1>1, <2>1, <2>2 DEF StateOK
<1>3. ASSUME NEW i \in 1..Len(C) PROVE MessageOK(s, C, t, i)
  <2>1. MessageOK(s, C, y, i) /\ C[i].xid \in World
    BY <1>1
  <2>2. ASSUME C[i].type = "block", Has(y.db, Previous(C[i].xid))
        PROVE  Has(t.db, Previous(C[i].xid))
    <3>1. Previous(C[i].xid) \in World
      BY <2>1, <2>2, PreviousInWorld DEF MessageOK
    <3> QED
      BY <2>2, <3>1 DEF Advance
  <2> QED
    BY <2>1, <2>2 DEF MessageOK
<1>4. Flow(s, K, t)
  BY <1>1, <1>2, <1>3 DEF Flow, C
<1>5. WaitOK(s, t)
  BY DEF Link, WaitOK, Advance, StateAdvance
<1> QED
  BY <1>4, <1>5 DEF Link

\* A step that sends nothing.
LEMMA FlowIntro ==
  ASSUME NEW s, NEW t, NEW K, NEW y, Flow(s, K, y), Advance(t, s),
         DOMAIN t = Fields, t.sending \in BOOLEAN, t.out = s.out,
         DbOK(t.db), StateOK(t, K \o s.out, y)
  PROVE  Flow(t, K, y)
<1>1. K \in Seq(Message) /\ s.out \in Seq(Message)
  BY FlowFacts
<1>2. \A i \in 1..Len(K \o s.out) : MessageOK(t, K \o s.out, y, i)
  BY MessagesStay
<1> QED
  BY <1>1, <1>2 DEF Flow

\* t differs from s in its database only, and in what was posted.
SameConnection(t, s) ==
  /\ DOMAIN t = Fields /\ t.state = s.state /\ t.sending = s.sending /\ t.out = s.out

LEMMA SameAdvance ==
  ASSUME NEW old
  PROVE  StateAdvance(old, old)
  BY DEF StateAdvance

\* The database changes, and the head does not.
LEMMA DbChanges ==
  ASSUME NEW s, NEW t, NEW K, NEW y, Link(s, K, y), SameConnection(t, s), DbOK(t.db),
         t.db.head = s.db.head, t.db.commitIndex >= s.db.commitIndex,
         \A b \in World : Has(s.db, b) => Has(t.db, b)
  PROVE  Link(t, K, y) /\ Advance(t, s)
<1> DEFINE C == K \o s.out
<1>1. Flow(s, K, y) /\ WaitOK(s, y) /\ DbOK(s.db) /\ StateOK(s, C, y) /\ s.sending \in BOOLEAN
  BY FlowFacts DEF Link
<1>2. Advance(t, s)
  BY SameAdvance DEF Advance, SameConnection
<1> HIDE DEF C
<1>3. s.db.commitIndex \in Nat /\ t.db.commitIndex \in Nat
  BY <1>1, DbFacts
<1>4. StateOK(t, C, y)
  <2>1. ASSUME s.state.tag = "start", StartOK(s, y) PROVE StartOK(t, y)
    <3>1. t.state = s.state /\ t.db.head = s.db.head
      BY DEF SameConnection
    <3>2. ASSUME s.state.committed PROVE Len(s.state.hello) <= t.db.commitIndex
      <4>1. Len(s.state.hello) \in Nat /\ Len(s.state.hello) <= s.db.commitIndex
        BY <2>1, <3>2, WorldBlock DEF StartOK
      <4> QED
        BY <1>3, <4>1
    <3> QED
      BY <2>1, <3>1, <3>2 DEF StartOK, CommonOK
  <2>2. ASSUME ReadyOK(s, C, y) PROVE ReadyOK(t, C, y)
    BY <2>2 DEF ReadyOK, SameConnection
  <2> QED
    BY <1>1, <2>1, <2>2 DEF StateOK, SameConnection
<1>5. Flow(t, K, y)
  BY <1>1, <1>2, <1>4, FlowIntro DEF C, SameConnection
<1>6. WaitOK(t, y)
  BY <1>1 DEF WaitOK, SameConnection
<1> QED
  BY <1>2, <1>5, <1>6 DEF Link

LEMMA SameDb ==
  ASSUME NEW s, NEW t, NEW K, NEW y, Link(s, K, y), SameConnection(t, s), t.db = s.db
  PROVE  Link(t, K, y) /\ Advance(t, s)
<1>1. DbOK(s.db)
  BY FlowFacts DEF Link
<1>2. s.db.commitIndex \in Nat
  BY <1>1, DbFacts
<1> QED
  BY <1>1, <1>2, DbChanges

-----------------------------------------------------------------------------
(***************************************************************************)
(* async_send_next.                                                        *)
(***************************************************************************)
\* It follows the last hello or block that was sent.  t is s after the call.
Sends(t, s, K, y) == Link(t, K, y) /\ Advance(t, s) /\ t.db = s.db

LEMMA SendNextReadyLink ==
  ASSUME NEW s, NEW K, NEW y, Flow(s, K, y), s.state.tag = "ready"
  PROVE  Sends(SendNextReady(s), s, K, y)
<1> DEFINE st == s.state
           C == K \o s.out
           t == SendNextReady(s)
<1>1. DOMAIN s = Fields /\ s.sending \in BOOLEAN /\ DbOK(s.db) /\ StateOK(s, C, y)
      /\ C \in Seq(Message)
  BY FlowFacts
<1>2. /\ st = ConnectionStateReady(st.last_sent, st.last_received)
      /\ st.last_sent \in World /\ IsAncestor(st.last_sent, s.db.head)
      /\ WillHave(y, C, st.last_sent)
      /\ st.last_received \in World /\ Has(y.db, st.last_received)
  BY <1>1 DEF StateOK, ReadyOK, NotConnected
<1>3. /\ s.db.head \in World /\ s.db.head \in Block /\ Len(s.db.head) \in Nat
      /\ st.last_sent \in Block
      /\ Len(st.last_sent) \in Nat /\ Len(st.last_sent) >= 1
      /\ Len(st.last_sent) <= Len(s.db.head)
  BY <1>1, <1>2, DbFacts, WorldBlock DEF IsAncestor
<1>4. CASE Len(st.last_sent) = Len(s.db.head)
  <2>1. t = s
    BY <1>4, Zenon DEF SendNextReady, BlockNum
  <2>2. WaitOK(s, y)
    BY DEF WaitOK
  <2>3. Advance(s, s)
    BY SameAdvance DEF Advance
  <2> QED
    BY <2>1, <2>2, <2>3 DEF Sends, Link
<1>5. CASE Len(st.last_sent) # Len(s.db.head)
  <2> DEFINE num == Len(st.last_sent)
             next == Ancestor(s.db.head, num + 1)
             m == BlockMessage(next)
  <2>1. num + 1 \in 1..Len(s.db.head) /\ num + 1 <= Len(s.db.head) /\ num \in 1..(num + 1)
    BY <1>3, <1>5
  <2>2. next \in World /\ next \in Block /\ Len(next) = num + 1 /\ IsAncestor(next, s.db.head)
    BY <1>3, <2>1, WorldBlock, AncestorFacts, IsAncestorOfBlock
  <2>3. Previous(next) = st.last_sent /\ Len(next) >= 2
    <3>1. Len(next) >= 2 /\ Len(next) - 1 = num
      BY <1>3, <2>2
    <3>2. Previous(next) = Ancestor(next, num)
      BY <2>2, <3>1, PreviousInWorld
    <3>3. Ancestor(next, num) = Ancestor(s.db.head, num)
      BY <1>3, <2>1, AncestorOfAncestor
    <3> QED
      BY <1>2, <3>1, <3>2, <3>3 DEF IsAncestor
  <2>4. GetBlockId(s.db, num + 1) = next
    BY <2>1 DEF GetBlockId, BlockNum
  <2>5. next # None
    BY <2>2, <1>3 DEF None
  <2>6. t = SendBlock(s, next)
    <3> HIDE DEF next
    <3> QED
      BY <1>5, <2>4, <2>5, Zenon DEF SendNextReady, BlockNum
  <2> HIDE DEF next
  <2>7. /\ DOMAIN t = Fields /\ t.db = s.db /\ t.sending = TRUE /\ t.out = Append(s.out, m)
        /\ t.state = ConnectionStateReady(next, st.last_received)
    <3>1. [st EXCEPT !.last_sent = next] = ConnectionStateReady(next, st.last_received)
      BY <1>2 DEF ConnectionStateReady
    <3>2. t = [s EXCEPT !.state = [st EXCEPT !.last_sent = next], !.out = Append(s.out, m),
                        !.sending = TRUE, !.posted = @ \cup {next}]
      BY <1>1, <2>6 DEF SendBlock, PostSendBlock, Send, Fields
    <3> QED
      BY <1>1, <3>1, <3>2 DEF Fields
  <2> HIDE DEF t
  <2>8. /\ t.state.tag = "ready" /\ t.state.last_sent = next
        /\ t.state.last_received = st.last_received
    BY <2>7 DEF ConnectionStateReady
  <2>9. Advance(t, s)
    BY <2>7, <2>8 DEF Advance, StateAdvance
  <2>10. m \in Message /\ m.xid = next /\ m.committed = FALSE
    BY <2>2 DEF Message, BlockMessage
  <2>11. Has(t.db, m.xid)
    BY <1>1, <2>2, <2>7, <2>10, HasBestChain
  <2>12. /\ t.out \in Seq(Message) /\ K \o t.out = Append(C, m)
         /\ \A i \in 1..Len(K \o t.out) : MessageOK(t, K \o t.out, y, i)
    <3>1. m = BlockMessage(m.xid) /\ Len(m.xid) >= 2 /\ WillHave(y, C, Previous(m.xid))
      BY <1>2, <2>3, <2>10
    <3>2. m.committed => IsAncestor(m.xid, Final) /\ EndedWith(t.state, m.xid)
      BY <2>10
    <3> QED
      BY <2>7, <2>9, <2>10, <2>11, <3>1, <3>2, MessageAdded
  <2>13. ReadyOK(t, K \o t.out, y)
    <3>1. Len(Append(C, m)) = Len(C) + 1 /\ Append(C, m)[Len(C) + 1] = m /\ Len(C) \in Nat
      BY <1>1
    <3>2. Carries(K \o t.out, next)
      BY <2>12, <3>1 DEF Carries
    <3> QED
      BY <1>2, <2>2, <2>7, <2>8, <3>2 DEF ReadyOK, WillHave
  <2>14. Flow(t, K, y)
    <3>1. K \in Seq(Message)
      BY FlowFacts
    <3>2. StateOK(t, K \o t.out, y)
      BY <2>8, <2>13 DEF StateOK
    <3> QED
      BY <1>1, <2>7, <2>12, <3>1, <3>2 DEF Flow
  <2>15. WaitOK(t, y)
    BY <2>8 DEF WaitOK
  <2> QED
    BY <2>7, <2>9, <2>14, <2>15 DEF Sends, Link, t
<1> QED
  BY <1>4, <1>5

\* A connection is ready with a block of the best chain that the peer has.
LEMMA BecomesReady ==
  ASSUME NEW s, NEW t, NEW K, NEW y, Flow(s, K, y),
         DOMAIN t = Fields, t.sending = s.sending, t.out = s.out,
         DbOK(t.db), \A b \in World : Has(s.db, b) => Has(t.db, b),
         NEW sent \in World, IsAncestor(sent, t.db.head), WillHave(y, K \o s.out, sent),
         NEW received \in World, Has(y.db, received),
         t.state = ConnectionStateReady(sent, received)
  PROVE  Link(t, K, y) /\ Advance(t, s) /\ t.state.tag = "ready"
<1>1. /\ t.state.tag = "ready" /\ t.state.last_sent = sent /\ t.state.last_received = received
  BY DEF ConnectionStateReady
<1>2. Advance(t, s)
  BY <1>1 DEF Advance, StateAdvance
<1>3. StateOK(t, K \o s.out, y)
  BY <1>1 DEF StateOK, ReadyOK
<1>4. s.sending \in BOOLEAN
  BY FlowFacts
<1>5. Flow(t, K, y)
  BY <1>2, <1>3, <1>4, FlowIntro
<1>6. WaitOK(t, y)
  BY <1>1 DEF WaitOK
<1> QED
  BY <1>1, <1>2, <1>5, <1>6 DEF Link

\* The fields of a node that is looking for a common block.
LEMMA StartFacts ==
  ASSUME NEW s, NEW K, NEW y, Flow(s, K, y), s.state.tag = "start"
  PROVE  LET st == s.state
         IN  /\ st = ConnectionStateStart(st.hello, st.committed, st.hello_sent, st.common)
             /\ st.committed \in BOOLEAN /\ st.hello_sent \in BOOLEAN
             /\ st.hello \in World /\ IsAncestor(st.hello, s.db.head)
             /\ st.committed => Len(st.hello) <= s.db.commitIndex
             /\ st.common # None => CommonOK(s.db, y, st.common)
<1>1. StateOK(s, K \o s.out, y)
  BY FlowFacts
<1> QED
  BY <1>1 DEF StateOK, StartOK, NotConnected

\* A block that is irreversible for some node, and not after the last irreversible
\* block, is in the best chain.
LEMMA FinalInBestChain ==
  ASSUME NEW db, DbOK(db), NEW c \in World, IsAncestor(c, Final), Len(c) <= db.commitIndex
  PROVE  IsAncestor(c, db.head)
<1> DEFINE k == Ancestor(db.head, db.commitIndex)
<1>1. /\ k \in Block /\ Len(k) = db.commitIndex /\ IsAncestor(k, Final) /\ IsAncestor(k, db.head)
      /\ c \in Block /\ Final \in Block /\ db.head \in Block
  BY DbFacts, WorldBlock, BlockSyncAssumption
<1>2. IsAncestor(c, k)
  BY <1>1, ComparableAncestors
<1> QED
  BY <1>1, <1>2, IsAncestorTrans

\* The other way round.
LEMMA BestChainInFinal ==
  ASSUME NEW db, DbOK(db), NEW c \in World, IsAncestor(c, db.head), Len(c) <= db.commitIndex
  PROVE  IsAncestor(c, Final)
<1> DEFINE k == Ancestor(db.head, db.commitIndex)
<1>1. /\ k \in Block /\ Len(k) = db.commitIndex /\ IsAncestor(k, Final) /\ IsAncestor(k, db.head)
      /\ c \in Block /\ Final \in Block /\ db.head \in Block
  BY DbFacts, WorldBlock, BlockSyncAssumption
<1>2. IsAncestor(c, k)
  BY <1>1, ComparableAncestors
<1> QED
  BY <1>1, <1>2, IsAncestorTrans

\* A new connection is made ready, and the first block is sent.
LEMMA MakeReadyLink ==
  ASSUME NEW s, NEW K, NEW y, Flow(s, K, y),
         NEW c \in World, IsAncestor(c, s.db.head), Has(y.db, c)
  PROVE  LET t == MakeReady(s, c)
         IN  Link(t, K, y) /\ Advance(t, s) /\ t.db = s.db /\ t.state.tag = "ready"
             /\ t.sending = s.sending
<1> DEFINE t == MakeReady(s, c)
<1>1. DOMAIN s = Fields
  BY FlowFacts
<1>2. /\ DOMAIN t = Fields /\ t.db = s.db /\ t.sending = s.sending /\ t.out = s.out
      /\ t.state = ConnectionStateReady(c, c)
  BY <1>1 DEF MakeReady, Fields
<1> HIDE DEF t
<1>3. WillHave(y, K \o s.out, c)
  BY DEF WillHave
<1>4. Link(t, K, y) /\ Advance(t, s) /\ t.state.tag = "ready"
  <2>1. DbOK(t.db) /\ IsAncestor(c, t.db.head) /\ \A b \in World : Has(s.db, b) => Has(t.db, b)
    BY <1>2, FlowFacts
  <2> QED
    BY <1>2, <1>3, <2>1, BecomesReady
<1> QED
  BY <1>2, <1>4 DEF t

LEMMA FinishStartLink ==
  ASSUME NEW s, NEW K, NEW y, Flow(s, K, y), DbOK(y.db),
         s.state.tag = "start", s.state.committed
  PROVE  Sends(FinishStart(s), s, K, y)
<1> DEFINE st == s.state
           c == st.common
<1>1. /\ st.hello \in World /\ Len(st.hello) <= s.db.commitIndex
      /\ c # None => CommonOK(s.db, y, c)
  BY StartFacts
<1>2. DbOK(s.db)
  BY FlowFacts
<1>3. s.db.head \in World /\ s.db.head \in s.db.states /\ s.db.commitIndex \in Nat
      /\ s.db.head \in Block
  BY <1>2, DbFacts
<1>4. Advance(s, s)
  BY SameAdvance DEF Advance
<1>5. ASSUME NEW a \in World, IsAncestor(a, s.db.head), Has(y.db, a)
      PROVE  Sends(SendNextReady(MakeReady(s, a)), s, K, y)
  <2> DEFINE t == MakeReady(s, a)
  <2>1. Link(t, K, y) /\ Advance(t, s) /\ t.db = s.db /\ t.state.tag = "ready"
    BY <1>5, MakeReadyLink
  <2> HIDE DEF t
  <2>2. Flow(t, K, y)
    BY <2>1 DEF Link
  <2>3. Sends(SendNextReady(t), t, K, y)
    BY <2>1, <2>2, SendNextReadyLink
  <2>4. Advance(SendNextReady(t), s)
    BY <2>1, <2>3, AdvanceTrans DEF Sends
  <2> QED
    BY <2>1, <2>3, <2>4 DEF Sends, t
<1>6. CASE c = None
  <2>1. FinishStart(s) = s
    BY <1>6 DEF FinishStart
  <2>2. WaitOK(s, y)
    BY <1>6 DEF WaitOK
  <2> QED
    BY <1>4, <2>1, <2>2 DEF Sends, Link
<1>7. CASE c # None /\ c \in s.db.states
  <2> DEFINE a == GetCommonAncestor(s.db, c)
  <2>1. c \in World /\ Has(y.db, c)
    BY <1>1, <1>7 DEF CommonOK
  <2>2. a \in World /\ IsAncestor(a, c) /\ IsAncestor(a, s.db.head)
    BY <1>3, <2>1, CommonAncestor
  <2> HIDE DEF a
  <2>3. a \in Block
    BY <2>2, WorldBlock
  <2>4. Has(y.db, a)
    BY <2>1, <2>2, <2>3, HasAncestors
  <2>5. FinishStart(s) = SendNextReady(MakeReady(s, a))
    BY <1>7 DEF FinishStart, a
  <2> QED
    BY <1>5, <2>2, <2>4, <2>5
<1>8. CASE c # None /\ c \notin s.db.states /\ Len(c) > s.db.commitIndex
  <2>1. FinishStart(s) = s
    BY <1>8 DEF FinishStart, BlockNum
  <2>2. c \in World /\ c \in Block /\ CommonOK(s.db, y, c) /\ Len(c) \in Nat
    BY <1>1, <1>8, WorldBlock DEF CommonOK
  <2>3. ~IsAncestor(c, s.db.head)
    <3>1. SUFFICES ASSUME IsAncestor(c, s.db.head) PROVE FALSE
      OBVIOUS
    <3>2. Len(c) >= s.db.commitIndex
      BY <1>3, <1>8, <2>2
    <3>3. c \in s.db.states
      BY <1>2, <1>3, <2>2, <3>1, <3>2, DbTree
    <3> QED
      BY <1>8, <3>3
  <2>4. y.state.tag # "none" /\ EndedWith(y.state, c)
    BY <2>2, <2>3 DEF CommonOK
  <2>5. Len(c) > Len(st.hello)
    <3>1. Len(st.hello) \in Nat
      BY <1>1, WorldBlock
    <3> QED
      BY <1>1, <1>3, <1>8, <2>2, <3>1
  <2>6. WaitOK(s, y)
    BY <2>4, <2>5 DEF WaitOK, EndedWith
  <2> QED
    BY <1>4, <2>1, <2>6 DEF Sends, Link
<1>9. CASE c # None /\ c \notin s.db.states /\ ~(Len(c) > s.db.commitIndex)
  <2>1. FinishStart(s) = SendNextReady(MakeReady(s, c))
    BY <1>9 DEF FinishStart, BlockNum
  <2>2. c \in World /\ CommonOK(s.db, y, c) /\ Len(c) \in Nat
    BY <1>1, <1>9, WorldBlock DEF CommonOK
  <2>3. IsAncestor(c, s.db.head)
    <3>1. Len(c) <= s.db.commitIndex
      BY <1>3, <1>9, <2>2
    <3> QED
      BY <1>2, <2>2, <3>1, FinalInBestChain DEF CommonOK
  <2>4. Has(y.db, c)
    BY <2>2 DEF CommonOK
  <2> QED
    BY <1>5, <2>1, <2>2, <2>3, <2>4
<1> QED
  BY <1>6, <1>7, <1>8, <1>9

LEMMA SendHelloLink ==
  ASSUME NEW s, NEW K, NEW y, Flow(s, K, y), s.state.tag = "start", ~s.state.committed,
         NEW hello \in World, IsAncestor(hello, s.db.head)
  PROVE  Sends(SendHello(s, hello), s, K, y)
<1> DEFINE st == s.state
           C == K \o s.out
           committed == Len(hello) <= s.db.commitIndex
           m == HelloRequest(hello, committed)
           t == SendHello(s, hello)
<1>1. DOMAIN s = Fields /\ s.sending \in BOOLEAN /\ DbOK(s.db) /\ K \in Seq(Message)
  BY FlowFacts
<1>2. st.common # None => CommonOK(s.db, y, st.common)
  BY StartFacts
<1>3. /\ DOMAIN t = Fields /\ t.db = s.db /\ t.sending = TRUE /\ t.out = Append(s.out, m)
      /\ t.state = ConnectionStateStart(hello, committed, TRUE, st.common)
  BY <1>1 DEF SendHello, Send, Fields, BlockNum
<1> HIDE DEF t
<1>4. /\ t.state.tag = "start" /\ t.state.hello = hello /\ t.state.committed = committed
      /\ t.state.hello_sent = TRUE /\ t.state.common = st.common
  BY <1>3 DEF ConnectionStateStart
<1>5. Advance(t, s)
  BY <1>3, <1>4 DEF Advance, StateAdvance
<1>6. /\ m \in Message /\ m.xid = hello /\ m.committed = committed /\ m.type = "hello"
  BY DEF Message, HelloRequest
<1>7. Has(t.db, m.xid)
  BY <1>1, <1>3, <1>6, HasBestChain
<1>8. m.committed => IsAncestor(m.xid, Final) /\ EndedWith(t.state, m.xid)
  <2>1. committed => IsAncestor(hello, Final)
    BY <1>1, BestChainInFinal
  <2> QED
    BY <1>4, <1>6, <2>1 DEF EndedWith
<1> HIDE DEF m
<1>9. /\ t.out \in Seq(Message)
      /\ \A i \in 1..Len(K \o t.out) : MessageOK(t, K \o t.out, y, i)
  <2>1. m.type # "block"
    BY <1>6
  <2> QED
    BY <1>3, <1>5, <1>6, <1>7, <1>8, <2>1, MessageAdded
<1>10. StartOK(t, y)
  <2>1. t.state = ConnectionStateStart(t.state.hello, t.state.committed, t.state.hello_sent,
                                       t.state.common)
    BY <1>3, <1>4
  <2>2. t.state.committed \in BOOLEAN /\ t.state.hello_sent \in BOOLEAN
    <3>1. committed \in BOOLEAN
      OBVIOUS
    <3> HIDE DEF committed
    <3> QED
      BY <1>4, <3>1, Zenon
  <2>3. /\ t.state.hello \in World /\ IsAncestor(t.state.hello, t.db.head)
        /\ t.state.committed => Len(t.state.hello) <= t.db.commitIndex
    BY <1>3, <1>4
  <2>4. t.state.common # None => CommonOK(t.db, y, t.state.common)
    BY <1>2, <1>3, <1>4
  <2> QED
    BY <2>1, <2>2, <2>3, <2>4, Zenon DEF StartOK
<1>11. Flow(t, K, y)
  <2>1. StateOK(t, K \o t.out, y)
    BY <1>4, <1>10 DEF StateOK
  <2> QED
    BY <1>1, <1>3, <1>9, <2>1 DEF Flow
<1>12. WaitOK(t, y)
  BY <1>3 DEF WaitOK
<1> QED
  BY <1>3, <1>5, <1>11, <1>12 DEF Sends, Link, t

\* The first block has no predecessor.
LEMMA HasPrevious ==
  ASSUME NEW b \in World, Previous(b) \in World
  PROVE  Len(b) >= 2
<1>1. b \in Seq(Header(Nat, Nat, Nat)) /\ Len(Previous(b)) >= 1
  BY WorldBlock, BlockFacts
<1>2. Len(b) \in Nat /\ Len(b) >= 1
  BY WorldBlock
<1>3. ASSUME Len(b) = 1 PROVE FALSE
  <2>1. Previous(b) = SubSeq(b, 1, 0)
    BY <1>3 DEF Previous
  <2>2. Len(SubSeq(b, 1, 0)) = 0
    BY <1>1
  <2> QED
    BY <1>1, <2>1, <2>2
<1> DEFINE n == Len(b)
<1> HIDE DEF n
<1>4. n \in Nat /\ n >= 1 /\ n # 1
  BY <1>2, <1>3 DEF n
<1>5. n >= 2
  BY <1>4
<1> QED
  BY <1>5 DEF n

\* The next block to compare is in the best chain.
LEMMA PrevHelloFacts ==
  ASSUME NEW s, NEW K, NEW y, Flow(s, K, y), s.state.tag = "start"
  PROVE  PrevHello(s) \in World /\ IsAncestor(PrevHello(s), s.db.head)
<1>1. s.state.hello \in World /\ IsAncestor(s.state.hello, s.db.head)
  BY StartFacts
<1>2. DbOK(s.db)
  BY FlowFacts
<1>3. /\ Ancestor(s.db.head, s.db.commitIndex) \in World
      /\ IsAncestor(Ancestor(s.db.head, s.db.commitIndex), s.db.head)
      /\ s.db.head \in Block
  BY <1>2, DbFacts
<1>4. ASSUME Previous(s.state.hello) \in s.db.states
      PROVE  Previous(s.state.hello) \in World /\ IsAncestor(Previous(s.state.hello), s.db.head)
  <2>1. Previous(s.state.hello) \in World
    BY <1>2, <1>4 DEF DbOK
  <2>2. Len(s.state.hello) >= 2
    BY <1>1, <2>1, HasPrevious
  <2>3. IsAncestor(Previous(s.state.hello), s.state.hello)
    BY <1>1, <2>2, PreviousInWorld
  <2> QED
    BY <1>1, <1>3, <2>1, <2>3, IsAncestorTrans, WorldBlock
<1> QED
  BY <1>3, <1>4 DEF PrevHello

LEMMA AsyncSendNextLink ==
  ASSUME NEW s, NEW K, NEW y, Flow(s, K, y), DbOK(y.db)
  PROVE  Sends(AsyncSendNext(s), s, K, y)
<1>1. CASE s.state.tag = "start"
  <2>1. AsyncSendNext(s) = SendNextStart(s)
    BY <1>1 DEF AsyncSendNext
  <2>2. CASE s.state.committed
    BY <1>1, <2>1, <2>2, FinishStartLink DEF SendNextStart
  <2>3. CASE ~s.state.committed
    <3>1. s.state.hello \in World /\ IsAncestor(s.state.hello, s.db.head)
      BY <1>1, StartFacts
    <3>2. PrevHello(s) \in World /\ IsAncestor(PrevHello(s), s.db.head)
      BY <1>1, PrevHelloFacts
    <3> DEFINE hello == IF s.state.hello_sent THEN PrevHello(s) ELSE s.state.hello
    <3>3. SendNextStart(s) = SendHello(s, hello)
      BY <2>3 DEF SendNextStart
    <3>4. hello \in World /\ IsAncestor(hello, s.db.head)
      BY <3>1, <3>2
    <3> HIDE DEF hello
    <3> QED
      BY <1>1, <2>1, <2>3, <3>3, <3>4, SendHelloLink
  <2> QED
    BY <2>2, <2>3
<1>2. CASE s.state.tag = "ready"
  <2>1. AsyncSendNext(s) = SendNextReady(s)
    BY <1>2 DEF AsyncSendNext
  <2> QED
    BY <1>2, <2>1, SendNextReadyLink
<1>3. CASE s.state.tag # "start" /\ s.state.tag # "ready"
  <2>1. AsyncSendNext(s) = s
    BY <1>3 DEF AsyncSendNext
  <2>2. WaitOK(s, y) /\ Advance(s, s)
    BY <1>3, SameAdvance DEF WaitOK, Advance
  <2> QED
    BY <2>1, <2>2 DEF Sends, Link
<1> QED
  BY <1>1, <1>2, <1>3

LEMMA SendIfIdleLink ==
  ASSUME NEW s, NEW K, NEW y, Link(s, K, y), DbOK(y.db)
  PROVE  Sends(SendIfIdle(s), s, K, y)
<1>1. CASE s.sending
  <2>1. SendIfIdle(s) = s
    BY <1>1 DEF SendIfIdle
  <2>2. Advance(s, s)
    BY SameAdvance DEF Advance
  <2> QED
    BY <2>1, <2>2 DEF Sends
<1>2. CASE ~s.sending
  <2>1. SendIfIdle(s) = AsyncSendNext(s)
    BY <1>2 DEF SendIfIdle
  <2> QED
    BY <2>1, AsyncSendNextLink DEF Link
<1> QED
  BY <1>1, <1>2

-----------------------------------------------------------------------------
(***************************************************************************)
(* on_fork_switch and update_last_received.                                *)
(***************************************************************************)
\* A peer that will have a block will have its ancestors: every block is sent after
\* its predecessor.
LEMMA WillHaveAncestors ==
  ASSUME NEW s, NEW K, NEW y, Flow(s, K, y), DbOK(y.db),
         NEW b \in World, WillHave(y, K \o s.out, b), NEW a \in Block, IsAncestor(a, b)
  PROVE  WillHave(y, K \o s.out, a)
<1> DEFINE C == K \o s.out
<1>1. /\ Len(C) \in Nat
      /\ \A i \in 1..Len(C) : C[i].xid \in World /\ MessageOK(s, C, y, i)
  BY FlowFacts
<1> HIDE DEF C
<1> DEFINE S == {i \in 1..Len(C) : /\ C[i].type = "block"
                                   /\ \E x \in Block : IsAncestor(x, C[i].xid)
                                                       /\ ~WillHave(y, C, x)}
<1>2. S = {}
  <2>1. SUFFICES ASSUME S # {} PROVE FALSE
    OBVIOUS
  <2>2. S \in SUBSET Nat
    OBVIOUS
  <2>3. PICK i \in S : \A j \in S : i <= j
    <3> HIDE DEF S
    <3> QED
      BY <2>1, <2>2, NatMin
  <2>4. i \in 1..Len(C) /\ C[i].type = "block"
    BY <2>3
  <2>5. PICK x \in Block : IsAncestor(x, C[i].xid) /\ ~WillHave(y, C, x)
    BY <2>3
  <2> DEFINE z == C[i].xid
  <2>6. z \in World /\ z \in Block /\ C[i] = BlockMessage(z) /\ Len(z) >= 2
    BY <1>1, <2>4, WorldBlock DEF MessageOK
  <2>7. Has(y.db, Previous(z)) \/ \E j \in 1..(i - 1) : C[j] = BlockMessage(Previous(z))
    BY <1>1, <2>4 DEF MessageOK
  <2>8. x # z
    BY <2>4, <2>5, <2>6 DEF WillHave, Carries
  <2> HIDE DEF z
  <2>9. Previous(z) \in World /\ IsAncestor(x, Previous(z))
    <3>1. IsAncestor(x, z)
      BY <2>5 DEF z
    <3> QED
      BY <2>5, <2>6, <2>8, <3>1, PreviousInWorld, AncestorOfPrevious
  <2>10. CASE Has(y.db, Previous(z))
    <3>1. Has(y.db, x)
      BY <2>5, <2>9, <2>10, HasAncestors
    <3> QED
      BY <2>5, <3>1 DEF WillHave
  <2>11. ASSUME NEW j \in 1..(i - 1), C[j] = BlockMessage(Previous(z)) PROVE FALSE
    <3>1. j \in 1..Len(C) /\ j < i
      BY <1>1, <2>4
    <3>2. C[j].type = "block" /\ C[j].xid = Previous(z)
      BY <2>11 DEF BlockMessage
    <3>3. j \in S
      BY <2>5, <2>9, <3>1, <3>2
    <3> QED
      BY <2>3, <2>4, <3>1, <3>3
  <2> QED
    BY <2>7, <2>10, <2>11
<1>3. CASE Has(y.db, b)
  BY <1>3, HasAncestors DEF WillHave
<1>4. CASE Carries(C, b)
  <2>1. PICK i \in 1..Len(C) : C[i] = BlockMessage(b)
    BY <1>4 DEF Carries
  <2>2. C[i].type = "block" /\ C[i].xid = b
    BY <2>1 DEF BlockMessage
  <2>3. WillHave(y, C, a)
    BY <1>2, <2>1, <2>2
  <2> QED
    BY <2>3 DEF C
<1> QED
  BY <1>3, <1>4 DEF WillHave, C

\* A better chain was found, and nothing has been pruned yet.
Switched(d, db) ==
  DbOK(d) /\ KeepsIrreversible(d, db) /\ db.states \subseteq d.states

LEMMA SwitchedHas ==
  ASSUME NEW db, NEW d, DbOK(db), Switched(d, db)
  PROVE  /\ \A b \in World : Has(db, b) => Has(d, b)
         /\ \A b \in World : IsAncestor(b, db.head) => Known(d, b)
         /\ d.commitIndex >= db.commitIndex
<1>1. DbOK(d) /\ KeepsIrreversible(d, db) /\ db.states \subseteq d.states
  BY DEF Switched
<1>2. \A x \in db.states : ExtendsCommitted(d, x) => x \in d.states
  BY <1>1
<1>3. \A b \in World : Has(db, b) => Has(d, b)
  BY <1>1, <1>2, HasStays
<1>4. ASSUME NEW b \in World, IsAncestor(b, db.head) PROVE Known(d, b)
  <2>1. b \in Block /\ db.head \in d.states
    BY <1>1, DbFacts, WorldBlock
  <2> QED
    BY <1>1, <1>4, <2>1, DbTree DEF Known
<1> QED
  BY <1>1, <1>3, <1>4 DEF KeepsIrreversible

\* The result of on_fork_switch: t is s after the switch to d.
SwitchesTo(t, s, d, K, y) == Link(t, K, y) /\ Advance(t, s) /\ t.db = d

LEMMA ForkSwitchNone ==
  ASSUME NEW s, NEW u, NEW d, NEW K, NEW y, Link(s, K, y),
         Switched(d, s.db), SameConnection(u, s), u.db = d, s.state.tag = "none"
  PROVE  SwitchesTo(u, s, d, K, y)
<1>1. Flow(s, K, y) /\ DbOK(s.db) /\ StateOK(s, K \o s.out, y) /\ s.sending \in BOOLEAN
  BY FlowFacts DEF Link
<1>2. \A b \in World : Has(s.db, b) => Has(d, b)
  BY <1>1, SwitchedHas
<1>3. Advance(u, s)
  BY <1>2, SameAdvance DEF Advance, SameConnection
<1>4. StateOK(u, K \o s.out, y)
  BY <1>1 DEF StateOK, SameConnection
<1>5. Flow(u, K, y)
  BY <1>1, <1>3, <1>4, FlowIntro DEF SameConnection, Switched
<1>6. WaitOK(u, y)
  BY DEF WaitOK, SameConnection
<1> QED
  BY <1>3, <1>5, <1>6 DEF Link, SwitchesTo

LEMMA ForkSwitchStartLink ==
  ASSUME NEW s, NEW u, NEW d, NEW K, NEW y, Link(s, K, y), DbOK(y.db),
         Switched(d, s.db), SameConnection(u, s), u.db = d, s.state.tag = "start"
  PROVE  SwitchesTo(ForkSwitchStart(u, GetCommonAncestor(d, s.state.hello)), s, d, K, y)
<1> DEFINE st == s.state
           hello == GetCommonAncestor(d, st.hello)
           t == ForkSwitchStart(u, hello)
           sent == st.hello_sent /\ hello = st.hello
           common == IF st.common # None /\ st.common \in d.states
                       THEN GetCommonAncestor(d, st.common) ELSE st.common
<1>1. Flow(s, K, y) /\ DbOK(s.db) /\ WaitOK(s, y) /\ s.sending \in BOOLEAN
  BY FlowFacts DEF Link
<1>2. /\ st.committed \in BOOLEAN /\ st.hello_sent \in BOOLEAN
      /\ st.hello \in World /\ IsAncestor(st.hello, s.db.head)
      /\ st.committed => Len(st.hello) <= s.db.commitIndex
      /\ st.common # None => CommonOK(s.db, y, st.common)
  BY <1>1, StartFacts
<1>3. /\ \A b \in World : Has(s.db, b) => Has(d, b)
      /\ \A b \in World : IsAncestor(b, s.db.head) => Known(d, b)
      /\ d.commitIndex >= s.db.commitIndex /\ DbOK(d)
  BY <1>1, SwitchedHas DEF Switched
<1>4. d.head \in World /\ d.commitIndex \in Nat /\ s.db.commitIndex \in Nat
  BY <1>1, <1>3, DbFacts
<1>5. hello \in World /\ IsAncestor(hello, d.head) /\ (IsAncestor(st.hello, d.head) => hello = st.hello)
  BY <1>2, <1>4, CommonAncestor
<1>6. ASSUME st.committed PROVE hello = st.hello /\ Len(hello) <= d.commitIndex
  <2>1. Len(st.hello) \in Nat /\ Len(st.hello) <= s.db.commitIndex
    BY <1>2, <1>6, WorldBlock
  <2>2. Len(st.hello) <= d.commitIndex
    BY <1>3, <1>4, <2>1
  <2>3. IsAncestor(st.hello, Final)
    BY <1>1, <1>2, <2>1, BestChainInFinal
  <2>4. IsAncestor(st.hello, d.head)
    BY <1>2, <1>3, <2>2, <2>3, FinalInBestChain
  <2> QED
    BY <1>5, <2>2, <2>4
<1>7. ASSUME common # None PROVE st.common # None /\ CommonOK(d, y, common)
  <2>1. st.common # None
    BY <1>7
  <2>2. CommonOK(s.db, y, st.common) /\ st.common \in World
    BY <1>2, <2>1 DEF CommonOK
  <2>3. CASE st.common \in d.states
    <3> DEFINE a == GetCommonAncestor(d, st.common)
    <3>1. common = a
      BY <2>1, <2>3
    <3>2. a \in World /\ IsAncestor(a, st.common) /\ IsAncestor(a, d.head)
      BY <1>4, <2>2, CommonAncestor
    <3> HIDE DEF a
    <3>3. Has(y.db, a)
      BY <2>2, <3>2, HasAncestors, WorldBlock DEF CommonOK
    <3> QED
      BY <2>1, <2>2, <3>1, <3>2, <3>3 DEF CommonOK
  <2>4. CASE st.common \notin d.states
    <3>1. common = st.common
      BY <2>4
    <3>2. IsAncestor(st.common, s.db.head) => IsAncestor(st.common, d.head)
      BY <1>3, <2>2, <2>4 DEF Known
    <3> HIDE DEF common
    <3> QED
      BY <2>1, <2>2, <3>1, <3>2 DEF CommonOK
  <2> QED
    BY <2>3, <2>4
<1>8. /\ DOMAIN t = Fields /\ t.db = d /\ t.sending = s.sending /\ t.out = s.out
      /\ t.state = ConnectionStateStart(hello, st.committed, sent, common)
  <2> HIDE DEF hello
  <2> QED
    BY DEF ForkSwitchStart, SameConnection, Fields
<1>9. sent \in BOOLEAN
  OBVIOUS
<1> HIDE DEF t, hello, common, sent
<1>10. /\ t.state.tag = "start" /\ t.state.hello = hello /\ t.state.committed = st.committed
       /\ t.state.hello_sent = sent /\ t.state.common = common
  BY <1>8 DEF ConnectionStateStart
<1>11. Advance(t, s)
  BY <1>3, <1>6, <1>8, <1>10 DEF Advance, StateAdvance
<1>12. StartOK(t, y)
  <2>1. t.state = ConnectionStateStart(t.state.hello, t.state.committed, t.state.hello_sent,
                                       t.state.common)
    BY <1>8, <1>10
  <2>2. t.state.committed \in BOOLEAN /\ t.state.hello_sent \in BOOLEAN
    BY <1>2, <1>9, <1>10, Zenon
  <2>3. /\ t.state.hello \in World /\ IsAncestor(t.state.hello, t.db.head)
        /\ t.state.committed => Len(t.state.hello) <= t.db.commitIndex
    BY <1>5, <1>6, <1>8, <1>10
  <2>4. t.state.common # None => CommonOK(t.db, y, t.state.common)
    BY <1>7, <1>8, <1>10
  <2> QED
    BY <2>1, <2>2, <2>3, <2>4, Zenon DEF StartOK
<1>13. Flow(t, K, y)
  <2>1. StateOK(t, K \o s.out, y)
    BY <1>10, <1>12 DEF StateOK
  <2> QED
    BY <1>1, <1>3, <1>8, <1>11, <2>1, FlowIntro
<1>14. WaitOK(t, y)
  BY <1>1, <1>6, <1>7, <1>8, <1>10 DEF WaitOK
<1> QED
  BY <1>8, <1>11, <1>13, <1>14 DEF Link, SwitchesTo, t, hello

LEMMA ForkSwitchReadyLink ==
  ASSUME NEW s, NEW u, NEW d, NEW K, NEW y, Link(s, K, y), DbOK(y.db),
         Switched(d, s.db), SameConnection(u, s), u.db = d, s.state.tag = "ready"
  PROVE  SwitchesTo(ForkSwitchReady(u), s, d, K, y)
<1> DEFINE st == s.state
           C == K \o s.out
           sent == GetCommonAncestor(d, st.last_sent)
           got == GetCommonAncestor(d, st.last_received)
           best == IF st.last_received \in d.states THEN Later(sent, got) ELSE sent
           v == [u EXCEPT !.state.last_sent = best]
<1>1. Flow(s, K, y) /\ DbOK(s.db) /\ WaitOK(s, y) /\ s.sending \in BOOLEAN /\ StateOK(s, C, y)
  BY FlowFacts DEF Link
<1>2. /\ st = ConnectionStateReady(st.last_sent, st.last_received)
      /\ st.last_sent \in World /\ IsAncestor(st.last_sent, s.db.head)
      /\ WillHave(y, C, st.last_sent)
      /\ st.last_received \in World /\ Has(y.db, st.last_received)
  BY <1>1 DEF StateOK, ReadyOK, NotConnected
<1>3. \A b \in World : Has(s.db, b) => Has(d, b)
  BY <1>1, SwitchedHas
<1>4. DbOK(d) /\ d.head \in World
  BY DbFacts DEF Switched
<1>5. sent \in World /\ IsAncestor(sent, d.head) /\ WillHave(y, C, sent)
  <2>1. sent \in World /\ IsAncestor(sent, st.last_sent) /\ IsAncestor(sent, d.head)
    BY <1>2, <1>4, CommonAncestor
  <2> HIDE DEF sent
  <2> QED
    BY <1>1, <1>2, <2>1, WillHaveAncestors, WorldBlock
<1>6. got \in World /\ IsAncestor(got, d.head) /\ WillHave(y, C, got)
  <2>1. got \in World /\ IsAncestor(got, st.last_received) /\ IsAncestor(got, d.head)
    BY <1>2, <1>4, CommonAncestor
  <2> HIDE DEF got
  <2>2. Has(y.db, got)
    BY <1>2, <2>1, HasAncestors, WorldBlock
  <2> QED
    BY <2>1, <2>2 DEF WillHave
<1>7. ForkSwitchReady(u) = SendIfIdle(v)
  BY DEF ForkSwitchReady, SameConnection
<1> HIDE DEF sent, got
<1>8. best \in World /\ IsAncestor(best, d.head) /\ WillHave(y, C, best)
  BY <1>5, <1>6 DEF Later
<1> HIDE DEF best
<1>9. /\ DOMAIN v = Fields /\ v.db = d /\ v.sending = s.sending /\ v.out = s.out
      /\ v.state = ConnectionStateReady(best, st.last_received)
  <2>1. [st EXCEPT !.last_sent = best] = ConnectionStateReady(best, st.last_received)
    BY <1>2 DEF ConnectionStateReady
  <2> QED
    BY <2>1 DEF SameConnection, Fields
<1> HIDE DEF v
<1>10. Link(v, K, y) /\ Advance(v, s)
  <2>1. DbOK(v.db) /\ IsAncestor(best, v.db.head) /\ \A b \in World : Has(s.db, b) => Has(v.db, b)
    BY <1>3, <1>4, <1>8, <1>9
  <2> QED
    BY <1>1, <1>2, <1>8, <1>9, <2>1, BecomesReady
<1>11. Sends(SendIfIdle(v), v, K, y)
  BY <1>10, SendIfIdleLink
<1>12. Advance(SendIfIdle(v), s)
  BY <1>10, <1>11, AdvanceTrans DEF Sends
<1> QED
  BY <1>7, <1>9, <1>11, <1>12 DEF Sends, SwitchesTo

LEMMA OnForkSwitchLink ==
  ASSUME NEW s, NEW u, NEW d, NEW K, NEW y, Link(s, K, y), DbOK(y.db),
         Switched(d, s.db), SameConnection(u, s), u.db = d
  PROVE  SwitchesTo(OnForkSwitch(u), s, d, K, y)
<1>1. Flow(s, K, y) /\ DbOK(s.db) /\ StateOK(s, K \o s.out, y)
  BY FlowFacts DEF Link
<1>2. \A b \in World : IsAncestor(b, s.db.head) => Known(d, b)
  BY <1>1, SwitchedHas
<1>3. u.state = s.state
  BY DEF SameConnection
<1>4. CASE s.state.tag = "start"
  <2>1. Known(d, s.state.hello)
    BY <1>1, <1>2, <1>4, StartFacts
  <2>2. OnForkSwitch(u) = ForkSwitchStart(u, GetCommonAncestor(d, s.state.hello))
    BY <1>3, <1>4, <2>1 DEF OnForkSwitch
  <2> QED
    BY <1>4, <2>2, ForkSwitchStartLink
<1>5. CASE s.state.tag = "ready"
  <2>1. s.state.last_sent \in World /\ IsAncestor(s.state.last_sent, s.db.head)
    BY <1>1, <1>5 DEF StateOK, ReadyOK, NotConnected
  <2>2. Known(d, s.state.last_sent)
    BY <1>2, <2>1
  <2>3. OnForkSwitch(u) = ForkSwitchReady(u)
    BY <1>3, <1>5, <2>2 DEF OnForkSwitch
  <2> QED
    BY <1>5, <2>3, ForkSwitchReadyLink
<1>6. CASE s.state.tag = "none"
  <2>1. OnForkSwitch(u) = u
    BY <1>3, <1>6 DEF OnForkSwitch
  <2> QED
    BY <1>6, <2>1, ForkSwitchNone
<1> QED
  BY <1>1, <1>4, <1>5, <1>6 DEF StateOK, NotConnected

\* update_last_received: the peer has b, for it sent it.
LEMMA UpdateLastReceivedLink ==
  ASSUME NEW s, NEW K, NEW y, Link(s, K, y), DbOK(y.db), s.state.tag # "none",
         NEW b \in World, Has(y.db, b)
  PROVE  LET t == UpdateLastReceived(s, b)
         IN  Link(t, K, y) /\ Advance(t, s) /\ t.db = s.db
<1> DEFINE st == s.state
           t == UpdateLastReceived(s, b)
<1>1. /\ Flow(s, K, y) /\ DbOK(s.db) /\ StateOK(s, K \o s.out, y) /\ DOMAIN s = Fields
  BY FlowFacts DEF Link
<1>2. s.db.head \in World /\ s.db.head \in Block
  BY <1>1, DbFacts
<1>3. ASSUME NEW sent \in World, IsAncestor(sent, s.db.head), WillHave(y, K \o s.out, sent),
             t = PostSendBlock([s EXCEPT !.state = ConnectionStateReady(sent, b)], b)
      PROVE  Link(t, K, y) /\ Advance(t, s) /\ t.db = s.db
  <2>1. /\ DOMAIN t = Fields /\ t.db = s.db /\ t.sending = s.sending /\ t.out = s.out
        /\ t.state = ConnectionStateReady(sent, b)
    BY <1>1, <1>3 DEF PostSendBlock, Fields
  <2> HIDE DEF t
  <2>2. DbOK(t.db) /\ IsAncestor(sent, t.db.head) /\ \A x \in World : Has(s.db, x) => Has(t.db, x)
    BY <1>1, <1>3, <2>1
  <2> QED
    BY <1>1, <1>3, <2>1, <2>2, BecomesReady
<1>4. CASE st.tag = "start"
  <2> DEFINE a == GetCommonAncestor(s.db, b)
  <2>1. t = PostSendBlock([s EXCEPT !.state = ConnectionStateReady(a, b)], b)
    BY <1>4 DEF UpdateLastReceived
  <2>2. a \in World /\ IsAncestor(a, b) /\ IsAncestor(a, s.db.head)
    BY <1>2, CommonAncestor
  <2> HIDE DEF a
  <2>3. WillHave(y, K \o s.out, a)
    BY <2>2, HasAncestors, WorldBlock DEF WillHave
  <2> QED
    BY <1>3, <2>1, <2>2, <2>3
<1>5. CASE st.tag = "ready"
  <2> DEFINE a == IF InBestChain(s.db, b) THEN Later(st.last_sent, b) ELSE st.last_sent
  <2>1. t = PostSendBlock([s EXCEPT !.state = ConnectionStateReady(a, b)], b)
    BY <1>5 DEF UpdateLastReceived
  <2>2. /\ st.last_sent \in World /\ IsAncestor(st.last_sent, s.db.head)
        /\ WillHave(y, K \o s.out, st.last_sent)
    BY <1>1, <1>5 DEF StateOK, ReadyOK, NotConnected
  <2>3. ASSUME InBestChain(s.db, b) PROVE IsAncestor(b, s.db.head)
    <3>1. Len(b) \in 1..Len(s.db.head) /\ b = Ancestor(s.db.head, Len(b))
      BY <1>1, <2>3, IndexFacts DEF InBestChain, DbOK, Good
    <3> QED
      BY <1>2, <3>1, IsAncestorOfBlock
  <2>4. WillHave(y, K \o s.out, b)
    BY DEF WillHave
  <2>5. a \in World /\ IsAncestor(a, s.db.head) /\ WillHave(y, K \o s.out, a)
    BY <2>2, <2>3, <2>4 DEF Later
  <2> HIDE DEF a
  <2> QED
    BY <1>3, <2>1, <2>5
<1> QED
  BY <1>1, <1>4, <1>5 DEF StateOK, NotConnected

\* The rest of insert: on_accept_block_header has been called for b, and the
\* connection is as in s.
LEMMA SwitchForkLink ==
  ASSUME NEW s, NEW a, NEW K, NEW y, Link(s, K, y), DbOK(y.db),
         NEW b \in World, CanInsert(s.db, b), SameConnection(a, s), a.db = Accepted(s.db, b)
  PROVE  LET t == SwitchForkAndGc(a)
         IN  Link(t, K, y) /\ Advance(t, s) /\ Has(t.db, b)
<1> DEFINE e == Accepted(s.db, b)
           d == SwitchOnce(e, e.head).db
           t == SwitchForkAndGc(a)
<1>1. DbOK(s.db)
  BY FlowFacts DEF Link
<1>2. AcceptedOK(e, s.db, b)
  BY <1>1, AcceptedDb
<1> HIDE DEF e
<1>3. e.head = s.db.head /\ e.head \in Block
  BY <1>1, <1>2, DbFacts DEF AcceptedOK
<1>4. DbOK(d) /\ d.states = s.db.states \cup {b} /\ KeepsIrreversible(d, s.db)
  BY <1>1, <1>2, <1>3, SwitchedDb
<1>5. t = AfterSwitch(a, d)
  BY DEF SwitchForkAndGc, e
<1> HIDE DEF d, t
<1>6. Switched(d, s.db)
  BY <1>4 DEF Switched
<1>7. /\ \A x \in World : Has(s.db, x) => Has(d, x)
      /\ d.commitIndex >= s.db.commitIndex
  BY <1>1, <1>6, SwitchedHas
<1>8. Has(d, b)
  BY <1>4 DEF Has
<1> DEFINE u == [a EXCEPT !.db = d]
<1>9. SameConnection(u, s) /\ u.db = d
  BY DEF SameConnection, Fields
<1>10. a.db.head = s.db.head
  BY <1>3 DEF e
<1>11. CASE d.head = s.db.head
  <2>1. t = u
    BY <1>5, <1>10, <1>11 DEF AfterSwitch
  <2> HIDE DEF u
  <2>2. Link(u, K, y) /\ Advance(u, s)
    BY <1>4, <1>7, <1>9, <1>11, DbChanges
  <2> QED
    BY <1>8, <1>9, <2>1, <2>2 DEF t
<1>12. CASE d.head # s.db.head
  <2> DEFINE v == OnForkSwitch(u)
             w == [v EXCEPT !.db = Gc(v.db)]
  <2>1. t = w
    BY <1>5, <1>10, <1>12 DEF AfterSwitch
  <2> HIDE DEF u
  <2>2. Link(v, K, y) /\ Advance(v, s) /\ v.db = d
    BY <1>6, <1>9, OnForkSwitchLink DEF SwitchesTo
  <2> HIDE DEF v
  <2>3. DOMAIN v = Fields
    BY <2>2, FlowFacts DEF Link
  <2>4. SameConnection(w, v) /\ w.db = Gc(d)
    BY <2>2, <2>3 DEF SameConnection, Fields
  <2> HIDE DEF w
  <2>5. /\ DbOK(w.db) /\ w.db.head = v.db.head /\ w.db.commitIndex = v.db.commitIndex
        /\ \A x \in World : Has(v.db, x) => Has(w.db, x)
    BY <1>4, <2>2, <2>4, GcDb
  <2>6. v.db.commitIndex \in Nat
    BY <1>4, <2>2, DbFacts
  <2>7. Link(w, K, y) /\ Advance(w, v)
    BY <2>2, <2>4, <2>5, <2>6, DbChanges
  <2>8. Advance(w, s)
    BY <2>2, <2>7, AdvanceTrans
  <2> QED
    BY <1>8, <2>1, <2>2, <2>5, <2>7, <2>8 DEF t
<1> QED
  BY <1>11, <1>12

\* A block arrives from elsewhere.
LEMMA LearnLink ==
  ASSUME NEW s, NEW K, NEW y, Link(s, K, y), DbOK(y.db), NEW b \in World, CanInsert(s.db, b)
  PROVE  LET t == SwitchForkAndGc(AcceptHeader(s, b))
         IN  Link(t, K, y) /\ Advance(t, s) /\ Has(t.db, b)
<1> DEFINE a == AcceptHeader(s, b)
<1>1. DOMAIN s = Fields
  BY FlowFacts DEF Link
<1>2. SameConnection(a, s) /\ a.db = Accepted(s.db, b)
  BY <1>1 DEF AcceptHeader, SameConnection, Accepted, Fields
<1> HIDE DEF a
<1> QED
  BY <1>2, SwitchForkLink DEF a

\* A block arrives from the peer, which has its predecessor from there or elsewhere.
LEMMA RecvBlockLink ==
  ASSUME NEW s, NEW K, NEW y, Link(s, K, y), DbOK(y.db), s.state.tag # "none",
         NEW b \in World, Has(y.db, b), Len(b) >= 2, Has(s.db, Previous(b))
  PROVE  LET t == RecvBlock(s, b)
         IN  Link(t, K, y) /\ Advance(t, s) /\ Has(t.db, b)
<1>1. DbOK(s.db) /\ DOMAIN s = Fields
  BY FlowFacts DEF Link
<1> DEFINE v == UpdateLastReceived(s, b)
<1>2. Link(v, K, y) /\ Advance(v, s) /\ v.db = s.db
  BY UpdateLastReceivedLink
<1>3. CASE CanInsert(s.db, b)
  <2> DEFINE e == AcceptHeader(s, b)
             a == UpdateLastReceived(e, b)
  <2>1. /\ SameConnection(e, s) /\ e.db = Accepted(s.db, b) /\ e.posted = s.posted
    BY <1>1 DEF AcceptHeader, SameConnection, Accepted, Fields
  <2>2. e.db.head = s.db.head /\ e.db.byBlocknumIndex = s.db.byBlocknumIndex
    BY <1>1, <1>3, <2>1, AcceptedDb DEF AcceptedOK
  <2> HIDE DEF e
  <2>3. GetCommonAncestor(e.db, b) = GetCommonAncestor(s.db, b)
    BY <2>2, CommonAncestorHead
  <2>4. InBestChain(e.db, b) = InBestChain(s.db, b)
    BY <2>2 DEF InBestChain
  <2>5. SameConnection(a, v) /\ a.db = e.db
    <3>0. e.state = s.state /\ e.sending = s.sending /\ e.out = s.out /\ DOMAIN e = Fields
      BY <2>1 DEF SameConnection
    <3>1. CASE s.state.tag = "start"
      BY <1>1, <2>3, <3>0, <3>1 DEF UpdateLastReceived, PostSendBlock, SameConnection, Fields
    <3>2. CASE s.state.tag = "ready"
      <4>1. v = PostSendBlock([s EXCEPT !.state = ConnectionStateReady(
                  IF InBestChain(s.db, b) THEN Later(s.state.last_sent, b) ELSE s.state.last_sent, b)], b)
        BY <3>2 DEF UpdateLastReceived
      <4>2. a = PostSendBlock([e EXCEPT !.state = ConnectionStateReady(
                  IF InBestChain(s.db, b) THEN Later(s.state.last_sent, b) ELSE s.state.last_sent, b)], b)
        BY <2>4, <3>0, <3>2 DEF UpdateLastReceived
      <4> HIDE DEF v, a
      <4> QED
        BY <1>1, <3>0, <4>1, <4>2 DEF PostSendBlock, SameConnection, Fields
    <3>3. CASE s.state.tag # "start" /\ s.state.tag # "ready"
      BY <1>1, <3>0, <3>3 DEF UpdateLastReceived, PostSendBlock, SameConnection, Fields
    <3> QED
      BY <3>1, <3>2, <3>3
  <2>6. RecvBlock(s, b) = SwitchForkAndGc(a)
    BY <1>3 DEF RecvBlock, e
  <2> HIDE DEF a, v
  <2> DEFINE t == SwitchForkAndGc(a)
  <2>7. Link(t, K, y) /\ Advance(t, v) /\ Has(t.db, b)
    BY <1>2, <1>3, <2>1, <2>5, SwitchForkLink
  <2> HIDE DEF t
  <2>8. Advance(t, s)
    BY <1>2, <2>7, AdvanceTrans
  <2> QED
    BY <2>6, <2>7, <2>8 DEF t
<1>4. CASE ~CanInsert(s.db, b)
  <2>1. Has(s.db, b)
    <3>1. SUFFICES ASSUME ExtendsCommitted(s.db, b), b \notin s.db.states PROVE FALSE
      BY DEF Has
    <3> DEFINE c == Ancestor(s.db.head, s.db.commitIndex)
    <3>2. /\ c \in Block /\ Len(c) = s.db.commitIndex /\ c \in s.db.states
          /\ s.db.commitIndex \in Nat /\ b \in Block /\ Len(b) \in Nat
      <4>1. /\ c \in Block /\ Len(c) = s.db.commitIndex /\ IsAncestor(c, s.db.head)
            /\ s.db.head \in s.db.states /\ s.db.commitIndex \in Nat /\ b \in Block /\ Len(b) \in Nat
        BY <1>1, DbFacts, WorldBlock
      <4>2. Len(c) >= s.db.commitIndex
        BY <4>1
      <4> QED
        BY <1>1, <4>1, <4>2, DbTree
    <3> HIDE DEF c
    <3>3. IsAncestor(c, b) /\ c # b
      BY <3>1, <3>2 DEF ExtendsCommitted, c
    <3>4. Previous(b) \in Block /\ Len(Previous(b)) = Len(b) - 1 /\ IsAncestor(c, Previous(b))
      BY <3>2, <3>3, AncestorOfPrevious
    <3>5. Len(b) > s.db.commitIndex
      <4>1. Len(c) <= Len(Previous(b))
        BY <3>4 DEF IsAncestor
      <4> QED
        BY <3>2, <3>4, <4>1
    <3>6. Previous(b) \in s.db.states
      BY <3>4 DEF Has, ExtendsCommitted, c
    <3> QED
      BY <1>4, <3>1, <3>5, <3>6 DEF CanInsert, BlockNum
  <2>2. RecvBlock(s, b) = v \/ RecvBlock(s, b) = s
    BY <1>4 DEF RecvBlock
  <2>3. Advance(s, s)
    BY SameAdvance DEF Advance
  <2> HIDE DEF v
  <2> QED
    BY <1>2, <2>1, <2>2, <2>3
<1> QED
  BY <1>3, <1>4

-----------------------------------------------------------------------------
(***************************************************************************)
(* recv(HelloRequest).                                                     *)
(***************************************************************************)
\* What the state of a node that is looking for a common block becomes.
LEMMA StartChanges ==
  ASSUME NEW s, NEW t, NEW K, NEW y, Flow(s, K, y), s.state.tag = "start",
         DOMAIN t = Fields, t.db = s.db, t.sending = s.sending, t.out = s.out,
         NEW hello \in World, IsAncestor(hello, s.db.head),
         s.state.committed => hello = s.state.hello,
         NEW sent \in BOOLEAN, NEW common, common # None => CommonOK(s.db, y, common),
         t.state = ConnectionStateStart(hello, s.state.committed, sent, common)
  PROVE  Flow(t, K, y) /\ Advance(t, s)
<1>1. /\ s.state.committed \in BOOLEAN
      /\ s.state.committed => Len(s.state.hello) <= s.db.commitIndex
  BY StartFacts
<1>2. /\ t.state.tag = "start" /\ t.state.hello = hello /\ t.state.committed = s.state.committed
      /\ t.state.hello_sent = sent /\ t.state.common = common
  BY DEF ConnectionStateStart
<1>3. Advance(t, s)
  BY <1>2 DEF Advance, StateAdvance
<1>4. StartOK(t, y)
  <2>1. t.state = ConnectionStateStart(t.state.hello, t.state.committed, t.state.hello_sent,
                                       t.state.common)
    BY <1>2
  <2>2. t.state.committed \in BOOLEAN /\ t.state.hello_sent \in BOOLEAN
    BY <1>1, <1>2, Zenon
  <2>3. /\ t.state.hello \in World /\ IsAncestor(t.state.hello, t.db.head)
        /\ t.state.committed => Len(t.state.hello) <= t.db.commitIndex
    BY <1>1, <1>2
  <2>4. t.state.common # None => CommonOK(t.db, y, t.state.common)
    BY <1>2
  <2> QED
    BY <2>1, <2>2, <2>3, <2>4, Zenon DEF StartOK
<1>5. StateOK(t, K \o s.out, y)
  BY <1>2, <1>4 DEF StateOK
<1>6. s.sending \in BOOLEAN /\ DbOK(s.db)
  BY FlowFacts
<1>7. Flow(t, K, y)
  BY <1>3, <1>5, <1>6, FlowIntro
<1> QED
  BY <1>3, <1>7

\* The block of a hello message of y.
HelloOK(m, y) ==
  /\ m.xid \in World /\ Has(y.db, m.xid) /\ y.state.tag # "none"
  /\ m.committed => IsAncestor(m.xid, Final) /\ EndedWith(y.state, m.xid)

LEMMA StartUpdate ==
  ASSUME NEW st, st = ConnectionStateStart(st.hello, st.committed, st.hello_sent, st.common),
         NEW hello, NEW sent
  PROVE  [st EXCEPT !.hello = hello, !.hello_sent = sent]
           = ConnectionStateStart(hello, st.committed, sent, st.common)
<1> DEFINE u == [st EXCEPT !.hello = hello, !.hello_sent = sent]
<1>1. DOMAIN st = {"tag", "hello", "committed", "hello_sent", "common"} /\ st.tag = "start"
  BY DEF ConnectionStateStart
<1>2. /\ DOMAIN u = {"tag", "hello", "committed", "hello_sent", "common"}
      /\ u = [k \in {"tag", "hello", "committed", "hello_sent", "common"} |-> u[k]]
  BY <1>1
<1>3. /\ u.tag = "start" /\ u.hello = hello /\ u.committed = st.committed
      /\ u.hello_sent = sent /\ u.common = st.common
  BY <1>1
<1> HIDE DEF u
<1>4. u = ConnectionStateStart(hello, st.committed, sent, st.common)
  BY <1>2, <1>3 DEF ConnectionStateStart
<1> QED
  BY <1>4 DEF u

LEMMA SkipHelloLink ==
  ASSUME NEW s, NEW K, NEW y, Link(s, K, y), s.state.tag = "start", s.state.common = None,
         NEW m, m.xid \in World
  PROVE  LET t == SkipHello(s, m)
         IN  /\ Link(t, K, y) /\ Advance(t, s) /\ t.db = s.db
             /\ t.state.tag = "start" /\ t.state.common = None
<1> DEFINE st == s.state
           t == SkipHello(s, m)
           skip == /\ ~st.committed
                   /\ BlockNum(st.hello) > BlockNum(m.xid) + (IF st.hello_sent THEN 1 ELSE 0)
<1>1. Flow(s, K, y) /\ DOMAIN s = Fields /\ DbOK(s.db)
  BY FlowFacts DEF Link
<1>2. /\ st = ConnectionStateStart(st.hello, st.committed, st.hello_sent, st.common)
      /\ st.hello \in World /\ IsAncestor(st.hello, s.db.head)
  BY <1>1, StartFacts
<1>3. CASE ~skip
  <2>1. t = s
    BY <1>3 DEF SkipHello
  <2>2. Advance(s, s)
    BY SameAdvance DEF Advance
  <2> QED
    BY <2>1, <2>2
<1>4. CASE skip
  <2> DEFINE hello == Ancestor(s.db.head, Len(m.xid))
  <2>1. Len(m.xid) \in 1..Len(s.db.head) /\ Len(m.xid) <= Len(s.db.head)
    <3>1. /\ Len(m.xid) \in Nat /\ Len(m.xid) >= 1 /\ Len(st.hello) \in Nat
          /\ Len(st.hello) <= Len(s.db.head) /\ Len(s.db.head) \in Nat
      BY <1>1, <1>2, DbFacts, WorldBlock DEF IsAncestor
    <3> DEFINE k == IF st.hello_sent THEN 1 ELSE 0
    <3>2. k \in Nat
      OBVIOUS
    <3>3. Len(st.hello) > Len(m.xid) + k
      BY <1>4, Zenon DEF BlockNum
    <3> HIDE DEF k
    <3>4. Len(st.hello) > Len(m.xid)
      BY <3>1, <3>2, <3>3
    <3> QED
      BY <3>1, <3>4
  <2>2. hello \in World /\ IsAncestor(hello, s.db.head)
    BY <1>1, <2>1, DbFacts, WorldBlock, IsAncestorOfBlock
  <2>3. GetBlockId(s.db, BlockNum(m.xid)) = hello
    BY <2>1 DEF GetBlockId, BlockNum
  <2> HIDE DEF hello
  <2>4. t = [s EXCEPT !.state.hello = hello, !.state.hello_sent = FALSE]
    BY <1>4, <2>3, Zenon DEF SkipHello
  <2>5. /\ DOMAIN t = Fields /\ t.db = s.db /\ t.sending = s.sending /\ t.out = s.out
        /\ t.state = ConnectionStateStart(hello, st.committed, FALSE, None)
    <3>2. [st EXCEPT !.hello = hello, !.hello_sent = FALSE]
            = ConnectionStateStart(hello, st.committed, FALSE, None)
      BY <1>2, StartUpdate, Zenon
    <3>3. t.state = [st EXCEPT !.hello = hello, !.hello_sent = FALSE]
      BY <1>1, <2>4 DEF Fields
    <3>4. DOMAIN t = Fields /\ t.db = s.db /\ t.sending = s.sending /\ t.out = s.out
      BY <1>1, <2>4 DEF Fields
    <3> QED
      BY <3>2, <3>3, <3>4
  <2> HIDE DEF t
  <2>6. Flow(t, K, y) /\ Advance(t, s)
    BY <1>1, <1>4, <2>2, <2>5, StartChanges
  <2>7. t.state.tag = "start" /\ t.state.common = None
    BY <2>5 DEF ConnectionStateStart
  <2>8. WaitOK(t, y)
    BY <2>7 DEF WaitOK
  <2> QED
    BY <2>5, <2>6, <2>7, <2>8 DEF Link, t
<1> QED
  BY <1>3, <1>4

LEMMA FoundCommonLink ==
  ASSUME NEW s, NEW K, NEW y, Link(s, K, y), DbOK(y.db), s.state.tag = "start",
         y.state.tag # "none", NEW c \in World, IsAncestor(c, s.db.head), Has(y.db, c)
  PROVE  LET t == FoundCommon(s, c)
         IN  Link(t, K, y) /\ Advance(t, s)
<1> DEFINE st == s.state
           t == FoundCommon(s, c)
<1>1. Flow(s, K, y) /\ DOMAIN s = Fields
  BY FlowFacts DEF Link
<1>2. /\ st = ConnectionStateStart(st.hello, st.committed, st.hello_sent, st.common)
      /\ st.hello \in World /\ IsAncestor(st.hello, s.db.head) /\ st.hello_sent \in BOOLEAN
  BY <1>1, StartFacts
<1>3. CASE st.committed
  <2> DEFINE r == MakeReady(s, c)
  <2>1. t = SendIfIdle(r)
    BY <1>3 DEF FoundCommon
  <2>2. Link(r, K, y) /\ Advance(r, s)
    BY <1>1, MakeReadyLink
  <2> HIDE DEF r
  <2>3. Link(SendIfIdle(r), K, y) /\ Advance(SendIfIdle(r), r)
    BY <2>2, SendIfIdleLink DEF Sends
  <2> QED
    BY <2>1, <2>2, <2>3, AdvanceTrans
<1>4. CASE ~st.committed
  <2>1. t = [s EXCEPT !.state.common = c]
    BY <1>4 DEF FoundCommon
  <2>2. /\ DOMAIN t = Fields /\ t.db = s.db /\ t.sending = s.sending /\ t.out = s.out
        /\ t.state = ConnectionStateStart(st.hello, st.committed, st.hello_sent, c)
    <3>1. [st EXCEPT !.common = c]
            = ConnectionStateStart(st.hello, st.committed, st.hello_sent, c)
      BY <1>2 DEF ConnectionStateStart
    <3> QED
      BY <1>1, <2>1, <3>1 DEF Fields
  <2> HIDE DEF t
  <2>3. CommonOK(s.db, y, c)
    BY DEF CommonOK
  <2>4. Flow(t, K, y) /\ Advance(t, s)
    BY <1>1, <1>2, <2>2, <2>3, StartChanges
  <2>5. WaitOK(t, y)
    BY <1>4, <2>2 DEF WaitOK, ConnectionStateStart
  <2> QED
    BY <2>4, <2>5 DEF Link, t
<1> QED
  BY <1>3, <1>4

\* The peer's irreversible block is in the future of s.
WithCommon(s, c) == [s EXCEPT !.state.common = c]

LEMMA FutureCommonLink ==
  ASSUME NEW s, NEW K, NEW y, Link(s, K, y), s.state.tag = "start",
         NEW m, HelloOK(m, y), m.committed, Len(m.xid) > s.db.commitIndex
  PROVE  LET t == WithCommon(s, m.xid)
         IN  Link(t, K, y) /\ Advance(t, s)
<1> DEFINE st == s.state
           c == m.xid
           t == WithCommon(s, c)
<1>1. Flow(s, K, y) /\ DOMAIN s = Fields /\ DbOK(s.db)
  BY FlowFacts DEF Link
<1>2. /\ st = ConnectionStateStart(st.hello, st.committed, st.hello_sent, st.common)
      /\ st.hello \in World /\ IsAncestor(st.hello, s.db.head) /\ st.hello_sent \in BOOLEAN
      /\ st.committed => Len(st.hello) <= s.db.commitIndex
  BY <1>1, StartFacts
<1>3. /\ DOMAIN t = Fields /\ t.db = s.db /\ t.sending = s.sending /\ t.out = s.out
      /\ t.state = ConnectionStateStart(st.hello, st.committed, st.hello_sent, c)
  <2>1. [st EXCEPT !.common = c]
          = ConnectionStateStart(st.hello, st.committed, st.hello_sent, c)
    BY <1>2 DEF ConnectionStateStart
  <2> QED
    BY <1>1, <2>1 DEF Fields, WithCommon
<1> HIDE DEF t
<1>4. CommonOK(s.db, y, c)
  BY DEF CommonOK, HelloOK
<1>5. Flow(t, K, y) /\ Advance(t, s)
  BY <1>1, <1>2, <1>3, <1>4, StartChanges
<1>6. WaitOK(t, y)
  <2>1. t.state.hello = st.hello /\ t.state.committed = st.committed
    BY <1>3 DEF ConnectionStateStart
  <2>2. y.state.tag # "none" /\ EndedWith(y.state, c)
    BY DEF HelloOK
  <2>3. ASSUME st.committed PROVE Len(c) > Len(st.hello)
    <3>1. Len(c) \in Nat /\ Len(st.hello) \in Nat /\ s.db.commitIndex \in Nat
      BY <1>1, <1>2, DbFacts, WorldBlock DEF HelloOK
    <3> QED
      BY <1>2, <2>3, <3>1
  <2> QED
    BY <2>1, <2>2, <2>3 DEF WaitOK, EndedWith
<1> QED
  BY <1>5, <1>6 DEF Link, t

LEMMA CompareHelloLink ==
  ASSUME NEW s, NEW K, NEW y, Link(s, K, y), DbOK(y.db), s.state.tag = "start",
         NEW m, HelloOK(m, y)
  PROVE  LET t == CompareHello(s, m)
         IN  Link(t, K, y) /\ Advance(t, s)
<1>1. DbOK(s.db)
  BY FlowFacts DEF Link
<1>2. /\ s.db.head \in World /\ Len(s.db.head) \in Nat /\ s.db.commitIndex \in Nat
      /\ m.xid \in World /\ m.xid \in Block /\ Len(m.xid) \in Nat /\ Len(m.xid) >= 1
      /\ Has(y.db, m.xid) /\ y.state.tag # "none"
  BY <1>1, DbFacts, WorldBlock DEF HelloOK
<1>3. CASE m.xid \in s.db.states
  <2> DEFINE a == GetCommonAncestor(s.db, m.xid)
  <2>1. CompareHello(s, m) = FoundCommon(s, a)
    BY <1>3 DEF CompareHello
  <2>2. a \in World /\ IsAncestor(a, m.xid) /\ IsAncestor(a, s.db.head)
    BY <1>2, CommonAncestor
  <2> HIDE DEF a
  <2>3. Has(y.db, a)
    BY <1>2, <2>2, HasAncestors, WorldBlock
  <2> QED
    BY <1>2, <2>1, <2>2, <2>3, FoundCommonLink
<1>4. CASE m.xid \notin s.db.states /\ GetBlockId(s.db, BlockNum(m.xid)) = m.xid
  <2>1. CompareHello(s, m) = FoundCommon(s, m.xid)
    BY <1>4 DEF CompareHello
  <2>2. m.xid # None
    BY <1>2 DEF None
  <2>3. IsAncestor(m.xid, s.db.head)
    BY <1>2, <1>4, <2>2 DEF GetBlockId, IsAncestor, BlockNum
  <2> QED
    BY <1>2, <2>1, <2>3, FoundCommonLink
<1>5. ASSUME m.xid \notin s.db.states, GetBlockId(s.db, BlockNum(m.xid)) # m.xid, m.committed
      PROVE  Len(m.xid) > s.db.commitIndex
  <2>1. SUFFICES ASSUME Len(m.xid) <= s.db.commitIndex PROVE FALSE
    BY <1>2
  <2>2. IsAncestor(m.xid, s.db.head)
    BY <1>1, <1>2, <1>5, <2>1, FinalInBestChain DEF HelloOK
  <2> QED
    BY <1>5, <2>2 DEF GetBlockId, IsAncestor, BlockNum
<1>6. CASE /\ m.xid \notin s.db.states /\ GetBlockId(s.db, BlockNum(m.xid)) # m.xid
           /\ m.committed
  <2>1. ~(BlockNum(m.xid) <= s.db.commitIndex)
    BY <1>2, <1>5, <1>6 DEF BlockNum
  <2>2. CompareHello(s, m) = WithCommon(s, m.xid)
    BY <1>6, <2>1, Zenon DEF CompareHello, WithCommon
  <2> QED
    BY <1>5, <1>6, <2>2, FutureCommonLink
<1>7. CASE /\ m.xid \notin s.db.states /\ GetBlockId(s.db, BlockNum(m.xid)) # m.xid
           /\ ~m.committed
  <2>1. CompareHello(s, m) = s
    BY <1>7, Zenon DEF CompareHello
  <2>2. Advance(s, s)
    BY SameAdvance DEF Advance
  <2> QED
    BY <2>1, <2>2
<1> QED
  BY <1>3, <1>4, <1>6, <1>7

LEMMA RecvHelloLink ==
  ASSUME NEW s, NEW K, NEW y, Link(s, K, y), DbOK(y.db), NEW m, HelloOK(m, y)
  PROVE  LET t == RecvHello(s, m)
         IN  Link(t, K, y) /\ Advance(t, s)
<1>1. CASE s.state.tag # "start" \/ s.state.common # None
  <2>1. RecvHello(s, m) = s
    BY <1>1 DEF RecvHello
  <2>2. Advance(s, s)
    BY SameAdvance DEF Advance
  <2> QED
    BY <2>1, <2>2
<1>2. CASE s.state.tag = "start" /\ s.state.common = None
  <2> DEFINE t == SkipHello(s, m)
  <2>1. RecvHello(s, m) = CompareHello(t, m)
    BY <1>2 DEF RecvHello
  <2>2. Link(t, K, y) /\ Advance(t, s) /\ t.state.tag = "start"
    BY <1>2, SkipHelloLink DEF HelloOK
  <2> HIDE DEF t
  <2>3. Link(CompareHello(t, m), K, y) /\ Advance(CompareHello(t, m), t)
    BY <2>2, CompareHelloLink
  <2> QED
    BY <2>1, <2>2, <2>3, AdvanceTrans
<1> QED
  BY <1>1, <1>2

-----------------------------------------------------------------------------
(***************************************************************************)
(* Channels.                                                               *)
(***************************************************************************)
\* The first message is received, and a block in it is now with the receiver.
LEMMA MessageDelivered ==
  ASSUME NEW s, NEW K, NEW y, Link(s, K, y), s.out = <<>>, K # <<>>,
         Head(K).type = "block" => Has(y.db, Head(K).xid)
  PROVE  Link(s, Tail(K), y)
<1>1. /\ DOMAIN s = Fields /\ s.sending \in BOOLEAN /\ K \in Seq(Message)
      /\ s.out \in Seq(Message) /\ DbOK(s.db) /\ StateOK(s, K \o s.out, y)
      /\ \A i \in 1..Len(K \o s.out) : MessageOK(s, K \o s.out, y, i)
  BY FlowFacts DEF Link
<1> DEFINE D == Tail(K)
<1>2. K \o s.out = K /\ D \o s.out = D /\ D \in Seq(Message)
  BY <1>1
<1>3. /\ Len(K) \in Nat /\ Len(K) >= 1 /\ Len(D) = Len(K) - 1 /\ Head(K) = K[1]
      /\ \A i \in 1..Len(D) : D[i] = K[i + 1]
  BY <1>1
<1> HIDE DEF D
<1>4. ASSUME NEW b, NEW i \in 1..Len(K), NEW j \in 1..(i - 1), K[j] = BlockMessage(b)
      PROVE  Has(y.db, b) \/ \E k \in 1..(i - 2) : D[k] = BlockMessage(b)
  <2>1. CASE j = 1
    BY <1>3, <1>4, <2>1 DEF BlockMessage
  <2>2. CASE j # 1
    <3>1. j - 1 \in 1..(i - 2) /\ j - 1 \in 1..Len(D) /\ (j - 1) + 1 = j
      BY <1>3, <1>4, <2>2
    <3>2. D[j - 1] = K[j]
      BY <1>3, <3>1
    <3> QED
      BY <1>4, <3>1, <3>2
  <2> QED
    BY <2>1, <2>2
<1>5. ASSUME NEW b, Carries(K, b) PROVE WillHave(y, D, b)
  <2>1. PICK j \in 1..Len(K) : K[j] = BlockMessage(b)
    BY <1>5 DEF Carries
  <2>2. CASE j = 1
    BY <1>3, <2>1, <2>2 DEF BlockMessage, WillHave
  <2>3. CASE j # 1
    <3>1. j - 1 \in 1..Len(D) /\ (j - 1) + 1 = j
      BY <1>3, <2>3
    <3>2. D[j - 1] = BlockMessage(b)
      BY <1>3, <2>1, <3>1
    <3> QED
      BY <3>1, <3>2 DEF WillHave, Carries
  <2> QED
    BY <2>2, <2>3
<1>6. StateOK(s, D, y)
  <2>1. ASSUME ReadyOK(s, K, y) PROVE ReadyOK(s, D, y)
    <3>1. WillHave(y, D, s.state.last_sent)
      BY <1>5, <2>1 DEF ReadyOK, WillHave
    <3> QED
      BY <2>1, <3>1 DEF ReadyOK
  <2>2. StateOK(s, K, y)
    BY <1>1, <1>2
  <2> QED
    BY <2>1, <2>2 DEF StateOK
<1>7. ASSUME NEW i \in 1..Len(D) PROVE MessageOK(s, D, y, i)
  <2>1. i + 1 \in 1..Len(K) /\ D[i] = K[i + 1] /\ (i + 1) - 2 = i - 1
    BY <1>3
  <2>2. MessageOK(s, K, y, i + 1)
    BY <1>1, <1>2, <2>1
  <2>3. ASSUME NEW j \in 1..((i + 1) - 1), K[j] = BlockMessage(Previous(D[i].xid))
        PROVE  \/ Has(y.db, Previous(D[i].xid))
               \/ \E k \in 1..(i - 1) : D[k] = BlockMessage(Previous(D[i].xid))
    BY <1>4, <2>1, <2>3
  <2> QED
    BY <2>1, <2>2, <2>3 DEF MessageOK
<1>8. Flow(s, D, y)
  BY <1>1, <1>2, <1>6, <1>7 DEF Flow
<1> QED
  BY <1>8 DEF Link, D

\* The end of a callback.
Flushed(t) == [t EXCEPT !.out = <<>>]

LEMMA FlushedLink ==
  ASSUME NEW t, NEW K, NEW y, Link(t, K, y)
  PROVE  /\ Link(Flushed(t), K \o t.out, y) /\ Advance(Flushed(t), t)
         /\ Flushed(t).out = <<>>
<1> DEFINE u == Flushed(t)
           C == K \o t.out
<1>1. /\ DOMAIN t = Fields /\ t.sending \in BOOLEAN /\ C \in Seq(Message)
      /\ DbOK(t.db) /\ StateOK(t, C, y) /\ \A i \in 1..Len(C) : MessageOK(t, C, y, i)
  BY FlowFacts DEF Link
<1>2. /\ DOMAIN u = Fields /\ u.db = t.db /\ u.state = t.state /\ u.sending = t.sending
      /\ u.out = <<>>
  BY <1>1 DEF Flushed, Fields
<1> HIDE DEF u, C
<1>3. C \o u.out = C /\ u.out \in Seq(Message)
  BY <1>1, <1>2
<1>4. StateOK(u, C, y)
  BY <1>1, <1>2 DEF StateOK, StartOK, ReadyOK
<1>5. \A i \in 1..Len(C) : MessageOK(u, C, y, i)
  BY <1>1, <1>2 DEF MessageOK
<1>6. Flow(u, C, y)
  BY <1>1, <1>2, <1>3, <1>4, <1>5 DEF Flow
<1>7. WaitOK(u, y)
  BY <1>2 DEF Link, WaitOK
<1>8. Advance(u, t)
  BY <1>2, SameAdvance DEF Advance
<1> QED
  BY <1>2, <1>6, <1>7, <1>8 DEF Link, u, C

\* There are two nodes.
LEMMA PeerFacts ==
  ASSUME NEW n \in Node
  PROVE  /\ Peer(n) \in Node /\ Peer(n) # n /\ Peer(Peer(n)) = n
         /\ \A m \in Node : m = n \/ m = Peer(n)
<1>1. PICK a, b \in Node : a # b /\ Node = {a, b}
  BY BlockSyncAssumption
<1>2. \A m \in Node : Peer(m) \in Node /\ Peer(m) # m
  <2>1. ASSUME NEW m \in Node PROVE Peer(m) \in Node /\ Peer(m) # m
    <3>1. \E x \in Node : x # m
      BY <1>1
    <3> QED
      BY <3>1 DEF Peer
  <2> QED
    BY <2>1
<1> QED
  BY <1>1, <1>2

-----------------------------------------------------------------------------
(***************************************************************************)
(* The actions keep the invariant.                                         *)
(***************************************************************************)
\* A callback of n leaves it in state t.
LEMMA FinishInv ==
  ASSUME SyncInv, NEW n \in Node, NEW t, NEW channels,
         DOMAIN channels = Node, channels[n] = chan[n],
         Link(t, chan[n], node[Peer(n)]),
         Link(node[Peer(n)], channels[Peer(n)], t),
         Finish(n, t, channels)
  PROVE  SyncInv'
<1> DEFINE p == Peer(n)
           u == Flushed(t)
<1>1. p \in Node /\ p # n /\ Peer(p) = n /\ \A m \in Node : m = n \/ m = p
  BY PeerFacts
<1>2. DOMAIN node = Node /\ node[p].out = <<>>
  BY <1>1 DEF SyncInv
<1>3. node' = [node EXCEPT ![n] = u] /\ chan' = [channels EXCEPT ![n] = @ \o t.out]
  BY DEF Finish, Flushed
<1>4. Link(u, chan[n] \o t.out, node[p]) /\ Advance(u, t) /\ u.out = <<>>
  BY FlushedLink
<1> HIDE DEF p, u
<1>5. /\ DOMAIN node' = Node /\ DOMAIN chan' = Node
      /\ node'[n] = u /\ node'[p] = node[p]
      /\ chan'[n] = chan[n] \o t.out /\ chan'[p] = channels[p]
  BY <1>1, <1>2, <1>3
<1>6. Link(node[p], channels[p], u)
  <2>1. Link(node[p], channels[p], t)
    BY DEF p
  <2> QED
    BY <1>4, <2>1, ReceiverAdvances
<1>7. node'[n].out = <<>> /\ Link(node'[n], chan'[n], node'[Peer(n)])
  <2>1. Peer(n) = p
    BY DEF p
  <2> QED
    BY <1>4, <1>5, <2>1
<1>8. node'[p].out = <<>> /\ Link(node'[p], chan'[p], node'[Peer(p)])
  BY <1>1, <1>2, <1>5, <1>6
<1>9. \A m \in Node : node'[m].out = <<>> /\ Link(node'[m], chan'[m], node'[Peer(m)])
  BY <1>1, <1>7, <1>8
<1> QED
  BY <1>5, <1>9 DEF SyncInv

\* A callback that receives nothing from the peer.
LEMMA LocalInv ==
  ASSUME SyncInv, NEW n \in Node, NEW t,
         Link(t, chan[n], node[Peer(n)]), Advance(t, node[n]), Finish(n, t, chan)
  PROVE  SyncInv'
<1>1. Peer(n) \in Node /\ Peer(Peer(n)) = n
  BY PeerFacts
<1>2. DOMAIN chan = Node /\ Link(node[Peer(n)], chan[Peer(n)], node[n])
  BY <1>1 DEF SyncInv
<1>3. Link(node[Peer(n)], chan[Peer(n)], t)
  BY <1>2, ReceiverAdvances
<1> QED
  BY <1>2, <1>3, FinishInv

\* What a callback starts from.
LEMMA BeginLink ==
  ASSUME SyncInv, NEW n \in Node
  PROVE  /\ Link(Begin(n), chan[n], node[Peer(n)]) /\ Advance(Begin(n), node[n])
         /\ SameConnection(Begin(n), node[n]) /\ Begin(n).db = node[n].db
         /\ DbOK(node[n].db) /\ DbOK(node[Peer(n)].db)
<1>1. Link(node[n], chan[n], node[Peer(n)])
  BY DEF SyncInv
<1>2. DOMAIN node[n] = Fields /\ DbOK(node[n].db)
  BY <1>1, FlowFacts DEF Link
<1>3. SameConnection(Begin(n), node[n]) /\ Begin(n).db = node[n].db
  BY <1>2 DEF Begin, SameConnection, Fields
<1>4. Link(Begin(n), chan[n], node[Peer(n)]) /\ Advance(Begin(n), node[n])
  BY <1>1, <1>3, SameDb
<1>5. Peer(n) \in Node
  BY PeerFacts
<1>6. Link(node[Peer(n)], chan[Peer(n)], node[Peer(Peer(n))])
  BY <1>5 DEF SyncInv
<1>7. DbOK(node[Peer(n)].db)
  BY <1>6, FlowFacts DEF Link
<1> QED
  BY <1>2, <1>3, <1>4, <1>7

LEMMA ConnectInv ==
  ASSUME SyncInv, NEW n \in Node, Connect(n)
  PROVE  SyncInv'
<1> DEFINE s == Begin(n)
           K == chan[n]
           y == node[Peer(n)]
           st == ConnectionStateStart(node[n].db.head, FALSE, FALSE, None)
           u == [s EXCEPT !.state = st]
           t == AsyncSendNext(u)
<1>1. node[n].state = NotConnected /\ Finish(n, t, chan)
  BY DEF Connect
<1>2. /\ Link(s, K, y) /\ Advance(s, node[n]) /\ SameConnection(s, node[n])
      /\ s.db = node[n].db /\ DbOK(node[n].db) /\ DbOK(y.db)
  BY BeginLink
<1> HIDE DEF s, K, y
<1>3. Flow(s, K, y) /\ StateOK(s, K \o s.out, y) /\ DOMAIN s = Fields
  BY <1>2, FlowFacts DEF Link
<1>4. s.state = NotConnected /\ s.sending = FALSE /\ K \o s.out = <<>>
  <2>1. s.state = NotConnected
    BY <1>1, <1>2 DEF SameConnection
  <2>2. s.state.tag = "none"
    BY <2>1 DEF NotConnected
  <2> QED
    BY <1>3, <2>1, <2>2 DEF StateOK
<1>5. /\ DOMAIN u = Fields /\ u.db = s.db /\ u.sending = s.sending /\ u.out = s.out
      /\ u.state = st
  BY <1>3 DEF Fields
<1> HIDE DEF u
<1>6. /\ st.tag = "start" /\ st.hello = node[n].db.head /\ st.committed = FALSE
      /\ st.hello_sent = FALSE /\ st.common = None
  BY DEF ConnectionStateStart
<1>7. st = ConnectionStateStart(st.hello, st.committed, st.hello_sent, st.common)
  BY <1>6
<1> HIDE DEF st
<1>8. node[n].db.head \in World /\ IsAncestor(node[n].db.head, node[n].db.head)
  BY <1>2, DbFacts, IsAncestorRefl
<1>9. StartOK(u, y)
  <2>1. u.state.committed \in BOOLEAN /\ u.state.hello_sent \in BOOLEAN
    BY <1>5, <1>6, Zenon
  <2>2. /\ u.state = ConnectionStateStart(u.state.hello, u.state.committed, u.state.hello_sent,
                                          u.state.common)
        /\ u.state.hello \in World /\ IsAncestor(u.state.hello, u.db.head)
    BY <1>2, <1>5, <1>6, <1>7, <1>8
  <2>3. ~u.state.committed /\ u.state.common = None
    BY <1>5, <1>6
  <2> QED
    BY <2>1, <2>2, <2>3, Zenon DEF StartOK
<1>10. Advance(u, s)
  BY <1>4, <1>5 DEF Advance, StateAdvance, NotConnected
<1>11. Flow(u, K, y)
  <2>1. StateOK(u, K \o s.out, y)
    BY <1>5, <1>6, <1>9 DEF StateOK
  <2>2. u.sending \in BOOLEAN /\ DbOK(u.db)
    BY <1>2, <1>4, <1>5
  <2> QED
    BY <1>3, <1>5, <1>10, <2>1, <2>2, FlowIntro
<1>12. Link(t, K, y) /\ Advance(t, u)
  BY <1>2, <1>11, AsyncSendNextLink DEF Sends
<1> HIDE DEF t
<1>13. Advance(t, node[n])
  BY <1>2, <1>10, <1>12, AdvanceTrans
<1> QED
  BY <1>1, <1>12, <1>13, LocalInv DEF K, y

LEMMA SendHandlerInv ==
  ASSUME SyncInv, NEW n \in Node, SendHandler(n)
  PROVE  SyncInv'
<1> DEFINE s == Begin(n)
           K == chan[n]
           y == node[Peer(n)]
           u == [s EXCEPT !.sending = FALSE]
           t == AsyncSendNext(u)
<1>1. Finish(n, t, chan)
  BY DEF SendHandler
<1>2. Link(s, K, y) /\ Advance(s, node[n]) /\ DbOK(y.db)
  BY BeginLink
<1> HIDE DEF s, K, y
<1>3. Flow(s, K, y) /\ StateOK(s, K \o s.out, y) /\ DOMAIN s = Fields /\ DbOK(s.db)
  BY <1>2, FlowFacts DEF Link
<1>4. /\ DOMAIN u = Fields /\ u.db = s.db /\ u.sending = FALSE /\ u.out = s.out
      /\ u.state = s.state
  BY <1>3 DEF Fields
<1> HIDE DEF u
<1>5. Advance(u, s)
  BY <1>4, SameAdvance DEF Advance
<1>6. StateOK(u, K \o s.out, y)
  BY <1>3, <1>4 DEF StateOK, StartOK, ReadyOK
<1>7. Flow(u, K, y)
  BY <1>3, <1>4, <1>5, <1>6, FlowIntro
<1>8. Link(t, K, y) /\ Advance(t, u)
  BY <1>2, <1>7, AsyncSendNextLink DEF Sends
<1> HIDE DEF t
<1>9. Advance(t, node[n])
  BY <1>2, <1>5, <1>8, AdvanceTrans
<1> QED
  BY <1>1, <1>8, <1>9, LocalInv DEF K, y

LEMMA RecvInv ==
  ASSUME SyncInv, NEW n \in Node, Recv(n)
  PROVE  SyncInv'
<1> DEFINE s == Begin(n)
           K == chan[n]
           p == Peer(n)
           y == node[p]
           m == Head(chan[p])
           t == IF m.type = "hello" THEN RecvHello(s, m) ELSE RecvBlock(s, m.xid)
           channels == [chan EXCEPT ![p] = Tail(@)]
<1>1. node[n].state # NotConnected /\ chan[p] # <<>> /\ Finish(n, t, channels)
  BY DEF Recv, CanRecv
<1>2. /\ Link(s, K, y) /\ Advance(s, node[n]) /\ SameConnection(s, node[n])
      /\ s.db = node[n].db /\ DbOK(node[n].db) /\ DbOK(y.db)
  BY BeginLink
<1>3. p \in Node /\ p # n /\ Peer(p) = n
  BY PeerFacts
<1>4. DOMAIN chan = Node /\ y.out = <<>> /\ Link(y, chan[p], node[n])
  BY <1>3 DEF SyncInv
<1> HIDE DEF s, K, p, y
<1>5. /\ chan[p] \in Seq(Message) /\ chan[p] \o y.out = chan[p]
      /\ \A i \in 1..Len(chan[p] \o y.out) :
           (chan[p] \o y.out)[i] \in Message /\ MessageOK(y, chan[p] \o y.out, node[n], i)
  <2>1. /\ chan[p] \in Seq(Message)
        /\ \A i \in 1..Len(chan[p] \o y.out) :
             (chan[p] \o y.out)[i] \in Message /\ MessageOK(y, chan[p] \o y.out, node[n], i)
    BY <1>4, FlowFacts DEF Link
  <2>2. chan[p] \o y.out = chan[p]
    BY <1>4, <2>1
  <2> QED
    BY <2>1, <2>2
<1>6. 1 \in 1..Len(chan[p]) /\ chan[p][1] = m
  BY <1>1, <1>5
<1>7. m \in Message /\ MessageOK(y, chan[p], node[n], 1)
  BY <1>5, <1>6
<1>8. y.state.tag # "none"
  BY <1>4, <1>5, <1>6, NoneSent DEF Link
<1>9. s.state.tag # "none"
  <2>1. s.state # NotConnected
    BY <1>1, <1>2 DEF SameConnection
  <2>2. StateOK(s, K \o s.out, y)
    BY <1>2, FlowFacts DEF Link
  <2> QED
    BY <2>1, <2>2 DEF StateOK
<1> HIDE DEF m
<1>10. m.xid \in World /\ m.type \in {"hello", "block"}
  BY <1>7 DEF Message
<1>11. Link(t, K, y) /\ Advance(t, s) /\ (m.type = "block" => Has(t.db, m.xid))
  <2>1. CASE m.type = "hello"
    <3>1. HelloOK(m, y)
      BY <1>6, <1>7, <1>8, <1>10 DEF HelloOK, MessageOK
    <3>2. t = RecvHello(s, m)
      BY <2>1
    <3> HIDE DEF t
    <3> QED
      BY <1>2, <2>1, <3>1, <3>2, RecvHelloLink
  <2>2. CASE m.type = "block"
    <3>1. /\ Has(y.db, m.xid) /\ Len(m.xid) >= 2
          /\ \/ Has(node[n].db, Previous(m.xid))
             \/ \E j \in 1..(1 - 1) : chan[p][j] = BlockMessage(Previous(m.xid))
      BY <1>6, <1>7, <2>2 DEF MessageOK
    <3>2. Has(s.db, Previous(m.xid))
      BY <1>2, <3>1
    <3>3. t = RecvBlock(s, m.xid)
      BY <2>2
    <3> HIDE DEF t
    <3> QED
      BY <1>2, <1>9, <1>10, <3>1, <3>2, <3>3, RecvBlockLink
  <2> QED
    BY <1>10, <2>1, <2>2
<1> HIDE DEF t
<1>12. Advance(t, node[n])
  BY <1>2, <1>11, AdvanceTrans
<1>13. Link(y, chan[p], t)
  BY <1>4, <1>12, ReceiverAdvances
<1>14. Link(y, Tail(chan[p]), t)
  BY <1>1, <1>4, <1>11, <1>13, MessageDelivered DEF m
<1>15. DOMAIN channels = Node /\ channels[n] = chan[n] /\ channels[p] = Tail(chan[p])
  BY <1>3, <1>4
<1> HIDE DEF channels
<1>16. Link(t, chan[n], node[Peer(n)]) /\ Link(node[Peer(n)], channels[Peer(n)], t)
  BY <1>11, <1>14, <1>15 DEF K, y, p
<1> QED
  BY <1>1, <1>15, <1>16, FinishInv

LEMMA LearnInv ==
  ASSUME SyncInv, NEW n \in Node, NEW b \in World, Learn(n, b)
  PROVE  SyncInv'
<1> DEFINE s == Begin(n)
           K == chan[n]
           y == node[Peer(n)]
           t == SwitchForkAndGc(AcceptHeader(s, b))
<1>1. CanInsert(node[n].db, b) /\ Finish(n, t, chan)
  BY DEF Learn
<1>2. /\ Link(s, K, y) /\ Advance(s, node[n]) /\ s.db = node[n].db /\ DbOK(y.db)
  BY BeginLink
<1> HIDE DEF s, K, y
<1>3. Link(t, K, y) /\ Advance(t, s)
  BY <1>1, <1>2, LearnLink
<1> HIDE DEF t
<1>4. Advance(t, node[n])
  BY <1>2, <1>3, AdvanceTrans
<1> QED
  BY <1>1, <1>3, <1>4, LocalInv DEF K, y

LEMMA CommitBlockInv ==
  ASSUME SyncInv, NEW n \in Node, NEW num \in 1..BlockNum(Final), CommitBlock(n, num)
  PROVE  SyncInv'
<1> DEFINE s == Begin(n)
           K == chan[n]
           y == node[Peer(n)]
           d == Commit(s.db, num)
           t == [s EXCEPT !.db = d]
<1>1. /\ num \in (node[n].db.commitIndex + 1)..Len(node[n].db.head)
      /\ MayCommit(node[n].db.head, num) /\ Finish(n, t, chan)
  BY DEF CommitBlock, BlockNum
<1>2. /\ Link(s, K, y) /\ Advance(s, node[n]) /\ s.db = node[n].db /\ DbOK(node[n].db)
  BY BeginLink
<1> HIDE DEF s, K, y
<1>3. num \in 1..Len(s.db.head)
  BY <1>1, <1>2, DbFacts
<1>4. /\ DbOK(d) /\ d.head = s.db.head /\ d.commitIndex >= s.db.commitIndex
      /\ \A b \in World : Has(s.db, b) => Has(d, b)
  BY <1>1, <1>2, <1>3, CommitDb
<1> HIDE DEF d
<1>5. DOMAIN s = Fields
  BY <1>2, FlowFacts DEF Link
<1>6. SameConnection(t, s) /\ t.db = d
  BY <1>5 DEF SameConnection, Fields
<1> HIDE DEF t
<1>7. Link(t, K, y) /\ Advance(t, s)
  BY <1>2, <1>4, <1>6, DbChanges
<1>8. Advance(t, node[n])
  BY <1>2, <1>7, AdvanceTrans
<1> QED
  BY <1>1, <1>7, <1>8, LocalInv DEF K, y

LEMMA InitInv ==
  ASSUME Init
  PROVE  SyncInv
<1>1. /\ DOMAIN node = Node /\ DOMAIN chan = Node
      /\ \A n \in Node : node[n] = NewNode /\ chan[n] = <<>>
  BY DEF Init
<1>2. /\ DOMAIN NewNode = Fields /\ NewNode.db = NewDb(FirstBlock)
      /\ NewNode.state = NotConnected /\ NewNode.sending = FALSE /\ NewNode.out = <<>>
  BY DEF NewNode, Fields
<1>3. Flow(NewNode, <<>>, NewNode)
  <2>1. <<>> \o NewNode.out = <<>> /\ Len(<<>>) = 0 /\ <<>> \in Seq(Message)
    BY <1>2
  <2>2. StateOK(NewNode, <<>>, NewNode)
    BY <1>2 DEF StateOK
  <2>3. NewNode.sending \in BOOLEAN /\ DbOK(NewNode.db) /\ NewNode.out \in Seq(Message)
    BY <1>2, <2>1, NewDbOK
  <2>4. \A i \in 1..Len(<<>>) : MessageOK(NewNode, <<>>, NewNode, i)
    BY <2>1
  <2> HIDE DEF NewNode
  <2> QED
    BY <1>2, <2>1, <2>2, <2>3, <2>4 DEF Flow
<1>4. WaitOK(NewNode, NewNode)
  BY <1>2 DEF WaitOK, NotConnected
<1>5. \A n \in Node : Peer(n) \in Node
  BY PeerFacts
<1> QED
  BY <1>1, <1>2, <1>3, <1>4, <1>5 DEF SyncInv, Link

\* The invariant holds: what a node believes about its peer is true, and stays true
\* while both nodes learn, switch forks, commit and prune.
THEOREM SyncInvariant == Spec => []SyncInv
<1>1. Init => SyncInv
  BY InitInv
<1>2. SyncInv /\ [Next]_vars => SyncInv'
  <2>1. SUFFICES ASSUME SyncInv, [Next]_vars PROVE SyncInv'
    OBVIOUS
  <2>2. CASE UNCHANGED vars
    <3>1. node' = node /\ chan' = chan
      BY <2>2 DEF vars
    <3> QED
      BY <2>1, <3>1 DEF SyncInv
  <2>3. ASSUME NEW n \in Node,
               \/ Connect(n) \/ SendHandler(n) \/ Recv(n)
               \/ \E b \in World : Learn(n, b)
               \/ \E num \in 1..BlockNum(Final) : CommitBlock(n, num)
        PROVE  SyncInv'
    BY <2>1, <2>3, ConnectInv, SendHandlerInv, RecvInv, LearnInv, CommitBlockInv
  <2> QED
    BY <2>1, <2>2, <2>3 DEF Next
<1> QED
  BY <1>1, <1>2, PTL DEF Spec

-----------------------------------------------------------------------------
(***************************************************************************)
(* What the invariant is for.                                              *)
(***************************************************************************)
\* Both ends of a link.
LEMMA SyncFacts ==
  ASSUME SyncInv, NEW n \in Node
  PROVE  /\ Flow(node[n], chan[n], node[Peer(n)]) /\ WaitOK(node[n], node[Peer(n)])
         /\ DbOK(node[n].db) /\ DbOK(node[Peer(n)].db)
         /\ chan[n] \o node[n].out = chan[n]
         /\ StateOK(node[n], chan[n], node[Peer(n)])
         /\ Len(chan[n]) \in Nat
         /\ \A i \in 1..Len(chan[n]) :
              chan[n][i].xid \in World /\ MessageOK(node[n], chan[n], node[Peer(n)], i)
<1> DEFINE s == node[n]
           K == chan[n]
           y == node[Peer(n)]
<1>1. s.out = <<>> /\ Flow(s, K, y) /\ WaitOK(s, y)
  BY DEF SyncInv, Link
<1>2. DbOK(s.db) /\ DbOK(y.db)
  BY BeginLink
<1> HIDE DEF s, K, y
<1>3. /\ K \in Seq(Message) /\ StateOK(s, K \o s.out, y)
      /\ \A i \in 1..Len(K \o s.out) : (K \o s.out)[i].xid \in World /\ MessageOK(s, K \o s.out, y, i)
  BY <1>1, FlowFacts
<1>4. K \o s.out = K /\ Len(K) \in Nat
  BY <1>1, <1>3
<1> QED
  BY <1>1, <1>2, <1>3, <1>4 DEF s, K, y

\* No connection ever fails: on_fork_switch always knows the blocks that a connection
\* refers to, although orphaned blocks are pruned after each switch; there is always a
\* next block to send; and two nodes never find that they have irreversible blocks on
\* different forks.
THEOREM SyncNoConnectionError == Spec => []NoConnectionError
<1>1. SyncInv => NoConnectionError
  <2>1. SUFFICES ASSUME SyncInv, NEW n \in Node PROVE node[n].state # ConnectionError
    BY DEF NoConnectionError
  <2>2. StateOK(node[n], chan[n], node[Peer(n)])
    BY <2>1, SyncFacts
  <2>3. node[n].state.tag # "error"
    BY <2>2 DEF StateOK, NotConnected
  <2> QED
    BY <2>3 DEF ConnectionError
<1> QED
  BY <1>1, SyncInvariant, PTL

\* Every block is sent after its predecessor, even if the sender switches to another
\* fork while blocks are on their way and the receiver prunes forks meanwhile: the
\* receiver never drops a block because its predecessor is missing.
THEOREM SyncBlocksArriveInOrder == Spec => []BlocksArriveInOrder
<1>1. SyncInv => BlocksArriveInOrder
  <2>1. SUFFICES ASSUME SyncInv, NEW n \in Node, NEW i \in 1..Len(chan[n]),
                        chan[n][i].type = "block"
                 PROVE  \/ HasOrIgnores(Peer(n), Previous(chan[n][i].xid))
                        \/ Sent(n, Previous(chan[n][i].xid), i)
    BY DEF BlocksArriveInOrder
  <2> DEFINE b == chan[n][i].xid
             y == node[Peer(n)]
  <2>2. b \in World /\ MessageOK(node[n], chan[n], y, i) /\ DbOK(y.db)
    BY <2>1, SyncFacts
  <2>3. Len(b) >= 2
    BY <2>1, <2>2 DEF MessageOK
  <2>4. CASE Has(y.db, Previous(b))
    <3>1. Previous(b) \in World
      BY <2>2, <2>3, PreviousInWorld
    <3> QED
      BY <2>2, <2>4, <3>1, HasKnown DEF HasOrIgnores
  <2>5. CASE \E j \in 1..(i - 1) : chan[n][j] = BlockMessage(Previous(b))
    BY <2>5 DEF Sent
  <2> QED
    BY <2>1, <2>2, <2>4, <2>5 DEF MessageOK
<1> QED
  BY <1>1, SyncInvariant, PTL

\* If peer_has_block returns true then the peer has the block, or receives it before
\* any message that is sent from now on, or has forked it out.
THEOREM SyncPeerHasBlock == Spec => []PeerHasBlockIsTrue
<1>1. SyncInv => PeerHasBlockIsTrue
  <2>1. SUFFICES ASSUME SyncInv, NEW n \in Node, NEW b \in World, PeerHasBlock(n, b)
                 PROVE  HasOrIgnores(Peer(n), b) \/ Sent(n, b, Len(chan[n]) + 1)
    BY DEF PeerHasBlockIsTrue
  <2> DEFINE s == node[n]
             K == chan[n]
             y == node[Peer(n)]
  <2>2. /\ Flow(s, K, y) /\ DbOK(s.db) /\ DbOK(y.db) /\ K \o s.out = K
        /\ StateOK(s, K, y) /\ Len(K) \in Nat
    BY <2>1, SyncFacts
  <2>3. s.state.tag = "ready"
    BY <2>1 DEF PeerHasBlock, Ready
  <2>4. /\ s.state.last_sent \in World /\ IsAncestor(s.state.last_sent, s.db.head)
        /\ WillHave(y, K, s.state.last_sent)
        /\ s.state.last_received \in World /\ Has(y.db, s.state.last_received)
    BY <2>2, <2>3 DEF StateOK, ReadyOK, NotConnected
  <2>5. b \in Block /\ s.state.last_sent \in Block /\ s.db.head \in Block
    BY <2>2, <2>4, WorldBlock, DbFacts
  <2>6. WillHave(y, K, b)
    <3>1. CASE InBestChain(s.db, b) /\ Len(b) <= Len(s.state.last_sent)
      <4>1. Len(b) \in 1..Len(s.db.head) /\ b = Ancestor(s.db.head, Len(b))
        BY <2>2, <3>1, IndexFacts DEF InBestChain, DbOK, Good
      <4>2. IsAncestor(b, s.db.head)
        BY <2>5, <4>1, IsAncestorOfBlock
      <4>3. IsAncestor(b, s.state.last_sent)
        BY <2>4, <2>5, <3>1, <4>2, ComparableAncestors
      <4> QED
        BY <2>2, <2>4, <2>5, <4>3, WillHaveAncestors
    <3>2. CASE IsAncestor(b, s.state.last_received)
      <4>1. Has(y.db, b)
        BY <2>2, <2>4, <2>5, <3>2, HasAncestors
      <4> QED
        BY <4>1 DEF WillHave
    <3> QED
      BY <2>1, <3>1, <3>2 DEF PeerHasBlock, BlockNum
  <2>7. CASE Has(y.db, b)
    BY <2>2, <2>7, HasKnown DEF HasOrIgnores
  <2>8. CASE Carries(K, b)
    <3>1. (Len(K) + 1) - 1 = Len(K)
      BY <2>2
    <3> QED
      BY <2>8, <3>1 DEF Sent, Carries
  <2> QED
    BY <2>6, <2>7, <2>8 DEF WillHave
<1> QED
  BY <1>1, SyncInvariant, PTL

\* Two nodes never wait for each other's blocks: if one has ended its search and waits,
\* the other ended its own with a later block, or is sending.
THEOREM SyncNotBothWaiting == Spec => []NotBothWaiting
<1>1. SyncInv => NotBothWaiting
  <2>1. SUFFICES ASSUME SyncInv, \A n \in Node : Waiting(n) PROVE FALSE
    BY DEF NotBothWaiting
  <2>2. PICK n \in Node : TRUE
    BY BlockSyncAssumption
  <2>3. Peer(n) \in Node /\ Peer(Peer(n)) = n
    BY PeerFacts
  <2> DEFINE s == node[n]
             y == node[Peer(n)]
  <2>4. /\ s.state.tag = "start" /\ s.state.committed /\ ~s.sending /\ s.state.common # None
        /\ y.state.tag = "start" /\ y.state.committed /\ ~y.sending /\ y.state.common # None
    BY <2>1, <2>3 DEF Waiting
  <2>5. WaitOK(s, y) /\ WaitOK(y, s)
    BY <2>1, <2>3, SyncFacts
  <2>6. s.sending \in BOOLEAN /\ y.sending \in BOOLEAN
    <3>1. Flow(s, chan[n], y) /\ Flow(y, chan[Peer(n)], s)
      BY <2>1, <2>3, SyncFacts
    <3> HIDE DEF s, y
    <3> QED
      BY <3>1, FlowFacts
  <2>7. s.state.hello \in World /\ y.state.hello \in World
    <3>1. Flow(s, chan[n], y) /\ Flow(y, chan[Peer(n)], s)
      BY <2>1, <2>3, SyncFacts
    <3> HIDE DEF s, y
    <3> QED
      BY <2>4, <3>1, StartFacts
  <2>8. Len(s.state.hello) \in Nat /\ Len(y.state.hello) \in Nat
    BY <2>7, WorldBlock
  <2>9. s.sending = FALSE /\ y.sending = FALSE
    BY <2>4, <2>6
  <2>10. Len(y.state.hello) > Len(s.state.hello) /\ Len(s.state.hello) > Len(y.state.hello)
    BY <2>4, <2>5, <2>9 DEF WaitOK
  <2> DEFINE i == Len(s.state.hello)
             j == Len(y.state.hello)
  <2>11. i \in Nat /\ j \in Nat
    BY <2>8
  <2>12. j > i /\ i > j
    BY <2>10
  <2> HIDE DEF i, j
  <2> QED
    BY <2>11, <2>12
<1> QED
  BY <1>1, SyncInvariant, PTL
=============================================================================
