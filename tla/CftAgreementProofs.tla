------------------------- MODULE CftAgreementProofs -------------------------
(***************************************************************************)
(* Agreement of the crash fault tolerant consensus algorithm, for every    *)
(* number of producers, blocks and elections, as long as no node is        *)
(* restarted: only one fork can become irreversible, the leader of the     *)
(* newest term builds on it, and no node ever stops with a consensus       *)
(* failure.                                                                *)
(*                                                                         *)
(* A block is chosen when a quorum has accepted it: its producer, and the  *)
(* nodes that sent a ConfirmMessage for it or for a later block of the     *)
(* same term.  A vote goes only to a candidate whose head is at least as   *)
(* good as the voter's, and a voter never accepts a block of an earlier    *)
(* term again, so a leader either has a block of an earlier term in its    *)
(* chain or that block can no longer be chosen.                            *)
(***************************************************************************)
EXTENDS CftProofs

\* All blocks there are.
Known == produced \cup {FirstBlock}

\* Producer p has accepted the block of term t with number k, or a later one.
Accepted(p, t, k) ==
  \/ \E m \in msgs : m.type = "Confirm" /\ m.follower_id = p /\ m.term = t /\ m.head_num >= k
  \/ \E b \in produced : Term(b) = t /\ b[Len(b)].producer = p /\ Len(b) >= k

Chosen(c) ==
  \E Q \in SUBSET Producer :
    IsQuorum("cft", Q, Producer) /\ \A p \in Q : Accepted(p, Term(c), Len(c))

\* A block of term t with number k can no longer be chosen.
Passed(t, k) ==
  \E Q \in SUBSET Producer :
    /\ IsQuorum("cft", Q, Producer)
    /\ \A p \in Q : node[p].current_term > t /\ ~Accepted(p, t, k)

\* Block x is the first one or an ancestor of a block chosen by term t.
Irreversible(x, t) ==
  \/ x = FirstBlock
  \/ \E c \in Known : Chosen(c) /\ Term(c) <= t /\ IsAncestor(x, c)

\* The head that a vote request advertises is at least as good as term t and number k.
Advertises(m, t, k) ==
  m.last_log_term > t \/ (m.last_log_term = t /\ m.last_log_index >= k)

-----------------------------------------------------------------------------
(***************************************************************************)
(* The inductive invariant.                                                *)
(***************************************************************************)
\* Blocks build on the first one, never fail, and their terms do not decrease.
KnownBlocks ==
  \A b \in Known :
    /\ IsAncestor(FirstBlock, b) /\ AllValid(b) /\ TermsGrow(b) /\ Len(b) <= MaxNum + 1
    /\ \A i \in 1..Len(b) : Ancestor(b, i) \in Known

\* The database of each node is a tree of such blocks, none of a later term.
NodeBlocks ==
  \A n \in Producer :
    /\ Tidy(node[n].db) /\ node[n].db.states \subseteq Known
    /\ \A b \in node[n].db.states : Term(b) <= node[n].current_term

\* A term and a number name one block, and a leader has all blocks of its term.
OneChain == OneChainPerTerm(Known)

LeaderChain ==
  \A n \in Producer : node[n]._state = "leader" =>
    \A b \in Known : Term(b) = node[n].current_term => IsAncestor(b, node[n].db.head)

\* A producer remains the leader until it enters a later term, and its head never gets
\* worse than a block it produced or confirmed.
ProducersLead ==
  \A b \in produced :
    LET p == b[Len(b)].producer
    IN  /\ p \in Producer /\ Term(b) <= node[p].current_term
        /\ Term(b) = node[p].current_term => node[p]._state = "leader"
        /\ AtLeast(node[p].db.head, Term(b), Len(b))

ConfirmsTrue ==
  \A m \in msgs : m.type = "Confirm" =>
    /\ m.term <= node[m.follower_id].current_term
    /\ AtLeast(node[m.follower_id].db.head, m.term, m.head_num)
    /\ \E c \in Known : Term(c) = m.term /\ Len(c) = m.head_num

\* Nor than the head it asked for votes with, as long as the term lasts.
Candidacies ==
  \A m \in msgs : m.type = "RequestVote" =>
    /\ m.term <= node[m.candidate_id].current_term
    /\ m.term = node[m.candidate_id].current_term =>
         AtLeast(node[m.candidate_id].db.head, m.last_log_term, m.last_log_index)

\* A vote is for a head at least as good as all that the voter had accepted before.
VotesUpToDate ==
  \A b \in ballots : \E m \in msgs :
    /\ m.type = "RequestVote" /\ m.term = b[1] /\ m.candidate_id = b[3]
    /\ \A t, k \in Nat : t < b[1] /\ Accepted(b[2], t, k) => Advertises(m, t, k)

VotesRecorded ==
  \A n \in Producer : node[n].voted_for # NullProducer =>
    <<node[n].current_term, n, node[n].voted_for>> \in ballots

\* A block either builds on a block of an earlier term or that one cannot be chosen
\* any more.  The same holds for the next block of a leader.
SafeBlocks ==
  \A b, c \in Known : Term(c) < Term(b) => IsAncestor(c, b) \/ Passed(Term(c), Len(c))

SafeLeaders ==
  \A n \in Producer : node[n]._state = "leader" =>
    \A c \in Known : Term(c) < node[n].current_term =>
      IsAncestor(c, node[n].db.head) \/ Passed(Term(c), Len(c))

\* A leader counts only blocks of its own term that were accepted.
Counted(s) ==
  \A p \in Producer :
    \/ s.match_index[p] = 0
    \/ /\ Accepted(p, s.current_term, s.match_index[p])
       /\ \E c \in Known : Term(c) = s.current_term /\ Len(c) = s.match_index[p]

MatchTrue == \A n \in Producer : node[n]._state = "leader" => Counted(node[n])

\* What a node, or a header, regards as irreversible is.
CommitsChosen == \A n \in Producer : Irreversible(Committed(n), node[n].current_term)

HeadersTrue == \A b \in Known : Irreversible(Ancestor(b, CommitNum(b)), Term(b))

BlocksInv == KnownBlocks /\ OneChain /\ HeadersTrue /\ SafeBlocks

AgreementInv ==
  /\ BlocksInv /\ NodeBlocks /\ LeaderChain /\ ProducersLead /\ ConfirmsTrue
  /\ Candidacies /\ VotesUpToDate /\ VotesRecorded /\ SafeLeaders /\ MatchTrue
  /\ CommitsChosen

-----------------------------------------------------------------------------
(***************************************************************************)
(* Consequences.                                                           *)
(***************************************************************************)
\* All blocks are blocks.
LEMMA KnownFacts ==
  ASSUME Inv
  PROVE  /\ Known \subseteq Block /\ FirstBlock \in Block /\ FirstBlock \in Known
         /\ Len(FirstBlock) = 1 /\ Term(FirstBlock) = 0 /\ CommitNum(FirstBlock) = 1
         /\ \A b \in Known : /\ b \in Block /\ Term(b) \in Nat /\ Len(b) \in Nat /\ Len(b) >= 1
                             /\ CommitNum(b) \in 1..Len(b)
<1>1. Known \subseteq Block /\ FirstBlock \in Block /\ FirstBlock \in Known
  BY FirstIsBlock DEF Inv, Known
<1>2. Len(FirstBlock) = 1 /\ Term(FirstBlock) = 0 /\ CommitNum(FirstBlock) = 1
  BY DEF FirstBlock, Term, CommitNum
<1> QED
  BY <1>1, <1>2, BlockFacts

\* The order of heads by term and number is transitive.
LEMMA AtLeastTrans ==
  ASSUME NEW b \in Block, NEW c \in Block, NEW t \in Nat, NEW k \in Nat,
         AtLeast(b, Term(c), Len(c)), AtLeast(c, t, k)
  PROVE  AtLeast(b, t, k)
<1>1. Term(b) \in Nat /\ Len(b) \in Nat /\ Term(c) \in Nat /\ Len(c) \in Nat
  BY BlockFacts
<1> QED
  BY <1>1 DEF AtLeast

\* Every block is as good as itself.
LEMMA AtLeastRefl ==
  ASSUME NEW b \in Block
  PROVE  AtLeast(b, Term(b), Len(b))
  BY BlockFacts DEF AtLeast

\* A descendant is at least as good.
LEMMA AtLeastAncestor ==
  ASSUME NEW a \in Block, NEW b \in Block, IsAncestor(a, b), TermsGrow(b)
  PROVE  AtLeast(b, Term(a), Len(a))
<1>1. Term(a) \in Nat /\ Term(b) \in Nat /\ Len(a) \in Nat /\ Len(b) \in Nat
      /\ Term(a) <= Term(b) /\ Len(a) <= Len(b)
  BY BlockFacts, AncestorTerm DEF IsAncestor
<1> QED
  BY <1>1 DEF AtLeast

\* Two quorums share a producer, who cannot both have accepted and not have accepted.
LEMMA ChosenNotPassed ==
  ASSUME NEW c, Chosen(c)
  PROVE  ~Passed(Term(c), Len(c))
<1> SUFFICES ASSUME Passed(Term(c), Len(c)) PROVE FALSE
  OBVIOUS
<1>1. PICK Q \in SUBSET Producer :
        IsQuorum("cft", Q, Producer) /\ \A p \in Q : Accepted(p, Term(c), Len(c))
  BY DEF Chosen
<1>2. PICK R \in SUBSET Producer :
        IsQuorum("cft", R, Producer) /\ \A p \in R : ~Accepted(p, Term(c), Len(c))
  BY DEF Passed
<1>3. PICK p : p \in Q /\ p \in R
  BY <1>1, <1>2, CftAssumption, CftQuorumsIntersect
<1> QED
  BY <1>1, <1>2, <1>3

\* A chosen block is an ancestor of every block that is at least as good.
LEMMA ChosenIsAncestor ==
  ASSUME Inv, BlocksInv, NEW b \in Known, NEW c \in Known, Chosen(c),
         AtLeast(b, Term(c), Len(c))
  PROVE  IsAncestor(c, b)
<1>1. CASE Term(b) > Term(c)
  <2>1. Term(c) < Term(b)
    BY <1>1, KnownFacts
  <2> QED
    BY <2>1, ChosenNotPassed DEF BlocksInv, SafeBlocks
<1>2. CASE Term(b) = Term(c) /\ Len(b) >= Len(c)
  <2>1. Len(c) <= Len(b)
    BY <1>2, KnownFacts
  <2> QED
    BY <1>2, <2>1 DEF BlocksInv, OneChain, OneChainPerTerm
<1> QED
  BY <1>1, <1>2 DEF AtLeast

\* Two heads can be compared.
LEMMA AtLeastTotal ==
  ASSUME NEW b \in Block, NEW c \in Block
  PROVE  AtLeast(b, Term(c), Len(c)) \/ AtLeast(c, Term(b), Len(b))
<1>1. Term(b) \in Nat /\ Len(b) \in Nat /\ Term(c) \in Nat /\ Len(c) \in Nat
  BY BlockFacts
<1> QED
  BY <1>1 DEF AtLeast

\* Of two irreversible blocks one is an ancestor of the other.
LEMMA IrreversibleOrdered ==
  ASSUME Inv, BlocksInv, NEW x \in Block, NEW y \in Block, NEW t, NEW u,
         Irreversible(x, t), Irreversible(y, u), Len(x) <= Len(y),
         IsAncestor(FirstBlock, x), IsAncestor(FirstBlock, y)
  PROVE  IsAncestor(x, y)
<1>1. CASE x = FirstBlock
  BY <1>1
<1>2. CASE y = FirstBlock
  <2>1. Len(x) = 1
    BY <1>2, KnownFacts, BlockFacts
  <2>2. x = FirstBlock
    BY <2>1, KnownFacts, AncestorSameNum
  <2> QED
    BY <1>1, <2>2
<1>3. CASE x # FirstBlock /\ y # FirstBlock
  <2>1. PICK c \in Known : Chosen(c) /\ IsAncestor(x, c)
    BY <1>3 DEF Irreversible
  <2>2. PICK d \in Known : Chosen(d) /\ IsAncestor(y, d)
    BY <1>3 DEF Irreversible
  <2>3. c \in Block /\ d \in Block
    BY KnownFacts
  <2>4. IsAncestor(c, d) \/ IsAncestor(d, c)
    BY <2>1, <2>2, <2>3, AtLeastTotal, ChosenIsAncestor
  <2>5. \E e \in Block : IsAncestor(x, e) /\ IsAncestor(y, e)
    BY <2>1, <2>2, <2>3, <2>4, IsAncestorTrans
  <2> QED
    BY <2>5, ComparableAncestors
<1> QED
  BY <1>1, <1>2, <1>3

\* An ancestor of an irreversible block is irreversible, also at a later term.
LEMMA IrreversibleAncestor ==
  ASSUME Inv, NEW x \in Block, NEW y \in Block, IsAncestor(x, y),
         NEW t \in Nat, NEW u \in Nat, t <= u, Irreversible(y, t),
         IsAncestor(FirstBlock, x)
  PROVE  Irreversible(x, u)
<1>1. CASE y = FirstBlock
  <2>1. Len(x) = 1
    BY <1>1, KnownFacts, BlockFacts DEF IsAncestor
  <2>2. x = FirstBlock
    BY <2>1, KnownFacts, AncestorSameNum
  <2> QED
    BY <2>2 DEF Irreversible
<1>2. CASE y # FirstBlock
  <2>1. PICK c \in Known : Chosen(c) /\ Term(c) <= t /\ IsAncestor(y, c)
    BY <1>2 DEF Irreversible
  <2>2. c \in Block /\ Term(c) \in Nat
    BY KnownFacts
  <2>3. IsAncestor(x, c) /\ Term(c) <= u
    BY <2>1, <2>2, IsAncestorTrans
  <2> QED
    BY <2>1, <2>3 DEF Irreversible
<1> QED
  BY <1>1, <1>2

\* Everything chosen by the term of a leader is in its chain.
LEMMA ChosenInLeader ==
  ASSUME Inv, AgreementInv, NEW n \in Producer, node[n]._state = "leader",
         NEW c \in Known, Chosen(c), Term(c) <= node[n].current_term
  PROVE  IsAncestor(c, node[n].db.head)
<1>1. Term(c) \in Nat /\ node[n].current_term \in Nat
  BY KnownFacts DEF Inv, NodeInv, NodeCore, NodeType
<1>2. CASE Term(c) = node[n].current_term
  BY <1>2 DEF AgreementInv, LeaderChain
<1>3. CASE Term(c) < node[n].current_term
  BY <1>3, ChosenNotPassed DEF AgreementInv, SafeLeaders
<1> QED
  BY <1>1, <1>2, <1>3

-----------------------------------------------------------------------------
(***************************************************************************)
(* The calls that a callback is made of.  None of them can do more than    *)
(* choose among the blocks that are known.                                 *)
(***************************************************************************)
\* What holds of a node between any two calls of a callback.
Sound(s) ==
  /\ NodeInv(s) /\ Tidy(s.db) /\ s.db.states \subseteq Known
  /\ Term(s.db.head) <= s.current_term
  /\ Irreversible(Ancestor(s.db.head, s.db.commitIndex), s.current_term)

\* Message m of node n confirms its head or one that was not better.
Confirms(n, t, m) ==
  /\ m.type = "Confirm" /\ m.follower_id = n /\ m.term = t.current_term
  /\ AtLeast(t.db.head, m.term, m.head_num)
  /\ \E c \in Known : Term(c) = m.term /\ Len(c) = m.head_num

\* A call takes the node from s to t: it forgets no block that can still become the
\* head, and confirms no block but its head.
Proceeds(n, t, s) ==
  /\ Sound(t)
  /\ t.db.states \subseteq s.db.states
  /\ \A b \in s.db.states : ExtendsCommitted(t.db, b) => b \in t.db.states
  /\ \A m \in t.out : m \in s.out \/ Confirms(n, t, m)

\* What is true of any set of known blocks.
LEMMA KnownChains ==
  ASSUME Inv, BlocksInv, NEW S \in SUBSET Known
  PROVE  /\ S \subseteq Block /\ OneChainPerTerm(S)
         /\ MaxNum + 1 \in Nat /\ \A b \in S : Len(b) <= MaxNum + 1
         /\ \A b \in S : TermsGrow(b) /\ AllValid(b)
         /\ \A b \in S : \A i \in 1..Len(b) :
              Ancestor(b, i) \in Known /\ IsAncestor(FirstBlock, Ancestor(b, i))
<1>1. S \subseteq Block
  BY KnownFacts
<1>2. OneChainPerTerm(S)
  BY DEF BlocksInv, OneChain, OneChainPerTerm
<1>3. MaxNum + 1 \in Nat
  BY CftAssumption
<1> QED
  BY <1>1, <1>2, <1>3 DEF BlocksInv, KnownBlocks

\* A node commits what the headers of its chain say.
LEMMA HeaderCommits ==
  ASSUME Inv, BlocksInv, NEW h \in Known, NEW b \in Known, IsAncestor(b, h),
         NEW j \in 1..CommitNum(b), NEW term \in Nat, Term(h) <= term
  PROVE  Irreversible(Ancestor(h, j), term)
<1> DEFINE y == Ancestor(b, CommitNum(b))
           x == Ancestor(b, j)
<1>1. /\ b \in Block /\ h \in Block /\ CommitNum(b) \in 1..Len(b) /\ Len(b) \in Nat
      /\ Term(b) \in Nat /\ Term(h) \in Nat
  BY KnownFacts
<1>2. j \in 1..Len(b)
  BY <1>1
<1>3. x = Ancestor(h, j)
  BY <1>1, <1>2, SameHistory
<1>4. x \in Block /\ y \in Block /\ IsAncestor(x, y)
  BY <1>1, <1>2, AncestorFacts, AncestorsAreOrdered
<1>5. IsAncestor(FirstBlock, x) /\ TermsGrow(h)
  BY <1>2, KnownChains
<1>6. Irreversible(y, Term(b))
  BY DEF BlocksInv, HeadersTrue
<1>7. Term(b) <= term
  <2>1. Term(b) <= Term(h)
    BY <1>1, <1>5, AncestorTerm
  <2> QED
    BY <1>1, <2>1
<1> HIDE DEF x, y
<1>8. Irreversible(x, term)
  BY <1>1, <1>4, <1>5, <1>6, <1>7, IrreversibleAncestor
<1> QED
  BY <1>3, <1>8

\* switch_fork of a node that is not the leader: the best block becomes the head.
LEMMA SwitchFollower ==
  ASSUME Inv, BlocksInv, NEW n \in Producer, NEW s, NodeInv(s), s._state # "leader",
         NEW r, NEW q, Tree(s.db, r, q), s.db.states \subseteq Known,
         \A b \in s.db.byOrderIndex : ExtendsCommitted(s.db, b),
         NEW x \in s.db.byOrderIndex, Term(x) <= s.current_term,
         Irreversible(Ancestor(s.db.head, s.db.commitIndex), s.current_term)
  PROVE  LET t == SwitchHead(n, s)
         IN  /\ Proceeds(n, t, s) /\ SameRole(t, s)
             /\ t.db.head \in s.db.byOrderIndex
             /\ \A c \in s.db.byOrderIndex :
                  Term(c) <= s.current_term => AtLeast(t.db.head, Term(c), Len(c))
<1> DEFINE d == SwitchOnce(s.db, s.db.head).db
           t == [s EXCEPT !.db = d]
           switched == OnForkSwitch(n, t)
           g == Gc(d)
           end == [switched EXCEPT !.db = g]
<1>1. /\ NodeCore(s) /\ Good(s.db) /\ DbType(s.db) /\ s.db.head \in Block /\ s.db.commitIndex \in Nat
      /\ s.db.commitIndex \in 1..Len(s.db.head)
      /\ s.current_term \in Nat /\ s.db.currentTerm = s.current_term
      /\ s.db.blockContext = NoBlock
  BY NodeDb DEF NodeInv, NodeCore, NodeType
<1>2. /\ s.db.states \subseteq Block /\ OneChainPerTerm(s.db.states)
      /\ MaxNum + 1 \in Nat /\ \A b \in s.db.states : Len(b) <= MaxNum + 1
      /\ \A b \in s.db.states : TermsGrow(b) /\ AllValid(b)
      /\ s.db.byOrderIndex \subseteq s.db.states
  BY <1>1, KnownChains, TreeFacts
<1>3. /\ d.head \in s.db.byOrderIndex /\ Term(d.head) <= s.current_term
      /\ \A c \in s.db.byOrderIndex :
           Term(c) <= s.current_term => AtLeast(d.head, Term(c), Len(c))
      /\ Tidy(d) /\ d.states = s.db.states
      /\ \/ d.commitIndex = s.db.commitIndex
         \/ \E b \in s.db.states : IsAncestor(b, d.head) /\ d.commitIndex \in 1..CommitNum(b)
  <2> DEFINE bound == MaxNum + 1
  <2>1. bound \in Nat /\ \A b \in s.db.states : Len(b) <= bound
    BY <1>2
  <2> HIDE DEF bound
  <2> QED
    BY <1>1, <1>2, <2>1, SwitchOnceTree
<1>4. /\ Good(d) /\ SameBlock(d, s.db) /\ KeepsIrreversible(d, s.db)
      /\ d.currentTerm = s.current_term
  BY <1>1, SwitchOnceGood DEF SameBlock
<1> HIDE DEF d
<1>5. /\ NodeCore(t) /\ SameRole(t, s) /\ t.db = d
      /\ t.out = s.out /\ t.match_index = s.match_index
  BY <1>1, <1>4, ReplaceDb
<1>6. ~d.failed
  BY <1>3 DEF Tidy, Tree
<1>7. t._state # "leader"
  BY <1>5 DEF SameRole
<1>8. SwitchHead(n, s) = IF d.head = s.db.head THEN t ELSE end
  <2>1. switched.db = d
    BY <1>5 DEF OnForkSwitch
  <2> QED
    BY <1>5, <1>6, <1>7, <2>1 DEF SwitchHead, AfterSwitch, ResetLeader, d
<1> HIDE DEF t
<1>9. NodeInv(t)
  BY <1>1, <1>4, <1>5, <1>7 DEF NodeInv, PendingBuildsOnHead, SameBlock
<1>10. Irreversible(Ancestor(d.head, d.commitIndex), s.current_term)
  <2>1. d.head \in Known
    BY <1>2, <1>3
  <2>2. CASE d.commitIndex = s.db.commitIndex
    <3>1. Len(Ancestor(s.db.head, s.db.commitIndex)) = s.db.commitIndex
      BY <1>1, AncestorFacts
    <3>2. Ancestor(d.head, d.commitIndex) = Ancestor(s.db.head, s.db.commitIndex)
      BY <1>4, <2>2, <3>1 DEF KeepsIrreversible, IsAncestor
    <3> QED
      BY <3>2
  <2>3. CASE \E b \in s.db.states : IsAncestor(b, d.head) /\ d.commitIndex \in 1..CommitNum(b)
    BY <1>1, <1>3, <2>1, <2>3, HeaderCommits
  <2> QED
    BY <1>3, <2>2, <2>3
<1>11. CASE d.head = s.db.head
  <2>1. Sound(t)
    BY <1>3, <1>5, <1>9, <1>10 DEF Sound, SameRole
  <2>2. Proceeds(n, t, s)
    BY <1>3, <1>5, <2>1 DEF Proceeds
  <2> QED
    BY <1>3, <1>5, <1>8, <1>11, <2>2
<1>12. CASE d.head # s.db.head
  <2>1. NodeInv(switched) /\ SameRole(switched, t) /\ switched.db = d
    BY <1>5, <1>9, OnForkSwitchInv
  <2>2. \A m \in switched.out :
          \/ m \in s.out
          \/ /\ m.type = "Confirm" /\ m.follower_id = n /\ m.term = s.current_term
             /\ Term(d.head) = m.term /\ m.head_num = Len(d.head)
    BY <1>5 DEF OnForkSwitch, ConfirmMessage, SameRole, BlockNum
  <2> HIDE DEF switched
  <2>3. /\ Good(g) /\ SameBlock(g, d) /\ g.failed = d.failed
        /\ g.head = d.head /\ g.commitIndex = d.commitIndex
        /\ g.currentTerm = switched.current_term
        /\ Tidy(g) /\ g.states = {b \in d.states : ExtendsCommitted(d, b)}
    BY <1>3, <1>4, <1>5, <2>1, GcGood, GcTree DEF SameRole, SameBlock
  <2> HIDE DEF g
  <2>4. /\ NodeCore(end) /\ SameRole(end, switched) /\ end.db = g /\ end.out = switched.out
    BY <2>1, <2>3, ReplaceDb DEF NodeInv
  <2> HIDE DEF end
  <2>5. NodeInv(end)
    BY <2>1, <2>3, <2>4 DEF NodeInv, SameRole, SameBlock, PendingBuildsOnHead
  <2>6. Sound(end)
    BY <1>3, <1>5, <1>10, <2>1, <2>3, <2>4, <2>5 DEF Sound, SameRole
  <2>7. \A m \in end.out : m \in s.out \/ Confirms(n, end, m)
    <3> SUFFICES ASSUME NEW m \in end.out, m \notin s.out
                 PROVE  Confirms(n, end, m)
      OBVIOUS
    <3>1. /\ m.type = "Confirm" /\ m.follower_id = n /\ m.term = s.current_term
          /\ Term(d.head) = m.term /\ m.head_num = Len(d.head)
      BY <2>2, <2>4
    <3>2. d.head \in Known /\ d.head \in Block
      BY <1>2, <1>3
    <3>3. AtLeast(d.head, m.term, m.head_num)
      BY <3>1, <3>2, AtLeastRefl
    <3> QED
      BY <1>5, <2>1, <2>3, <2>4, <3>1, <3>2, <3>3 DEF Confirms, SameRole
  <2>8. Proceeds(n, end, s)
    BY <1>3, <2>3, <2>4, <2>6, <2>7 DEF Proceeds, ExtendsCommitted
  <2>9. SameRole(end, s)
    BY <1>5, <2>1, <2>4 DEF SameRole
  <2> QED
    BY <1>3, <1>8, <1>12, <2>3, <2>4, <2>8, <2>9
<1> QED
  BY <1>11, <1>12

\* A leader has no better block than the one it is producing.
LEMMA SwitchLeader ==
  ASSUME Inv, BlocksInv, NEW n \in Producer, NEW s, Sound(s), s._state = "leader",
         \A b \in Known : Term(b) = s.current_term => IsAncestor(b, s.db.head)
  PROVE  LET t == SwitchHead(n, s)
         IN  t.db = s.db /\ t.out = s.out /\ t.match_index = s.match_index
<1>1. PICK r, q \in s.db.states : Tree(s.db, r, q)
  BY DEF Sound, Tidy
<1>2. /\ Good(s.db) /\ DbType(s.db) /\ s.db.head \in Block
      /\ s.current_term \in Nat /\ s.db.currentTerm = s.current_term
      /\ s.db.blockContext # NoBlock /\ s.db.blockContext.term = s.current_term
      /\ ~s.db.failed
  BY <1>1, NodeDb DEF Sound, NodeInv, NodeCore, NodeType, Tree
<1>3. s.db.blockContext.num = Len(s.db.head) + 1 /\ Len(s.db.head) \in Nat
  BY <1>2, BlockFacts DEF Sound, NodeInv, PendingBuildsOnHead, BlockNum
<1>4. /\ OneChainPerTerm(s.db.states)
      /\ MaxNum + 1 \in Nat /\ \A b \in s.db.states : Len(b) <= MaxNum + 1
      /\ s.db.byOrderIndex \subseteq s.db.states
      /\ s.db.head \in s.db.byOrderIndex /\ Term(s.db.head) <= s.db.currentTerm
  BY <1>1, <1>2, KnownChains, TreeFacts DEF Sound, Tidy
<1>5. \A b \in s.db.byOrderIndex : Term(b) <= s.db.currentTerm =>
        \/ Term(b) < s.db.blockContext.term
        \/ Term(b) = s.db.blockContext.term /\ BlockNum(b) < s.db.blockContext.num
  <2> SUFFICES ASSUME NEW b \in s.db.byOrderIndex, Term(b) <= s.db.currentTerm,
                      ~(Term(b) < s.db.blockContext.term)
               PROVE  Term(b) = s.db.blockContext.term /\ BlockNum(b) < s.db.blockContext.num
    OBVIOUS
  <2>1. b \in Known
    BY <1>4 DEF Sound
  <2>2. Term(b) \in Nat /\ Len(b) \in Nat
    BY <2>1, KnownFacts
  <2>3. Term(b) = s.current_term
    BY <1>2, <2>2
  <2>4. Len(b) <= Len(s.db.head)
    BY <2>1, <2>3 DEF IsAncestor
  <2>5. Len(b) < s.db.blockContext.num
    BY <1>3, <2>2, <2>4
  <2> QED
    BY <1>2, <2>3, <2>5 DEF BlockNum
<1>6. SwitchOnce(s.db, s.db.head).db = s.db
  <2> DEFINE bound == MaxNum + 1
  <2>1. bound \in Nat /\ \A b \in s.db.states : Len(b) <= bound
    BY <1>4
  <2> HIDE DEF bound
  <2> QED
    BY <1>1, <1>2, <1>4, <1>5, <2>1, SwitchOncePending
<1>7. DOMAIN s = {"_state", "current_term", "voted_for", "votes_for_me", "match_index", "db", "out"}
  BY DEF Sound, NodeInv, NodeCore, NodeType
<1>8. SwitchHead(n, s) = [s EXCEPT !.db = s.db]
  BY <1>6, <1>7 DEF SwitchHead, AfterSwitch
<1> QED
  BY <1>7, <1>8

\* update_term: a leader that steps down looks for a better block; nobody else moves.
LEMMA UpdateTermSound ==
  ASSUME Inv, BlocksInv, NEW n \in Producer, NEW s, Sound(s), NEW term \in Nat
  PROVE  LET u == UpdateTerm(n, s, term)
         IN  /\ Proceeds(n, u, s)
             /\ AtLeast(u.db.head, Term(s.db.head), Len(s.db.head))
             /\ \/ term <= s.current_term /\ u = s
                \/ NewTerm(u, s, term)
<1> DEFINE u == UpdateTerm(n, s, term)
           t == [s EXCEPT !.votes_for_me = {}, !.current_term = term,
                          !.db.currentTerm = term, !.voted_for = NullProducer]
           d == [s.db EXCEPT !.currentTerm = term]
           a == AbortBlock(d)
           stopped == [t EXCEPT !.db = a]
           follower == [stopped EXCEPT !.match_index = NoMatch, !._state = "follower"]
<1>1. /\ NodeInv(s) /\ NodeCore(s) /\ Good(s.db) /\ s.current_term \in Nat
      /\ s.db.head \in Block /\ DbType(s.db)
      /\ Term(s.db.head) \in Nat
  BY NodeDb, BlockFacts DEF Sound, NodeInv, NodeCore, NodeType
<1>2. NodeInv(u) /\ ((term <= s.current_term /\ u = s) \/ NewTerm(u, s, term))
  BY <1>1, UpdateTermInv
<1>3. AtLeast(s.db.head, Term(s.db.head), Len(s.db.head))
  BY <1>1, AtLeastRefl
<1>4. CASE term <= s.current_term
  <2>1. u = s
    BY <1>4 DEF UpdateTerm
  <2> HIDE DEF u
  <2> QED
    BY <1>3, <1>4, <2>1 DEF Proceeds, u
<1>5. CASE ~(term <= s.current_term)
  <2>0. NewTerm(u, s, term) /\ term > s.current_term
    BY <1>1, <1>2, <1>5
  <2>1. /\ Good(d) /\ d.blockContext = s.db.blockContext /\ d.currentTerm = term
        /\ SameTree(d, s.db)
    BY <1>1, SetTermGood, SameTreeFacts
  <2>2. Tidy(d) /\ \A r, q : Tree(s.db, r, q) => Tree(d, r, q)
    BY <2>1, SameTreeTidy DEF Sound
  <2>3. Irreversible(Ancestor(s.db.head, s.db.commitIndex), term)
    <3>1. \A c \in Known : Term(c) \in Nat
      BY KnownFacts
    <3>2. \A c \in Known : Term(c) <= s.current_term => Term(c) <= term
      BY <1>1, <2>0, <3>1
    <3>3. Irreversible(Ancestor(s.db.head, s.db.commitIndex), s.current_term)
      BY DEF Sound
    <3> QED
      BY <3>2, <3>3 DEF Irreversible
  <2>4. CASE s._state # "leader"
    <3>1. u.db = d /\ u.out = s.out
      BY <1>1, <1>5, <2>4 DEF UpdateTerm, NodeCore, NodeType
    <3>2. u.current_term = term
      BY <2>0 DEF NewTerm
    <3> HIDE DEF u, d
    <3>3. Sound(u)
      BY <1>1, <1>2, <2>0, <2>1, <2>2, <2>3, <3>1, <3>2 DEF Sound, SameTree
    <3>4. Proceeds(n, u, s)
      BY <2>1, <3>1, <3>3 DEF Proceeds, SameTree
    <3> QED
      BY <1>3, <2>0, <2>1, <3>1, <3>4 DEF SameTree, u
  <2>5. CASE s._state = "leader"
    <3>1. /\ Good(a) /\ a.blockContext = NoBlock /\ a.currentTerm = term /\ SameTree(a, d)
      BY <2>1, AbortBlockGood, SameTreeFacts DEF Good
    <3>2. Tidy(a) /\ SameTree(a, s.db)
      BY <2>1, <2>2, <3>1, SameTreeTidy DEF SameTree
    <3>3. /\ DOMAIN t = DOMAIN s /\ t._state = s._state /\ t.current_term = term
          /\ t.voted_for = NullProducer /\ t.votes_for_me = {} /\ t.match_index = s.match_index
          /\ t.db = d /\ t.out = s.out
      BY <1>1 DEF NodeCore, NodeType
    <3>4. u = SwitchHead(n, follower)
      BY <1>5, <2>5, <3>3 DEF UpdateTerm, StopLeader
    <3> HIDE DEF u, d, a, t
    <3>5. /\ DOMAIN follower = DOMAIN s /\ follower._state = "follower"
          /\ follower.current_term = term
          /\ follower.voted_for = NullProducer /\ follower.votes_for_me = {}
          /\ follower.match_index = NoMatch
          /\ follower.db = a /\ follower.out = s.out
      BY <1>1, <3>3 DEF NodeCore, NodeType
    <3> HIDE DEF follower
    <3>6. NodeInv(follower)
      BY <1>1, <3>1, <3>5 DEF NodeInv, NodeCore, NodeType, Good, PendingBuildsOnHead, NoMatch
    <3>7. PICK r, q \in a.states : Tree(a, r, q)
      BY <3>2 DEF Tidy
    <3>8. /\ \A b \in a.byOrderIndex : ExtendsCommitted(a, b)
          /\ a.head \in a.byOrderIndex
      BY <3>1, <3>2, TidyExtends DEF Tidy
    <3>9. /\ a.states \subseteq Known /\ a.states = s.db.states /\ a.head = s.db.head
          /\ a.commitIndex = s.db.commitIndex
          /\ Term(a.head) <= term
      BY <1>1, <2>0, <3>2 DEF Sound, SameTree
    <3>10. /\ Proceeds(n, u, follower)
           /\ AtLeast(u.db.head, Term(a.head), Len(a.head))
      <4>1. /\ follower._state # "leader" /\ Tree(follower.db, r, q)
            /\ follower.db.states \subseteq Known
            /\ \A b \in follower.db.byOrderIndex : ExtendsCommitted(follower.db, b)
            /\ a.head \in follower.db.byOrderIndex /\ Term(a.head) <= follower.current_term
            /\ Irreversible(Ancestor(follower.db.head, follower.db.commitIndex),
                            follower.current_term)
        BY <2>3, <3>5, <3>7, <3>8, <3>9
      <4> QED
        BY <3>4, <3>6, <4>1, SwitchFollower
    <3>11. Proceeds(n, u, s)
      BY <3>5, <3>9, <3>10 DEF Proceeds
    <3> QED
      BY <2>0, <3>9, <3>10, <3>11 DEF u
  <2> QED
    BY <2>4, <2>5
<1> QED
  BY <1>4, <1>5

\* on_accept_block_header and switch_fork of a node that is not the leader.  The block
\* that the header makes irreversible is known and leads to the header; the head that
\* is given up for it was not better.
LEMMA FollowHeader ==
  ASSUME Inv, BlocksInv, NEW n \in Producer, NEW s, Sound(s), s._state # "leader",
         NEW b \in Known, Term(b) <= s.current_term,
         ExtendsCommitted(s.db, b) => b \in s.db.states
  PROVE  LET t == SwitchHead(n, FollowCommitNum(s, b))
         IN  /\ Proceeds(n, t, s) /\ SameRole(t, s)
             /\ AtLeast(t.db.head, Term(s.db.head), Len(s.db.head))
<1> DEFINE x == Ancestor(b, CommitNum(b))
           C == Ancestor(s.db.head, s.db.commitIndex)
           d == SetSubtree(s.db, x)
           f == [s EXCEPT !.db = d]
<1>1. /\ NodeInv(s) /\ NodeCore(s) /\ Good(s.db) /\ DbType(s.db) /\ s.db.head \in Block
      /\ s.db.commitIndex \in Nat /\ s.db.commitIndex \in 1..Len(s.db.head)
      /\ s.current_term \in Nat /\ s.db.currentTerm = s.current_term
  BY NodeDb DEF Sound, NodeInv, NodeCore, NodeType
<1>2. PICK r, q \in s.db.states : Tree(s.db, r, q)
  BY DEF Sound, Tidy
<1>3. /\ \A c \in s.db.byOrderIndex : ExtendsCommitted(s.db, c)
      /\ s.db.head \in s.db.byOrderIndex /\ s.db.head \in s.db.states /\ s.db.head \in Known
      /\ s.db.states \subseteq Block /\ s.db.states \subseteq Known
  BY <1>1, TidyExtends DEF Sound, Tidy
<1>4. Term(s.db.head) <= s.current_term /\ Irreversible(C, s.current_term)
  BY DEF Sound
<1>5. /\ b \in Block /\ CommitNum(b) \in 1..Len(b) /\ Len(b) \in Nat /\ Term(b) \in Nat
      /\ Len(s.db.head) \in Nat /\ Term(s.db.head) \in Nat
  BY <1>3, KnownFacts
<1>6. CASE ~(CommitNum(b) > s.db.commitIndex /\ ~InBestChain(s.db, x))
  <2>1. FollowCommitNum(s, b) = s
    BY <1>6 DEF FollowCommitNum
  <2> DEFINE t == SwitchHead(n, s)
  <2>2. /\ Proceeds(n, t, s) /\ SameRole(t, s)
        /\ AtLeast(t.db.head, Term(s.db.head), Len(s.db.head))
    BY <1>1, <1>2, <1>3, <1>4, SwitchFollower
  <2> QED
    BY <2>1, <2>2
<1>7. CASE CommitNum(b) > s.db.commitIndex /\ ~InBestChain(s.db, x)
  <2>1. /\ x \in Block /\ Len(x) = CommitNum(b) /\ IsAncestor(x, b)
        /\ C \in Block /\ Len(C) = s.db.commitIndex
    BY <1>1, <1>5, AncestorFacts, IsAncestorOfBlock
  <2>2. IsAncestor(FirstBlock, x) /\ IsAncestor(FirstBlock, C)
    BY <1>1, <1>3, <1>5, KnownChains
  <2>3. Irreversible(x, Term(b))
    BY DEF BlocksInv, HeadersTrue
  <2>4. FollowCommitNum(s, b) = f
    BY <1>7 DEF FollowCommitNum
  <2> HIDE DEF x, C
  <2>5. IsAncestor(C, x)
    <3>1. Len(C) <= Len(x)
      BY <1>1, <1>5, <1>7, <2>1
    <3> QED
      BY <1>4, <2>1, <2>2, <2>3, <3>1, IrreversibleOrdered
  <2>6. b \in s.db.states
    BY <1>5, <2>1, <2>5, IsAncestorTrans DEF ExtendsCommitted, C
  <2>7. x \in s.db.states
    <3>1. \A i \in Len(r)..Len(b) : Ancestor(b, i) \in s.db.states
      BY <1>2, <2>6 DEF Tree
    <3>2. Len(r) <= s.db.commitIndex /\ Len(r) \in Nat
      BY <1>1, <1>2, TreeFacts DEF Tree
    <3>3. CommitNum(b) \in Len(r)..Len(b)
      BY <1>1, <1>5, <1>7, <3>2
    <3> QED
      BY <3>1, <3>3 DEF x
  <2>8. /\ Good(d) /\ SameChain(d, s.db) /\ SameBlock(d, s.db)
        /\ d.commitIndex = s.db.commitIndex /\ d.currentTerm = s.current_term
    BY <1>1, SetSubtreeGood DEF SameBlock
  <2>9. Tree(d, r, x) /\ d.states = s.db.states
    <3>1. Len(x) >= s.db.commitIndex
      BY <1>1, <1>5, <1>7, <2>1
    <3> QED
      BY <1>1, <1>2, <2>7, <3>1, SetSubtreeTree
  <2> HIDE DEF d
  <2>10. NodeCore(f) /\ SameRole(f, s) /\ f.db = d /\ f.out = s.out
    BY <1>1, <2>8, ReplaceDb
  <2> HIDE DEF f
  <2>11. NodeInv(f)
    BY <1>1, <2>8, <2>10 DEF NodeInv, SameRole, SameBlock, SameChain, PendingBuildsOnHead
  <2>12. b \in d.byOrderIndex /\ \A c \in d.byOrderIndex : IsAncestor(x, c) /\ c \in s.db.states
    BY <2>1, <2>6, <2>9 DEF Tree
  <2>13. \A c \in d.byOrderIndex : ExtendsCommitted(d, c)
    <3> SUFFICES ASSUME NEW c \in d.byOrderIndex PROVE IsAncestor(C, c)
      BY <2>8 DEF ExtendsCommitted, C, SameChain
    <3> QED
      BY <1>3, <2>1, <2>5, <2>12, IsAncestorTrans
  <2> DEFINE t == SwitchHead(n, f)
  <2>14. /\ Proceeds(n, t, f) /\ SameRole(t, f)
         /\ \A c \in d.byOrderIndex :
              Term(c) <= s.current_term => AtLeast(t.db.head, Term(c), Len(c))
         /\ t.db.head \in d.byOrderIndex
    <3>1. /\ f._state # "leader" /\ Tree(f.db, r, x) /\ f.db.states \subseteq Known
          /\ \A c \in f.db.byOrderIndex : ExtendsCommitted(f.db, c)
          /\ b \in f.db.byOrderIndex /\ Term(b) <= f.current_term
          /\ f.current_term = s.current_term
      BY <1>3, <2>9, <2>10, <2>12, <2>13 DEF SameRole
    <3>2. Irreversible(Ancestor(f.db.head, f.db.commitIndex), f.current_term)
      BY <1>4, <2>8, <2>10 DEF SameRole, SameChain, C
    <3> QED
      BY <2>10, <2>11, <3>1, <3>2, SwitchFollower
  <2> HIDE DEF t
  <2>15. CASE IsAncestor(x, s.db.head)
    <3>1. s.db.head \in d.byOrderIndex
      BY <1>3, <2>9, <2>15 DEF Tree
    <3>2. AtLeast(t.db.head, Term(s.db.head), Len(s.db.head))
      BY <1>4, <2>14, <3>1
    <3> QED
      BY <2>4, <2>9, <2>10, <2>14, <3>2 DEF Proceeds, SameRole, t
  <2>16. CASE ~IsAncestor(x, s.db.head)
    <3>1. x # FirstBlock
      BY <1>3, <2>16 DEF BlocksInv, KnownBlocks
    <3>2. PICK c \in Known : Chosen(c) /\ Term(c) <= Term(b) /\ IsAncestor(x, c)
      BY <2>3, <3>1 DEF Irreversible
    <3>3. c \in Block /\ Term(c) \in Nat /\ Len(c) \in Nat
      BY KnownFacts
    <3>4. ~IsAncestor(c, s.db.head)
      BY <1>1, <2>1, <2>16, <3>2, <3>3, IsAncestorTrans
    <3>5. ~AtLeast(s.db.head, Term(c), Len(c))
      BY <1>3, <3>2, <3>4, ChosenIsAncestor
    <3>6. AtLeast(b, Term(s.db.head), Len(s.db.head))
      <4>1. CASE Term(s.db.head) < Term(c)
        BY <1>5, <3>2, <3>3, <4>1 DEF AtLeast
      <4>2. CASE Term(s.db.head) = Term(c) /\ Len(s.db.head) < Len(c)
        <5>1. IsAncestor(s.db.head, c)
          BY <1>3, <1>5, <3>3, <4>2 DEF BlocksInv, OneChain, OneChainPerTerm
        <5>2. ~(Len(x) <= Len(s.db.head))
          BY <1>1, <2>1, <2>16, <3>2, <3>3, <5>1, ComparableAncestors
        <5>3. Len(b) >= Len(s.db.head)
          BY <1>5, <2>1, <5>2
        <5> QED
          BY <1>5, <3>2, <3>3, <4>2, <5>3 DEF AtLeast
      <4> QED
        BY <1>5, <3>3, <3>5, <4>1, <4>2 DEF AtLeast
    <3>7. AtLeast(t.db.head, Term(b), Len(b))
      BY <2>12, <2>14
    <3>8. t.db.head \in Block
      BY <1>3, <2>12, <2>14
    <3>9. AtLeast(t.db.head, Term(s.db.head), Len(s.db.head))
      BY <1>5, <3>6, <3>7, <3>8, AtLeastTrans
    <3> QED
      BY <2>4, <2>9, <2>10, <2>14, <3>9 DEF Proceeds, SameRole, t
  <2> QED
    BY <2>15, <2>16
<1> QED
  BY <1>6, <1>7

\* A node between two callbacks.
LEMMA NodeSound ==
  ASSUME Inv, AgreementInv, NEW n \in Producer
  PROVE  /\ Sound(node[n]) /\ BlocksInv /\ node[n].out = {}
         /\ node[n].current_term \in Nat /\ node[n].db.head \in Block
         /\ node[n].db.head \in Known
<1>1. NodeInv(node[n]) /\ node[n].out = {}
  BY DEF Inv
<1>2. node[n].current_term \in Nat /\ node[n].db.head \in Block
  BY <1>1, NodeDb DEF NodeInv, NodeCore, NodeType
<1>3. /\ Tidy(node[n].db) /\ node[n].db.states \subseteq Known
      /\ \A b \in node[n].db.states : Term(b) <= node[n].current_term
      /\ Irreversible(Committed(n), node[n].current_term)
  BY DEF AgreementInv, NodeBlocks, CommitsChosen
<1>4. node[n].db.head \in node[n].db.states
  BY <1>1, <1>3, TidyExtends, NodeDb DEF NodeInv
<1> QED
  BY <1>1, <1>2, <1>3, <1>4 DEF Sound, Committed, AgreementInv

-----------------------------------------------------------------------------
(***************************************************************************)
(* The callbacks.                                                          *)
(***************************************************************************)
\* Block d is the next block of leader n.
NewBlock(n, d) ==
  /\ node[n]._state = "leader"
  /\ d \in Block /\ IsAncestor(node[n].db.head, d)
  /\ Len(d) = Len(node[n].db.head) + 1 /\ Len(d) <= MaxNum
  /\ Term(d) = node[n].current_term /\ d[Len(d)].producer = n /\ d[Len(d)].valid
  /\ CommitNum(d) \in 1..node[n].db.commitIndex

\* Message m asks for votes for the head of node n.
Asks(n, t, m) ==
  /\ m.type = "RequestVote" /\ m.term = t.current_term /\ m.candidate_id = n
  /\ AtLeast(t.db.head, m.last_log_term, m.last_log_index)

\* Node n votes only for a head that is not worse than its own.
VotesFor(n, t) ==
  \/ t.voted_for = NullProducer
  \/ t.current_term = node[n].current_term /\ t.voted_for = node[n].voted_for
  \/ \E m \in msgs \cup t.out :
       /\ m.type = "RequestVote" /\ m.term = t.current_term /\ m.candidate_id = t.voted_for
       /\ Advertises(m, Term(node[n].db.head), Len(node[n].db.head))

\* A leader stays the leader, or a node becomes one.
Leads(n, t) ==
  \/ /\ node[n]._state = "leader" /\ t.current_term = node[n].current_term
     /\ IsAncestor(node[n].db.head, t.db.head)
  \/ /\ node[n]._state = "leader" => t.current_term > node[n].current_term
     /\ produced' = produced

\* What a callback of node n that leaves it in state t does.
AgreementStep(n, t) ==
  /\ Finish(n, t) /\ NodeInv(t)
  /\ Tidy(t.db) /\ t.db.states \subseteq Known'
  /\ \A b \in t.db.states : Term(b) <= t.current_term
  /\ t.current_term >= node[n].current_term
  /\ AtLeast(t.db.head, Term(node[n].db.head), Len(node[n].db.head))
  /\ Irreversible(Ancestor(t.db.head, t.db.commitIndex), t.current_term)'
  /\ \A m \in t.out : /\ m.type = "Confirm" => Confirms(n, t, m)
                      /\ m.type = "RequestVote" => Asks(n, t, m)
  /\ VotesFor(n, t)
  /\ t._state = "leader" => Counted(t)' /\ Leads(n, t)
  /\ node[n]._state = "leader" /\ t._state # "leader" => t.current_term > node[n].current_term
  /\ \/ produced' = produced
     \/ \E d : /\ NewBlock(n, d) /\ produced' = produced \cup {d} /\ t.db.head = d
               /\ t._state = "leader" /\ t.current_term = node[n].current_term

\* Nothing that was accepted, chosen or irreversible ceases to be.
LEMMA AcceptedGrows ==
  ASSUME msgs \subseteq msgs', produced \subseteq produced'
  PROVE  /\ Known \subseteq Known'
         /\ \A p, t, k : Accepted(p, t, k) => Accepted(p, t, k)'
         /\ \A c : Chosen(c) => Chosen(c)'
         /\ \A x, t : Irreversible(x, t) => Irreversible(x, t)'
         /\ \A s : Counted(s) => Counted(s)'
<1>1. Known \subseteq Known'
  BY DEF Known
<1>2. \A p, t, k : Accepted(p, t, k) => Accepted(p, t, k)'
  BY DEF Accepted
<1>3. \A c : Chosen(c) => Chosen(c)'
  BY <1>2 DEF Chosen
<1>4. \A x, t : Irreversible(x, t) => Irreversible(x, t)'
  BY <1>1, <1>3 DEF Irreversible
<1>5. \A s : Counted(s) => Counted(s)'
  BY <1>1, <1>2 DEF Counted
<1> QED
  BY <1>1, <1>2, <1>3, <1>4, <1>5

\* The end of a callback in which no block is produced.
LEMMA SoundStep ==
  ASSUME NEW n \in Producer, NEW t, Finish(n, t), Sound(t), produced' = produced
  PROVE  /\ NodeInv(t) /\ Tidy(t.db) /\ t.db.states \subseteq Known'
         /\ Irreversible(Ancestor(t.db.head, t.db.commitIndex), t.current_term)'
         /\ \A s : Counted(s) => Counted(s)'
<1>1. msgs \subseteq msgs' /\ produced \subseteq produced'
  BY DEF Finish
<1> QED
  BY <1>1, AcceptedGrows DEF Sound

\* update_match_index commits only what a quorum has confirmed, and one of them exactly.
LEMMA MatchCommits ==
  ASSUME NEW s, NodeInv(s), Tidy(s.db), \A b \in s.db.states : TermsGrow(b),
         NEW p \in Producer, NEW num \in Nat
  PROVE  LET t == UpdateMatchIndex(s, p, num)
         IN  /\ NodeInv(t) /\ SameRole(t, s) /\ t.out = s.out
             /\ Tidy(t.db) /\ t.db.states = s.db.states /\ t.db.head = s.db.head
             /\ t.match_index \in [Producer -> Nat]
             /\ \A w \in Producer : \/ t.match_index[w] = s.match_index[w]
                                    \/ w = p /\ t.match_index[w] = num
             /\ \/ t.db.commitIndex = s.db.commitIndex
                \/ \E Q \in SUBSET Producer : \E k \in Nat : \E q \in Producer :
                     /\ IsQuorum("cft", Q, Producer) /\ \A w \in Q : t.match_index[w] >= k
                     /\ t.match_index[q] = k /\ t.db.commitIndex \in 1..k
                     /\ t.db.commitIndex \in 1..Len(t.db.head)
<1> DEFINE match == [s.match_index EXCEPT ![p] = IF num > @ THEN num ELSE @]
           k == ConfirmedNum(match)
           d == Commit(s.db, k)
           t == [s EXCEPT !.match_index = match, !.db = d]
           Q == {w \in Producer : match[w] >= k}
<1>1. NodeCore(s) /\ Good(s.db) /\ s.match_index \in [Producer -> Nat]
  BY NodeDb DEF NodeInv, NodeCore, NodeType
<1>2. /\ match \in [Producer -> Nat]
      /\ \A w \in Producer : match[w] = s.match_index[w] \/ (w = p /\ match[w] = num)
  <2> DEFINE top == IF num > s.match_index[p] THEN num ELSE s.match_index[p]
  <2>1. match = [s.match_index EXCEPT ![p] = top] /\ top \in Nat
        /\ top \in {num, s.match_index[p]}
    BY <1>1
  <2> HIDE DEF top, match
  <2>2. match \in [Producer -> Nat]
    BY <1>1, <2>1
  <2>3. \A w \in Producer : match[w] = IF w = p THEN top ELSE s.match_index[w]
    BY <1>1, <2>1
  <2> QED
    BY <2>1, <2>2, <2>3
<1>3. UpdateMatchIndex(s, p, num) = t
  BY DEF UpdateMatchIndex
<1>4. t.match_index = match /\ t.db = d
  BY <1>1 DEF NodeCore, NodeType
<1>5. NodeInv(t) /\ SameRole(t, s) /\ t.out = s.out
  BY <1>3, UpdateMatchIndexInv
<1> HIDE DEF match, t
<1>6. /\ k \in Nat /\ IsQuorum("cft", Q, Producer) /\ \E q \in Producer : match[q] = k
  BY <1>2, ConfirmedNumExists
<1> HIDE DEF k
<1>7. /\ Tidy(d) /\ d.states = s.db.states /\ d.head = s.db.head
      /\ \/ d.commitIndex = s.db.commitIndex
         \/ d.commitIndex \in 1..k /\ d.commitIndex \in 1..Len(s.db.head)
  BY <1>1, <1>6, CommitTidy
<1> HIDE DEF d
<1>8. Q \in SUBSET Producer /\ \A w \in Q : t.match_index[w] >= k
  BY <1>4
<1> HIDE DEF Q
<1>9. \/ t.db.commitIndex = s.db.commitIndex
      \/ \E R \in SUBSET Producer : \E i \in Nat : \E q \in Producer :
           /\ IsQuorum("cft", R, Producer) /\ \A w \in R : t.match_index[w] >= i
           /\ t.match_index[q] = i /\ t.db.commitIndex \in 1..i
           /\ t.db.commitIndex \in 1..Len(t.db.head)
  BY <1>4, <1>6, <1>7, <1>8
<1> QED
  BY <1>2, <1>3, <1>4, <1>5, <1>7, <1>9

\* What a leader commits because a quorum has accepted it is irreversible.
LEMMA CountedCommits ==
  ASSUME produced' \subseteq Block, msgs' \subseteq Message,
         NEW t, NEW head \in Block, NEW term \in Nat, Counted(t)', t.current_term = term,
         (\A c \in Known : Term(c) = term => IsAncestor(c, head))',
         t.match_index \in [Producer -> Nat],
         NEW Q \in SUBSET Producer, NEW k \in Nat, NEW q \in Producer,
         IsQuorum("cft", Q, Producer), \A w \in Q : t.match_index[w] >= k,
         t.match_index[q] = k, NEW j \in 1..k, j \in 1..Len(head)
  PROVE  Irreversible(Ancestor(head, j), term)'
<1>1. PICK c \in Known' : Term(c) = term /\ Len(c) = k
  BY DEF Counted
<1>2. IsAncestor(c, head) /\ c \in Block
  BY <1>1, FirstIsBlock DEF Known
<1>3. IsAncestor(Ancestor(head, j), c)
  <2>1. Ancestor(head, j) \in Block /\ IsAncestor(Ancestor(head, j), head)
        /\ Len(Ancestor(head, j)) = j
    BY AncestorFacts, IsAncestorOfBlock
  <2>2. j <= k
    OBVIOUS
  <2> QED
    BY <1>1, <1>2, <2>1, <2>2, ComparableAncestors
<1>4. \A w \in Q : Accepted(w, term, k)'
  <2> SUFFICES ASSUME NEW w \in Q PROVE Accepted(w, term, k)'
    OBVIOUS
  <2>1. t.match_index[w] >= k /\ t.match_index[w] \in Nat /\ w \in Producer /\ k > 0
    OBVIOUS
  <2>2. Accepted(w, term, t.match_index[w])'
    BY <2>1 DEF Counted
  <2>3. \A m \in msgs' : m.type = "Confirm" => m.head_num \in Nat
    BY MessageFacts
  <2>4. \A b \in produced' : Len(b) \in Nat
    BY BlockFacts
  <2> QED
    BY <2>1, <2>2, <2>3, <2>4 DEF Accepted
<1>5. Chosen(c)'
  BY <1>1, <1>4 DEF Chosen
<1> QED
  BY <1>1, <1>3, <1>5 DEF Irreversible

\* update_term as the first call of a callback.
LEMMA UpdateTermAgrees ==
  ASSUME Inv, AgreementInv, NEW n \in Producer, NEW term \in Nat
  PROVE  LET s == node[n]
             u == UpdateTerm(n, s, term)
         IN  /\ Sound(u) /\ u.current_term \in Nat
             /\ \A b \in u.db.states : Term(b) <= u.current_term
             /\ u.current_term >= s.current_term /\ u.current_term >= term
             /\ AtLeast(u.db.head, Term(s.db.head), Len(s.db.head))
             /\ \A m \in u.out : Confirms(n, u, m)
             /\ u = s \/ NewTerm(u, s, term)
             /\ \A t : t.voted_for = u.voted_for /\ t.current_term = u.current_term => VotesFor(n, t)
<1> DEFINE s == node[n]
           u == UpdateTerm(n, s, term)
<1>1. Sound(s) /\ BlocksInv /\ s.out = {} /\ s.current_term \in Nat
  BY NodeSound
<1>2. /\ Proceeds(n, u, s) /\ AtLeast(u.db.head, Term(s.db.head), Len(s.db.head))
      /\ ((term <= s.current_term /\ u = s) \/ NewTerm(u, s, term))
  BY <1>1, UpdateTermSound
<1> HIDE DEF u
<1>3. u.current_term \in Nat /\ u.current_term >= s.current_term /\ u.current_term >= term
  BY <1>1, <1>2 DEF NewTerm
<1>4. \A b \in u.db.states : Term(b) <= u.current_term
  <2> SUFFICES ASSUME NEW b \in u.db.states PROVE Term(b) <= u.current_term
    OBVIOUS
  <2>1. b \in s.db.states /\ b \in Known
    BY <1>1, <1>2 DEF Proceeds, Sound
  <2>2. Term(b) <= s.current_term
    BY <2>1 DEF AgreementInv, NodeBlocks
  <2>3. Term(b) \in Nat
    BY <2>1, KnownFacts
  <2> QED
    BY <1>1, <1>3, <2>2, <2>3
<1>5. \A t : t.voted_for = u.voted_for /\ t.current_term = u.current_term => VotesFor(n, t)
  BY <1>2 DEF VotesFor, NewTerm
<1>6. Sound(u) /\ \A m \in u.out : Confirms(n, u, m)
  BY <1>1, <1>2 DEF Proceeds
<1> QED
  BY <1>2, <1>3, <1>4, <1>5, <1>6 DEF u

\* A callback that only updates the term.
LEMMA UpdateTermAgreement ==
  ASSUME Inv, AgreementInv, NEW n \in Producer, NEW term \in Nat,
         NEW u, u = UpdateTerm(n, node[n], term), Finish(n, u), produced' = produced
  PROVE  AgreementStep(n, u)
<1>1. /\ Sound(u) /\ u.current_term \in Nat
      /\ \A b \in u.db.states : Term(b) <= u.current_term
      /\ u.current_term >= node[n].current_term
      /\ AtLeast(u.db.head, Term(node[n].db.head), Len(node[n].db.head))
      /\ \A m \in u.out : Confirms(n, u, m)
      /\ u = node[n] \/ NewTerm(u, node[n], term)
      /\ VotesFor(n, u)
  BY UpdateTermAgrees
<1>2. /\ NodeInv(u) /\ Tidy(u.db) /\ u.db.states \subseteq Known'
      /\ Irreversible(Ancestor(u.db.head, u.db.commitIndex), u.current_term)'
      /\ \A s : Counted(s) => Counted(s)'
  BY <1>1, SoundStep
<1>3. u._state = "leader" => Counted(u)' /\ Leads(n, u)
  <2> SUFFICES ASSUME u._state = "leader" PROVE Counted(u)' /\ Leads(n, u)
    OBVIOUS
  <2>1. u = node[n]
    BY <1>1 DEF NewTerm
  <2>2. Counted(u)
    BY <2>1 DEF AgreementInv, MatchTrue
  <2>3. IsAncestor(node[n].db.head, u.db.head)
    BY <2>1, NodeSound, IsAncestorRefl
  <2> QED
    BY <1>2, <2>1, <2>2, <2>3 DEF Leads
<1>4. node[n]._state = "leader" /\ u._state # "leader" => u.current_term > node[n].current_term
  BY <1>1 DEF NewTerm
<1>5. \A m \in u.out : /\ m.type = "Confirm" => Confirms(n, u, m)
                       /\ m.type = "RequestVote" => Asks(n, u, m)
  BY <1>1 DEF Confirms
<1> QED
  BY <1>1, <1>2, <1>3, <1>4, <1>5 DEF AgreementStep

\* recv(ConfirmMessage).
LEMMA RecvConfirmAgreement ==
  ASSUME Inv, AgreementInv, NEW n \in Producer, NEW m \in msgs, RecvConfirm(n, m)
  PROVE  \E t : AgreementStep(n, t)
<1>1. PICK s, u, t : /\ s = node[n] /\ u = UpdateTerm(n, s, m.term)
                     /\ t = CountConfirm(u, m)
  OBVIOUS
<1>2. m.term \in Nat /\ m.follower_id \in Producer /\ m.head_num \in Nat /\ m.type = "Confirm"
  BY MessageFacts DEF Inv, RecvConfirm, ConfirmsBestChain
<1>3. Finish(n, t) /\ produced' = produced
  BY <1>1 DEF RecvConfirm
<1>4. CASE ~(m.term = u.current_term /\ u._state = "leader")
  <2>1. t = u
    BY <1>1, <1>4 DEF CountConfirm
  <2> QED
    BY <1>1, <1>2, <1>3, <2>1, UpdateTermAgreement
<1>5. CASE m.term = u.current_term /\ u._state = "leader"
  <2>1. u = s
    BY <1>1, <1>2, <1>5, UpdateTermAgrees DEF NewTerm
  <2>2. /\ Sound(s) /\ BlocksInv /\ s.out = {} /\ s.current_term \in Nat
        /\ s.db.head \in Block /\ s.db.head \in Known /\ NodeInv(s) /\ Tidy(s.db)
    BY <1>1, NodeSound DEF Sound
  <2>3. \A b \in s.db.states : TermsGrow(b)
    BY <2>2, KnownChains DEF Sound
  <2>4. t = UpdateMatchIndex(s, m.follower_id, m.head_num)
    BY <1>1, <1>5, <2>1 DEF CountConfirm
  <2>5. /\ NodeInv(t) /\ SameRole(t, s) /\ t.out = s.out
        /\ Tidy(t.db) /\ t.db.states = s.db.states /\ t.db.head = s.db.head
        /\ t.match_index \in [Producer -> Nat]
        /\ \A w \in Producer : \/ t.match_index[w] = s.match_index[w]
                               \/ w = m.follower_id /\ t.match_index[w] = m.head_num
        /\ \/ t.db.commitIndex = s.db.commitIndex
           \/ \E Q \in SUBSET Producer : \E k \in Nat : \E q \in Producer :
                /\ IsQuorum("cft", Q, Producer) /\ \A w \in Q : t.match_index[w] >= k
                /\ t.match_index[q] = k /\ t.db.commitIndex \in 1..k
                /\ t.db.commitIndex \in 1..Len(t.db.head)
    BY <1>2, <2>2, <2>3, <2>4, MatchCommits
  <2>6. /\ t.current_term = s.current_term /\ t._state = "leader" /\ s._state = "leader"
        /\ t.voted_for = s.voted_for
    BY <1>5, <2>1, <2>5 DEF SameRole
  <2>7. msgs \subseteq msgs' /\ produced \subseteq produced' /\ Known' = Known
    BY <1>3 DEF Finish, Known
  <2>8. Counted(t)
    <3>1. Counted(s)
      BY <1>1, <2>6 DEF AgreementInv, MatchTrue
    <3>2. /\ Accepted(m.follower_id, t.current_term, m.head_num)
          /\ \E c \in Known : Term(c) = t.current_term /\ Len(c) = m.head_num
      <4>1. m.term = t.current_term
        BY <1>5, <2>1, <2>6
      <4>2. \E c \in Known : Term(c) = m.term /\ Len(c) = m.head_num
        BY <1>2 DEF AgreementInv, ConfirmsTrue
      <4>3. m.head_num >= m.head_num
        BY <1>2
      <4> QED
        BY <1>2, <4>1, <4>2, <4>3 DEF Accepted
    <3> QED
      BY <2>5, <2>6, <3>1, <3>2 DEF Counted
  <2>9. Counted(t)'
    BY <2>7, <2>8, AcceptedGrows
  <2>10. Irreversible(Ancestor(t.db.head, t.db.commitIndex), t.current_term)'
    <3>1. CASE t.db.commitIndex = s.db.commitIndex
      <4>1. Irreversible(Ancestor(t.db.head, t.db.commitIndex), t.current_term)
        BY <2>2, <2>5, <2>6, <3>1 DEF Sound
      <4> QED
        BY <2>7, <4>1, AcceptedGrows
    <3>2. CASE t.db.commitIndex # s.db.commitIndex
      <4>1. PICK Q \in SUBSET Producer, k \in Nat, q \in Producer :
              /\ IsQuorum("cft", Q, Producer) /\ \A w \in Q : t.match_index[w] >= k
              /\ t.match_index[q] = k /\ t.db.commitIndex \in 1..k
              /\ t.db.commitIndex \in 1..Len(t.db.head)
        BY <2>5, <3>2
      <4>2. produced' \subseteq Block /\ msgs' \subseteq Message
        BY <1>3, <2>5 DEF Inv, Finish, NodeInv, NodeCore, NodeType
      <4>3. \A c \in Known' : Term(c) = t.current_term => IsAncestor(c, t.db.head)
        BY <1>1, <2>5, <2>6, <2>7 DEF AgreementInv, LeaderChain
      <4>4. t.db.head \in Block /\ t.current_term \in Nat
        BY <2>2, <2>5, <2>6
      <4> QED
        BY <2>5, <2>9, <4>1, <4>2, <4>3, <4>4, CountedCommits
    <3> QED
      BY <3>1, <3>2
  <2>11. VotesFor(n, t) /\ Leads(n, t)
    BY <1>1, <2>2, <2>5, <2>6, IsAncestorRefl DEF VotesFor, Leads
  <2>12. t.db.states \subseteq Known' /\ \A b \in t.db.states : Term(b) <= t.current_term
    BY <1>1, <2>2, <2>5, <2>6, <2>7 DEF Sound, AgreementInv, NodeBlocks
  <2>13. AtLeast(t.db.head, Term(node[n].db.head), Len(node[n].db.head))
    BY <1>1, <2>2, <2>5, AtLeastRefl
  <2> QED
    BY <1>1, <1>3, <2>2, <2>5, <2>6, <2>9, <2>10, <2>11, <2>12, <2>13 DEF AgreementStep
<1> QED
  BY <1>4, <1>5

\* Calls that change neither the tree of blocks nor the head.
LEMMA SoundSameTree ==
  ASSUME Inv, NEW s, Sound(s), NEW t, NodeInv(t), SameTree(t.db, s.db),
         t.current_term >= s.current_term
  PROVE  Sound(t)
<1>1. s.current_term \in Nat /\ t.current_term \in Nat /\ Term(s.db.head) \in Nat
  BY NodeDb, BlockFacts DEF Sound, NodeInv, NodeCore, NodeType
<1>2. \A c \in Known : Term(c) \in Nat
  BY KnownFacts
<1>3. Irreversible(Ancestor(s.db.head, s.db.commitIndex), s.current_term)
  BY DEF Sound
<1>4. Irreversible(Ancestor(t.db.head, t.db.commitIndex), t.current_term)
  <2>1. \A c \in Known : Term(c) <= s.current_term => Term(c) <= t.current_term
    BY <1>1, <1>2
  <2> QED
    BY <1>3, <2>1 DEF Irreversible, SameTree
<1>5. Tidy(t.db)
  BY SameTreeTidy DEF Sound
<1>6. t.db.states \subseteq Known /\ Term(t.db.head) <= t.current_term
  BY <1>1 DEF Sound, SameTree
<1> QED
  BY <1>4, <1>5, <1>6 DEF Sound

\* check_votes does not change the database but for the pending block.
LEMMA CheckVotesTree ==
  ASSUME NEW s, NodeInv(s)
  PROVE  LET t == CheckVotes(s)
         IN  /\ SameTree(t.db, s.db)
             /\ t = s \/ (t._state = "leader" /\ t.match_index = NoMatch)
<1> DEFINE t == [s EXCEPT !._state = "leader", !.match_index = NoMatch]
           u == StartLeader(t)
<1>1. /\ DOMAIN t = DOMAIN s /\ t._state = "leader" /\ t.current_term = s.current_term
      /\ t.match_index = NoMatch /\ t.db = s.db
  BY DEF NodeInv, NodeCore, NodeType
<1>2. CheckVotes(s) = u \/ CheckVotes(s) = s
  BY DEF CheckVotes
<1> HIDE DEF t
<1>3. u._state = "leader" /\ u.match_index = NoMatch /\ u.db = StartBlock(s.db, s.current_term)
  BY <1>1 DEF StartLeader, NodeInv, NodeCore, NodeType
<1>4. SameTree(u.db, s.db) /\ SameTree(s.db, s.db)
  BY <1>3, SameTreeFacts DEF NodeInv, NodeCore, NodeType, SameTree
<1> QED
  BY <1>2, <1>3, <1>4

\* The election timer.
LEMMA ElectionTimeoutAgreement ==
  ASSUME Inv, AgreementInv, NEW n \in Producer, ElectionTimeout(n)
  PROVE  \E t : AgreementStep(n, t)
<1>1. PICK s, u, d, m, v, t :
        /\ s = node[n] /\ u = StopLeader(s) /\ d = [u.db EXCEPT !.currentTerm = u.current_term + 1]
        /\ m = RequestVoteRequest(u.current_term + 1, n, u.db.head)
        /\ v = [u EXCEPT !.current_term = u.current_term + 1,
                         !.db.currentTerm = u.current_term + 1, !.voted_for = n,
                         !.votes_for_me = {n}, !._state = "candidate", !.out = @ \cup {m}]
        /\ t = CheckVotes(v)
  OBVIOUS
<1>2. t = RequestVote(n, StopLeader(s))
  BY <1>1 DEF RequestVote
<1>3. Finish(n, t) /\ produced' = produced
  BY <1>1, <1>2 DEF ElectionTimeout
<1>4. /\ Sound(s) /\ NodeInv(s) /\ NodeCore(s) /\ s.out = {} /\ s.current_term \in Nat
      /\ s.db.head \in Block /\ s.db.head \in Known /\ DbType(s.db)
  BY <1>1, NodeSound DEF Sound, NodeInv, NodeCore, NodeType
<1>5. /\ NodeCore(u) /\ u.out = {} /\ u.db.head = s.db.head /\ u.db.blockContext = NoBlock
      /\ u.current_term = s.current_term
  BY <1>1, <1>4, StopLeaderCore DEF NodeInv, SameRole
<1>6. SameTree(u.db, s.db)
  <2>1. SameTree(AbortBlock(s.db), s.db) /\ SameTree(s.db, s.db)
    BY <1>4, SameTreeFacts DEF SameTree
  <2>2. u.db = AbortBlock(s.db) \/ u.db = s.db
    BY <1>1, <1>4 DEF StopLeader, NodeCore, NodeType
  <2> QED
    BY <2>1, <2>2
<1>7. /\ v.db = d /\ v.out = {m} /\ v.current_term = s.current_term + 1 /\ v.voted_for = n
      /\ v._state = "candidate"
  BY <1>1, <1>5 DEF NodeCore, NodeType
<1>8. SameTree(d, s.db)
  <2>1. SameTree(d, u.db)
    BY <1>1, <1>5, SameTreeFacts DEF NodeCore, NodeType
  <2> QED
    BY <1>6, <2>1 DEF SameTree
<1>9. NodeInv(v)
  <2>1. /\ Good(d) /\ d.currentTerm = u.current_term + 1 /\ d.blockContext = NoBlock
    <3>1. Good(u.db) /\ u.current_term + 1 \in Nat
      BY <1>4, <1>5, NodeDb
    <3> QED
      BY <1>1, <1>5, <3>1, SetTermGood
  <2>2. m \in Message
    <3>1. Term(u.db.head) \in Nat /\ BlockNum(u.db.head) \in Nat
      BY <1>4, <1>5, BlockFacts DEF BlockNum
    <3> QED
      BY <1>1, <1>4, <1>5, <3>1 DEF Message, RequestVoteRequest
  <2>3. /\ DOMAIN v = DOMAIN u /\ v.votes_for_me = {n} /\ v.match_index = u.match_index
    BY <1>1, <1>5 DEF NodeCore, NodeType
  <2> QED
    BY <1>4, <1>5, <1>7, <2>1, <2>2, <2>3 DEF NodeInv, NodeCore, NodeType, Good, PendingBuildsOnHead
<1>10. /\ NodeInv(t) /\ t.out = {m} /\ t.current_term = s.current_term + 1 /\ t.voted_for = n
       /\ SameTree(t.db, s.db)
       /\ t._state = "leader" => t.match_index = NoMatch
  <2>0. t = CheckVotes(v)
    BY <1>1
  <2>1. /\ NodeInv(t) /\ t.out = v.out /\ t.current_term = v.current_term
        /\ t.voted_for = v.voted_for
    BY <1>9, <2>0, CheckVotesInv
  <2>2. SameTree(t.db, v.db) /\ (t = v \/ (t._state = "leader" /\ t.match_index = NoMatch))
    BY <1>9, <2>0, CheckVotesTree
  <2> QED
    BY <1>7, <1>8, <2>1, <2>2 DEF SameTree
<1>11. t.current_term > s.current_term /\ t.current_term >= s.current_term
  BY <1>4, <1>10
<1>12. Sound(t)
  BY <1>4, <1>10, <1>11, SoundSameTree
<1>13. /\ NodeInv(t) /\ Tidy(t.db) /\ t.db.states \subseteq Known'
       /\ Irreversible(Ancestor(t.db.head, t.db.commitIndex), t.current_term)'
  BY <1>3, <1>12, SoundStep
<1>14. t.db.head = s.db.head /\ t.db.states = s.db.states
  BY <1>10 DEF SameTree
<1>15. \A b \in t.db.states : Term(b) <= t.current_term
  <2>1. \A b \in t.db.states : b \in Known /\ Term(b) <= s.current_term
    BY <1>1, <1>4, <1>14 DEF AgreementInv, NodeBlocks, Sound
  <2>2. \A b \in t.db.states : Term(b) \in Nat
    BY <2>1, KnownFacts
  <2> QED
    BY <1>4, <1>10, <2>1, <2>2
<1>16. /\ m.type = "RequestVote" /\ m.term = t.current_term /\ m.candidate_id = n
       /\ m.last_log_term = Term(s.db.head) /\ m.last_log_index = Len(s.db.head)
  BY <1>1, <1>5, <1>10 DEF RequestVoteRequest, BlockNum
<1>17. Asks(n, t, m) /\ VotesFor(n, t)
  <2>1. AtLeast(s.db.head, Term(s.db.head), Len(s.db.head))
    BY <1>4, AtLeastRefl
  <2>2. Advertises(m, Term(s.db.head), Len(s.db.head))
    BY <1>4, <1>16, BlockFacts DEF Advertises
  <2> QED
    BY <1>1, <1>10, <1>14, <1>16, <2>1, <2>2 DEF Asks, VotesFor
<1>18. t._state = "leader" => Counted(t)' /\ Leads(n, t)
  <2>1. ASSUME t._state = "leader" PROVE Counted(t)'
    <3>1. \A p \in Producer : t.match_index[p] = 0
      BY <1>10, <2>1 DEF NoMatch
    <3> QED
      BY <3>1 DEF Counted
  <2>2. Leads(n, t)
    <3>1. t.current_term > node[n].current_term
      BY <1>1, <1>11
    <3>2. produced' = produced
      BY <1>3
    <3> QED
      BY <3>1, <3>2 DEF Leads
  <2> QED
    BY <2>1, <2>2
<1>19. AtLeast(t.db.head, Term(s.db.head), Len(s.db.head))
  BY <1>4, <1>14, AtLeastRefl
<1> QED
  BY <1>1, <1>3, <1>10, <1>11, <1>13, <1>15, <1>16, <1>17, <1>18, <1>19 DEF AgreementStep

\* A block that cannot be written is dropped.
LEMMA ProduceFailsAgreement ==
  ASSUME Inv, AgreementInv, NEW n \in Producer, ProduceFails(n)
  PROVE  \E t : AgreementStep(n, t)
<1>1. PICK s, d, r, t : /\ s = node[n] /\ d = AbortBlock(s.db) /\ r = [s EXCEPT !.db = d]
                        /\ t = StartLeader(r)
  OBVIOUS
<1>2. Finish(n, t) /\ produced' = produced /\ s._state = "leader"
  BY <1>1 DEF ProduceFails
<1>3. /\ Sound(s) /\ NodeInv(s) /\ NodeCore(s) /\ Good(s.db) /\ s.out = {}
      /\ s.current_term \in Nat /\ s.db.head \in Block /\ DbType(s.db)
  BY <1>1, NodeSound, NodeDb DEF Sound, NodeInv, NodeCore, NodeType
<1>4. Good(d) /\ d.currentTerm = s.current_term /\ SameTree(d, s.db)
  BY <1>1, <1>3, AbortBlockGood, SameTreeFacts DEF NodeCore, NodeType
<1>5. NodeCore(r) /\ SameRole(r, s) /\ r.db = d /\ r.out = s.out /\ r.match_index = s.match_index
  BY <1>1, <1>3, <1>4, ReplaceDb
<1>6. NodeInv(t) /\ SameRole(t, r) /\ t.out = r.out /\ t.match_index = r.match_index
  <2>1. t = StartLeader(r) /\ r._state = "leader" /\ NodeCore(r)
    BY <1>1, <1>2, <1>5 DEF SameRole
  <2> QED
    BY <2>1, StartLeaderInv
<1>7. SameTree(t.db, d)
  <2>1. t.db = StartBlock(d, r.current_term)
    BY <1>1, <1>5 DEF StartLeader, NodeCore, NodeType
  <2> QED
    BY <1>4, <2>1, SameTreeFacts DEF Good
<1>8. /\ SameTree(t.db, s.db) /\ SameRole(t, s) /\ t.out = {} /\ t.match_index = s.match_index
      /\ t.current_term = s.current_term /\ t._state = "leader" /\ t.voted_for = s.voted_for
      /\ t.db.head = s.db.head /\ t.db.states = s.db.states
  BY <1>2, <1>3, <1>4, <1>5, <1>6, <1>7 DEF SameTree, SameRole
<1>9. Sound(t)
  BY <1>3, <1>6, <1>8, SoundSameTree
<1>10. /\ NodeInv(t) /\ Tidy(t.db) /\ t.db.states \subseteq Known'
       /\ Irreversible(Ancestor(t.db.head, t.db.commitIndex), t.current_term)'
       /\ \A w : Counted(w) => Counted(w)'
  BY <1>2, <1>9, SoundStep
<1>11. Counted(t)
  BY <1>1, <1>2, <1>8 DEF AgreementInv, MatchTrue, Counted
<1>12. AtLeast(t.db.head, Term(s.db.head), Len(s.db.head)) /\ IsAncestor(s.db.head, t.db.head)
  BY <1>3, <1>8, AtLeastRefl, IsAncestorRefl
<1>13. \A b \in t.db.states : Term(b) <= t.current_term
  BY <1>1, <1>8 DEF AgreementInv, NodeBlocks
<1>14. VotesFor(n, t) /\ Leads(n, t)
  BY <1>1, <1>2, <1>8, <1>12 DEF VotesFor, Leads
<1> QED
  BY <1>1, <1>2, <1>3, <1>8, <1>10, <1>11, <1>12, <1>13, <1>14 DEF AgreementStep

\* recv(RequestVoteRequest).
LEMMA RecvRequestVoteAgreement ==
  ASSUME Inv, AgreementInv, NEW n \in Producer, NEW m \in msgs, RecvRequestVote(n, m)
  PROVE  \E t : AgreementStep(n, t)
<1>1. PICK s, u, granted, response, t :
        /\ s = node[n] /\ u = UpdateTerm(n, s, m.term)
        /\ granted = (/\ m.term >= u.current_term
                      /\ u.voted_for \in {NullProducer, m.candidate_id}
                      /\ UpToDate(m, u.db.head))
        /\ response = RequestVoteResponse(u.current_term, m.candidate_id, n, granted)
        /\ t = Vote(n, u, m)
  OBVIOUS
<1>2. /\ m.term \in Nat /\ m.candidate_id \in Producer /\ m.type = "RequestVote"
      /\ m.last_log_term \in Nat /\ m.last_log_index \in Nat
  BY MessageFacts DEF Inv, RecvRequestVote
<1>3. Finish(n, t) /\ produced' = produced
  BY <1>1 DEF RecvRequestVote
<1>4. /\ Sound(u) /\ u.current_term \in Nat /\ NodeInv(u)
      /\ \A b \in u.db.states : Term(b) <= u.current_term
      /\ u.current_term >= s.current_term /\ u.current_term >= m.term
      /\ AtLeast(u.db.head, Term(s.db.head), Len(s.db.head))
      /\ \A k \in u.out : Confirms(n, u, k)
      /\ u = s \/ NewTerm(u, s, m.term)
      /\ \A w : w.voted_for = u.voted_for /\ w.current_term = u.current_term => VotesFor(n, w)
  BY <1>1, <1>2, UpdateTermAgrees DEF Sound
<1>5. CASE u._state # "follower"
  <2>1. t = u
    BY <1>1, <1>5 DEF Vote
  <2> QED
    BY <1>1, <1>2, <1>3, <2>1, UpdateTermAgreement
<1>6. CASE u._state = "follower"
  <2>1. /\ t._state = "follower" /\ t.current_term = u.current_term /\ DOMAIN t = DOMAIN u
        /\ t.votes_for_me = u.votes_for_me /\ t.match_index = u.match_index /\ t.db = u.db
        /\ t.out = u.out \cup {response}
        /\ t.voted_for = IF granted THEN m.candidate_id ELSE u.voted_for
    BY <1>1, <1>4, <1>6 DEF Vote, NodeInv, NodeCore, NodeType
  <2>2. response.type = "Vote"
    BY <1>1 DEF RequestVoteResponse
  <2>3. response \in Message
    BY <1>1, <1>2, <1>4 DEF RequestVoteResponse, Message
  <2>4. NodeInv(t)
    BY <1>2, <1>4, <1>6, <2>1, <2>3 DEF NodeInv, NodeCore, NodeType
  <2>5. Sound(t)
    BY <1>4, <2>1, <2>4 DEF Sound
  <2>6. /\ Tidy(t.db) /\ t.db.states \subseteq Known'
        /\ Irreversible(Ancestor(t.db.head, t.db.commitIndex), t.current_term)'
    BY <1>3, <2>5, SoundStep
  <2>7. VotesFor(n, t)
    <3>1. CASE granted
      <4>0. m.term >= u.current_term
        BY <1>1, <3>1
      <4>1. m.term = t.current_term /\ m.candidate_id = t.voted_for
        <5>1. m.term = u.current_term
          BY <1>2, <1>4, <4>0
        <5> QED
          BY <2>1, <3>1, <5>1
      <4>2. Advertises(m, Term(s.db.head), Len(s.db.head))
        <5>1. m.last_log_term > Term(u.db.head)
              \/ (m.last_log_term = Term(u.db.head) /\ m.last_log_index >= Len(u.db.head))
          BY <1>1, <3>1 DEF UpToDate, BlockNum
        <5>2. /\ Term(u.db.head) \in Nat /\ Len(u.db.head) \in Nat
              /\ Term(s.db.head) \in Nat /\ Len(s.db.head) \in Nat
          BY <1>1, <1>4, NodeSound, NodeDb, BlockFacts DEF NodeInv
        <5> QED
          BY <1>2, <1>4, <5>1, <5>2 DEF Advertises, AtLeast
      <4> QED
        BY <1>1, <1>2, <4>1, <4>2 DEF VotesFor
    <3>2. CASE ~granted
      BY <1>4, <2>1, <3>2
    <3> QED
      BY <3>1, <3>2
  <2>8. \A k \in t.out : /\ k.type = "Confirm" => Confirms(n, t, k)
                         /\ k.type = "RequestVote" => Asks(n, t, k)
    BY <1>4, <2>1, <2>2 DEF Confirms
  <2>9. node[n]._state = "leader" => t.current_term > node[n].current_term
    BY <1>1, <1>4, <1>6, <2>1 DEF NewTerm
  <2> QED
    BY <1>1, <1>3, <1>4, <2>1, <2>4, <2>6, <2>7, <2>8, <2>9 DEF AgreementStep
<1> QED
  BY <1>5, <1>6

\* recv(RequestVoteResponse).
LEMMA RecvVoteAgreement ==
  ASSUME Inv, AgreementInv, NEW n \in Producer, NEW m \in msgs, RecvVote(n, m)
  PROVE  \E t : AgreementStep(n, t)
<1>1. PICK s, u, v, t :
        /\ s = node[n] /\ u = UpdateTerm(n, s, m.term)
        /\ v = [u EXCEPT !.votes_for_me = @ \cup {m.voter_id}]
        /\ t = CountVote(u, m)
  OBVIOUS
<1>2. m.term \in Nat /\ m.voter_id \in Producer
  BY MessageFacts DEF Inv, RecvVote
<1>3. Finish(n, t) /\ produced' = produced
  BY <1>1 DEF RecvVote
<1>4. CASE ~(m.term = u.current_term /\ m.vote_granted /\ u._state = "candidate")
  <2>1. t = u
    BY <1>1, <1>4 DEF CountVote
  <2> QED
    BY <1>1, <1>2, <1>3, <2>1, UpdateTermAgreement
<1>5. CASE m.term = u.current_term /\ m.vote_granted /\ u._state = "candidate"
  <2>1. u = s
    BY <1>1, <1>2, <1>5, UpdateTermAgrees DEF NewTerm
  <2>2. /\ Sound(s) /\ NodeInv(s) /\ s.out = {} /\ s.current_term \in Nat
        /\ s.db.head \in Block
    BY <1>1, NodeSound DEF Sound
  <2>3. /\ DOMAIN v = DOMAIN s /\ v._state = s._state /\ v.current_term = s.current_term
        /\ v.voted_for = s.voted_for /\ v.votes_for_me = s.votes_for_me \cup {m.voter_id}
        /\ v.match_index = s.match_index /\ v.db = s.db /\ v.out = s.out
    BY <1>1, <2>1, <2>2 DEF NodeInv, NodeCore, NodeType
  <2>4. NodeInv(v) /\ t = CheckVotes(v)
    <3>1. t = CheckVotes(v)
      BY <1>1, <1>5 DEF CountVote
    <3>2. NodeInv(v)
      BY <1>2, <2>2, <2>3 DEF NodeInv, NodeCore, NodeType
    <3> QED
      BY <3>1, <3>2
  <2>5. /\ NodeInv(t) /\ t.out = v.out /\ t.current_term = v.current_term
        /\ t.voted_for = v.voted_for
        /\ SameTree(t.db, v.db) /\ (t = v \/ (t._state = "leader" /\ t.match_index = NoMatch))
    BY <2>4, CheckVotesInv, CheckVotesTree
  <2>6. /\ SameTree(t.db, s.db) /\ t.out = {} /\ t.current_term = s.current_term
        /\ t.voted_for = s.voted_for /\ s._state = "candidate"
        /\ t._state = "leader" => t.match_index = NoMatch
    BY <1>5, <2>1, <2>2, <2>3, <2>5
  <2>7. t.current_term >= s.current_term /\ t.db.head = s.db.head /\ t.db.states = s.db.states
    BY <2>2, <2>6 DEF SameTree
  <2>8. Sound(t)
    BY <2>2, <2>5, <2>6, <2>7, SoundSameTree
  <2>9. /\ Tidy(t.db) /\ t.db.states \subseteq Known'
        /\ Irreversible(Ancestor(t.db.head, t.db.commitIndex), t.current_term)'
    BY <1>3, <2>8, SoundStep
  <2>10. VotesFor(n, t)
    BY <1>1, <2>6 DEF VotesFor
  <2>11. t._state = "leader" => Counted(t)' /\ Leads(n, t)
    BY <1>1, <1>3, <2>6 DEF Counted, Leads, NoMatch
  <2>12. AtLeast(t.db.head, Term(s.db.head), Len(s.db.head))
    BY <2>2, <2>7, AtLeastRefl
  <2>13. \A b \in t.db.states : Term(b) <= t.current_term
    BY <1>1, <2>6, <2>7 DEF AgreementInv, NodeBlocks
  <2> QED
    BY <1>1, <1>3, <2>5, <2>6, <2>7, <2>9, <2>10, <2>11, <2>12, <2>13 DEF AgreementStep
<1> QED
  BY <1>4, <1>5

\* ForkDb::insert as the first call of a callback.
LEMMA InsertSound ==
  ASSUME Inv, AgreementInv, NEW n \in Producer, NEW b \in produced, CanInsert(node[n].db, b)
  PROVE  LET s == node[n]
             r == [s EXCEPT !.db = Insert(@, b)]
         IN  /\ Sound(r) /\ SameRole(r, s) /\ r.out = {} /\ r.match_index = s.match_index
             /\ r.db.head = s.db.head /\ r.db.commitIndex = s.db.commitIndex
             /\ r.db.states = s.db.states \cup {b}
<1> DEFINE s == node[n]
           i == Insert(s.db, b)
           r == [s EXCEPT !.db = i]
<1>1. /\ Sound(s) /\ NodeInv(s) /\ NodeCore(s) /\ Good(s.db) /\ DbType(s.db) /\ s.out = {}
      /\ Tidy(s.db) /\ b \in Block /\ b \in Known /\ s.db.currentTerm = s.current_term
  BY NodeSound, NodeDb, KnownFacts DEF Sound, NodeInv, NodeCore, NodeType, Known, Inv
<1>2. /\ Good(i) /\ SameBlock(i, s.db) /\ i.head = s.db.head
      /\ i.commitIndex = s.db.commitIndex /\ i.failed = s.db.failed
      /\ i.currentTerm = s.current_term
  BY <1>1, InsertGood DEF SameBlock
<1>3. PICK x \in s.db.states, y \in s.db.states : Tree(s.db, x, y)
  BY <1>1 DEF Tidy
<1>4. /\ Tree(i, x, y) /\ i.states = s.db.states \cup {b} /\ s.db.byOrderIndex \subseteq i.byOrderIndex
  BY <1>1, <1>3, InsertTree
<1>5. [s EXCEPT !.db = Insert(@, b)] = r
  OBVIOUS
<1> HIDE DEF i
<1>6. Tidy(i)
  BY <1>1, <1>2, <1>4 DEF Tidy
<1>7. NodeCore(r) /\ SameRole(r, s) /\ r.db = i /\ r.out = s.out /\ r.match_index = s.match_index
  BY <1>1, <1>2, ReplaceDb
<1> HIDE DEF r
<1>8. NodeInv(r)
  BY <1>1, <1>2, <1>7 DEF NodeInv, SameRole, SameBlock, PendingBuildsOnHead
<1>9. Sound(r)
  BY <1>1, <1>2, <1>4, <1>6, <1>7, <1>8 DEF Sound, SameRole
<1> QED
  BY <1>1, <1>2, <1>4, <1>5, <1>7, <1>9

\* The block that a header makes irreversible is in the chain of a leader already.
LEMMA LeaderFollows ==
  ASSUME Inv, AgreementInv, NEW n \in Producer, node[n]._state = "leader",
         NEW b \in Known, Term(b) <= node[n].current_term,
         NEW r, Sound(r), r.db.head = node[n].db.head
  PROVE  FollowCommitNum(r, b) = r
<1> DEFINE x == Ancestor(b, CommitNum(b))
<1>1. /\ b \in Block /\ CommitNum(b) \in 1..Len(b) /\ Len(b) \in Nat /\ Term(b) \in Nat
      /\ node[n].current_term \in Nat /\ r.db.head \in Block /\ r.db.head \in Known /\ BlocksInv
  BY KnownFacts, NodeSound
<1>2. x \in Block /\ Len(x) = CommitNum(b)
  BY <1>1, AncestorFacts
<1>3. IsAncestor(x, r.db.head)
  <2>1. CASE x = FirstBlock
    BY <1>1, <2>1 DEF BlocksInv, KnownBlocks
  <2>2. CASE x # FirstBlock
    <3>1. PICK c \in Known : Chosen(c) /\ Term(c) <= Term(b) /\ IsAncestor(x, c)
      BY <1>1, <2>2 DEF BlocksInv, HeadersTrue, Irreversible
    <3>2. c \in Block /\ Term(c) \in Nat
      BY KnownFacts
    <3>3. Term(c) <= node[n].current_term
      BY <1>1, <3>1, <3>2
    <3>4. IsAncestor(c, r.db.head)
      BY <3>1, <3>3, ChosenInLeader
    <3> QED
      BY <1>1, <1>2, <3>1, <3>2, <3>4, IsAncestorTrans
  <2> QED
    BY <2>1, <2>2
<1> HIDE DEF x
<1>4. CommitNum(b) > r.db.commitIndex => InBestChain(r.db, x)
  <2> SUFFICES ASSUME CommitNum(b) > r.db.commitIndex PROVE InBestChain(r.db, x)
    OBVIOUS
  <2>1. DbType(r.db) /\ IndexIsChainOfHead(r.db)
    BY DEF Sound, NodeInv, NodeCore, NodeType
  <2>2. Len(r.db.head) \in Nat /\ Len(x) \in Nat
    BY <1>1, <1>2, BlockFacts
  <2>3. Len(x) \in 1..Len(r.db.head) /\ Ancestor(r.db.head, Len(x)) = x
    BY <1>1, <1>2, <1>3, <2>2 DEF IsAncestor
  <2>4. r.db.commitIndex \in DOMAIN r.db.byBlocknumIndex /\ r.db.commitIndex \in Nat
    BY <2>1, IndexFacts
  <2>5. r.db.commitIndex <= Len(x)
    BY <1>1, <1>2, <2>4
  <2>6. Len(x) \in DOMAIN r.db.byBlocknumIndex
    BY <2>1, <2>3, <2>4, <2>5, IndexFacts
  <2>7. r.db.byBlocknumIndex[Len(x)] = x
    BY <2>1, <2>3, <2>6, IndexFacts
  <2> QED
    BY <2>6, <2>7 DEF InBestChain
<1> QED
  BY <1>4 DEF FollowCommitNum, x

\* recv(BlockMessage).
LEMMA RecvBlockAgreement ==
  ASSUME Inv, AgreementInv, NEW n \in Producer, NEW b \in produced, RecvBlock(n, b)
  PROVE  \E t : AgreementStep(n, t)
<1>1. PICK s, r, u, t :
        /\ s = node[n] /\ r = [s EXCEPT !.db = Insert(@, b)]
        /\ u = UpdateTerm(n, r, Term(b)) /\ t = SwitchHead(n, FollowCommitNum(u, b))
  OBVIOUS
<1>2. Finish(n, t) /\ produced' = produced /\ CanInsert(s.db, b)
  BY <1>1 DEF RecvBlock, OnAcceptBlockHeader
<1>3. /\ Sound(r) /\ SameRole(r, s) /\ r.out = {} /\ r.match_index = s.match_index
      /\ r.db.head = s.db.head /\ r.db.states = s.db.states \cup {b}
  BY <1>1, <1>2, InsertSound
<1>4. /\ b \in Known /\ Term(b) \in Nat /\ s.current_term \in Nat /\ BlocksInv
      /\ s.db.head \in Block /\ r.current_term = s.current_term /\ r._state = s._state
      /\ r.voted_for = s.voted_for /\ Term(s.db.head) \in Nat /\ Len(s.db.head) \in Nat
  BY <1>1, <1>3, KnownFacts, NodeSound, BlockFacts DEF Known, SameRole
<1>5. /\ Proceeds(n, u, r) /\ AtLeast(u.db.head, Term(s.db.head), Len(s.db.head))
      /\ ((Term(b) <= s.current_term /\ u = r) \/ NewTerm(u, r, Term(b)))
  BY <1>1, <1>3, <1>4, UpdateTermSound
<1>6. /\ Sound(u) /\ u.current_term \in Nat /\ Term(b) <= u.current_term
      /\ u.current_term >= s.current_term
      /\ \A m \in u.out : Confirms(n, u, m)
      /\ u.db.states \subseteq s.db.states \cup {b}
      /\ ExtendsCommitted(u.db, b) => b \in u.db.states
      /\ u.db.head \in Block
  <2>1. /\ Sound(u) /\ u.db.states \subseteq s.db.states \cup {b}
        /\ \A m \in u.out : Confirms(n, u, m)
        /\ ExtendsCommitted(u.db, b) => b \in u.db.states
    BY <1>3, <1>5 DEF Proceeds
  <2>2. u.db.head \in Block
    BY <2>1, NodeDb DEF Sound, NodeInv
  <2> QED
    BY <1>4, <1>5, <2>1, <2>2 DEF NewTerm
<1>7. CASE u._state = "leader"
  <2>1. u = r /\ s._state = "leader" /\ Term(b) <= s.current_term
    BY <1>4, <1>5, <1>7 DEF NewTerm
  <2>2. t = SwitchHead(n, r)
    <3>1. s = node[n] /\ t = SwitchHead(n, FollowCommitNum(r, b))
      BY <1>1, <2>1
    <3>2. FollowCommitNum(r, b) = r
      BY <1>3, <1>4, <2>1, <3>1, LeaderFollows
    <3> QED
      BY <3>1, <3>2
  <2>3. \A c \in Known : Term(c) = r.current_term => IsAncestor(c, r.db.head)
    BY <1>1, <1>3, <1>4, <2>1 DEF AgreementInv, LeaderChain
  <2>4. t.db = r.db /\ t.out = r.out /\ t.match_index = r.match_index
    BY <1>3, <1>4, <2>1, <2>2, <2>3, SwitchLeader
  <2>5. NodeInv(t) /\ SameRole(t, r)
    BY <1>3, <2>2, SwitchHeadInv DEF Sound
  <2>6. /\ t.db.head = s.db.head /\ t.current_term = s.current_term /\ t._state = "leader"
        /\ t.voted_for = s.voted_for /\ t.out = {} /\ t.match_index = s.match_index
        /\ t.db.states = s.db.states \cup {b}
    BY <1>3, <1>4, <2>1, <2>4, <2>5 DEF SameRole
  <2>7. Sound(t)
    BY <1>3, <1>4, <2>4, <2>5, <2>6 DEF Sound
  <2>8. /\ Tidy(t.db) /\ t.db.states \subseteq Known'
        /\ Irreversible(Ancestor(t.db.head, t.db.commitIndex), t.current_term)'
        /\ \A w : Counted(w) => Counted(w)'
    BY <1>2, <2>7, SoundStep
  <2>9. Counted(t)
    BY <1>1, <2>1, <2>6 DEF AgreementInv, MatchTrue, Counted
  <2>10. \A c \in t.db.states : Term(c) <= t.current_term
    BY <1>1, <2>1, <2>6 DEF AgreementInv, NodeBlocks
  <2>11. /\ VotesFor(n, t) /\ Leads(n, t)
         /\ AtLeast(t.db.head, Term(s.db.head), Len(s.db.head))
    BY <1>1, <1>4, <2>1, <2>6, AtLeastRefl, IsAncestorRefl DEF VotesFor, Leads
  <2> QED
    BY <1>1, <1>2, <1>4, <2>5, <2>6, <2>8, <2>9, <2>10, <2>11 DEF AgreementStep
<1>8. CASE u._state # "leader"
  <2>1. /\ Proceeds(n, t, u) /\ SameRole(t, u)
        /\ AtLeast(t.db.head, Term(u.db.head), Len(u.db.head))
    BY <1>1, <1>4, <1>6, <1>8, FollowHeader
  <2>2. /\ Sound(t) /\ t.db.head \in Block /\ t.current_term = u.current_term
        /\ t._state # "leader" /\ t.voted_for = u.voted_for
        /\ t.db.states \subseteq s.db.states \cup {b}
    <3>1. Sound(t)
      BY <2>1 DEF Proceeds
    <3>2. t.db.head \in Block
      BY <3>1, NodeDb DEF Sound, NodeInv
    <3> QED
      BY <1>6, <1>8, <2>1, <3>1, <3>2 DEF Proceeds, SameRole
  <2>3. AtLeast(t.db.head, Term(s.db.head), Len(s.db.head))
    BY <1>4, <1>5, <1>6, <2>1, <2>2, AtLeastTrans
  <2>4. /\ NodeInv(t) /\ Tidy(t.db) /\ t.db.states \subseteq Known'
        /\ Irreversible(Ancestor(t.db.head, t.db.commitIndex), t.current_term)'
    BY <1>2, <2>2, SoundStep
  <2>5. \A m \in t.out : Confirms(n, t, m)
    <3> SUFFICES ASSUME NEW m \in t.out, Confirms(n, u, m) PROVE Confirms(n, t, m)
      BY <1>6, <2>1 DEF Proceeds
    <3>1. m.term \in Nat /\ m.head_num \in Nat
      <4>1. m \in Message /\ m.type = "Confirm"
        BY <2>4 DEF NodeInv, NodeCore, NodeType, Confirms
      <4> QED
        BY <4>1, MessageFacts
    <3>2. AtLeast(t.db.head, m.term, m.head_num)
      BY <1>6, <2>1, <2>2, <3>1, AtLeastTrans DEF Confirms
    <3> QED
      BY <2>2, <3>2 DEF Confirms
  <2>6. \A c \in t.db.states : Term(c) <= t.current_term
    <3> SUFFICES ASSUME NEW c \in t.db.states PROVE Term(c) <= u.current_term
      BY <2>2
    <3>1. CASE c = b
      BY <1>6, <3>1
    <3>2. CASE c \in s.db.states
      <4>1. Term(c) <= s.current_term /\ c \in Known
        BY <1>1, <3>2 DEF AgreementInv, NodeBlocks
      <4>2. Term(c) \in Nat
        BY <4>1, KnownFacts
      <4> QED
        BY <1>4, <1>6, <4>1, <4>2
    <3> QED
      BY <2>2, <3>1, <3>2
  <2>7. VotesFor(n, t)
    <3>1. s = node[n]
      BY <1>1
    <3>2. \/ t.voted_for = NullProducer
          \/ t.current_term = s.current_term /\ t.voted_for = s.voted_for
      BY <1>4, <1>5, <2>2 DEF NewTerm
    <3> QED
      BY <3>1, <3>2 DEF VotesFor
  <2>8. s._state = "leader" => t.current_term > s.current_term
    BY <1>4, <1>5, <1>8, <2>2 DEF NewTerm
  <2>9. \A m \in t.out : /\ m.type = "Confirm" => Confirms(n, t, m)
                         /\ m.type = "RequestVote" => Asks(n, t, m)
    BY <2>5 DEF Confirms
  <2> QED
    BY <1>1, <1>2, <1>6, <2>2, <2>3, <2>4, <2>6, <2>7, <2>8, <2>9 DEF AgreementStep
<1> QED
  BY <1>7, <1>8

\* The next block of a leader continues what is true of all blocks.
LEMMA NewBlockFacts ==
  ASSUME Inv, AgreementInv, NEW n \in Producer, NEW d, NewBlock(n, d)
  PROVE  /\ d \in Block /\ Len(d) \in Nat /\ Term(d) \in Nat /\ d \notin Known
         /\ IsAncestor(FirstBlock, d) /\ AllValid(d) /\ TermsGrow(d) /\ Len(d) <= MaxNum + 1
         /\ \A i \in 1..Len(d) : Ancestor(d, i) \in Known \cup {d}
         /\ \A i \in 1..Len(node[n].db.head) : Ancestor(d, i) = Ancestor(node[n].db.head, i)
         /\ AtLeast(d, Term(node[n].db.head), Len(node[n].db.head))
         /\ \A c \in Known : Term(c) = Term(d) => IsAncestor(c, d)
         /\ \A c \in Known : Term(c) < Term(d) => IsAncestor(c, d) \/ Passed(Term(c), Len(c))
         /\ Irreversible(Ancestor(d, CommitNum(d)), Term(d))
<1> DEFINE s == node[n]
           h == s.db.head
<1>1. /\ Sound(s) /\ BlocksInv /\ h \in Block /\ h \in Known /\ s.current_term \in Nat
      /\ Len(h) \in Nat /\ Len(h) >= 1 /\ Term(h) \in Nat /\ Term(h) <= s.current_term
      /\ s.db.commitIndex \in 1..Len(h)
  BY NodeSound, BlockFacts, NodeDb DEF Sound, NodeInv
<1>2. /\ s._state = "leader" /\ d \in Block /\ IsAncestor(h, d)
      /\ Len(d) = Len(h) + 1 /\ Len(d) <= MaxNum
      /\ Term(d) = s.current_term /\ d[Len(d)].valid
      /\ CommitNum(d) \in 1..s.db.commitIndex
  BY DEF NewBlock
<1>3. MaxNum \in Nat
  BY CftAssumption
<1>4. IsAncestor(FirstBlock, h) /\ AllValid(h) /\ TermsGrow(h)
      /\ \A i \in 1..Len(h) : Ancestor(h, i) \in Known
  BY <1>1 DEF BlocksInv, KnownBlocks
<1> HIDE DEF s, h
<1>5. \A i \in 1..Len(d) : i \in 1..Len(h) \/ i = Len(d)
  BY <1>1, <1>2
<1>6. \A i \in 1..Len(h) : Ancestor(d, i) = Ancestor(h, i) /\ d[i] = h[i]
  BY <1>1, <1>2, AncestorAgrees
<1>7. Len(d) \in Nat /\ Len(d) <= MaxNum + 1 /\ Term(d) \in Nat
  BY <1>1, <1>2, <1>3
<1>8. AllValid(d)
  BY <1>2, <1>4, <1>5, <1>6 DEF AllValid
<1>9. TermsGrow(d)
  <2> SUFFICES ASSUME NEW i \in 1..Len(d), NEW j \in 1..Len(d), i <= j
               PROVE  d[i].term <= d[j].term
    BY DEF TermsGrow
  <2>1. CASE j \in 1..Len(h)
    <3>1. i \in 1..Len(h)
      BY <1>1, <1>7, <2>1
    <3> QED
      BY <1>4, <1>6, <2>1, <3>1 DEF TermsGrow
  <2>2. CASE j = Len(d) /\ i = Len(d)
    BY <1>7, <2>2 DEF Term
  <2>3. CASE j = Len(d) /\ i \in 1..Len(h)
    <3>1. h[i].term <= Term(h)
      <4>1. Len(h) \in 1..Len(h) /\ i <= Len(h)
        BY <1>1, <2>3
      <4> QED
        BY <1>4, <2>3, <4>1 DEF TermsGrow, Term
    <3>2. h[i].term \in Nat
      BY <1>1, <2>3, BlockFacts DEF Header
    <3>3. h[i].term <= Term(d)
      BY <1>1, <1>2, <3>1, <3>2
    <3> QED
      BY <1>6, <2>3, <3>3 DEF Term
  <2> QED
    BY <1>5, <2>1, <2>2, <2>3
<1>10. \A i \in 1..Len(d) : Ancestor(d, i) \in Known \cup {d}
  BY <1>2, <1>4, <1>5, <1>6, AncestorSelf
<1>11. IsAncestor(FirstBlock, d)
  BY <1>1, <1>2, <1>4, IsAncestorTrans, KnownFacts
<1>12. AtLeast(d, Term(h), Len(h))
  BY <1>1, <1>2, <1>7 DEF AtLeast
<1>13. \A c \in Known : Term(c) = Term(d) => IsAncestor(c, h) /\ IsAncestor(c, d)
  <2> SUFFICES ASSUME NEW c \in Known, Term(c) = Term(d) PROVE IsAncestor(c, h) /\ IsAncestor(c, d)
    OBVIOUS
  <2>1. IsAncestor(c, h)
    BY <1>2 DEF AgreementInv, LeaderChain, s, h
  <2> QED
    BY <1>1, <1>2, <2>1, IsAncestorTrans, KnownFacts
<1>14. d \notin Known
  <2>1. ASSUME d \in Known PROVE FALSE
    <3>1. Len(d) <= Len(h)
      BY <1>13, <2>1 DEF IsAncestor
    <3> QED
      BY <1>1, <1>2, <3>1
  <2> QED
    BY <2>1
<1>15. \A c \in Known : Term(c) < Term(d) => IsAncestor(c, d) \/ Passed(Term(c), Len(c))
  <2> SUFFICES ASSUME NEW c \in Known, Term(c) < Term(d), ~Passed(Term(c), Len(c))
               PROVE  IsAncestor(c, d)
    OBVIOUS
  <2>1. IsAncestor(c, h)
    BY <1>2 DEF AgreementInv, SafeLeaders, s, h
  <2> QED
    BY <1>1, <1>2, <2>1, IsAncestorTrans, KnownFacts
<1>16. Irreversible(Ancestor(d, CommitNum(d)), Term(d))
  <2> DEFINE x == Ancestor(h, CommitNum(d))
             y == Ancestor(h, s.db.commitIndex)
  <2>1. /\ CommitNum(d) \in 1..Len(h) /\ s.db.commitIndex \in Nat
        /\ Irreversible(y, s.current_term)
    BY <1>1, <1>2 DEF Sound, h
  <2>2. x \in Block /\ y \in Block /\ IsAncestor(x, y)
    BY <1>1, <1>2, <2>1, AncestorFacts, AncestorsAreOrdered
  <2>3. IsAncestor(FirstBlock, x)
    BY <1>1, <2>1, KnownChains
  <2>4. s.current_term <= Term(d) /\ Ancestor(d, CommitNum(d)) = x
    BY <1>1, <1>2, <1>6, <2>1
  <2> HIDE DEF x, y
  <2>5. Irreversible(x, Term(d))
    BY <1>1, <1>7, <2>1, <2>2, <2>3, <2>4, IrreversibleAncestor
  <2> QED
    BY <2>4, <2>5
<1> QED
  BY <1>2, <1>6, <1>7, <1>8, <1>9, <1>10, <1>11, <1>12, <1>13, <1>14, <1>15, <1>16 DEF s, h

\* The block timer of a leader.
LEMMA ProduceBlockAgreement ==
  ASSUME Inv, AgreementInv, NEW n \in Producer, ProduceBlock(n)
  PROVE  \E t : AgreementStep(n, t)
<1>1. PICK s, d, f, r, started, matched, g, t :
        /\ s = node[n] /\ d = FinishedBlock(s.db, n) /\ f = FinishBlock(s.db, n)
        /\ r = [s EXCEPT !.db = f] /\ started = StartLeader(r)
        /\ matched = UpdateMatchIndex(started, n, BlockNum(started.db.head))
        /\ g = Gc(matched.db) /\ t = [matched EXCEPT !.db = g]
  OBVIOUS
<1>2. s = node[n]
  BY <1>1
<1>3. [s EXCEPT !.db = FinishBlock(@, n)] = r /\ [matched EXCEPT !.db = Gc(@)] = t
  BY <1>1
<1>4. /\ Finish(n, t) /\ produced' = produced \cup {d} /\ s._state = "leader"
      /\ Len(s.db.head) < MaxNum
  BY <1>1, <1>3 DEF ProduceBlock, BlockNum
<1>5. /\ Sound(s) /\ BlocksInv /\ NodeInv(s) /\ NodeCore(s) /\ Good(s.db) /\ s.out = {}
      /\ s.current_term \in Nat /\ s.db.head \in Block /\ s.db.head \in Known /\ Tidy(s.db)
      /\ s.db.currentTerm = s.current_term /\ ~s.db.failed /\ n \in Nat
      /\ s.db.commitIndex \in 1..Len(s.db.head) /\ Len(s.db.head) \in Nat
      /\ s.match_index \in [Producer -> Nat]
  BY <1>2, NodeSound, NodeDb, CftAssumption, BlockFacts
  DEF Sound, NodeInv, NodeCore, NodeType, Tidy, Tree
<1>6. /\ PendingBuildsOnHead(s.db) /\ s.db.blockContext # NoBlock
      /\ s.db.blockContext.term = s.current_term
      /\ s.db.blockContext.commitNum \in 1..s.db.commitIndex
  BY <1>4, <1>5 DEF NodeInv, PendingBuildsOnHead
<1>7. /\ Good(f) /\ f.currentTerm = s.current_term /\ f.commitIndex = s.db.commitIndex
      /\ f.head = d /\ d \in Block /\ Len(d) = Len(s.db.head) + 1
      /\ Term(d) = s.current_term /\ d[Len(d)].producer = n
      /\ Tidy(f) /\ f.states = s.db.states \cup {d}
      /\ IsAncestor(s.db.head, d) /\ CommitNum(d) = s.db.blockContext.commitNum
      /\ d[Len(d)].valid
  <2>1. d = FinishedBlock(s.db, n) /\ f = FinishBlock(s.db, n)
    BY <1>1
  <2> QED
    BY <1>5, <1>6, <2>1, FinishBlockGood, FinishBlockTree
<1>8. NewBlock(n, d)
  <2>1. Len(d) <= MaxNum
    BY <1>4, <1>5, <1>7, CftAssumption
  <2> QED
    BY <1>2, <1>4, <1>6, <1>7, <2>1 DEF NewBlock
<1>9. /\ NodeCore(r) /\ SameRole(r, s) /\ r.db = f /\ r.out = s.out /\ r.match_index = s.match_index
  <2>1. r = [s EXCEPT !.db = f]
    BY <1>1
  <2> QED
    BY <1>5, <1>7, <2>1, ReplaceDb
<1>10. /\ NodeInv(started) /\ SameRole(started, s) /\ started.out = {}
       /\ started.match_index = s.match_index /\ started.db.head = d
       /\ started.db.commitIndex = s.db.commitIndex
  <2>1. started = StartLeader(r) /\ r._state = "leader"
    BY <1>1, <1>4, <1>9 DEF SameRole
  <2> QED
    BY <1>5, <1>7, <1>9, <2>1, StartLeaderInv DEF SameRole
<1>11. Tidy(started.db) /\ started.db.states = f.states
  <2>1. started = StartLeader(r)
    BY <1>1
  <2>2. started.db = StartBlock(f, r.current_term)
    BY <1>9, <2>1 DEF StartLeader, NodeCore, NodeType
  <2>3. SameTree(started.db, f)
    BY <1>7, <2>2, SameTreeFacts DEF Good
  <2> QED
    BY <1>7, <2>3, SameTreeTidy DEF SameTree
<1>12. /\ Len(d) \in Nat /\ TermsGrow(d) /\ IsAncestor(FirstBlock, d)
       /\ \A i \in 1..Len(s.db.head) : Ancestor(d, i) = Ancestor(s.db.head, i)
       /\ AtLeast(d, Term(s.db.head), Len(s.db.head))
       /\ \A c \in Known : Term(c) = Term(d) => IsAncestor(c, d)
  BY <1>2, <1>8, NewBlockFacts
<1>13. \A b \in started.db.states : TermsGrow(b)
  BY <1>5, <1>7, <1>11, <1>12, KnownChains DEF Sound
<1>14. /\ NodeInv(matched) /\ SameRole(matched, s) /\ matched.out = {}
       /\ Tidy(matched.db) /\ matched.db.states = f.states /\ matched.db.head = d
       /\ matched.match_index \in [Producer -> Nat]
       /\ \A w \in Producer : \/ matched.match_index[w] = s.match_index[w]
                              \/ w = n /\ matched.match_index[w] = Len(d)
       /\ \/ matched.db.commitIndex = s.db.commitIndex
          \/ \E Q \in SUBSET Producer : \E k \in Nat : \E q \in Producer :
               /\ IsQuorum("cft", Q, Producer) /\ \A w \in Q : matched.match_index[w] >= k
               /\ matched.match_index[q] = k /\ matched.db.commitIndex \in 1..k
               /\ matched.db.commitIndex \in 1..Len(d)
  <2>1. matched = UpdateMatchIndex(started, n, Len(d))
    BY <1>1, <1>10 DEF BlockNum
  <2>2. /\ NodeInv(matched) /\ SameRole(matched, started) /\ matched.out = started.out
        /\ Tidy(matched.db) /\ matched.db.states = started.db.states
        /\ matched.db.head = started.db.head
        /\ matched.match_index \in [Producer -> Nat]
        /\ \A w \in Producer : \/ matched.match_index[w] = started.match_index[w]
                               \/ w = n /\ matched.match_index[w] = Len(d)
        /\ \/ matched.db.commitIndex = started.db.commitIndex
           \/ \E Q \in SUBSET Producer : \E k \in Nat : \E q \in Producer :
                /\ IsQuorum("cft", Q, Producer) /\ \A w \in Q : matched.match_index[w] >= k
                /\ matched.match_index[q] = k /\ matched.db.commitIndex \in 1..k
                /\ matched.db.commitIndex \in 1..Len(matched.db.head)
    BY <1>10, <1>11, <1>12, <1>13, <2>1, MatchCommits
  <2> QED
    BY <1>10, <1>11, <2>2 DEF SameRole
<1>15. /\ Good(g) /\ SameBlock(g, matched.db) /\ g.failed = matched.db.failed
       /\ g.head = d /\ g.commitIndex = matched.db.commitIndex
       /\ g.currentTerm = matched.current_term
       /\ Tidy(g) /\ g.states \subseteq f.states
  <2>1. g = Gc(matched.db)
    BY <1>1
  <2>2. Good(matched.db) /\ matched.db.currentTerm = matched.current_term
    BY <1>14, NodeDb DEF NodeInv, NodeCore, NodeType
  <2> QED
    BY <1>14, <2>1, <2>2, GcGood, GcTree DEF SameBlock
<1>16. /\ NodeCore(t) /\ SameRole(t, matched) /\ t.db = g /\ t.out = {}
       /\ t.match_index = matched.match_index
  <2>1. t = [matched EXCEPT !.db = g]
    BY <1>1
  <2> QED
    BY <1>14, <1>15, <2>1, ReplaceDb DEF NodeInv
<1>17. NodeInv(t)
  BY <1>14, <1>15, <1>16 DEF NodeInv, SameRole, SameBlock, PendingBuildsOnHead
<1>18. /\ t._state = "leader" /\ t.current_term = s.current_term /\ t.voted_for = s.voted_for
       /\ t.db.head = d /\ t.db.commitIndex = matched.db.commitIndex /\ Tidy(t.db)
       /\ t.db.states \subseteq s.db.states \cup {d}
  BY <1>4, <1>7, <1>14, <1>15, <1>16 DEF SameRole
<1>19. /\ msgs' = msgs /\ msgs \subseteq msgs' /\ produced \subseteq produced'
       /\ Known' = Known \cup {d} /\ d \in produced'
  BY <1>4, <1>16 DEF Finish, Known
<1>20. Counted(t)'
  <2>1. Counted(s)'
    BY <1>2, <1>4, <1>19, AcceptedGrows DEF AgreementInv, MatchTrue
  <2>2. Accepted(n, s.current_term, Len(d))'
    BY <1>7, <1>12, <1>19 DEF Accepted
  <2>3. \E c \in Known' : Term(c) = s.current_term /\ Len(c) = Len(d)
    BY <1>7, <1>19
  <2> QED
    BY <1>14, <1>16, <1>18, <2>1, <2>2, <2>3 DEF Counted
<1>21. Irreversible(Ancestor(t.db.head, t.db.commitIndex), t.current_term)'
  <2>1. CASE t.db.commitIndex = s.db.commitIndex
    <3>1. Irreversible(Ancestor(t.db.head, t.db.commitIndex), t.current_term)
      BY <1>5, <1>12, <1>18, <2>1 DEF Sound
    <3> QED
      BY <1>19, <3>1, AcceptedGrows
  <2>2. CASE t.db.commitIndex # s.db.commitIndex
    <3>1. PICK Q \in SUBSET Producer, k \in Nat, q \in Producer :
            /\ IsQuorum("cft", Q, Producer) /\ \A w \in Q : t.match_index[w] >= k
            /\ t.match_index[q] = k /\ t.db.commitIndex \in 1..k
            /\ t.db.commitIndex \in 1..Len(d)
      BY <1>14, <1>16, <1>18, <2>2
    <3>2. produced' \subseteq Block /\ msgs' \subseteq Message
      BY <1>4, <1>7, <1>19 DEF Inv
    <3>3. \A c \in Known' : Term(c) = t.current_term => IsAncestor(c, d)
      BY <1>7, <1>12, <1>18, <1>19, IsAncestorRefl
    <3>4. t.match_index \in [Producer -> Nat]
      BY <1>14, <1>16
    <3>5. Irreversible(Ancestor(d, t.db.commitIndex), t.current_term)'
      BY <1>5, <1>7, <1>18, <1>20, <3>1, <3>2, <3>3, <3>4, CountedCommits
    <3> QED
      BY <1>18, <3>5
  <2> QED
    BY <2>1, <2>2
<1>22. t.db.states \subseteq Known' /\ \A b \in t.db.states : Term(b) <= t.current_term
  <2>1. \A b \in s.db.states : b \in Known /\ Term(b) <= s.current_term
    BY <1>2 DEF AgreementInv, NodeBlocks
  <2> QED
    BY <1>5, <1>7, <1>18, <1>19, <2>1
<1>23. VotesFor(n, t) /\ Leads(n, t)
  BY <1>2, <1>4, <1>7, <1>18 DEF VotesFor, Leads
<1>24. t.current_term >= node[n].current_term
  BY <1>2, <1>5, <1>18
<1>25. AtLeast(t.db.head, Term(node[n].db.head), Len(node[n].db.head))
  BY <1>2, <1>12, <1>18
<1> QED
  BY <1>2, <1>4, <1>8, <1>16, <1>17, <1>18, <1>20, <1>21, <1>22, <1>23, <1>24, <1>25
  DEF AgreementStep

\* Without restarts every step is such a callback.
LEMMA NextAgreementStep ==
  ASSUME Inv, AgreementInv, Next, MaxRestarts = 0
  PROVE  \E n \in Producer : \E t : AgreementStep(n, t)
<1>1. PICK n \in Producer :
        \/ ElectionTimeout(n)
        \/ ProduceBlock(n)
        \/ ProduceFails(n)
        \/ \E b \in produced : RecvBlock(n, b)
        \/ \E m \in msgs : RecvConfirm(n, m)
        \/ \E m \in msgs : RecvRequestVote(n, m)
        \/ \E m \in msgs : RecvVote(n, m)
        \/ Restart(n)
  BY DEF Next
<1>2. ~Restart(n)
  <2>1. restarts \in Nat
    BY DEF Inv
  <2>2. ~(restarts < MaxRestarts)
    BY <2>1
  <2> QED
    BY <2>2 DEF Restart
<1> QED
  BY <1>1, <1>2, ElectionTimeoutAgreement, ProduceBlockAgreement, ProduceFailsAgreement,
     RecvBlockAgreement, RecvConfirmAgreement, RecvRequestVoteAgreement, RecvVoteAgreement

-----------------------------------------------------------------------------
(***************************************************************************)
(* Every callback preserves the invariant.                                 *)
(***************************************************************************)
\* What a node has accepted is not better than its head.
LEMMA AcceptedHead ==
  ASSUME Inv, AgreementInv, NEW p \in Producer, NEW u \in Nat, NEW k \in Nat, Accepted(p, u, k)
  PROVE  u <= node[p].current_term /\ AtLeast(node[p].db.head, u, k)
<1>1. Term(node[p].db.head) \in Nat /\ Len(node[p].db.head) \in Nat
  BY NodeSound, BlockFacts
<1>2. CASE \E m \in msgs :
             m.type = "Confirm" /\ m.follower_id = p /\ m.term = u /\ m.head_num >= k
  <2>1. PICK m \in msgs : m.type = "Confirm" /\ m.follower_id = p /\ m.term = u /\ m.head_num >= k
    BY <1>2
  <2>2. m.head_num \in Nat
    BY <2>1, MessageFacts DEF Inv
  <2>3. u <= node[p].current_term /\ AtLeast(node[p].db.head, u, m.head_num)
    BY <2>1 DEF AgreementInv, ConfirmsTrue
  <2> QED
    BY <1>1, <2>1, <2>2, <2>3 DEF AtLeast
<1>3. CASE \E b \in produced : Term(b) = u /\ b[Len(b)].producer = p /\ Len(b) >= k
  <2>1. PICK b \in produced : Term(b) = u /\ b[Len(b)].producer = p /\ Len(b) >= k
    BY <1>3
  <2>2. Len(b) \in Nat
    BY BlockFacts DEF Inv
  <2>3. u <= node[p].current_term /\ AtLeast(node[p].db.head, u, Len(b))
    BY <2>1 DEF AgreementInv, ProducersLead
  <2> QED
    BY <1>1, <2>1, <2>2, <2>3 DEF AtLeast
<1> QED
  BY <1>2, <1>3 DEF Accepted

\* The node that runs a callback is in the state the callback leaves it in, the others
\* do not move, and only that node may accept something, in the term it is in then.
LEMMA StepFacts ==
  ASSUME Inv, AgreementInv, NEW n \in Producer, NEW t, AgreementStep(n, t)
  PROVE  /\ SameRole(node'[n], t) /\ node'[n].db = t.db /\ node'[n].match_index = t.match_index
         /\ \A k \in Producer \ {n} : node'[k] = node[k]
         /\ \A k \in Producer :
              /\ node[k].current_term \in Nat /\ node'[k].current_term \in Nat
              /\ node'[k].current_term >= node[k].current_term
              /\ node[k].db.head \in Block /\ node'[k].db.head \in Block
              /\ AtLeast(node'[k].db.head, Term(node[k].db.head), Len(node[k].db.head))
         /\ msgs' = msgs \cup t.out /\ produced \subseteq produced'
         /\ \A p \in Producer, u, k \in Nat : Accepted(p, u, k)' =>
              \/ Accepted(p, u, k)
              \/ p = n /\ u = t.current_term /\ AtLeast(t.db.head, u, k)
         /\ \A u, k \in Nat : Passed(u, k) => Passed(u, k)'
<1> DEFINE w == [t EXCEPT !.out = {}]
<1>1. /\ Finish(n, t) /\ NodeInv(t) /\ t.current_term >= node[n].current_term
      /\ AtLeast(t.db.head, Term(node[n].db.head), Len(node[n].db.head))
      /\ \A m \in t.out : m.type = "Confirm" => Confirms(n, t, m)
      /\ \/ produced' = produced
         \/ \E d : /\ NewBlock(n, d) /\ produced' = produced \cup {d} /\ t.db.head = d
                   /\ t.current_term = node[n].current_term
  BY DEF AgreementStep
<1>2. /\ DOMAIN w = DOMAIN t /\ w._state = t._state /\ w.current_term = t.current_term
      /\ w.voted_for = t.voted_for /\ w.votes_for_me = t.votes_for_me
      /\ w.match_index = t.match_index /\ w.db = t.db
  BY <1>1 DEF NodeInv, NodeCore, NodeType
<1>3. node' = [node EXCEPT ![n] = w] /\ msgs' = msgs \cup t.out /\ DOMAIN node = Producer
  BY <1>1 DEF Finish, Inv
<1> HIDE DEF w
<1>4. node'[n] = w /\ \A k \in Producer \ {n} : node'[k] = node[k]
  BY <1>3
<1>5. SameRole(node'[n], t) /\ node'[n].db = t.db /\ node'[n].match_index = t.match_index
  BY <1>2, <1>4 DEF SameRole
<1>6. produced \subseteq produced'
  BY <1>1
<1>7. t.current_term \in Nat /\ t.db.head \in Block
  BY <1>1, NodeDb DEF NodeInv, NodeCore, NodeType
<1>8. \A k \in Producer :
        /\ node[k].current_term \in Nat /\ node'[k].current_term \in Nat
        /\ node'[k].current_term >= node[k].current_term
        /\ node[k].db.head \in Block /\ node'[k].db.head \in Block
        /\ AtLeast(node'[k].db.head, Term(node[k].db.head), Len(node[k].db.head))
  <2> SUFFICES ASSUME NEW k \in Producer
               PROVE  /\ node[k].current_term \in Nat /\ node'[k].current_term \in Nat
                      /\ node'[k].current_term >= node[k].current_term
                      /\ node[k].db.head \in Block /\ node'[k].db.head \in Block
                      /\ AtLeast(node'[k].db.head, Term(node[k].db.head), Len(node[k].db.head))
    OBVIOUS
  <2>1. node[k].current_term \in Nat /\ node[k].db.head \in Block
    BY NodeSound
  <2>2. CASE k = n
    BY <1>1, <1>5, <1>7, <2>1, <2>2 DEF SameRole
  <2>3. CASE k # n
    BY <1>4, <2>1, <2>3, AtLeastRefl
  <2> QED
    BY <2>2, <2>3
<1>9. \A p \in Producer, u, k \in Nat : Accepted(p, u, k)' =>
        \/ Accepted(p, u, k)
        \/ p = n /\ u = t.current_term /\ AtLeast(t.db.head, u, k)
  <2> SUFFICES ASSUME NEW p \in Producer, NEW u \in Nat, NEW k \in Nat, Accepted(p, u, k)',
                      ~Accepted(p, u, k)
               PROVE  p = n /\ u = t.current_term /\ AtLeast(t.db.head, u, k)
    OBVIOUS
  <2>1. Term(t.db.head) \in Nat /\ Len(t.db.head) \in Nat
    BY <1>7, BlockFacts
  <2>2. CASE \E m \in msgs' :
               m.type = "Confirm" /\ m.follower_id = p /\ m.term = u /\ m.head_num >= k
    <3>1. PICK m \in msgs' :
            m.type = "Confirm" /\ m.follower_id = p /\ m.term = u /\ m.head_num >= k
      BY <2>2
    <3>2. m \in t.out
      BY <1>3, <3>1 DEF Accepted
    <3>3. m.head_num \in Nat
      <4>1. m \in Message
        BY <1>1, <3>2 DEF NodeInv, NodeCore, NodeType
      <4> QED
        BY <3>1, <4>1, MessageFacts
    <3>4. /\ m.follower_id = n /\ m.term = t.current_term
          /\ AtLeast(t.db.head, m.term, m.head_num)
      BY <1>1, <3>1, <3>2 DEF Confirms
    <3> QED
      BY <2>1, <3>1, <3>3, <3>4 DEF AtLeast
  <2>3. CASE \E b \in produced' : Term(b) = u /\ b[Len(b)].producer = p /\ Len(b) >= k
    <3>1. PICK b \in produced' : Term(b) = u /\ b[Len(b)].producer = p /\ Len(b) >= k
      BY <2>3
    <3>2. b \notin produced
      BY <3>1 DEF Accepted
    <3>3. NewBlock(n, b) /\ t.db.head = b /\ t.current_term = node[n].current_term
      BY <1>1, <3>2
    <3>4. b[Len(b)].producer = n /\ Term(b) = t.current_term
      BY <3>3 DEF NewBlock
    <3>5. AtLeast(t.db.head, u, k)
      BY <2>1, <3>1, <3>3 DEF AtLeast
    <3> QED
      BY <3>1, <3>4, <3>5
  <2> QED
    BY <2>2, <2>3 DEF Accepted
<1>10. \A u, k \in Nat : Passed(u, k) => Passed(u, k)'
  <2> SUFFICES ASSUME NEW u \in Nat, NEW k \in Nat, Passed(u, k) PROVE Passed(u, k)'
    OBVIOUS
  <2>1. PICK Q \in SUBSET Producer :
          /\ IsQuorum("cft", Q, Producer)
          /\ \A p \in Q : node[p].current_term > u /\ ~Accepted(p, u, k)
    BY DEF Passed
  <2>2. \A p \in Q : node'[p].current_term > u
    BY <1>8, <2>1
  <2>3. \A p \in Q : ~Accepted(p, u, k)'
    <3> SUFFICES ASSUME NEW p \in Q, Accepted(p, u, k)' PROVE FALSE
      OBVIOUS
    <3>1. p = n /\ u = t.current_term
      BY <1>9, <2>1
    <3> QED
      BY <1>5, <1>7, <2>2, <3>1 DEF SameRole
  <2> QED
    BY <2>1, <2>2, <2>3 DEF Passed
<1> QED
  BY <1>3, <1>4, <1>5, <1>6, <1>8, <1>9, <1>10

\* A node that leads a term has produced all blocks of that term.
LeadersProduce ==
  \A n \in Producer : node[n]._state = "leader" =>
    \A b \in produced : Term(b) = node[n].current_term => b[Len(b)].producer = n

LEMMA ElectedProduce == ElectionInv => LeadersProduce
<1> SUFFICES ASSUME ElectionInv, NEW n \in Producer, node[n]._state = "leader",
                    NEW b \in produced, Term(b) = node[n].current_term
             PROVE  b[Len(b)].producer = n
  BY DEF LeadersProduce
<1>1. VotesOnce /\ Elected(Term(b), b[Len(b)].producer)
  BY DEF ElectionInv, ProducersElected
<1>2. Elected(Term(b), n)
  <2>1. /\ IsQuorum("cft", node[n].votes_for_me, Producer)
        /\ \A p \in node[n].votes_for_me : <<Term(b), p, n>> \in ballots
    BY DEF ElectionInv, LeadersElected, VotesCounted
  <2>2. node[n].votes_for_me \in SUBSET Producer
    BY <2>1 DEF IsQuorum
  <2> QED
    BY <2>1, <2>2 DEF Elected
<1> QED
  BY <1>1, <1>2, ElectedOnce

\* Once a later leader is elected, the next block of an earlier one comes too late.
LEMMA NewBlockPassed ==
  ASSUME Inv, AgreementInv, ElectionInv, NEW n \in Producer, NEW t, AgreementStep(n, t),
         NEW d, NewBlock(n, d), NEW u \in Nat, NEW x, Elected(u, x), u > Term(d)
  PROVE  Passed(Term(d), Len(d))'
<1>1. /\ d \in Block /\ Len(d) \in Nat /\ Term(d) \in Nat
      /\ Len(d) = Len(node[n].db.head) + 1 /\ Term(d) = node[n].current_term
      /\ Len(node[n].db.head) \in Nat
  BY NewBlockFacts, NodeSound, BlockFacts DEF NewBlock
<1>2. \A c \in Known : Term(c) = Term(d) => Len(c) <= Len(node[n].db.head) /\ Len(c) \in Nat
  BY <1>1, KnownFacts DEF NewBlock, AgreementInv, LeaderChain, IsAncestor
<1>3. \A p : ~Accepted(p, Term(d), Len(d))
  <2> SUFFICES ASSUME NEW p, Accepted(p, Term(d), Len(d)) PROVE FALSE
    OBVIOUS
  <2>1. CASE \E m \in msgs :
               m.type = "Confirm" /\ m.follower_id = p /\ m.term = Term(d) /\ m.head_num >= Len(d)
    <3>1. PICK c \in Known : Term(c) = Term(d) /\ Len(c) >= Len(d)
      BY <2>1 DEF AgreementInv, ConfirmsTrue
    <3> QED
      BY <1>1, <1>2, <3>1
  <2>2. CASE \E b \in produced : Term(b) = Term(d) /\ b[Len(b)].producer = p /\ Len(b) >= Len(d)
    <3>1. PICK c \in Known : Term(c) = Term(d) /\ Len(c) >= Len(d)
      BY <2>2 DEF Known
    <3> QED
      BY <1>1, <1>2, <3>1
  <2> QED
    BY <2>1, <2>2 DEF Accepted
<1>4. PICK Q \in SUBSET Producer :
        IsQuorum("cft", Q, Producer) /\ \A p \in Q : <<u, p, x>> \in ballots
  BY DEF Elected
<1>5. \A p \in Q : node[p].current_term > Term(d)
  <2> SUFFICES ASSUME NEW p \in Q PROVE node[p].current_term > Term(d)
    OBVIOUS
  <2>1. u <= node[p].current_term
    BY <1>4 DEF ElectionInv, VotesRemembered
  <2>2. node[p].current_term \in Nat
    BY NodeSound
  <2> QED
    BY <1>1, <2>1, <2>2
<1>6. \A p \in Q : node'[p].current_term > Term(d)
  <2>1. \A p \in Q : /\ node'[p].current_term \in Nat /\ node[p].current_term \in Nat
                     /\ node'[p].current_term >= node[p].current_term
    BY StepFacts
  <2> QED
    BY <1>1, <1>5, <2>1
<1>7. \A p \in Q : ~Accepted(p, Term(d), Len(d))'
  <2> SUFFICES ASSUME NEW p \in Q, Accepted(p, Term(d), Len(d))' PROVE FALSE
    OBVIOUS
  <2>1. p = n
    BY <1>1, <1>3, StepFacts
  <2> QED
    BY <1>1, <1>5, <2>1
<1> QED
  BY <1>4, <1>6, <1>7 DEF Passed

\* What is true of all blocks remains true.
LEMMA StepBlocks ==
  ASSUME Inv, AgreementInv, ElectionInv, NEW n \in Producer, NEW t, AgreementStep(n, t)
  PROVE  BlocksInv'
<1>1. /\ msgs \subseteq msgs' /\ produced \subseteq produced'
      /\ \A u, k \in Nat : Passed(u, k) => Passed(u, k)'
  BY StepFacts
<1>2. \A x, u : Irreversible(x, u) => Irreversible(x, u)'
  BY <1>1, AcceptedGrows
<1>3. \A b \in Known : Term(b) \in Nat /\ Len(b) \in Nat /\ b \in Block
  BY KnownFacts
<1>4. BlocksInv
  BY DEF AgreementInv
<1>5. CASE produced' = produced
  <2>1. Known' = Known
    BY <1>5 DEF Known
  <2>2. KnownBlocks' /\ OneChain'
    BY <1>4, <2>1 DEF BlocksInv, KnownBlocks, OneChain, OneChainPerTerm
  <2>3. HeadersTrue'
    BY <1>2, <1>4, <2>1 DEF BlocksInv, HeadersTrue
  <2>4. SafeBlocks'
    BY <1>1, <1>3, <1>4, <2>1 DEF BlocksInv, SafeBlocks
  <2> QED
    BY <2>2, <2>3, <2>4 DEF BlocksInv
<1>6. CASE produced' # produced
  <2>1. PICK d : NewBlock(n, d) /\ produced' = produced \cup {d}
    BY <1>6 DEF AgreementStep
  <2>2. Known' = Known \cup {d}
    BY <2>1 DEF Known
  <2>3. /\ d \in Block /\ Len(d) \in Nat /\ Term(d) \in Nat /\ d \notin Known
        /\ IsAncestor(FirstBlock, d) /\ AllValid(d) /\ TermsGrow(d) /\ Len(d) <= MaxNum + 1
        /\ \A i \in 1..Len(d) : Ancestor(d, i) \in Known \cup {d}
        /\ \A c \in Known : Term(c) = Term(d) => IsAncestor(c, d)
        /\ \A c \in Known : Term(c) < Term(d) => IsAncestor(c, d) \/ Passed(Term(c), Len(c))
        /\ Irreversible(Ancestor(d, CommitNum(d)), Term(d))
    BY <2>1, NewBlockFacts
  <2>4. KnownBlocks'
    BY <1>4, <2>2, <2>3 DEF BlocksInv, KnownBlocks
  <2>5. OneChain'
    <3> SUFFICES ASSUME NEW b \in Known', NEW c \in Known', Term(b) = Term(c), Len(b) <= Len(c)
                 PROVE  IsAncestor(b, c)
      BY DEF OneChain, OneChainPerTerm
    <3>1. CASE b \in Known /\ c \in Known
      BY <1>4, <3>1 DEF BlocksInv, OneChain, OneChainPerTerm
    <3>2. CASE c = d /\ b \in Known
      BY <2>3, <3>2
    <3>3. CASE b = d /\ c = d
      BY <2>3, <3>3, IsAncestorRefl
    <3>4. CASE b = d /\ c \in Known
      <4>1. IsAncestor(c, d) /\ c \in Block /\ Len(c) \in Nat
        BY <1>3, <2>3, <3>4
      <4>2. Len(c) = Len(d)
        BY <2>3, <3>4, <4>1 DEF IsAncestor
      <4>3. c = d
        BY <2>3, <4>1, <4>2, AncestorSameNum
      <4> QED
        BY <2>3, <3>4, <4>3
    <3> QED
      BY <2>2, <3>1, <3>2, <3>3, <3>4
  <2>6. HeadersTrue'
    BY <1>2, <1>4, <2>2, <2>3 DEF BlocksInv, HeadersTrue
  <2>7. SafeBlocks'
    <3> SUFFICES ASSUME NEW b \in Known', NEW c \in Known', Term(c) < Term(b)
                 PROVE  IsAncestor(c, b) \/ Passed(Term(c), Len(c))'
      BY DEF SafeBlocks
    <3>1. CASE b \in Known /\ c \in Known
      BY <1>1, <1>3, <1>4, <3>1 DEF BlocksInv, SafeBlocks
    <3>2. CASE b = d /\ c \in Known
      BY <1>1, <1>3, <2>3, <3>2
    <3>3. CASE c = d /\ b \in Known
      <4>1. Term(b) \in Nat /\ Term(b) > Term(d)
        BY <1>3, <2>3, <3>3
      <4>2. b \in produced
        BY <2>3, <3>3, <4>1, KnownFacts DEF Known
      <4>3. Elected(Term(b), b[Len(b)].producer)
        BY <4>2 DEF ElectionInv, ProducersElected
      <4> QED
        BY <2>1, <3>3, <4>1, <4>3, NewBlockPassed
    <3>4. CASE b = d /\ c = d
      BY <2>3, <3>4
    <3> QED
      BY <2>2, <3>1, <3>2, <3>3, <3>4
  <2> QED
    BY <2>4, <2>5, <2>6, <2>7 DEF BlocksInv
<1> QED
  BY <1>5, <1>6

\* The nodes' databases, what they have accepted and what they regard as irreversible.
LEMMA StepNodes ==
  ASSUME Inv, AgreementInv, ElectionInv, LeadersProduce', NEW n \in Producer, NEW t,
         AgreementStep(n, t)
  PROVE  /\ NodeBlocks' /\ LeaderChain' /\ ProducersLead' /\ ConfirmsTrue' /\ Candidacies'
         /\ MatchTrue' /\ CommitsChosen'
<1>1. /\ node'[n]._state = t._state /\ node'[n].current_term = t.current_term
      /\ node'[n].db = t.db /\ node'[n].match_index = t.match_index
      /\ \A k \in Producer \ {n} : node'[k] = node[k]
      /\ msgs' = msgs \cup t.out /\ produced \subseteq produced'
  BY StepFacts DEF SameRole
<1>2. \A k \in Producer :
        /\ node[k].current_term \in Nat /\ node'[k].current_term \in Nat
        /\ node'[k].current_term >= node[k].current_term
        /\ node[k].db.head \in Block /\ node'[k].db.head \in Block
        /\ AtLeast(node'[k].db.head, Term(node[k].db.head), Len(node[k].db.head))
  BY StepFacts
<1>3. /\ Known \subseteq Known'
      /\ \A x, u : Irreversible(x, u) => Irreversible(x, u)'
      /\ \A s : Counted(s) => Counted(s)'
  BY <1>1, AcceptedGrows
<1>4. \A k \in Producer, u, i \in Nat :
        AtLeast(node[k].db.head, u, i) => AtLeast(node'[k].db.head, u, i)
  BY <1>2, AtLeastTrans
<1>5. NodeBlocks'
  <2> SUFFICES ASSUME NEW k \in Producer
               PROVE  /\ Tidy(node'[k].db) /\ node'[k].db.states \subseteq Known'
                      /\ \A b \in node'[k].db.states : Term(b) <= node'[k].current_term
    BY DEF NodeBlocks
  <2>1. CASE k = n
    BY <1>1, <2>1 DEF AgreementStep
  <2>2. CASE k # n
    BY <1>1, <1>3, <2>2 DEF AgreementInv, NodeBlocks
  <2> QED
    BY <2>1, <2>2
<1>6. LeaderChain'
  <2> SUFFICES ASSUME NEW k \in Producer, node'[k]._state = "leader",
                      NEW b \in Known', Term(b) = node'[k].current_term
               PROVE  IsAncestor(b, node'[k].db.head)
    BY DEF LeaderChain
  <2>1. CASE /\ b \in Known
             /\ k = n => node[n]._state = "leader" /\ t.current_term = node[n].current_term
    <3>1. IsAncestor(b, node[k].db.head)
      BY <1>1, <2>1 DEF AgreementInv, LeaderChain
    <3>2. CASE k # n
      BY <1>1, <3>1, <3>2
    <3>3. CASE k = n
      <4>1. IsAncestor(node[n].db.head, t.db.head)
        <5>1. Leads(n, t)
          BY <1>1, <3>3 DEF AgreementStep
        <5> QED
          BY <1>2, <2>1, <3>3, <5>1 DEF Leads
      <4> QED
        BY <1>1, <1>2, <2>1, <3>1, <3>3, <4>1, IsAncestorTrans, KnownFacts
    <3> QED
      BY <3>2, <3>3
  <2>2. CASE /\ b \in Known /\ k = n
             /\ ~(node[n]._state = "leader" /\ t.current_term = node[n].current_term)
    <3>1. /\ node[n]._state = "leader" => t.current_term > node[n].current_term
          /\ produced' = produced
      BY <1>1, <2>2 DEF AgreementStep, Leads
    <3>2. CASE b = FirstBlock
      <4>1. t.db.head \in Known'
        <5>1. NodeInv(t) /\ Tidy(t.db) /\ t.db.states \subseteq Known'
          BY DEF AgreementStep
        <5> QED
          BY <5>1, TidyExtends, NodeDb DEF NodeInv
      <4>2. t.db.head \in Known
        BY <3>1, <4>1 DEF Known
      <4> QED
        BY <1>1, <2>2, <3>2, <4>2 DEF AgreementInv, BlocksInv, KnownBlocks
    <3>3. CASE b \in produced
      <4>1. b[Len(b)].producer = n
        BY <2>2, <3>1, <3>3 DEF LeadersProduce
      <4>2. /\ Term(b) <= node[n].current_term
            /\ Term(b) = node[n].current_term => node[n]._state = "leader"
        BY <3>3, <4>1 DEF AgreementInv, ProducersLead
      <4>3. Term(b) = node[n].current_term
        BY <1>1, <1>2, <2>2, <4>2
      <4> QED
        BY <1>1, <1>2, <2>2, <3>1, <4>2, <4>3
    <3> QED
      BY <2>2, <3>2, <3>3 DEF Known
  <2>3. CASE b \notin Known
    <3>1. PICK d : /\ NewBlock(n, d) /\ produced' = produced \cup {d} /\ t.db.head = d
                   /\ t._state = "leader" /\ t.current_term = node[n].current_term
      BY <2>3 DEF AgreementStep, Known
    <3>2. b = d /\ b \in produced' /\ Term(b) = t.current_term /\ b[Len(b)].producer = n /\ b \in Block
      BY <2>3, <3>1 DEF Known, NewBlock
    <3>3. k = n
      BY <3>2 DEF LeadersProduce
    <3> QED
      BY <1>1, <3>1, <3>2, <3>3, IsAncestorRefl
  <2> QED
    BY <2>1, <2>2, <2>3
<1>7. ProducersLead'
  <2> SUFFICES ASSUME NEW b \in produced', NEW p, p = b[Len(b)].producer
               PROVE  /\ p \in Producer /\ Term(b) <= node'[p].current_term
                      /\ Term(b) = node'[p].current_term => node'[p]._state = "leader"
                      /\ AtLeast(node'[p].db.head, Term(b), Len(b))
    BY DEF ProducersLead
  <2>1. CASE b \in produced
    <3>1. /\ p \in Producer /\ Term(b) <= node[p].current_term
          /\ Term(b) = node[p].current_term => node[p]._state = "leader"
          /\ AtLeast(node[p].db.head, Term(b), Len(b))
      BY <2>1 DEF AgreementInv, ProducersLead
    <3>2. Term(b) \in Nat /\ Len(b) \in Nat
      BY <2>1, BlockFacts DEF Inv
    <3>3. /\ Term(b) <= node'[p].current_term /\ AtLeast(node'[p].db.head, Term(b), Len(b))
          /\ Term(b) = node'[p].current_term => node[p].current_term = node'[p].current_term
      BY <1>2, <1>4, <3>1, <3>2
    <3>4. Term(b) = node'[p].current_term => node'[p]._state = "leader"
      <4> SUFFICES ASSUME Term(b) = node'[p].current_term PROVE node'[p]._state = "leader"
        OBVIOUS
      <4>1. node[p]._state = "leader" /\ node[p].current_term = node'[p].current_term
        BY <3>1, <3>3
      <4>2. CASE p = n
        BY <1>1, <1>2, <4>1, <4>2 DEF AgreementStep
      <4>3. CASE p # n
        BY <1>1, <3>1, <4>1, <4>3
      <4> QED
        BY <4>2, <4>3
    <3> QED
      BY <3>1, <3>3, <3>4
  <2>2. CASE b \notin produced
    <3>1. PICK d : /\ NewBlock(n, d) /\ produced' = produced \cup {d} /\ t.db.head = d
                   /\ t._state = "leader" /\ t.current_term = node[n].current_term
      BY <2>2 DEF AgreementStep
    <3>2. b = d /\ Term(b) = t.current_term /\ p = n /\ b \in Block
      BY <2>2, <3>1 DEF NewBlock
    <3> QED
      BY <1>1, <1>2, <3>1, <3>2, AtLeastRefl
  <2> QED
    BY <2>1, <2>2
<1>8. ConfirmsTrue'
  <2> SUFFICES ASSUME NEW m \in msgs', m.type = "Confirm"
               PROVE  /\ m.term <= node'[m.follower_id].current_term
                      /\ AtLeast(node'[m.follower_id].db.head, m.term, m.head_num)
                      /\ \E c \in Known' : Term(c) = m.term /\ Len(c) = m.head_num
    BY DEF ConfirmsTrue
  <2>1. CASE m \in msgs
    <3>1. m.term \in Nat /\ m.follower_id \in Producer /\ m.head_num \in Nat
      BY <2>1, MessageFacts DEF Inv
    <3>2. /\ m.term <= node[m.follower_id].current_term
          /\ AtLeast(node[m.follower_id].db.head, m.term, m.head_num)
          /\ \E c \in Known : Term(c) = m.term /\ Len(c) = m.head_num
      BY <2>1 DEF AgreementInv, ConfirmsTrue
    <3> QED
      BY <1>2, <1>3, <1>4, <3>1, <3>2
  <2>2. CASE m \in t.out
    <3>1. Confirms(n, t, m)
      BY <2>2 DEF AgreementStep
    <3> QED
      BY <1>1, <1>2, <1>3, <3>1 DEF Confirms
  <2> QED
    BY <1>1, <2>1, <2>2
<1>9. Candidacies'
  <2> SUFFICES ASSUME NEW m \in msgs', m.type = "RequestVote"
               PROVE  /\ m.term <= node'[m.candidate_id].current_term
                      /\ m.term = node'[m.candidate_id].current_term =>
                           AtLeast(node'[m.candidate_id].db.head, m.last_log_term, m.last_log_index)
    BY DEF Candidacies
  <2>1. CASE m \in msgs
    <3>1. /\ m.term \in Nat /\ m.candidate_id \in Producer
          /\ m.last_log_term \in Nat /\ m.last_log_index \in Nat
      BY <2>1, MessageFacts DEF Inv
    <3>2. /\ m.term <= node[m.candidate_id].current_term
          /\ m.term = node[m.candidate_id].current_term =>
               AtLeast(node[m.candidate_id].db.head, m.last_log_term, m.last_log_index)
      BY <2>1 DEF AgreementInv, Candidacies
    <3>3. /\ m.term <= node'[m.candidate_id].current_term
          /\ m.term = node'[m.candidate_id].current_term => m.term = node[m.candidate_id].current_term
      BY <1>2, <3>1, <3>2
    <3> QED
      BY <1>4, <3>1, <3>2, <3>3
  <2>2. CASE m \in t.out
    <3>1. Asks(n, t, m)
      BY <2>2 DEF AgreementStep
    <3> QED
      BY <1>1, <1>2, <3>1 DEF Asks
  <2> QED
    BY <1>1, <2>1, <2>2
<1>10. MatchTrue'
  <2> SUFFICES ASSUME NEW k \in Producer, node'[k]._state = "leader"
               PROVE  Counted(node[k])'
    BY DEF MatchTrue
  <2>1. CASE k = n
    <3>1. Counted(t)'
      BY <1>1, <2>1 DEF AgreementStep
    <3> QED
      BY <1>1, <2>1, <3>1 DEF Counted
  <2>2. CASE k # n
    <3>1. node'[k] = node[k] /\ Counted(node[k])
      BY <1>1, <2>2 DEF AgreementInv, MatchTrue
    <3>2. PICK s : s = node[k]
      OBVIOUS
    <3>3. Counted(s)'
      BY <1>3, <3>1, <3>2
    <3> QED
      BY <3>1, <3>2, <3>3
  <2> QED
    BY <2>1, <2>2
<1>11. CommitsChosen'
  <2> SUFFICES ASSUME NEW k \in Producer
               PROVE  Irreversible(Committed(k), node[k].current_term)'
    BY DEF CommitsChosen
  <2>1. CASE k = n
    <3>1. Irreversible(Ancestor(t.db.head, t.db.commitIndex), t.current_term)'
      BY DEF AgreementStep
    <3> QED
      BY <1>1, <2>1, <3>1 DEF Committed
  <2>2. CASE k # n
    <3>1. PICK x, u : x = Committed(k) /\ u = node[k].current_term
      OBVIOUS
    <3>2. Irreversible(x, u)'
      BY <1>3, <3>1 DEF AgreementInv, CommitsChosen
    <3> QED
      BY <1>1, <2>2, <3>1, <3>2 DEF Committed
  <2> QED
    BY <2>1, <2>2
<1> QED
  BY <1>5, <1>6, <1>7, <1>8, <1>9, <1>10, <1>11

\* The votes: a voter accepts nothing of an earlier term any more.
LEMMA StepVotes ==
  ASSUME Inv, AgreementInv, ElectionInv, NEW n \in Producer, NEW t, AgreementStep(n, t)
  PROVE  VotesUpToDate' /\ VotesRecorded'
<1>1. /\ node'[n].voted_for = t.voted_for /\ node'[n].current_term = t.current_term
      /\ \A k \in Producer \ {n} : node'[k] = node[k]
      /\ msgs' = msgs \cup t.out
      /\ t.current_term \in Nat /\ t.current_term >= node[n].current_term
      /\ node[n].current_term \in Nat
  BY StepFacts DEF SameRole
<1>2. ballots' = ballots \cup
        (IF t.voted_for = NullProducer THEN {} ELSE {<<t.current_term, n, t.voted_for>>})
  BY DEF AgreementStep, Finish
<1>3. \A p \in Producer, u, k \in Nat : Accepted(p, u, k)' =>
        Accepted(p, u, k) \/ (p = n /\ u = t.current_term)
  BY StepFacts
<1>4. VotesRecorded'
  <2> SUFFICES ASSUME NEW k \in Producer, node'[k].voted_for # NullProducer
               PROVE  <<node'[k].current_term, k, node'[k].voted_for>> \in ballots'
    BY DEF VotesRecorded
  <2>1. CASE k = n
    BY <1>1, <1>2, <2>1
  <2>2. CASE k # n
    BY <1>1, <1>2, <2>2 DEF AgreementInv, VotesRecorded
  <2> QED
    BY <2>1, <2>2
<1>5. ASSUME NEW b \in ballots
      PROVE  \E m \in msgs' :
               /\ m.type = "RequestVote" /\ m.term = b[1] /\ m.candidate_id = b[3]
               /\ \A u, k \in Nat : u < b[1] /\ Accepted(b[2], u, k)' => Advertises(m, u, k)
  <2>1. b \in Nat \X Producer \X Producer
    BY DEF Inv
  <2>2. b[1] \in Nat /\ b[2] \in Producer
    BY <2>1
  <2>3. PICK m \in msgs :
          /\ m.type = "RequestVote" /\ m.term = b[1] /\ m.candidate_id = b[3]
          /\ \A u, k \in Nat : u < b[1] /\ Accepted(b[2], u, k) => Advertises(m, u, k)
    BY DEF AgreementInv, VotesUpToDate
  <2>4. \A u, k \in Nat : u < b[1] /\ Accepted(b[2], u, k)' => Advertises(m, u, k)
    <3> SUFFICES ASSUME NEW u \in Nat, NEW k \in Nat, u < b[1], Accepted(b[2], u, k)'
                 PROVE  Advertises(m, u, k)
      OBVIOUS
    <3>1. ~(b[2] = n /\ u = t.current_term)
      <4>1. b[1] <= node[b[2]].current_term
        BY DEF ElectionInv, VotesRemembered
      <4> QED
        BY <1>1, <2>2, <4>1
    <3>2. Accepted(b[2], u, k)
      BY <1>3, <2>2, <3>1
    <3> QED
      BY <2>3, <3>2
  <2> QED
    BY <1>1, <2>3, <2>4
<1>6. ASSUME NEW b, b = <<t.current_term, n, t.voted_for>>, b \notin ballots,
             t.voted_for # NullProducer
      PROVE  \E m \in msgs' :
               /\ m.type = "RequestVote" /\ m.term = b[1] /\ m.candidate_id = b[3]
               /\ \A u, k \in Nat : u < b[1] /\ Accepted(b[2], u, k)' => Advertises(m, u, k)
  <2>1. b[1] = t.current_term /\ b[2] = n /\ b[3] = t.voted_for
    BY <1>6
  <2>2. VotesFor(n, t)
    BY DEF AgreementStep
  <2>3. ~(t.current_term = node[n].current_term /\ t.voted_for = node[n].voted_for)
    BY <1>6 DEF AgreementInv, VotesRecorded
  <2>4. PICK m \in msgs \cup t.out :
          /\ m.type = "RequestVote" /\ m.term = t.current_term /\ m.candidate_id = t.voted_for
          /\ Advertises(m, Term(node[n].db.head), Len(node[n].db.head))
    BY <1>6, <2>2, <2>3 DEF VotesFor
  <2>5. /\ m.last_log_term \in Nat /\ m.last_log_index \in Nat
        /\ Term(node[n].db.head) \in Nat /\ Len(node[n].db.head) \in Nat
    <3>1. m \in Message
      BY DEF AgreementStep, NodeInv, NodeCore, NodeType, Inv
    <3>2. node[n].db.head \in Block
      BY NodeSound
    <3> QED
      BY <2>4, <3>1, <3>2, MessageFacts, BlockFacts
  <2>6. \A u, k \in Nat : u < t.current_term /\ Accepted(n, u, k)' => Advertises(m, u, k)
    <3> SUFFICES ASSUME NEW u \in Nat, NEW k \in Nat, u < t.current_term, Accepted(n, u, k)'
                 PROVE  Advertises(m, u, k)
      OBVIOUS
    <3>1. Accepted(n, u, k)
      BY <1>1, <1>3
    <3>2. AtLeast(node[n].db.head, u, k)
      BY <3>1, AcceptedHead
    <3> QED
      BY <2>4, <2>5, <3>2 DEF AtLeast, Advertises
  <2> QED
    BY <1>1, <2>1, <2>4, <2>6
<1>7. VotesUpToDate'
  <2> SUFFICES ASSUME NEW b \in ballots'
               PROVE  \E m \in msgs' :
                        /\ m.type = "RequestVote" /\ m.term = b[1] /\ m.candidate_id = b[3]
                        /\ \A u, k \in Nat :
                             u < b[1] /\ Accepted(b[2], u, k)' => Advertises(m, u, k)
    BY DEF VotesUpToDate
  <2>1. CASE b \in ballots
    BY <1>5, <2>1
  <2>2. CASE b \notin ballots
    <3>1. b = <<t.current_term, n, t.voted_for>> /\ t.voted_for # NullProducer
      BY <1>2, <2>2
    <3> QED
      BY <1>6, <2>2, <3>1
  <2> QED
    BY <2>1, <2>2
<1> QED
  BY <1>4, <1>7

\* A node that becomes the leader has every block that its voters had accepted, and
\* they will not accept any other.
LEMMA StepLeaders ==
  ASSUME Inv, AgreementInv, ElectionInv, ElectionInv', VotesUpToDate', Candidacies', Inv',
         NEW n \in Producer, NEW t, AgreementStep(n, t)
  PROVE  SafeLeaders'
<1>1. /\ node'[n]._state = t._state /\ node'[n].current_term = t.current_term
      /\ node'[n].db = t.db
      /\ \A k \in Producer \ {n} : node'[k] = node[k]
      /\ t.current_term \in Nat /\ node[n].current_term \in Nat
      /\ t.db.head \in Block /\ node[n].db.head \in Block
      /\ \A u, k \in Nat : Passed(u, k) => Passed(u, k)'
  BY StepFacts DEF SameRole
<1>2. \A c \in Known : Term(c) \in Nat /\ Len(c) \in Nat /\ c \in Block
  BY KnownFacts
<1> SUFFICES ASSUME NEW k \in Producer, node'[k]._state = "leader",
                    NEW c \in Known', Term(c) < node'[k].current_term
             PROVE  IsAncestor(c, node'[k].db.head) \/ Passed(Term(c), Len(c))'
  BY DEF SafeLeaders
<1>3. CASE k # n /\ c \in Known
  BY <1>1, <1>2, <1>3 DEF AgreementInv, SafeLeaders
<1>4. CASE c \notin Known
  <2>1. PICK d : /\ NewBlock(n, d) /\ produced' = produced \cup {d}
                 /\ t.current_term = node[n].current_term
    BY <1>4 DEF AgreementStep, Known
  <2>2. c = d /\ Term(c) = t.current_term
    BY <1>4, <2>1 DEF Known, NewBlock
  <2>3. k # n /\ node'[k] = node[k]
    BY <1>1, <2>2
  <2>4. node[k].current_term \in Nat /\ node[k].current_term > Term(d)
    BY <1>1, <2>2, <2>3, NodeSound
  <2>5. Elected(node[k].current_term, k)
    <3>1. /\ IsQuorum("cft", node[k].votes_for_me, Producer)
          /\ \A p \in node[k].votes_for_me : <<node[k].current_term, p, k>> \in ballots
      BY <2>3 DEF ElectionInv, LeadersElected, VotesCounted
    <3>2. node[k].votes_for_me \in SUBSET Producer
      BY <3>1 DEF IsQuorum
    <3> QED
      BY <3>1, <3>2 DEF Elected
  <2> QED
    BY <2>1, <2>2, <2>4, <2>5, NewBlockPassed
<1>5. CASE k = n /\ c \in Known
  <2>1. Leads(n, t)
    BY <1>1, <1>5 DEF AgreementStep
  <2>2. CASE /\ node[n]._state = "leader" /\ t.current_term = node[n].current_term
             /\ IsAncestor(node[n].db.head, t.db.head)
    <3>1. IsAncestor(c, node[n].db.head) \/ Passed(Term(c), Len(c))
      BY <1>1, <1>5, <2>2 DEF AgreementInv, SafeLeaders
    <3>2. CASE IsAncestor(c, node[n].db.head)
      BY <1>1, <1>2, <1>5, <2>2, <3>2, IsAncestorTrans
    <3> QED
      BY <1>1, <1>2, <1>5, <3>1, <3>2
  <2>3. CASE produced' = produced
    <3>1. PICK Q : Q = node'[n].votes_for_me
      OBVIOUS
    <3>2. /\ IsQuorum("cft", Q, Producer) /\ Q \in SUBSET Producer
          /\ \A p \in Q : <<t.current_term, p, n>> \in ballots'
      BY <1>1, <1>5, <3>1 DEF ElectionInv, LeadersElected, VotesCounted, IsQuorum
    <3>3. \A p \in Q : node'[p].current_term > Term(c)
      <4> SUFFICES ASSUME NEW p \in Q PROVE node'[p].current_term > Term(c)
        OBVIOUS
      <4>1. t.current_term <= node'[p].current_term
        <5>1. <<t.current_term, p, n>> \in ballots'
          BY <3>2
        <5> QED
          BY <5>1 DEF ElectionInv, VotesRemembered
      <4>2. node'[p].current_term \in Nat
        BY <3>2, StepFacts
      <4> QED
        BY <1>1, <1>2, <1>5, <4>1, <4>2
    <3>4. CASE \A p \in Q : ~Accepted(p, Term(c), Len(c))'
      BY <3>2, <3>3, <3>4 DEF Passed
    <3>5. CASE \E p \in Q : Accepted(p, Term(c), Len(c))'
      <4>1. PICK p \in Q : Accepted(p, Term(c), Len(c))'
        BY <3>5
      <4>2. PICK b : b = <<t.current_term, p, n>>
        OBVIOUS
      <4>3. b \in ballots' /\ b[1] = t.current_term /\ b[2] = p /\ b[3] = n
        BY <3>2, <4>2
      <4>4. PICK m \in msgs' :
              /\ m.type = "RequestVote" /\ m.term = t.current_term /\ m.candidate_id = n
              /\ \A u, i \in Nat :
                   u < t.current_term /\ Accepted(p, u, i)' => Advertises(m, u, i)
        BY <4>3 DEF VotesUpToDate
      <4>5. Advertises(m, Term(c), Len(c))
        BY <1>1, <1>2, <1>5, <4>1, <4>4
      <4>6. AtLeast(t.db.head, m.last_log_term, m.last_log_index)
        BY <1>1, <4>4 DEF Candidacies
      <4>7. /\ m.last_log_term \in Nat /\ m.last_log_index \in Nat
            /\ Term(t.db.head) \in Nat /\ Len(t.db.head) \in Nat
        <5>1. m \in Message
          BY DEF Inv
        <5> QED
          BY <1>1, <4>4, <5>1, MessageFacts, BlockFacts
      <4>8. \/ Term(c) < Term(t.db.head)
            \/ Term(c) = Term(t.db.head) /\ Len(c) <= Len(t.db.head)
        BY <1>2, <1>5, <4>5, <4>6, <4>7 DEF Advertises, AtLeast
      <4>9. t.db.head \in Known
        <5>1. NodeInv(t) /\ Tidy(t.db) /\ t.db.states \subseteq Known'
          BY DEF AgreementStep
        <5>2. t.db.head \in Known'
          BY <5>1, TidyExtends, NodeDb DEF NodeInv
        <5> QED
          BY <2>3, <5>2 DEF Known
      <4>10. IsAncestor(c, t.db.head) \/ Passed(Term(c), Len(c))
        BY <1>5, <4>8, <4>9
        DEF AgreementInv, BlocksInv, SafeBlocks, OneChain, OneChainPerTerm
      <4> QED
        BY <1>1, <1>2, <1>5, <4>10
    <3> QED
      BY <3>4, <3>5
  <2> QED
    BY <2>1, <2>2, <2>3 DEF Leads
<1> QED
  BY <1>3, <1>4, <1>5

\* A callback preserves the agreement invariant.
LEMMA StepAgreement ==
  ASSUME Inv, AgreementInv, ElectionInv, Inv', ElectionInv', LeadersProduce',
         NEW n \in Producer, NEW t, AgreementStep(n, t)
  PROVE  AgreementInv'
<1>1. BlocksInv'
  BY StepBlocks
<1>2. /\ NodeBlocks' /\ LeaderChain' /\ ProducersLead' /\ ConfirmsTrue' /\ Candidacies'
      /\ MatchTrue' /\ CommitsChosen'
  BY StepNodes
<1>3. VotesUpToDate' /\ VotesRecorded'
  BY StepVotes
<1>4. SafeLeaders'
  BY <1>2, <1>3, StepLeaders
<1> QED
  BY <1>1, <1>2, <1>3, <1>4 DEF AgreementInv

\* At the start there is only the first block.
LEMMA InitAgreement == Init => AgreementInv
<1> SUFFICES ASSUME Init PROVE AgreementInv
  OBVIOUS
<1>1. /\ Inv /\ Known = {FirstBlock} /\ produced = {} /\ msgs = {} /\ ballots = {}
  BY InitInv DEF Init, Known
<1>2. /\ FirstBlock \in Block /\ Len(FirstBlock) = 1 /\ Term(FirstBlock) = 0
      /\ CommitNum(FirstBlock) = 1
  BY <1>1, KnownFacts
<1>3. Ancestor(FirstBlock, 1) = FirstBlock /\ IsAncestor(FirstBlock, FirstBlock)
  BY <1>2, AncestorSelf, IsAncestorRefl
<1>4. AllValid(FirstBlock)
  BY <1>2 DEF AllValid, FirstBlock
<1>5. TermsGrow(FirstBlock)
  BY <1>2 DEF TermsGrow, FirstBlock
<1>6. BlocksInv
  <2>1. 1 <= MaxNum + 1
    BY CftAssumption
  <2>2. \A i \in 1..Len(FirstBlock) : Ancestor(FirstBlock, i) \in Known
    BY <1>1, <1>2, <1>3
  <2>3. KnownBlocks
    BY <1>1, <1>2, <1>3, <1>4, <1>5, <2>1, <2>2 DEF KnownBlocks
  <2>4. OneChain
    BY <1>1, <1>3 DEF OneChain, OneChainPerTerm
  <2>5. HeadersTrue
    BY <1>1, <1>2, <1>3 DEF HeadersTrue, Irreversible
  <2>6. SafeBlocks
    BY <1>1, <1>2 DEF SafeBlocks
  <2> QED
    BY <2>3, <2>4, <2>5, <2>6 DEF BlocksInv
<1> DEFINE db == NewDb(FirstBlock)
<1>7. /\ Tidy(db) /\ db.states = {FirstBlock}
  BY <1>2, NewDbTree
<1>8. db.head = FirstBlock /\ db.commitIndex = 1 /\ db.currentTerm = 0
  BY <1>2 DEF NewDb
<1> HIDE DEF db
<1>9. \A n \in Producer :
        /\ node[n]._state = "follower" /\ node[n].db = db /\ node[n].current_term = 0
        /\ node[n].voted_for = NullProducer
  BY <1>8 DEF Init, NewNode, db
<1>10. NodeBlocks
  BY <1>1, <1>2, <1>7, <1>9 DEF NodeBlocks
<1>11. CommitsChosen
  BY <1>3, <1>8, <1>9 DEF CommitsChosen, Committed, Irreversible
<1>12. LeaderChain /\ SafeLeaders /\ MatchTrue /\ VotesRecorded
  BY <1>9 DEF LeaderChain, SafeLeaders, MatchTrue, VotesRecorded
<1>13. ProducersLead /\ ConfirmsTrue /\ Candidacies /\ VotesUpToDate
  BY <1>1 DEF ProducersLead, ConfirmsTrue, Candidacies, VotesUpToDate
<1> QED
  BY <1>6, <1>10, <1>11, <1>12, <1>13 DEF AgreementInv

\* The three invariants together are inductive.
LEMMA NextAgreement ==
  ASSUME MaxRestarts = 0, Inv, ElectionInv, AgreementInv, [Next]_vars, Inv', ElectionInv',
         LeadersProduce'
  PROVE  AgreementInv'
<1>1. CASE UNCHANGED vars
  <2>1. BlocksInv'
    <3>1. KnownBlocks' /\ OneChain'
      BY <1>1 DEF vars, AgreementInv, BlocksInv, KnownBlocks, OneChain, Known
    <3>2. HeadersTrue'
      BY <1>1 DEF vars, AgreementInv, BlocksInv, HeadersTrue, Known, Irreversible, Chosen, Accepted
    <3>3. SafeBlocks'
      <4>1. ASSUME NEW t, NEW k, Passed(t, k) PROVE Passed(t, k)'
        BY <1>1, <4>1 DEF vars, Passed, Accepted
      <4>2. Known' = Known
        BY <1>1 DEF vars, Known
      <4> QED
        BY <4>1, <4>2 DEF AgreementInv, BlocksInv, SafeBlocks
    <3> QED
      BY <3>1, <3>2, <3>3 DEF BlocksInv
  <2>2. NodeBlocks' /\ LeaderChain' /\ ProducersLead' /\ ConfirmsTrue' /\ Candidacies'
    BY <1>1 DEF vars, AgreementInv, NodeBlocks, LeaderChain, ProducersLead, ConfirmsTrue,
                Candidacies, Known
  <2>3. VotesUpToDate' /\ VotesRecorded'
    BY <1>1 DEF vars, AgreementInv, VotesUpToDate, VotesRecorded, Accepted
  <2>4. SafeLeaders' /\ MatchTrue'
    BY <1>1 DEF vars, AgreementInv, SafeLeaders, MatchTrue, Counted, Passed, Accepted, Known
  <2>5. CommitsChosen'
    BY <1>1 DEF vars, AgreementInv, CommitsChosen, Committed, Irreversible, Chosen, Accepted, Known
  <2> QED
    BY <2>1, <2>2, <2>3, <2>4, <2>5 DEF AgreementInv
<1>2. CASE Next
  <2>1. PICK n \in Producer : \E t : AgreementStep(n, t)
    BY <1>2, NextAgreementStep
  <2> QED
    BY <2>1, StepAgreement
<1> QED
  BY <1>1, <1>2

-----------------------------------------------------------------------------
(***************************************************************************)
(* The theorems.                                                           *)
(***************************************************************************)
\* The inductive invariant: a block that a quorum has accepted is in the chain of every
\* later leader, and what a node or a header regards as irreversible has been accepted
\* by a quorum.
THEOREM AgreementIsInvariant ==
  ASSUME MaxRestarts = 0
  PROVE  Spec => [](Inv /\ AgreementInv)
<1>1. Init => Inv /\ ElectionInv /\ AgreementInv
  BY InitInv, InitElection, InitAgreement
<1>2. Inv /\ ElectionInv /\ [Next]_vars => Inv' /\ ElectionInv'
  BY NextElection
<1>3. ElectionInv => LeadersProduce
  BY ElectedProduce
<1>4. /\ Inv /\ ElectionInv /\ AgreementInv /\ [Next]_vars
      /\ Inv' /\ ElectionInv' /\ LeadersProduce'
      => AgreementInv'
  BY NextAgreement
<1> QED
  BY <1>1, <1>2, <1>3, <1>4, PTL DEF Spec

\* What a node regards as irreversible is a block that builds on the first one.
LEMMA CommittedFacts ==
  ASSUME Inv, AgreementInv, NEW n \in Producer
  PROVE  /\ Committed(n) \in Block /\ Len(Committed(n)) = node[n].db.commitIndex
         /\ node[n].db.commitIndex \in Nat
         /\ IsAncestor(FirstBlock, Committed(n)) /\ IsAncestor(Committed(n), node[n].db.head)
         /\ Irreversible(Committed(n), node[n].current_term)
<1>1. /\ Sound(node[n]) /\ BlocksInv /\ node[n].db.head \in Known /\ node[n].db.head \in Block
  BY NodeSound
<1>2. node[n].db.commitIndex \in 1..Len(node[n].db.head) /\ node[n].db.commitIndex \in Nat
  BY <1>1, NodeDb DEF Sound, NodeInv
<1>3. IsAncestor(FirstBlock, Committed(n))
  BY <1>1, <1>2, KnownChains DEF Committed
<1> QED
  BY <1>1, <1>2, <1>3, AncestorFacts, IsAncestorOfBlock DEF Committed, Sound

\* What two nodes regard as irreversible is ordered by the block numbers.
LEMMA CommittedOrdered ==
  ASSUME Inv, AgreementInv, NEW n \in Producer, NEW m \in Producer,
         node[n].db.commitIndex <= node[m].db.commitIndex
  PROVE  IsAncestor(Committed(n), Committed(m))
<1>1. BlocksInv
  BY DEF AgreementInv
<1> QED
  BY <1>1, CommittedFacts, IrreversibleOrdered

\* Some node regards the most blocks as irreversible.
LEMMA LongestFacts ==
  ASSUME Inv
  PROVE  \E n \in Producer :
           /\ LongestCommitted = Committed(n)
           /\ \A m \in Producer : node[m].db.commitIndex <= node[n].db.commitIndex
<1> DEFINE Nums == {node[n].db.commitIndex : n \in Producer}
           Longest(n) == \A m \in Producer : node[m].db.commitIndex <= node[n].db.commitIndex
<1>1. \A n \in Producer : node[n].db.commitIndex \in Nat
  BY NodeDb DEF Inv, NodeInv
<1>2. IsFiniteSet(Producer) /\ Producer # {}
  BY CftAssumption, FS_EmptySet
<1>3. IsFiniteSet(Nums)
  <2> DEFINE num == [n \in Producer |-> node[n].db.commitIndex]
  <2>1. num \in Surjection(Producer, Nums)
    BY DEF Surjection
  <2> QED
    BY <1>2, <2>1, FS_Surjection
<1>4. Nums \in SUBSET Nat /\ Nums # {}
  BY <1>1, <1>2
<1>5. \E x \in Nums : \A y \in Nums : y <= x
  <2> HIDE DEF Nums
  <2> QED
    BY <1>3, <1>4, FiniteMax
<1>6. \E n \in Producer : Longest(n)
  BY <1>5
<1>7. LongestCommitted = Committed(CHOOSE n \in Producer : Longest(n))
  BY DEF LongestCommitted
<1> HIDE DEF Longest
<1>8. (CHOOSE n \in Producer : Longest(n)) \in Producer
      /\ Longest(CHOOSE n \in Producer : Longest(n))
  BY <1>6
<1> QED
  BY <1>7, <1>8 DEF Longest

\* "If two blocks are irreversible, one must be a descendant of the other", whatever
\* the network does and whenever election timers fire, as long as no node is restarted.
THEOREM OnlyOneFork ==
  ASSUME MaxRestarts = 0
  PROVE  Spec => []OneIrreversibleFork
<1>1. Inv /\ AgreementInv => OneIrreversibleFork
  <2> SUFFICES ASSUME Inv, AgreementInv, NEW n \in Producer, NEW m \in Producer
               PROVE  \/ IsAncestor(Committed(n), Committed(m))
                      \/ IsAncestor(Committed(m), Committed(n))
    BY DEF OneIrreversibleFork
  <2>1. node[n].db.commitIndex \in Nat /\ node[m].db.commitIndex \in Nat
    BY CommittedFacts
  <2>2. \/ node[n].db.commitIndex <= node[m].db.commitIndex
        \/ node[m].db.commitIndex <= node[n].db.commitIndex
    BY <2>1
  <2> QED
    BY <2>2, CommittedOrdered
<1> QED
  BY <1>1, AgreementIsInvariant, PTL

\* Every irreversible block is in the chain of the leader of the newest term.
THEOREM LeaderIsComplete ==
  ASSUME MaxRestarts = 0
  PROVE  Spec => []LeaderHasIrreversible
<1>1. Inv /\ AgreementInv => LeaderHasIrreversible
  <2> SUFFICES ASSUME Inv, AgreementInv, NEW n \in Producer, node[n]._state = "leader",
                      \A m \in Producer : node[m].current_term <= node[n].current_term
               PROVE  IsAncestor(LongestCommitted, node[n].db.head)
    BY DEF LeaderHasIrreversible
  <2>1. PICK m \in Producer : LongestCommitted = Committed(m)
    BY LongestFacts
  <2>2. /\ Committed(m) \in Block /\ Irreversible(Committed(m), node[m].current_term)
        /\ node[m].current_term \in Nat /\ node[n].current_term \in Nat
        /\ node[n].db.head \in Block /\ node[n].db.head \in Known
    BY CommittedFacts, NodeSound
  <2>3. CASE Committed(m) = FirstBlock
    BY <2>1, <2>2, <2>3 DEF AgreementInv, BlocksInv, KnownBlocks
  <2>4. CASE Committed(m) # FirstBlock
    <3>1. PICK c \in Known :
            Chosen(c) /\ Term(c) <= node[m].current_term /\ IsAncestor(Committed(m), c)
      BY <2>2, <2>4 DEF Irreversible
    <3>2. c \in Block /\ Term(c) \in Nat
      BY KnownFacts
    <3>3. Term(c) <= node[n].current_term
      <4>1. node[m].current_term <= node[n].current_term
        OBVIOUS
      <4> QED
        BY <2>2, <3>1, <3>2, <4>1
    <3>4. IsAncestor(c, node[n].db.head)
      BY <3>1, <3>3, ChosenInLeader
    <3> QED
      BY <2>1, <2>2, <3>1, <3>2, <3>4, IsAncestorTrans
  <2> QED
    BY <2>3, <2>4
<1> QED
  BY <1>1, AgreementIsInvariant, PTL

\* No node stops with a consensus failure, and the assertion of on_accept_block_header
\* holds: the blocks that a header makes irreversible are known.
THEOREM NoFailure ==
  ASSUME MaxRestarts = 0
  PROVE  Spec => []NoConsensusFailure
<1>1. Inv /\ AgreementInv => NoConsensusFailure
  <2> SUFFICES ASSUME Inv, AgreementInv, NEW n \in Producer
               PROVE  /\ ~node[n].db.failed
                      /\ \A b \in produced : CanInsert(node[n].db, b) =>
                           \A i \in CommitNum(b)..BlockNum(b) - 1 :
                             i > node[n].db.commitIndex => Ancestor(b, i) \in node[n].db.states
    BY DEF NoConsensusFailure
  <2>1. PICK db : db = node[n].db
    OBVIOUS
  <2>2. /\ Tidy(db) /\ Good(db) /\ DbType(db) /\ db.commitIndex \in Nat
    BY <2>1, NodeSound, NodeDb DEF Sound, NodeInv, NodeCore, NodeType
  <2>3. PICK r \in db.states, q \in db.states : Tree(db, r, q)
    BY <2>2 DEF Tidy
  <2>4. ASSUME NEW b \in produced, CanInsert(db, b),
               NEW i \in CommitNum(b)..BlockNum(b) - 1, i > db.commitIndex
        PROVE  Ancestor(b, i) \in db.states
    <3>1. /\ b \in Block /\ b \in Known /\ CommitNum(b) \in 1..Len(b) /\ Len(b) \in Nat
          /\ IsAncestor(FirstBlock, b) /\ FirstBlock \in Block /\ Len(FirstBlock) = 1
      BY KnownFacts DEF Known, AgreementInv, BlocksInv, KnownBlocks
    <3>2. Previous(b) \in db.states
      BY <2>4 DEF CanInsert
    <3>3. i \in Nat /\ i <= Len(b) - 1 /\ i >= 1
      BY <2>4, <3>1 DEF BlockNum
    <3>4. b # FirstBlock
      <4>1. Len(b) # 1
        <5>1. \A k \in Nat : i <= k - 1 => k # 1
          BY <3>3
        <5> QED
          BY <3>1, <3>3, <5>1
      <4> QED
        BY <3>1, <4>1
    <3>5. /\ Previous(b) \in Block /\ Len(Previous(b)) = Len(b) - 1 /\ IsAncestor(Previous(b), b)
      BY <3>1, <3>4, AncestorOfPrevious
    <3>6. i \in 1..Len(Previous(b))
      BY <3>1, <3>3, <3>5
    <3>7. Ancestor(b, i) = Ancestor(Previous(b), i)
      BY <3>1, <3>5, <3>6, AncestorAgrees
    <3>8. Len(r) \in Nat /\ Len(r) <= db.commitIndex
      BY <2>2, <2>3, TreeFacts DEF Tree
    <3>9. i \in Len(r)..Len(Previous(b))
      BY <2>2, <2>4, <3>3, <3>6, <3>8
    <3> QED
      BY <2>3, <3>2, <3>7, <3>9 DEF Tree
  <2> QED
    BY <2>1, <2>3, <2>4 DEF Tree
<1> QED
  BY <1>1, AgreementIsInvariant, PTL

-----------------------------------------------------------------------------
(***************************************************************************)
(* The refinement: the irreversible chain is the longest one that any node *)
(* regards as irreversible, and a step of a node extends it, or teaches    *)
(* the node more of it, or does neither.                                   *)
(***************************************************************************)
\* What all nodes regard as irreversible is a part of the longest of these chains.
CommitsOrdered ==
  /\ \A n \in Producer :
       /\ Committed(n) \in Block /\ Len(Committed(n)) = node[n].db.commitIndex
       /\ Len(Committed(n)) \in Nat
       /\ IsAncestor(Committed(n), node[n].db.head) /\ node[n].db.head \in Block
  /\ \A n, m \in Producer :
       Len(Committed(n)) <= Len(Committed(m)) => IsAncestor(Committed(n), Committed(m))
  /\ \E n \in Producer :
       /\ LongestCommitted = Committed(n)
       /\ \A m \in Producer : Len(Committed(m)) <= Len(Committed(n))

LEMMA AgreementOrdersCommits == Inv /\ AgreementInv => CommitsOrdered
<1> SUFFICES ASSUME Inv, AgreementInv PROVE CommitsOrdered
  OBVIOUS
<1>1. \A n \in Producer :
        /\ Committed(n) \in Block /\ Len(Committed(n)) = node[n].db.commitIndex
        /\ Len(Committed(n)) \in Nat
        /\ IsAncestor(Committed(n), node[n].db.head) /\ node[n].db.head \in Block
  BY CommittedFacts, NodeSound
<1>2. \A n, m \in Producer :
        Len(Committed(n)) <= Len(Committed(m)) => IsAncestor(Committed(n), Committed(m))
  BY <1>1, CommittedOrdered
<1>3. \E n \in Producer :
        /\ LongestCommitted = Committed(n)
        /\ \A m \in Producer : Len(Committed(m)) <= Len(Committed(n))
  BY <1>1, LongestFacts
<1> QED
  BY <1>1, <1>2, <1>3 DEF CommitsOrdered

\* A callback makes more blocks irreversible for one node at most, and they extend or
\* are a part of the irreversible chain.
LEMMA StepRefines ==
  ASSUME Inv, AgreementInv, CommitsOrdered, CommitsOrdered', NEW n \in Producer, NEW t,
         AgreementStep(n, t), [Next]_vars
  PROVE  [Abstract!Next]_(Abstract!vars)
<1>1. PICK L, M, S, T, x, y :
        /\ L = LongestCommitted /\ M = LongestCommitted'
        /\ S = [k \in Producer |-> Committed(k)] /\ T = [k \in Producer |-> Committed(k)']
        /\ x = Committed(n) /\ y = Committed(n)'
  OBVIOUS
<1>2. /\ \A k \in Producer \ {n} : Committed(k)' = Committed(k)
  BY StepFacts DEF Committed
<1>3. /\ x \in Block /\ y \in Block /\ Len(x) \in Nat /\ Len(y) \in Nat
      /\ Len(x) <= Len(y) /\ IsAncestor(x, y)
  <2>1. /\ x \in Block /\ y \in Block /\ Len(x) \in Nat /\ Len(y) \in Nat
        /\ Len(x) = node[n].db.commitIndex /\ Len(y) = node'[n].db.commitIndex
        /\ IsAncestor(y, node'[n].db.head) /\ node'[n].db.head \in Block
    BY <1>1 DEF CommitsOrdered
  <2>2. restarts' = restarts
    BY DEF AgreementStep, Finish
  <2>3. IsAncestor(x, node'[n].db.head) /\ node'[n].db.commitIndex >= node[n].db.commitIndex
    BY <1>1, <2>2, NextInv DEF Committed
  <2>4. Len(x) <= Len(y)
    BY <2>1, <2>3
  <2> QED
    BY <2>1, <2>3, <2>4, ComparableAncestors
<1>4. PICK a \in Producer : L = Committed(a) /\ \A m \in Producer : Len(Committed(m)) <= Len(L)
  BY <1>1 DEF CommitsOrdered
<1>5. PICK b \in Producer : M = Committed(b)' /\ \A m \in Producer : Len(Committed(m)') <= Len(M)
  BY <1>1 DEF CommitsOrdered
<1>6. /\ L \in Block /\ M \in Block /\ Len(L) \in Nat /\ Len(M) \in Nat
      /\ \A k \in Producer : Committed(k)' \in Block /\ IsAncestor(Committed(k)', M)
  BY <1>4, <1>5 DEF CommitsOrdered
<1>7. IsAncestor(L, M)
  <2>1. CASE a = n
    BY <1>1, <1>3, <1>4, <1>6, <2>1, IsAncestorTrans
  <2>2. CASE a # n
    BY <1>2, <1>4, <1>6, <2>2
  <2> QED
    BY <2>1, <2>2
<1>8. Len(L) <= Len(M) /\ Len(y) <= Len(M) /\ Len(x) <= Len(L)
  BY <1>1, <1>4, <1>5, <1>7 DEF IsAncestor
<1>9. Len(M) <= Len(L) \/ M = y
  <2>1. CASE b = n
    BY <1>1, <1>5, <2>1
  <2>2. CASE b # n
    BY <1>2, <1>4, <1>5, <2>2
  <2> QED
    BY <2>1, <2>2
<1>10. Len(M) <= Len(L) => M = L
  <2> SUFFICES ASSUME Len(M) <= Len(L) PROVE M = L
    OBVIOUS
  <2>1. Len(L) = Len(M)
    BY <1>6, <1>8
  <2> QED
    BY <1>6, <1>7, <2>1, AncestorSameNum
<1>11. CASE y = x
  <2>1. \A k \in Producer : Committed(k)' = Committed(k)
    BY <1>1, <1>2, <1>11
  <2>2. T = S
    BY <1>1, <2>1
  <2>3. Len(M) <= Len(L)
    BY <1>4, <1>5, <2>1
  <2>4. UNCHANGED Abstract!vars
    BY <1>1, <1>10, <2>2, <2>3 DEF Abstract!vars
  <2> QED
    BY <2>4
<1>12. CASE y # x
  <2>1. Len(x) < Len(y)
    <3>1. Len(x) # Len(y)
      BY <1>3, <1>12, AncestorSameNum
    <3> QED
      BY <1>3, <3>1
  <2>2. T = [S EXCEPT ![n] = y] /\ T # S
    <3>1. T[n] = y /\ S[n] = x /\ \A k \in Producer \ {n} : T[k] = S[k]
      BY <1>1, <1>2
    <3>2. DOMAIN T = Producer /\ DOMAIN S = Producer
      BY <1>1
    <3>3. T = [k \in Producer |-> T[k]] /\ S = [k \in Producer |-> S[k]]
      BY <1>1
    <3> QED
      BY <1>12, <3>1, <3>2, <3>3
  <2>3. CASE Len(M) <= Len(L)
    <3>1. M = L
      BY <1>10, <2>3
    <3>2. Len(y) \in (Len(S[n]) + 1)..Len(L)
      BY <1>1, <1>3, <1>6, <1>8, <2>1, <2>3
    <3>3. SubSeq(L, 1, Len(y)) = y
      <4>1. IsAncestor(y, M)
        BY <1>1, <1>6
      <4> QED
        BY <3>1, <4>1 DEF IsAncestor, Ancestor
    <3>4. T = [S EXCEPT ![n] = SubSeq(L, 1, Len(y))]
      BY <2>2, <3>3
    <3>5. Abstract!Learn(n)
      BY <1>1, <3>1, <3>2, <3>4 DEF Abstract!Learn
    <3> QED
      BY <1>1, <2>2, <3>5 DEF Abstract!Next
  <2>4. CASE ~(Len(M) <= Len(L))
    <3>1. M = y /\ M # L
      BY <1>6, <1>9, <2>4
    <3>2. Len(L) <= Len(M) /\ SubSeq(M, 1, Len(L)) = L
      BY <1>7 DEF IsAncestor, Ancestor
    <3>3. Abstract!Extend(n)
      BY <1>1, <2>2, <3>1, <3>2 DEF Abstract!Extend, Abstract!Extends
    <3> QED
      BY <1>1, <2>2, <3>3 DEF Abstract!Next
  <2> QED
    BY <2>3, <2>4
<1> QED
  BY <1>11, <1>12

\* Without restarts the network of nodes implements the abstract specification: there
\* is one irreversible chain, it only grows at its end, and so does the part of it that
\* each node knows.
THEOREM Refinement ==
  ASSUME MaxRestarts = 0
  PROVE  Spec => ImplementsIrreversibility
<1>1. Init => Abstract!Init
  <2> SUFFICES ASSUME Init PROVE Abstract!Init
    OBVIOUS
  <2>1. Inv
    BY InitInv
  <2>2. \A n \in Producer : Committed(n) = FirstBlock
    <3>1. NewDb(FirstBlock).head = FirstBlock /\ NewDb(FirstBlock).commitIndex = Len(FirstBlock)
      BY DEF NewDb
    <3>2. \A n \in Producer : node[n].db = NewDb(FirstBlock)
      BY DEF Init, NewNode
    <3> QED
      BY <3>1, <3>2, FirstIsBlock, AncestorSelf DEF Committed
  <2>3. LongestCommitted = FirstBlock
    BY <2>1, <2>2, LongestFacts
  <2> QED
    BY <2>2, <2>3 DEF Abstract!Init
<1>2. Inv /\ AgreementInv => CommitsOrdered
  BY AgreementOrdersCommits
<1>3. Inv /\ AgreementInv /\ CommitsOrdered /\ CommitsOrdered' /\ [Next]_vars
      => [Abstract!Next]_(Abstract!vars)
  <2> SUFFICES ASSUME Inv, AgreementInv, CommitsOrdered, CommitsOrdered', [Next]_vars
               PROVE  [Abstract!Next]_(Abstract!vars)
    OBVIOUS
  <2>1. CASE UNCHANGED vars
    BY <2>1 DEF vars, Abstract!vars, LongestCommitted, Committed
  <2>2. CASE Next
    <3>1. PICK n \in Producer : \E t : AgreementStep(n, t)
      BY <2>2, NextAgreementStep
    <3> QED
      BY <3>1, StepRefines
  <2> QED
    BY <2>1, <2>2
<1> QED
  BY <1>1, <1>2, <1>3, AgreementIsInvariant, PTL
  DEF Spec, ImplementsIrreversibility, Abstract!Spec
=============================================================================
