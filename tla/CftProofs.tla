------------------------------ MODULE CftProofs ------------------------------
(***************************************************************************)
(* Proofs about the crash fault tolerant consensus algorithm, for every    *)
(* number of producers, blocks, elections and restarts.                    *)
(***************************************************************************)
EXTENDS Cft, ForkDbProofs, ProducerSetProofs

\* What holds of a node all the time.
NodeCore(s) == NodeType(s) /\ DurableHead(s.db)

\* What holds of a node between any two calls of a callback.
NodeInv(s) ==
  /\ NodeCore(s)
  /\ s._state = "leader" <=> s.db.blockContext # NoBlock
  /\ s._state = "leader" => s.db.blockContext.term = s.current_term
  /\ ~s.db.failed => PendingBuildsOnHead(s.db)

\* A call that leaves the term, the votes and the role of the node alone.
SameRole(t, s) ==
  /\ t._state = s._state
  /\ t.current_term = s.current_term
  /\ t.voted_for = s.voted_for
  /\ t.votes_for_me = s.votes_for_me

\* A call that sends confirmations and nothing else.
OnlyConfirms(t, s) == \A m \in t.out : m \in s.out \/ m.type = "Confirm"

-----------------------------------------------------------------------------
\* The fields of a message have the types that the handlers rely on.
LEMMA MessageFacts ==
  ASSUME NEW m \in Message
  PROVE  /\ m.term \in Nat
         /\ m.type = "Confirm" => m.follower_id \in Producer /\ m.head_num \in Nat
         /\ m.type \in {"RequestVote", "Vote"} => m.candidate_id \in Producer
         /\ m.type = "RequestVote" => m.last_log_term \in Nat /\ m.last_log_index \in Nat
         /\ m.type = "Vote" => m.voter_id \in Producer /\ m.vote_granted \in BOOLEAN
  BY DEF Message

\* Every function that builds a message builds one of the type Message.
LEMMA MessagesTyped ==
  ASSUME NEW term \in Nat, NEW n \in Producer, NEW p \in Producer, NEW num \in Nat,
         NEW to \in Nat, NEW granted \in BOOLEAN, NEW head \in Block
  PROVE  /\ ConfirmMessage(term, n, num, to) \in Message
         /\ RequestVoteRequest(term, n, head) \in Message
         /\ RequestVoteResponse(term, n, p, granted) \in Message
<1>1. BlockNum(head) \in Nat /\ Term(head) \in Nat
  BY BlockFacts DEF BlockNum
<1> QED
  BY <1>1 DEF Message, ConfirmMessage, RequestVoteRequest, RequestVoteResponse

\* The database of a node is in good order.
LEMMA NodeDb ==
  ASSUME NEW s, NodeCore(s)
  PROVE  /\ Good(s.db)
         /\ s.db.head \in Block /\ s.db.commitIndex \in Nat
         /\ s.db.commitIndex \in 1..Len(s.db.head)
  BY IndexFacts DEF NodeCore, NodeType, Good, DbType

-----------------------------------------------------------------------------
\* A node keeps its type if only the database changes, to one in good order.
LEMMA ReplaceDb ==
  ASSUME NEW s, NodeCore(s), NEW d, Good(d), d.currentTerm = s.current_term
  PROVE  LET t == [s EXCEPT !.db = d]
         IN  /\ NodeCore(t) /\ SameRole(t, s) /\ t.db = d
             /\ t.out = s.out /\ t.match_index = s.match_index
  BY DEF NodeCore, NodeType, Good, SameRole

\* blocknet::start_leader gives a leader a pending block on top of its head.
LEMMA StartLeaderInv ==
  ASSUME NEW s, NodeCore(s), s._state = "leader"
  PROVE  LET t == StartLeader(s)
         IN  /\ NodeInv(t) /\ SameRole(t, s) /\ t.out = s.out /\ t.match_index = s.match_index
             /\ t.db.head = s.db.head /\ t.db.commitIndex = s.db.commitIndex
             /\ t.db.failed = s.db.failed
<1> DEFINE d == StartBlock(s.db, s.current_term)
           t == [s EXCEPT !.db = d]
<1>1. s.current_term \in Nat /\ s.db.currentTerm = s.current_term
  BY DEF NodeCore, NodeType
<1>2. /\ Good(d) /\ PendingBuildsOnHead(d)
      /\ d.blockContext # NoBlock /\ d.blockContext.term = s.current_term
      /\ d.head = s.db.head /\ d.commitIndex = s.db.commitIndex
      /\ d.currentTerm = s.current_term /\ d.failed = s.db.failed
  BY <1>1, NodeDb, StartBlockGood
<1> HIDE DEF d
<1>3. /\ NodeCore(t) /\ SameRole(t, s) /\ t.db = d
      /\ t.out = s.out /\ t.match_index = s.match_index
  BY <1>2, ReplaceDb
<1>4. StartLeader(s) = t
  BY DEF StartLeader, d
<1> HIDE DEF t
<1> QED
  BY <1>2, <1>3, <1>4 DEF NodeInv, SameRole

\* blocknet::stop_leader leaves no pending block.
LEMMA StopLeaderCore ==
  ASSUME NEW s, NodeCore(s), s.db.blockContext # NoBlock => s._state = "leader"
  PROVE  LET t == StopLeader(s)
         IN  /\ NodeCore(t) /\ SameRole(t, s) /\ t.out = s.out /\ t.match_index = s.match_index
             /\ t.db.head = s.db.head /\ t.db.commitIndex = s.db.commitIndex
             /\ t.db.failed = s.db.failed /\ t.db.blockContext = NoBlock
<1>1. CASE s._state = "leader"
  <2> DEFINE d == AbortBlock(s.db)
             t == [s EXCEPT !.db = d]
  <2>1. /\ Good(d) /\ d.blockContext = NoBlock
        /\ d.head = s.db.head /\ d.commitIndex = s.db.commitIndex
        /\ d.currentTerm = s.current_term /\ d.failed = s.db.failed
    BY NodeDb, AbortBlockGood DEF NodeCore, NodeType
  <2> HIDE DEF d
  <2>2. /\ NodeCore(t) /\ SameRole(t, s) /\ t.db = d
        /\ t.out = s.out /\ t.match_index = s.match_index
    BY <2>1, ReplaceDb
  <2>3. StopLeader(s) = t
    BY <1>1 DEF StopLeader, d
  <2> HIDE DEF t
  <2> QED
    BY <2>1, <2>2, <2>3
<1>2. CASE s._state # "leader"
  BY <1>2 DEF StopLeader, SameRole
<1> QED
  BY <1>1, <1>2

\* on_fork_switch only sends a confirmation.
LEMMA OnForkSwitchInv ==
  ASSUME NEW s, NodeInv(s), NEW n \in Producer
  PROVE  LET t == OnForkSwitch(n, s)
         IN  /\ NodeInv(t) /\ SameRole(t, s) /\ OnlyConfirms(t, s) /\ t.db = s.db
             /\ t.match_index = s.match_index
<1> DEFINE head == s.db.head
           m == ConfirmMessage(s.current_term, n, BlockNum(head), head[Len(head)].producer)
           t == [s EXCEPT !.out = @ \cup {m}]
<1>1. /\ head \in Block /\ BlockNum(head) \in Nat /\ head[Len(head)].producer \in Nat
      /\ s.current_term \in Nat
  BY NodeDb, BlockFacts DEF NodeInv, NodeCore, NodeType, BlockNum
<1>2. m \in Message
  BY <1>1, MessagesTyped
<1>3. m.type = "Confirm"
  BY DEF ConfirmMessage
<1> HIDE DEF m
<1>4. /\ NodeInv(t) /\ SameRole(t, s) /\ OnlyConfirms(t, s) /\ t.db = s.db
      /\ t.match_index = s.match_index
  <2>1. /\ DOMAIN t = DOMAIN s /\ t._state = s._state /\ t.current_term = s.current_term
        /\ t.voted_for = s.voted_for /\ t.votes_for_me = s.votes_for_me
        /\ t.match_index = s.match_index /\ t.db = s.db /\ t.out = s.out \cup {m}
    BY DEF NodeInv, NodeCore, NodeType
  <2> HIDE DEF t
  <2> QED
    BY <1>2, <1>3, <2>1 DEF NodeInv, NodeCore, NodeType, SameRole, OnlyConfirms
<1>5. OnForkSwitch(n, s) \in {s, t}
  BY DEF OnForkSwitch, m
<1> HIDE DEF t
<1> QED
  BY <1>4, <1>5 DEF SameRole, OnlyConfirms

\* blocknet::switch_fork changes the best chain, never below the last irreversible
\* block; a leader goes on as the leader of its term.
LEMMA SwitchHeadInv ==
  ASSUME NEW s, NodeInv(s), NEW n \in Producer
  PROVE  LET t == SwitchHead(n, s)
         IN  /\ NodeInv(t) /\ SameRole(t, s) /\ OnlyConfirms(t, s)
             /\ KeepsIrreversible(t.db, s.db)
<1> DEFINE d == SwitchOnce(s.db, s.db.head).db
           t == [s EXCEPT !.db = d]
           stopped == StopLeader(t)
           reset == IF t._state = "leader" THEN StartLeader(stopped) ELSE t
           switched == OnForkSwitch(n, reset)
           g == Gc(switched.db)
           end == [switched EXCEPT !.db = g]
<1>1. NodeCore(s) /\ Good(s.db) /\ s.db.head \in Block /\ s.db.commitIndex \in Nat
  BY NodeDb DEF NodeInv
<1>2. /\ Good(d) /\ SameBlock(d, s.db) /\ KeepsIrreversible(d, s.db)
      /\ d.currentTerm = s.current_term /\ d.commitIndex \in Nat
  BY <1>1, SwitchOnceGood, IndexFacts DEF SameBlock, NodeCore, NodeType, Good
<1> HIDE DEF d
<1>3. /\ NodeCore(t) /\ SameRole(t, s) /\ t.db = d
      /\ t.out = s.out /\ t.match_index = s.match_index
  BY <1>1, <1>2, ReplaceDb
<1>4. SwitchHead(n, s) = IF d.failed \/ d.head = s.db.head THEN t ELSE end
  BY <1>3 DEF SwitchHead, AfterSwitch, ResetLeader, d
<1> HIDE DEF t
<1>5. CASE d.failed \/ d.head = s.db.head
  <2>1. ~d.failed => PendingBuildsOnHead(d)
    <3>1. ASSUME ~d.failed PROVE PendingBuildsOnHead(s.db)
      BY <3>1, <1>2 DEF NodeInv, SameBlock
    <3>2. ASSUME ~d.failed PROVE d.head = s.db.head
      BY <3>2, <1>5
    <3>3. d.commitIndex >= s.db.commitIndex /\ d.blockContext = s.db.blockContext
      BY <1>2 DEF KeepsIrreversible, SameBlock
    <3> QED
      BY <1>1, <1>2, <3>1, <3>2, <3>3 DEF PendingBuildsOnHead
  <2>2. NodeInv(t) /\ OnlyConfirms(t, s)
    BY <1>2, <1>3, <2>1 DEF NodeInv, SameRole, SameBlock, OnlyConfirms
  <2> QED
    BY <1>2, <1>3, <1>4, <1>5, <2>2
<1>6. CASE ~(d.failed \/ d.head = s.db.head)
  <2>1. NodeInv(reset) /\ SameRole(reset, s) /\ reset.out = s.out
        /\ reset.db.head = d.head /\ reset.db.commitIndex = d.commitIndex
    <3>1. CASE t._state = "leader"
      <4>1. /\ NodeCore(stopped) /\ SameRole(stopped, t) /\ stopped.out = t.out
            /\ stopped.db.head = t.db.head /\ stopped.db.commitIndex = t.db.commitIndex
        BY <1>3, <3>1, StopLeaderCore
      <4> HIDE DEF stopped
      <4>2. LET r == StartLeader(stopped)
            IN  /\ NodeInv(r) /\ SameRole(r, stopped) /\ r.out = stopped.out
                /\ r.db.head = stopped.db.head /\ r.db.commitIndex = stopped.db.commitIndex
        BY <3>1, <4>1, StartLeaderInv DEF SameRole
      <4> QED
        BY <1>3, <3>1, <4>1, <4>2 DEF SameRole
    <3>2. CASE t._state # "leader"
      <4>1. d.blockContext = NoBlock
        BY <1>2, <1>3, <3>2 DEF NodeInv, SameRole, SameBlock
      <4>2. NodeInv(t)
        BY <1>3, <3>2, <4>1 DEF NodeInv, PendingBuildsOnHead
      <4> QED
        BY <1>3, <3>2, <4>2
    <3> QED
      BY <3>1, <3>2
  <2> HIDE DEF reset
  <2>2. /\ NodeInv(switched) /\ SameRole(switched, reset) /\ OnlyConfirms(switched, reset)
        /\ switched.db = reset.db
    BY <2>1, OnForkSwitchInv
  <2> HIDE DEF switched
  <2>3. /\ Good(g) /\ SameBlock(g, switched.db) /\ g.failed = switched.db.failed
        /\ g.head = switched.db.head /\ g.commitIndex = switched.db.commitIndex
        /\ g.currentTerm = switched.current_term
    BY <2>2, NodeDb, GcGood DEF NodeInv, NodeCore, NodeType, SameBlock
  <2> HIDE DEF g
  <2>4. /\ NodeCore(end) /\ SameRole(end, switched) /\ end.db = g /\ end.out = switched.out
    BY <2>2, <2>3, ReplaceDb DEF NodeInv
  <2> HIDE DEF end
  <2>5. NodeInv(end)
    BY <2>2, <2>3, <2>4 DEF NodeInv, SameRole, SameBlock, PendingBuildsOnHead
  <2>6. SameRole(end, s) /\ OnlyConfirms(end, s)
    BY <2>1, <2>2, <2>4 DEF SameRole, OnlyConfirms
  <2>7. KeepsIrreversible(end.db, s.db)
    BY <1>2, <2>1, <2>2, <2>3, <2>4 DEF KeepsIrreversible
  <2> QED
    BY <1>4, <1>6, <2>5, <2>6, <2>7
<1> QED
  BY <1>5, <1>6

\* The node enters a later term, as a follower that has not voted.
NewTerm(t, s, term) ==
  /\ term > s.current_term
  /\ t.current_term = term
  /\ t.voted_for = NullProducer
  /\ t.votes_for_me = {}
  /\ t._state = "follower"

\* update_term does nothing or enters the later term.
LEMMA UpdateTermInv ==
  ASSUME NEW s, NodeInv(s), NEW n \in Producer, NEW term \in Nat
  PROVE  LET u == UpdateTerm(n, s, term)
         IN  /\ NodeInv(u) /\ OnlyConfirms(u, s) /\ KeepsIrreversible(u.db, s.db)
             /\ \/ term <= s.current_term /\ u = s
                \/ NewTerm(u, s, term)
<1> DEFINE t == [s EXCEPT !.votes_for_me = {}, !.current_term = term,
                          !.db.currentTerm = term, !.voted_for = NullProducer]
           d == [s.db EXCEPT !.currentTerm = term]
           stopped == StopLeader(t)
           follower == [stopped EXCEPT !.match_index = NoMatch, !._state = "follower"]
           loser == [t EXCEPT !._state = "follower"]
<1>1. NodeCore(s) /\ Good(s.db) /\ s.current_term \in Nat
  BY NodeDb DEF NodeInv, NodeCore, NodeType
<1>2. UpdateTerm(n, s, term) =
        IF term <= s.current_term THEN s
        ELSE IF s._state = "leader" THEN SwitchHead(n, follower)
        ELSE IF s._state = "candidate" THEN loser ELSE t
  BY DEF UpdateTerm
<1>3. CASE term <= s.current_term
  BY <1>1, <1>2, <1>3, KeepsSameHead, NodeDb DEF OnlyConfirms
<1>4. CASE ~(term <= s.current_term)
  <2>1. /\ Good(d) /\ d.currentTerm = term /\ d.blockContext = s.db.blockContext
        /\ d.head = s.db.head /\ d.commitIndex = s.db.commitIndex /\ d.failed = s.db.failed
    BY <1>1, SetTermGood
  <2>2. /\ DOMAIN t = DOMAIN s /\ t._state = s._state /\ t.current_term = term
        /\ t.voted_for = NullProducer /\ t.votes_for_me = {} /\ t.match_index = s.match_index
        /\ t.db = d /\ t.out = s.out
    BY <1>1 DEF NodeCore, NodeType
  <2> HIDE DEF d, t
  <2>3. NodeCore(t)
    BY <1>1, <2>1, <2>2 DEF NodeCore, NodeType, Good
  <2>4. KeepsIrreversible(d, s.db) /\ term > s.current_term
    <3>1. s.db.commitIndex \in Nat
      BY <1>1, NodeDb
    <3> QED
      BY <1>1, <1>4, <2>1, <3>1, KeepsSameHead
  <2>5. CASE s._state = "leader"
    <3>1. /\ NodeCore(stopped) /\ SameRole(stopped, t) /\ stopped.out = t.out
          /\ stopped.db.head = t.db.head /\ stopped.db.commitIndex = t.db.commitIndex
          /\ stopped.db.blockContext = NoBlock
      BY <2>2, <2>3, <2>5, StopLeaderCore
    <3> HIDE DEF stopped
    <3>2. /\ DOMAIN follower = DOMAIN stopped /\ follower._state = "follower"
          /\ follower.current_term = term
          /\ follower.voted_for = NullProducer /\ follower.votes_for_me = {}
          /\ follower.match_index = NoMatch
          /\ follower.db = stopped.db /\ follower.out = s.out
      BY <2>2, <3>1 DEF NodeCore, NodeType, SameRole
    <3> HIDE DEF follower
    <3>3. NodeInv(follower)
      BY <2>2, <3>1, <3>2 DEF NodeInv, NodeCore, NodeType, SameRole, PendingBuildsOnHead, NoMatch
    <3> DEFINE u == SwitchHead(n, follower)
    <3>4. /\ NodeInv(u) /\ SameRole(u, follower) /\ OnlyConfirms(u, follower)
          /\ KeepsIrreversible(u.db, follower.db)
      BY <3>3, SwitchHeadInv
    <3> HIDE DEF u
    <3>5. KeepsIrreversible(follower.db, s.db)
      BY <2>1, <2>2, <2>4, <3>1, <3>2 DEF KeepsIrreversible
    <3>6. KeepsIrreversible(u.db, s.db)
      BY <1>1, <3>3, <3>4, <3>5, KeepsTrans, NodeDb DEF NodeInv
    <3>7. NewTerm(u, s, term) /\ OnlyConfirms(u, s)
      BY <2>4, <3>2, <3>4 DEF NewTerm, SameRole, OnlyConfirms
    <3>8. UpdateTerm(n, s, term) = u
      BY <1>2, <1>4, <2>5 DEF u
    <3> QED
      BY <3>4, <3>6, <3>7, <3>8
  <2>6. CASE s._state # "leader"
    <3> DEFINE v == IF s._state = "candidate" THEN loser ELSE t
    <3>1. /\ DOMAIN v = DOMAIN s /\ v._state = "follower" /\ v.current_term = term
          /\ v.voted_for = NullProducer /\ v.votes_for_me = {} /\ v.match_index = s.match_index
          /\ v.db = d /\ v.out = s.out
      BY <1>1, <2>2, <2>6 DEF NodeCore, NodeType
    <3>2. UpdateTerm(n, s, term) = v
      BY <1>2, <1>4, <2>6
    <3> HIDE DEF v
    <3>3. NodeInv(v)
      BY <1>1, <2>1, <2>6, <3>1
      DEF NodeInv, NodeCore, NodeType, Good, PendingBuildsOnHead
    <3> QED
      BY <2>4, <3>1, <3>2, <3>3 DEF NewTerm, OnlyConfirms
  <2> QED
    BY <2>5, <2>6
<1> QED
  BY <1>3, <1>4

\* check_votes: the node goes on as it is, or becomes the leader with a quorum.
LEMMA CheckVotesInv ==
  ASSUME NEW s, NodeInv(s)
  PROVE  LET t == CheckVotes(s)
         IN  /\ NodeInv(t) /\ t.out = s.out
             /\ t.current_term = s.current_term /\ t.voted_for = s.voted_for
             /\ t.votes_for_me = s.votes_for_me
             /\ t.db.head = s.db.head /\ t.db.commitIndex = s.db.commitIndex
             /\ \/ t._state = s._state
                \/ t._state = "leader" /\ IsQuorum("cft", t.votes_for_me, Producer)
<1> DEFINE t == [s EXCEPT !._state = "leader", !.match_index = NoMatch]
           u == StartLeader(t)
<1>1. /\ DOMAIN t = DOMAIN s /\ t._state = "leader" /\ t.current_term = s.current_term
      /\ t.voted_for = s.voted_for /\ t.votes_for_me = s.votes_for_me
      /\ t.match_index = NoMatch /\ t.db = s.db /\ t.out = s.out
  BY DEF NodeInv, NodeCore, NodeType
<1>2. CheckVotes(s) = IF Cardinality(s.votes_for_me) > Cardinality(Producer) \div 2
                        THEN u ELSE s
  BY DEF CheckVotes
<1> HIDE DEF t
<1>3. NodeCore(t)
  BY <1>1 DEF NodeInv, NodeCore, NodeType, NoMatch
<1>4. /\ NodeInv(u) /\ SameRole(u, t) /\ u.out = t.out
      /\ u.db.head = t.db.head /\ u.db.commitIndex = t.db.commitIndex
  BY <1>1, <1>3, StartLeaderInv
<1> HIDE DEF u
<1>5. CASE Cardinality(s.votes_for_me) > Cardinality(Producer) \div 2
  <2>1. s.votes_for_me \in SUBSET Producer
    BY DEF NodeInv, NodeCore, NodeType
  <2>2. Cardinality(Producer) \in Nat /\ Cardinality(s.votes_for_me) \in Nat
    BY <2>1, CftAssumption, Overlap
  <2>3. IsQuorum("cft", s.votes_for_me, Producer)
    BY <1>5, <2>1, <2>2 DEF IsQuorum, Threshold
  <2> QED
    BY <1>1, <1>2, <1>4, <1>5, <2>3 DEF SameRole
<1>6. CASE ~(Cardinality(s.votes_for_me) > Cardinality(Producer) \div 2)
  BY <1>2, <1>6
<1> QED
  BY <1>5, <1>6

\* The number that update_match_index looks for exists: what the slowest producer
\* has confirmed is confirmed by all.
LEMMA ConfirmedNumExists ==
  ASSUME NEW match \in [Producer -> Nat]
  PROVE  /\ ConfirmedNum(match) \in Nat
         /\ \E p \in Producer : match[p] = ConfirmedNum(match)
         /\ IsQuorum("cft", {p \in Producer : match[p] >= ConfirmedNum(match)}, Producer)
<1> DEFINE confirms(k) == {p \in Producer : match[p] >= k}
           nums == {match[p] : p \in Producer}
           good == {k \in nums : IsQuorum("cft", confirms(k), Producer)}
<1>1. nums \in SUBSET Nat /\ nums # {} /\ IsFiniteSet(nums)
  <2>1. IsFiniteSet(Producer) /\ Producer # {}
    BY CftAssumption, FS_EmptySet
  <2>2. IsFiniteSet(nums)
    <3>1. match \in Surjection(Producer, nums)
      BY DEF Surjection
    <3> QED
      BY <2>1, <3>1, FS_Surjection
  <2> QED
    BY <2>1, <2>2
<1>2. good # {}
  <2>1. PICK low \in nums : \A k \in nums : low <= k
    BY <1>1, NatMin
  <2>2. confirms(low) = Producer
    BY <2>1, <1>1
  <2>3. Cardinality(Producer) \in Nat /\ Cardinality(Producer) > 1
    BY CftAssumption, FS_CardinalityType
  <2>4. IsQuorum("cft", Producer, Producer)
    BY <2>3 DEF IsQuorum, Threshold
  <2> QED
    BY <2>1, <2>2, <2>4
<1>3. PICK k \in good : \A j \in good : j <= k
  <2>1. good \in SUBSET Nat /\ IsFiniteSet(good)
    BY <1>1, FS_Subset
  <2> HIDE DEF good
  <2> QED
    BY <1>2, <2>1, FiniteMax
<1>4. /\ k \in nums /\ IsQuorum("cft", confirms(k), Producer)
      /\ \A p \in Producer : match[p] > k => ~IsQuorum("cft", confirms(match[p]), Producer)
  <2>1. ASSUME NEW p \in Producer, match[p] > k, IsQuorum("cft", confirms(match[p]), Producer)
        PROVE  FALSE
    <3>1. match[p] \in good
      BY <2>1
    <3>2. match[p] <= k /\ match[p] \in Nat /\ k \in Nat
      BY <3>1, <1>1, <1>3
    <3> QED
      BY <2>1, <3>2
  <2> QED
    BY <1>3, <2>1
<1>5. /\ ConfirmedNum(match) \in nums
      /\ IsQuorum("cft", confirms(ConfirmedNum(match)), Producer)
  BY <1>4 DEF ConfirmedNum
<1> QED
  BY <1>1, <1>5

\* update_match_index only raises commitIndex.
LEMMA UpdateMatchIndexInv ==
  ASSUME NEW s, NodeInv(s), NEW p \in Producer, NEW num \in Nat
  PROVE  LET t == UpdateMatchIndex(s, p, num)
         IN  NodeInv(t) /\ SameRole(t, s) /\ t.out = s.out /\ KeepsIrreversible(t.db, s.db)
             /\ t.db.head = s.db.head
<1> DEFINE match == [s.match_index EXCEPT ![p] = IF num > @ THEN num ELSE @]
           d == Commit(s.db, ConfirmedNum(match))
           t == [s EXCEPT !.match_index = match, !.db = d]
<1>1. NodeCore(s) /\ Good(s.db) /\ s.match_index \in [Producer -> Nat]
  BY NodeDb DEF NodeInv, NodeCore, NodeType
<1>2. match \in [Producer -> Nat]
  BY <1>1
<1>3. UpdateMatchIndex(s, p, num) = t
  BY DEF UpdateMatchIndex
<1> HIDE DEF match
<1>4. /\ Good(d) /\ SameChain(d, s.db) /\ SameBlock(d, s.db)
      /\ d.commitIndex >= s.db.commitIndex
  BY <1>1, <1>2, ConfirmedNumExists, CommitGood
<1> HIDE DEF d
<1>5. /\ DOMAIN t = DOMAIN s /\ t._state = s._state /\ t.current_term = s.current_term
      /\ t.voted_for = s.voted_for /\ t.votes_for_me = s.votes_for_me
      /\ t.match_index = match /\ t.db = d /\ t.out = s.out
  BY <1>1 DEF NodeCore, NodeType
<1> HIDE DEF t
<1>6. NodeCore(t)
  BY <1>1, <1>2, <1>4, <1>5 DEF NodeCore, NodeType, Good, SameBlock
<1>7. ~d.failed => PendingBuildsOnHead(d)
  <2>1. /\ d.head = s.db.head /\ d.blockContext = s.db.blockContext
        /\ s.db.commitIndex \in Nat /\ d.commitIndex \in Nat
        /\ ~d.failed => ~s.db.failed
    BY <1>1, <1>4, IndexFacts DEF SameChain, SameBlock, Good
  <2> QED
    BY <1>4, <2>1 DEF NodeInv, PendingBuildsOnHead
<1>8. NodeInv(t)
  BY <1>4, <1>5, <1>6, <1>7 DEF NodeInv, SameBlock
<1>9. KeepsIrreversible(d, s.db) /\ d.head = s.db.head
  BY <1>1, <1>4, KeepsSameHead DEF SameChain
<1> QED
  BY <1>3, <1>5, <1>8, <1>9 DEF SameRole

\* request_vote starts a later term in which the node votes for itself.
LEMMA RequestVoteInv ==
  ASSUME NEW s, NodeInv(s), NEW n \in Producer
  PROVE  LET t == RequestVote(n, StopLeader(s))
         IN  /\ NodeInv(t) /\ KeepsIrreversible(t.db, s.db)
             /\ t.current_term = s.current_term + 1 /\ t.voted_for = n /\ t.votes_for_me = {n}
             /\ \A m \in t.out : m \in s.out \/ m.type = "RequestVote"
             /\ t._state = "leader" => IsQuorum("cft", t.votes_for_me, Producer)
<1> DEFINE u == StopLeader(s)
           term == u.current_term + 1
           m == RequestVoteRequest(term, n, u.db.head)
           t == [u EXCEPT !.current_term = term, !.db.currentTerm = term, !.voted_for = n,
                          !.votes_for_me = {n}, !._state = "candidate", !.out = @ \cup {m}]
           d == [u.db EXCEPT !.currentTerm = term]
           v == CheckVotes(t)
<1>1. NodeCore(s) /\ Good(s.db) /\ s.db.commitIndex \in Nat
  BY NodeDb DEF NodeInv
<1>2. /\ NodeCore(u) /\ SameRole(u, s) /\ u.out = s.out
      /\ u.db.head = s.db.head /\ u.db.commitIndex = s.db.commitIndex
      /\ u.db.blockContext = NoBlock
  BY <1>1, StopLeaderCore DEF NodeInv
<1>3. RequestVote(n, u) = v
  BY DEF RequestVote
<1> HIDE DEF u
<1>4. /\ Good(u.db) /\ u.db.head \in Block /\ term \in Nat
      /\ term = s.current_term + 1
  BY <1>2, NodeDb DEF NodeCore, NodeType, SameRole
<1> HIDE DEF term
<1>5. m \in Message /\ m.type = "RequestVote"
  BY <1>4, MessagesTyped DEF RequestVoteRequest
<1> HIDE DEF m
<1>6. /\ Good(d) /\ d.currentTerm = term /\ d.blockContext = NoBlock
      /\ d.head = s.db.head /\ d.commitIndex = s.db.commitIndex
  BY <1>2, <1>4, SetTermGood
<1>7. /\ DOMAIN t = DOMAIN u /\ t._state = "candidate" /\ t.current_term = term
      /\ t.voted_for = n /\ t.votes_for_me = {n} /\ t.match_index = u.match_index
      /\ t.db = d /\ t.out = s.out \cup {m}
  BY <1>2 DEF NodeCore, NodeType
<1> HIDE DEF d, t
<1>8. NodeInv(t)
  BY <1>2, <1>4, <1>5, <1>6, <1>7
  DEF NodeInv, NodeCore, NodeType, Good, PendingBuildsOnHead
<1>9. /\ NodeInv(v) /\ v.out = t.out
      /\ v.current_term = t.current_term /\ v.voted_for = t.voted_for
      /\ v.votes_for_me = t.votes_for_me
      /\ v.db.head = t.db.head /\ v.db.commitIndex = t.db.commitIndex
      /\ v._state = "leader" => IsQuorum("cft", v.votes_for_me, Producer)
  BY <1>7, <1>8, CheckVotesInv
<1> HIDE DEF v
<1>10. KeepsIrreversible(v.db, s.db)
  BY <1>1, <1>6, <1>7, <1>9, KeepsSameHead
<1> QED
  BY <1>3, <1>4, <1>5, <1>7, <1>9, <1>10 DEF u

\* insert and on_accept_block_header enter the term of the block, and may restrict
\* the blocks that can become the head.
LEMMA AcceptHeaderInv ==
  ASSUME NEW s, NodeInv(s), NEW n \in Producer, NEW b \in Block
  PROVE  LET t == OnAcceptBlockHeader(n, [s EXCEPT !.db = Insert(@, b)], b)
         IN  /\ NodeInv(t) /\ OnlyConfirms(t, s) /\ KeepsIrreversible(t.db, s.db)
             /\ SameRole(t, s) \/ NewTerm(t, s, Term(b))
<1> DEFINE i == Insert(s.db, b)
           r == [s EXCEPT !.db = i]
           u == UpdateTerm(n, r, Term(b))
           d == SetSubtree(u.db, Ancestor(b, CommitNum(b)))
           v == [u EXCEPT !.db = d]
           t == OnAcceptBlockHeader(n, r, b)
<1>1. /\ NodeCore(s) /\ Good(s.db) /\ s.db.commitIndex \in Nat
      /\ Term(b) \in Nat /\ s.current_term \in Nat
  BY NodeDb, BlockFacts DEF NodeInv, NodeCore, NodeType
<1>2. /\ Good(i) /\ SameBlock(i, s.db) /\ i.head = s.db.head
      /\ i.commitIndex = s.db.commitIndex /\ i.failed = s.db.failed
      /\ i.currentTerm = s.current_term
  BY <1>1, InsertGood DEF SameBlock, NodeCore, NodeType
<1> HIDE DEF i
<1>3. NodeCore(r) /\ SameRole(r, s) /\ r.db = i /\ r.out = s.out
  BY <1>1, <1>2, ReplaceDb
<1>4. t = IF CommitNum(b) > u.db.commitIndex /\ ~InBestChain(u.db, Ancestor(b, CommitNum(b)))
            THEN v ELSE u
  BY DEF OnAcceptBlockHeader, FollowCommitNum
<1>5. [s EXCEPT !.db = Insert(@, b)] = r
  BY DEF i
<1> HIDE DEF r
<1>6. NodeInv(r) /\ KeepsIrreversible(r.db, s.db)
  BY <1>1, <1>2, <1>3, KeepsSameHead DEF NodeInv, SameRole, SameBlock, PendingBuildsOnHead
<1>7. /\ NodeInv(u) /\ OnlyConfirms(u, r) /\ KeepsIrreversible(u.db, r.db)
      /\ u = r \/ NewTerm(u, r, Term(b))
  BY <1>1, <1>6, UpdateTermInv
<1> HIDE DEF u
<1>8. NodeCore(u) /\ Good(u.db) /\ u.db.commitIndex \in Nat
  BY <1>7, NodeDb DEF NodeInv
<1>9. /\ Good(d) /\ SameChain(d, u.db) /\ SameBlock(d, u.db)
      /\ d.commitIndex = u.db.commitIndex /\ d.currentTerm = u.current_term
  BY <1>8, SetSubtreeGood DEF SameBlock, NodeCore, NodeType
<1> HIDE DEF d
<1>10. NodeCore(v) /\ SameRole(v, u) /\ v.db = d /\ v.out = u.out
  BY <1>8, <1>9, ReplaceDb
<1> HIDE DEF v
<1>11. NodeInv(v) /\ KeepsIrreversible(v.db, u.db)
  BY <1>7, <1>8, <1>9, <1>10, KeepsSameHead
  DEF NodeInv, SameRole, SameBlock, SameChain, PendingBuildsOnHead
<1>12. NodeInv(t) /\ SameRole(t, u) /\ t.out = u.out /\ KeepsIrreversible(t.db, u.db)
  BY <1>4, <1>7, <1>8, <1>10, <1>11, KeepsSameHead DEF SameRole
<1> HIDE DEF t
<1>13. KeepsIrreversible(t.db, s.db)
  <2>1. Good(r.db) /\ Good(t.db)
    BY <1>6, <1>12, NodeDb DEF NodeInv
  <2>2. KeepsIrreversible(u.db, s.db)
    BY <1>1, <1>6, <1>7, <1>8, <2>1, KeepsTrans
  <2> QED
    BY <1>1, <1>8, <1>12, <2>1, <2>2, KeepsTrans
<1>14. SameRole(t, s) \/ NewTerm(t, s, Term(b))
  BY <1>3, <1>7, <1>12 DEF SameRole, NewTerm
<1>15. OnlyConfirms(t, s)
  BY <1>3, <1>7, <1>12 DEF OnlyConfirms
<1> QED
  BY <1>5, <1>12, <1>13, <1>14, <1>15 DEF t

\* A node starts, and starts again, as a follower without a pending block.
LEMMA NewNodeInv ==
  ASSUME NEW db, Good(db), db.blockContext = NoBlock
  PROVE  LET t == NewNode(db)
         IN  /\ NodeInv(t) /\ t.out = {} /\ t.db = db /\ t._state = "follower"
             /\ t.voted_for = NullProducer /\ t.votes_for_me = {}
  BY DEF NewNode, NodeInv, NodeCore, NodeType, Good, DbType, PendingBuildsOnHead, NoMatch

-----------------------------------------------------------------------------
(***************************************************************************)
(* The state of the system between two callbacks.                          *)
(***************************************************************************)
Inv ==
  /\ DOMAIN node = Producer
  /\ \A n \in Producer : NodeInv(node[n]) /\ node[n].out = {}
  /\ msgs \subseteq Message
  /\ produced \subseteq Block
  /\ ballots \subseteq Nat \X Producer \X Producer
  /\ elections \in Nat /\ restarts \in Nat

\* A vote that was granted to candidate c by voter p in a term.
Granted(m, term, p, c) ==
  /\ m.type = "Vote" /\ m.vote_granted
  /\ m.term = term /\ m.voter_id = p /\ m.candidate_id = c

\* What one callback of node n does to its term, its votes and its role.
VoteStep(n, t) ==
  LET s == node[n]
  IN  /\ t.current_term >= s.current_term
      /\ t.current_term = s.current_term /\ s.voted_for # NullProducer
           => t.voted_for = s.voted_for
      /\ \A m \in t.out : m.type = "Vote" /\ m.vote_granted =>
           Granted(m, t.current_term, n, t.voted_for) /\ t.voted_for # NullProducer
      /\ \A p \in t.votes_for_me :
           \/ t.current_term = s.current_term /\ p \in s.votes_for_me
           \/ p = n /\ t.voted_for = n
           \/ \E m \in msgs : Granted(m, t.current_term, p, n)
      /\ t._state = "leader" =>
           \/ IsQuorum("cft", t.votes_for_me, Producer)
           \/ s._state = "leader" /\ t.votes_for_me = s.votes_for_me

\* What every callback of node n that leaves it in state t does.
Callback(n, t) ==
  /\ Finish(n, t)
  /\ NodeInv(t)
  /\ KeepsIrreversible(t.db, node[n].db)
  /\ VoteStep(n, t)

\* A callback that neither votes nor counts votes.
LEMMA NoVoteStep ==
  ASSUME Inv, NEW n \in Producer, NEW t, NodeInv(t), OnlyConfirms(t, node[n]),
         NEW term, SameRole(t, node[n]) \/ NewTerm(t, node[n], term)
  PROVE  VoteStep(n, t)
<1>1. /\ node[n].current_term \in Nat /\ t.current_term \in Nat
      /\ node[n].out = {}
  BY DEF Inv, NodeInv, NodeCore, NodeType
<1> QED
  BY <1>1 DEF VoteStep, SameRole, NewTerm, OnlyConfirms

\* update_term of a node between two callbacks.
LEMMA UpdateTermStep ==
  ASSUME Inv, NEW n \in Producer, NEW term \in Nat
  PROVE  LET t == UpdateTerm(n, node[n], term)
         IN  /\ NodeInv(t) /\ KeepsIrreversible(t.db, node[n].db)
             /\ OnlyConfirms(t, node[n]) /\ VoteStep(n, t)
             /\ term <= t.current_term /\ t.current_term \in Nat
             /\ Good(node[n].db) /\ Good(t.db)
             /\ SameRole(t, node[n]) \/ NewTerm(t, node[n], term)
<1> DEFINE t == UpdateTerm(n, node[n], term)
<1>1. NodeInv(node[n]) /\ node[n].current_term \in Nat
  BY DEF Inv, NodeInv, NodeCore, NodeType
<1>2. /\ NodeInv(t) /\ OnlyConfirms(t, node[n]) /\ KeepsIrreversible(t.db, node[n].db)
      /\ \/ term <= node[n].current_term /\ t = node[n]
         \/ NewTerm(t, node[n], term)
  BY <1>1, UpdateTermInv
<1> HIDE DEF t
<1>3. SameRole(t, node[n]) \/ NewTerm(t, node[n], term)
  BY <1>2 DEF SameRole
<1>4. VoteStep(n, t)
  BY <1>2, <1>3, NoVoteStep
<1>5. term <= t.current_term /\ t.current_term \in Nat
  BY <1>1, <1>2 DEF NewTerm, NodeInv, NodeCore, NodeType
<1>6. Good(node[n].db) /\ Good(t.db)
  BY <1>1, <1>2, NodeDb DEF NodeInv
<1> QED
  BY <1>2, <1>3, <1>4, <1>5, <1>6 DEF t

\* The election timer is a callback.
LEMMA ElectionTimeoutCallback ==
  ASSUME Inv, NEW n \in Producer, ElectionTimeout(n)
  PROVE  \E t : Callback(n, t)
<1> DEFINE t == RequestVote(n, StopLeader(node[n]))
<1>1. NodeInv(node[n]) /\ node[n].current_term \in Nat /\ node[n].out = {}
  BY DEF Inv, NodeInv, NodeCore, NodeType
<1>2. /\ NodeInv(t) /\ KeepsIrreversible(t.db, node[n].db)
      /\ t.current_term = node[n].current_term + 1 /\ t.voted_for = n /\ t.votes_for_me = {n}
      /\ \A m \in t.out : m \in node[n].out \/ m.type = "RequestVote"
      /\ t._state = "leader" => IsQuorum("cft", t.votes_for_me, Producer)
  BY <1>1, RequestVoteInv
<1>3. Finish(n, t)
  BY DEF ElectionTimeout
<1> HIDE DEF t
<1>4. VoteStep(n, t)
  BY <1>1, <1>2 DEF VoteStep
<1> QED
  BY <1>2, <1>3, <1>4 DEF Callback

\* The block timer is a callback; the block is of the leader's term.
LEMMA ProduceBlockCallback ==
  ASSUME Inv, NEW n \in Producer, ProduceBlock(n)
  PROVE  LET b == FinishedBlock(node[n].db, n)
         IN  /\ \E t : Callback(n, t)
             /\ b \in Block /\ Term(b) = node[n].current_term /\ b[Len(b)].producer = n
<1> DEFINE s == node[n]
           f == FinishBlock(s.db, n)
           b == FinishedBlock(s.db, n)
           r == [s EXCEPT !.db = f]
           started == StartLeader(r)
           num == BlockNum(started.db.head)
           matched == UpdateMatchIndex(started, n, num)
           g == Gc(matched.db)
           t == [matched EXCEPT !.db = g]
<1>1. /\ NodeInv(s) /\ NodeCore(s) /\ s.out = {} /\ s._state = "leader" /\ ~s.db.failed
      /\ n \in Nat /\ Good(s.db)
  BY NodeDb, CftAssumption DEF Inv, NodeInv, ProduceBlock, Running
<1>2. PendingBuildsOnHead(s.db) /\ s.db.blockContext # NoBlock
      /\ s.db.blockContext.term = s.current_term
  BY <1>1 DEF NodeInv
<1>3. Finish(n, t)
  BY DEF ProduceBlock
<1>4. /\ Good(f) /\ KeepsIrreversible(f, s.db) /\ f.currentTerm = s.db.currentTerm
      /\ b \in Block /\ Term(b) = s.db.blockContext.term /\ b[Len(b)].producer = n
  BY <1>1, <1>2, FinishBlockGood
<1> HIDE DEF f, b, s
<1>5. NodeCore(r) /\ SameRole(r, s) /\ r.db = f /\ r.out = s.out
  BY <1>1, <1>4, ReplaceDb DEF NodeCore, NodeType
<1> HIDE DEF r
<1>6. /\ NodeInv(started) /\ SameRole(started, r) /\ started.out = r.out
      /\ started.db.head = r.db.head /\ started.db.commitIndex = r.db.commitIndex
  BY <1>1, <1>5, StartLeaderInv DEF SameRole
<1> HIDE DEF started
<1>7. num \in Nat
  BY <1>6, NodeDb, BlockFacts DEF NodeInv, BlockNum
<1> HIDE DEF num
<1>8. /\ NodeInv(matched) /\ SameRole(matched, started) /\ matched.out = started.out
      /\ KeepsIrreversible(matched.db, started.db)
  BY <1>6, <1>7, UpdateMatchIndexInv
<1> HIDE DEF matched
<1>9. /\ Good(g) /\ SameBlock(g, matched.db) /\ g.failed = matched.db.failed
      /\ g.head = matched.db.head /\ g.commitIndex = matched.db.commitIndex
      /\ g.currentTerm = matched.current_term
  BY <1>8, NodeDb, GcGood DEF NodeInv, NodeCore, NodeType, SameBlock
<1> HIDE DEF g
<1>10. NodeCore(t) /\ SameRole(t, matched) /\ t.db = g /\ t.out = matched.out
  BY <1>8, <1>9, ReplaceDb DEF NodeInv
<1> HIDE DEF t
<1>11. NodeInv(t)
  BY <1>8, <1>9, <1>10 DEF NodeInv, SameRole, SameBlock, PendingBuildsOnHead
<1>12. KeepsIrreversible(t.db, s.db)
  <2>1. KeepsIrreversible(started.db, s.db)
    BY <1>4, <1>5, <1>6 DEF KeepsIrreversible
  <2>2. KeepsIrreversible(matched.db, s.db)
    BY <1>1, <1>6, <1>8, <2>1, KeepsTrans, NodeDb DEF NodeInv
  <2> QED
    BY <1>9, <1>10, <2>2 DEF KeepsIrreversible
<1>13. SameRole(t, s) /\ OnlyConfirms(t, s)
  BY <1>5, <1>6, <1>8, <1>10 DEF SameRole, OnlyConfirms
<1>14. VoteStep(n, t)
  BY <1>11, <1>13, NoVoteStep DEF s
<1> QED
  BY <1>2, <1>3, <1>4, <1>11, <1>12, <1>14 DEF Callback, s, b

\* The block timer is a callback when the block cannot be written.
LEMMA ProduceFailsCallback ==
  ASSUME Inv, NEW n \in Producer, ProduceFails(n)
  PROVE  \E t : Callback(n, t)
<1> DEFINE s == node[n]
           d == AbortBlock(s.db)
           r == [s EXCEPT !.db = d]
           t == StartLeader(r)
<1>1. NodeCore(s) /\ s.out = {} /\ s._state = "leader" /\ Good(s.db)
  BY NodeDb DEF Inv, NodeInv, ProduceFails
<1>2. Finish(n, t)
  BY DEF ProduceFails
<1>3. /\ Good(d) /\ d.head = s.db.head /\ d.commitIndex = s.db.commitIndex
      /\ d.currentTerm = s.current_term
  BY <1>1, AbortBlockGood DEF NodeCore, NodeType
<1> HIDE DEF d, s
<1>4. NodeCore(r) /\ SameRole(r, s) /\ r.db = d /\ r.out = s.out
  BY <1>1, <1>3, ReplaceDb
<1> HIDE DEF r
<1>5. /\ NodeInv(t) /\ SameRole(t, r) /\ t.out = r.out
      /\ t.db.head = r.db.head /\ t.db.commitIndex = r.db.commitIndex
  BY <1>1, <1>4, StartLeaderInv DEF SameRole
<1> HIDE DEF t
<1>6. KeepsIrreversible(t.db, s.db)
  <2>1. s.db.commitIndex \in Nat
    BY <1>1, NodeDb
  <2> QED
    BY <1>1, <1>3, <1>4, <1>5, <2>1, KeepsSameHead
<1>7. SameRole(t, s) /\ OnlyConfirms(t, s)
  BY <1>4, <1>5 DEF SameRole, OnlyConfirms
<1>8. VoteStep(n, t)
  BY <1>5, <1>7, NoVoteStep DEF s
<1> QED
  BY <1>2, <1>5, <1>6, <1>8 DEF Callback, s

\* The arrival of a block is a callback.
LEMMA RecvBlockCallback ==
  ASSUME Inv, NEW n \in Producer, NEW b \in produced, RecvBlock(n, b)
  PROVE  \E t : Callback(n, t)
<1> DEFINE s == node[n]
           u == OnAcceptBlockHeader(n, [s EXCEPT !.db = Insert(@, b)], b)
           t == SwitchHead(n, u)
<1>1. NodeInv(s) /\ b \in Block
  BY DEF Inv
<1>2. Finish(n, t)
  BY DEF RecvBlock
<1>3. /\ NodeInv(u) /\ OnlyConfirms(u, s) /\ KeepsIrreversible(u.db, s.db)
      /\ SameRole(u, s) \/ NewTerm(u, s, Term(b))
  BY <1>1, AcceptHeaderInv
<1> HIDE DEF u, s
<1>4. /\ NodeInv(t) /\ SameRole(t, u) /\ OnlyConfirms(t, u) /\ KeepsIrreversible(t.db, u.db)
  BY <1>3, SwitchHeadInv
<1> HIDE DEF t
<1>5. KeepsIrreversible(t.db, s.db)
  BY <1>1, <1>3, <1>4, KeepsTrans, NodeDb DEF NodeInv
<1>6. OnlyConfirms(t, s) /\ (SameRole(t, s) \/ NewTerm(t, s, Term(b)))
  BY <1>3, <1>4 DEF OnlyConfirms, SameRole, NewTerm
<1>7. VoteStep(n, t)
  BY <1>4, <1>6, NoVoteStep DEF s
<1> QED
  BY <1>2, <1>4, <1>5, <1>7 DEF Callback, s

\* The arrival of a confirmation is a callback.
LEMMA RecvConfirmCallback ==
  ASSUME Inv, NEW n \in Producer, NEW m \in msgs, RecvConfirm(n, m)
  PROVE  \E t : Callback(n, t)
<1> DEFINE u == UpdateTerm(n, node[n], m.term)
           v == UpdateMatchIndex(u, m.follower_id, m.head_num)
           t == IF m.term = u.current_term /\ u._state = "leader" THEN v ELSE u
<1>1. m.term \in Nat /\ m.follower_id \in Producer /\ m.head_num \in Nat
  BY MessageFacts DEF Inv, RecvConfirm, ConfirmsBestChain
<1>2. Finish(n, t)
  BY DEF RecvConfirm, CountConfirm
<1>3. /\ NodeInv(u) /\ KeepsIrreversible(u.db, node[n].db)
      /\ OnlyConfirms(u, node[n]) /\ Good(node[n].db) /\ Good(u.db)
      /\ SameRole(u, node[n]) \/ NewTerm(u, node[n], m.term)
  BY <1>1, UpdateTermStep
<1> HIDE DEF u
<1>4. NodeInv(v) /\ SameRole(v, u) /\ v.out = u.out /\ KeepsIrreversible(v.db, u.db)
  BY <1>1, <1>3, UpdateMatchIndexInv
<1> HIDE DEF v
<1>5. NodeInv(t) /\ SameRole(t, u) /\ t.out = u.out
  BY <1>3, <1>4 DEF SameRole
<1>6. KeepsIrreversible(t.db, node[n].db)
  BY <1>3, <1>4, KeepsTrans, NodeDb DEF NodeInv
<1> HIDE DEF t
<1>7. OnlyConfirms(t, node[n]) /\ (SameRole(t, node[n]) \/ NewTerm(t, node[n], m.term))
  BY <1>3, <1>5 DEF OnlyConfirms, SameRole, NewTerm
<1>8. VoteStep(n, t)
  BY <1>5, <1>7, NoVoteStep
<1> QED
  BY <1>2, <1>5, <1>6, <1>8 DEF Callback

\* The arrival of a request for votes is a callback.
LEMMA RecvRequestVoteCallback ==
  ASSUME Inv, NEW n \in Producer, NEW m \in msgs, RecvRequestVote(n, m)
  PROVE  \E t : Callback(n, t)
<1> DEFINE s == node[n]
           u == UpdateTerm(n, s, m.term)
           granted == /\ m.term >= u.current_term
                      /\ u.voted_for \in {NullProducer, m.candidate_id}
                      /\ UpToDate(m, u.db.head)
           voted == IF granted THEN [u EXCEPT !.voted_for = m.candidate_id] ELSE u
           response == RequestVoteResponse(u.current_term, m.candidate_id, n, granted)
           reply == [voted EXCEPT !.out = @ \cup {response}]
           t == IF u._state = "follower" THEN reply ELSE u
<1>1. m.term \in Nat /\ m.candidate_id \in Producer /\ m.candidate_id # NullProducer
  BY MessageFacts, CftAssumption DEF Inv, RecvRequestVote
<1>2. Finish(n, t)
  BY DEF RecvRequestVote, Vote
<1>3. /\ NodeInv(u) /\ KeepsIrreversible(u.db, s.db) /\ OnlyConfirms(u, s) /\ VoteStep(n, u)
      /\ m.term <= u.current_term /\ u.current_term \in Nat
  BY <1>1, UpdateTermStep
<1>4. u.db.head \in Block
  BY <1>3, NodeDb DEF NodeInv
<1> HIDE DEF u, granted
<1>5. CASE u._state # "follower"
  <2>1. t = u
    BY <1>5
  <2> QED
    BY <1>2, <1>3, <2>1 DEF Callback
<1>6. CASE u._state = "follower"
  <2>1. granted \in BOOLEAN
    BY DEF granted
  <2>2. response \in Message
    BY <1>1, <1>3, <1>4, <2>1, MessagesTyped
  <2>3. /\ DOMAIN reply = DOMAIN u /\ reply._state = u._state
        /\ reply.current_term = u.current_term /\ reply.votes_for_me = u.votes_for_me
        /\ reply.match_index = u.match_index /\ reply.db = u.db
        /\ reply.out = u.out \cup {response}
        /\ reply.voted_for = IF granted THEN m.candidate_id ELSE u.voted_for
    BY <1>3 DEF NodeInv, NodeCore, NodeType
  <2>4. /\ response.type = "Vote" /\ response.term = u.current_term
        /\ response.voter_id = n /\ response.candidate_id = m.candidate_id
        /\ response.vote_granted = granted
    BY DEF RequestVoteResponse
  <2>5. granted => u.voted_for \in {NullProducer, m.candidate_id}
    BY DEF granted
  <2> HIDE DEF reply, response
  <2>6. NodeInv(reply)
    BY <1>1, <1>3, <2>2, <2>3 DEF NodeInv, NodeCore, NodeType
  <2>7. VoteStep(n, reply)
    <3>1. node[n].out = {}
      BY DEF Inv
    <3>2. \A k \in reply.out : k.type = "Vote" /\ k.vote_granted =>
            Granted(k, reply.current_term, n, reply.voted_for) /\ reply.voted_for # NullProducer
      BY <1>1, <1>3, <2>3, <2>4, <3>1 DEF Granted, OnlyConfirms
    <3>3. /\ reply.current_term >= s.current_term
          /\ reply.current_term = s.current_term /\ s.voted_for # NullProducer
               => reply.voted_for = s.voted_for
      BY <1>3, <2>3, <2>5 DEF VoteStep
    <3>4. \A p \in reply.votes_for_me :
            \/ reply.current_term = s.current_term /\ p \in s.votes_for_me
            \/ p = n /\ reply.voted_for = n
            \/ \E k \in msgs : Granted(k, reply.current_term, p, n)
      <4>1. u.voted_for = n => reply.voted_for = n
        BY CftAssumption, <1>1, <2>3, <2>5
      <4> QED
        BY <1>3, <2>3, <4>1 DEF VoteStep
    <3> QED
      BY <1>3, <1>6, <2>3, <3>2, <3>3, <3>4 DEF VoteStep
  <2>8. t = reply
    BY <1>6
  <2> HIDE DEF t
  <2>9. KeepsIrreversible(t.db, node[n].db)
    BY <1>3, <2>3, <2>8
  <2> QED
    BY <1>2, <2>6, <2>7, <2>8, <2>9 DEF Callback
<1> QED
  BY <1>5, <1>6

\* The arrival of a vote is a callback.
LEMMA RecvVoteCallback ==
  ASSUME Inv, NEW n \in Producer, NEW m \in msgs, RecvVote(n, m)
  PROVE  \E t : Callback(n, t)
<1> DEFINE s == node[n]
           u == UpdateTerm(n, s, m.term)
           v == [u EXCEPT !.votes_for_me = @ \cup {m.voter_id}]
           w == CheckVotes(v)
           counts == m.term = u.current_term /\ m.vote_granted /\ u._state = "candidate"
           t == IF counts THEN w ELSE u
<1>1. m.term \in Nat /\ m.voter_id \in Producer /\ m.type = "Vote" /\ m.candidate_id = n
  BY MessageFacts DEF Inv, RecvVote
<1>2. Finish(n, t)
  BY DEF RecvVote, CountVote
<1>3. /\ NodeInv(u) /\ KeepsIrreversible(u.db, s.db) /\ OnlyConfirms(u, s) /\ VoteStep(n, u)
      /\ m.term <= u.current_term /\ u.current_term \in Nat /\ Good(u.db) /\ Good(s.db)
  BY <1>1, UpdateTermStep
<1> HIDE DEF u
<1>4. CASE ~counts
  BY <1>2, <1>3, <1>4 DEF Callback
<1>5. CASE counts
  <2>1. /\ DOMAIN v = DOMAIN u /\ v._state = u._state /\ v.current_term = u.current_term
        /\ v.voted_for = u.voted_for /\ v.votes_for_me = u.votes_for_me \cup {m.voter_id}
        /\ v.match_index = u.match_index /\ v.db = u.db /\ v.out = u.out
    BY <1>3 DEF NodeInv, NodeCore, NodeType
  <2> HIDE DEF v
  <2>2. NodeInv(v)
    BY <1>1, <1>3, <2>1 DEF NodeInv, NodeCore, NodeType
  <2>3. /\ NodeInv(w) /\ w.out = v.out
        /\ w.current_term = v.current_term /\ w.voted_for = v.voted_for
        /\ w.votes_for_me = v.votes_for_me
        /\ w.db.head = v.db.head /\ w.db.commitIndex = v.db.commitIndex
        /\ \/ w._state = v._state
           \/ w._state = "leader" /\ IsQuorum("cft", w.votes_for_me, Producer)
    BY <2>2, CheckVotesInv
  <2> HIDE DEF w
  <2>4. t = w
    BY <1>5
  <2>5. Granted(m, w.current_term, m.voter_id, n)
    BY <1>1, <1>5, <2>1, <2>3 DEF Granted
  <2>6. VoteStep(n, w)
    <3>1. u._state = "candidate" /\ (w._state = "leader" => IsQuorum("cft", w.votes_for_me, Producer))
      BY <1>5, <2>1, <2>3
    <3>2. \A p \in w.votes_for_me :
            \/ w.current_term = s.current_term /\ p \in s.votes_for_me
            \/ p = n /\ w.voted_for = n
            \/ \E k \in msgs : Granted(k, w.current_term, p, n)
      BY <1>3, <2>1, <2>3, <2>5 DEF VoteStep
    <3> QED
      BY <1>3, <2>1, <2>3, <3>1, <3>2 DEF VoteStep
  <2>7. KeepsIrreversible(w.db, s.db)
    BY <1>3, <2>1, <2>3 DEF KeepsIrreversible
  <2> QED
    BY <1>2, <2>3, <2>4, <2>6, <2>7 DEF Callback
<1> QED
  BY <1>4, <1>5

\* A step of the system is a callback of one node, in which a block may be produced,
\* or a restart.
LEMMA NextIsCallback ==
  ASSUME Inv, Next
  PROVE  \E n \in Producer :
           \/ Restart(n)
           \/ /\ \E t : Callback(n, t)
              /\ elections' \in Nat
              /\ \/ produced' = produced
                 \/ \E b \in Block :
                      /\ produced' = produced \cup {b}
                      /\ node[n]._state = "leader"
                      /\ Term(b) = node[n].current_term /\ b[Len(b)].producer = n
<1> USE DEF Inv
<1>1. PICK n \in Producer :
        \/ ElectionTimeout(n) \/ ProduceBlock(n) \/ ProduceFails(n)
        \/ \E b \in produced : RecvBlock(n, b)
        \/ \E m \in msgs : RecvConfirm(n, m)
        \/ \E m \in msgs : RecvRequestVote(n, m)
        \/ \E m \in msgs : RecvVote(n, m)
        \/ Restart(n)
  BY DEF Next
<1>2. CASE ElectionTimeout(n)
  BY <1>2, ElectionTimeoutCallback DEF ElectionTimeout
<1>3. CASE ProduceBlock(n)
  BY <1>3, ProduceBlockCallback DEF ProduceBlock
<1>4. CASE ProduceFails(n)
  BY <1>4, ProduceFailsCallback DEF ProduceFails
<1>5. CASE \E b \in produced : RecvBlock(n, b)
  BY <1>5, RecvBlockCallback DEF RecvBlock
<1>6. CASE \E m \in msgs : RecvConfirm(n, m)
  BY <1>6, RecvConfirmCallback DEF RecvConfirm
<1>7. CASE \E m \in msgs : RecvRequestVote(n, m)
  BY <1>7, RecvRequestVoteCallback DEF RecvRequestVote
<1>8. CASE \E m \in msgs : RecvVote(n, m)
  BY <1>8, RecvVoteCallback DEF RecvVote
<1>9. CASE Restart(n)
  BY <1>9
<1> QED
  BY <1>1, <1>2, <1>3, <1>4, <1>5, <1>6, <1>7, <1>8, <1>9

-----------------------------------------------------------------------------
\* Sending the messages of a callback changes nothing else in the node.
LEMMA ClearOut ==
  ASSUME NEW t, NodeInv(t)
  PROVE  LET u == [t EXCEPT !.out = {}]
         IN  NodeInv(u) /\ SameRole(u, t) /\ u.db = t.db /\ u.out = {}
<1> DEFINE u == [t EXCEPT !.out = {}]
<1>1. /\ DOMAIN u = DOMAIN t /\ u._state = t._state /\ u.current_term = t.current_term
      /\ u.voted_for = t.voted_for /\ u.votes_for_me = t.votes_for_me
      /\ u.match_index = t.match_index /\ u.db = t.db /\ u.out = {}
  BY DEF NodeInv, NodeCore, NodeType
<1> HIDE DEF u
<1> QED
  BY <1>1 DEF NodeInv, NodeCore, NodeType, SameRole, u

\* The first block is a block.
LEMMA FirstIsBlock == FirstBlock \in Block
<1> DEFINE h == [term |-> 0, producer |-> NullProducer, commitNum |-> 1, valid |-> TRUE]
<1>1. h \in Header(Nat, Nat, Nat) /\ h.commitNum = 1
  BY DEF Header, NullProducer
<1> HIDE DEF h
<1>2. <<h>> \in Seq(Header(Nat, Nat, Nat)) /\ Len(<<h>>) = 1 /\ <<h>>[1] = h /\ <<h>> # <<>>
  BY <1>1
<1>3. <<h>> \in Block
  BY <1>1, <1>2 DEF Block
<1> QED
  BY <1>3 DEF FirstBlock, h

\* The initial state satisfies the invariant.
LEMMA InitInv == Init => Inv
<1> SUFFICES ASSUME Init PROVE Inv
  OBVIOUS
<1>1. Good(NewDb(FirstBlock)) /\ NewDb(FirstBlock).blockContext = NoBlock
  BY FirstIsBlock, NewDbGood
<1>2. NodeInv(NewNode(NewDb(FirstBlock))) /\ NewNode(NewDb(FirstBlock)).out = {}
  BY <1>1, NewNodeInv
<1> QED
  BY <1>2 DEF Init, Inv

\* The node that runs a callback is in the state the callback leaves it in; the
\* others do not move.
LEMMA CallbackInv ==
  ASSUME Inv, NEW n \in Producer, NEW t, Callback(n, t), elections' \in Nat,
         produced' \subseteq Block
  PROVE  /\ Inv'
         /\ SameRole(node'[n], t) /\ node'[n].db = t.db
         /\ \A k \in Producer \ {n} : node'[k] = node[k]
         /\ restarts' = restarts
<1> DEFINE u == [t EXCEPT !.out = {}]
<1>1. NodeInv(u) /\ SameRole(u, t) /\ u.db = t.db /\ u.out = {}
  BY ClearOut DEF Callback
<1>2. /\ DOMAIN node' = Producer /\ node'[n] = u
      /\ \A k \in Producer \ {n} : node'[k] = node[k]
      /\ restarts' = restarts /\ msgs' = msgs \cup t.out
      /\ ballots' = ballots \cup
           (IF t.voted_for = NullProducer THEN {} ELSE {<<t.current_term, n, t.voted_for>>})
  BY DEF Callback, Finish, Inv
<1> HIDE DEF u
<1>3. msgs' \subseteq Message
  BY <1>2 DEF Inv, Callback, NodeInv, NodeCore, NodeType
<1>4. ballots' \subseteq Nat \X Producer \X Producer
  <2>1. t.current_term \in Nat /\ t.voted_for \in Producer \cup {NullProducer}
    BY DEF Callback, NodeInv, NodeCore, NodeType
  <2> QED
    BY <1>2, <2>1 DEF Inv
<1>5. \A k \in Producer : NodeInv(node'[k]) /\ node'[k].out = {}
  BY <1>1, <1>2 DEF Inv
<1> QED
  BY <1>1, <1>2, <1>3, <1>4, <1>5 DEF Inv

\* A restart keeps the irreversible blocks.
LEMMA RestartInv ==
  ASSUME Inv, NEW n \in Producer, Restart(n)
  PROVE  /\ Inv'
         /\ IsAncestor(Ancestor(node[n].db.head, node[n].db.commitIndex), node'[n].db.head)
         /\ \A k \in Producer \ {n} : node'[k] = node[k]
         /\ restarts' = restarts + 1
<1> DEFINE d == Reload(node[n].db)
           u == NewNode(d)
<1>1. Good(node[n].db)
  BY NodeDb DEF Inv, NodeInv
<1>2. /\ Good(d) /\ d.blockContext = NoBlock
      /\ IsAncestor(Ancestor(node[n].db.head, node[n].db.commitIndex), d.head)
  BY <1>1, ReloadGood
<1>3. NodeInv(u) /\ u.out = {} /\ u.db = d
  BY <1>2, NewNodeInv
<1>4. /\ DOMAIN node' = Producer /\ node'[n] = u
      /\ \A k \in Producer \ {n} : node'[k] = node[k]
      /\ restarts' = restarts + 1
      /\ UNCHANGED <<msgs, produced, ballots, elections>>
  BY DEF Restart, Inv
<1> HIDE DEF d, u
<1>5. \A k \in Producer : NodeInv(node'[k]) /\ node'[k].out = {}
  BY <1>3, <1>4 DEF Inv
<1>6. Inv'
  BY <1>4, <1>5 DEF Inv
<1> QED
  BY <1>2, <1>3, <1>4, <1>6

\* The invariant is inductive, and no step forks out an irreversible block.
LEMMA NextInv ==
  ASSUME Inv, [Next]_vars
  PROVE  /\ Inv'
         /\ \A k \in Producer :
              /\ IsAncestor(Ancestor(node[k].db.head, node[k].db.commitIndex), node'[k].db.head)
              /\ restarts' = restarts => node'[k].db.commitIndex >= node[k].db.commitIndex
<1>1. \A k \in Producer :
        /\ IsAncestor(Ancestor(node[k].db.head, node[k].db.commitIndex), node[k].db.head)
        /\ node[k].db.commitIndex \in Nat
  BY NodeDb, IsAncestorOfBlock DEF Inv, NodeInv
<1>2. CASE UNCHANGED vars
  BY <1>1, <1>2 DEF vars, Inv
<1>3. CASE Next
  <2>1. PICK n \in Producer :
          \/ Restart(n)
          \/ /\ \E t : Callback(n, t)
             /\ elections' \in Nat
             /\ \/ produced' = produced
                \/ \E b \in Block :
                     /\ produced' = produced \cup {b}
                     /\ node[n]._state = "leader"
                     /\ Term(b) = node[n].current_term /\ b[Len(b)].producer = n
    BY <1>3, NextIsCallback
  <2>2. CASE Restart(n)
    <3>1. restarts \in Nat
      BY DEF Inv
    <3> QED
      BY <1>1, <2>2, <3>1, RestartInv
  <2>3. CASE ~Restart(n)
    <3>1. PICK t : Callback(n, t)
      BY <2>1, <2>3
    <3>2. elections' \in Nat /\ produced' \subseteq Block
      BY <2>1, <2>3 DEF Inv
    <3>3. /\ Inv' /\ node'[n].db = t.db
          /\ \A k \in Producer \ {n} : node'[k] = node[k]
      BY <3>1, <3>2, CallbackInv
    <3>4. KeepsIrreversible(t.db, node[n].db)
      BY <3>1 DEF Callback
    <3> QED
      BY <1>1, <3>3, <3>4 DEF KeepsIrreversible
  <2> QED
    BY <2>2, <2>3
<1> QED
  BY <1>2, <1>3

\* The states of all nodes, the messages and the votes have their types, and the
\* index of every node is the chain of its head: for any number of producers, any
\* message order and loss, and any restarts.
THEOREM TypeCorrect == Spec => []TypeOK
<1>1. Init => Inv
  BY InitInv
<1>2. Inv /\ [Next]_vars => Inv'
  BY NextInv
<1>3. Inv => TypeOK
  BY DEF Inv, TypeOK, NodeInv, NodeCore
<1> QED
  BY <1>1, <1>2, <1>3, PTL DEF Spec

\* A node has a pending block exactly as long as it is the leader, of its term and on
\* top of its head.
THEOREM PendingBlock == Spec => []ActiveBlockIffLeader
<1>1. Init => Inv
  BY InitInv
<1>2. Inv /\ [Next]_vars => Inv'
  BY NextInv
<1>3. Inv => ActiveBlockIffLeader
  BY DEF Inv, ActiveBlockIffLeader, NodeInv, Running
<1> QED
  BY <1>1, <1>2, <1>3, PTL DEF Spec

\* No step, not even a restart, takes an irreversible block out of a node's best chain.
THEOREM IrreversibleIsKept == Spec => IrreversibleStays
<1>1. Init => Inv
  BY InitInv
<1>2. Inv /\ [Next]_vars => Inv'
  BY NextInv
<1>3. Inv /\ [Next]_vars =>
        [\A n \in Producer :
           /\ IsAncestor(Committed(n), node'[n].db.head)
           /\ restarts' = restarts => node'[n].db.commitIndex >= node[n].db.commitIndex]_vars
  BY NextInv DEF Committed
<1> QED
  BY <1>1, <1>2, <1>3, PTL DEF Spec, IrreversibleStays

-----------------------------------------------------------------------------
(***************************************************************************)
(* Election safety, which only holds as long as no node is restarted:      *)
(* voted_for is not durable.                                               *)
(***************************************************************************)
\* A voter remembers its last vote.
VotesRemembered ==
  \A b \in ballots :
    /\ b[1] <= node[b[2]].current_term
    /\ b[1] = node[b[2]].current_term => node[b[2]].voted_for = b[3]

VotesOnce == \A b, c \in ballots : b[1] = c[1] /\ b[2] = c[2] => b[3] = c[3]

VotesSent ==
  \A m \in msgs : m.type = "Vote" /\ m.vote_granted =>
    <<m.term, m.voter_id, m.candidate_id>> \in ballots

VotesCounted ==
  \A n \in Producer : \A p \in node[n].votes_for_me :
    <<node[n].current_term, p, n>> \in ballots

\* A quorum has voted for producer n in a term.
Elected(term, n) ==
  \E Q \in SUBSET Producer :
    IsQuorum("cft", Q, Producer) /\ \A p \in Q : <<term, p, n>> \in ballots

LeadersElected ==
  \A n \in Producer : node[n]._state = "leader" =>
    IsQuorum("cft", node[n].votes_for_me, Producer)

ProducersElected ==
  \A b \in produced : Elected(Term(b), b[Len(b)].producer)

ElectionInv ==
  /\ VotesRemembered /\ VotesOnce /\ VotesSent /\ VotesCounted
  /\ LeadersElected /\ ProducersElected

\* A callback casts at most one vote per term and counts only votes that were cast.
LEMMA CallbackElection ==
  ASSUME Inv, ElectionInv, NEW n \in Producer, NEW t, Callback(n, t), elections' \in Nat,
         \/ produced' = produced
         \/ \E b \in Block :
              /\ produced' = produced \cup {b}
              /\ node[n]._state = "leader"
              /\ Term(b) = node[n].current_term /\ b[Len(b)].producer = n
  PROVE  ElectionInv'
<1> DEFINE new == IF t.voted_for = NullProducer THEN {} ELSE {<<t.current_term, n, t.voted_for>>}
           s == node[n]
<1>1. /\ SameRole(node'[n], t) /\ \A k \in Producer \ {n} : node'[k] = node[k]
  <2>1. produced' \subseteq Block
    BY DEF Inv
  <2> QED
    BY <2>1, CallbackInv
<1>2. msgs' = msgs \cup t.out /\ ballots' = ballots \cup new
  BY DEF Callback, Finish
<1>3. \A b \in ballots : b[1] \in Nat /\ b[2] \in Producer /\ b[3] \in Producer
  BY DEF Inv
<1>4. /\ s.current_term \in Nat /\ t.current_term \in Nat
      /\ s.voted_for \in Producer \cup {NullProducer} /\ NullProducer \notin Producer
  BY CftAssumption DEF Inv, Callback, NodeInv, NodeCore, NodeType
<1>5. VoteStep(n, t)
  BY DEF Callback
<1>6. \A b \in ballots : b[2] = n =>
        /\ b[1] <= t.current_term
        /\ b[1] = t.current_term => t.voted_for = b[3]
  <2> SUFFICES ASSUME NEW b \in ballots, b[2] = n
               PROVE  /\ b[1] <= t.current_term
                      /\ b[1] = t.current_term => t.voted_for = b[3]
    OBVIOUS
  <2>1. b[1] <= s.current_term /\ (b[1] = s.current_term => s.voted_for = b[3])
    BY DEF ElectionInv, VotesRemembered
  <2>2. b[1] \in Nat /\ b[3] \in Producer
    BY <1>3
  <2>3. t.current_term >= s.current_term
    BY <1>5 DEF VoteStep
  <2>4. t.current_term = s.current_term /\ s.voted_for # NullProducer => t.voted_for = s.voted_for
    BY <1>5 DEF VoteStep
  <2> QED
    BY <1>4, <2>1, <2>2, <2>3, <2>4
<1>7. \A b \in new : b[1] = t.current_term /\ b[2] = n /\ b[3] = t.voted_for
  OBVIOUS
<1> HIDE DEF new
<1>8. VotesRemembered'
  <2> SUFFICES ASSUME NEW b \in ballots'
               PROVE  /\ b[1] <= node'[b[2]].current_term
                      /\ b[1] = node'[b[2]].current_term => node'[b[2]].voted_for = b[3]
    BY DEF VotesRemembered
  <2>1. CASE b \in ballots
    <3>1. CASE b[2] = n
      BY <1>1, <1>6, <2>1, <3>1 DEF SameRole
    <3>2. CASE b[2] # n
      <4>1. node'[b[2]] = node[b[2]]
        BY <1>1, <1>3, <2>1, <3>2
      <4> QED
        BY <2>1, <4>1 DEF ElectionInv, VotesRemembered
    <3> QED
      BY <3>1, <3>2
  <2>2. CASE b \in new
    BY <1>1, <1>4, <1>7, <2>2 DEF SameRole
  <2> QED
    BY <1>2, <2>1, <2>2
<1>9. VotesOnce'
  <2> SUFFICES ASSUME NEW b \in ballots', NEW c \in ballots', b[1] = c[1], b[2] = c[2]
               PROVE  b[3] = c[3]
    BY DEF VotesOnce
  <2>1. CASE b \in ballots /\ c \in ballots
    BY <2>1 DEF ElectionInv, VotesOnce
  <2>2. CASE b \in new \/ c \in new
    BY <1>2, <1>6, <1>7, <2>2
  <2> QED
    BY <1>2, <2>1, <2>2
<1>10. VotesSent'
  <2> SUFFICES ASSUME NEW m \in msgs', m.type = "Vote", m.vote_granted
               PROVE  <<m.term, m.voter_id, m.candidate_id>> \in ballots'
    BY DEF VotesSent
  <2>1. CASE m \in msgs
    BY <1>2, <2>1 DEF ElectionInv, VotesSent
  <2>2. CASE m \in t.out
    BY <1>2, <1>5, <2>2 DEF VoteStep, Granted, new
  <2> QED
    BY <1>2, <2>1, <2>2
<1>11. \A p \in t.votes_for_me : <<t.current_term, p, n>> \in ballots'
  <2> SUFFICES ASSUME NEW p \in t.votes_for_me
               PROVE  <<t.current_term, p, n>> \in ballots'
    OBVIOUS
  <2>1. CASE t.current_term = s.current_term /\ p \in s.votes_for_me
    BY <1>2, <2>1 DEF ElectionInv, VotesCounted
  <2>2. CASE p = n /\ t.voted_for = n
    BY <1>2, <1>4, <2>2 DEF new
  <2>3. CASE \E m \in msgs : Granted(m, t.current_term, p, n)
    BY <1>2, <2>3 DEF Granted, ElectionInv, VotesSent
  <2> QED
    BY <1>5, <2>1, <2>2, <2>3 DEF VoteStep
<1>12. VotesCounted'
  <2> SUFFICES ASSUME NEW k \in Producer, NEW p \in node'[k].votes_for_me
               PROVE  <<node'[k].current_term, p, k>> \in ballots'
    BY DEF VotesCounted
  <2>1. CASE k = n
    BY <1>1, <1>11, <2>1 DEF SameRole
  <2>2. CASE k # n
    BY <1>1, <1>2, <2>2 DEF ElectionInv, VotesCounted
  <2> QED
    BY <2>1, <2>2
<1>13. LeadersElected'
  <2> SUFFICES ASSUME NEW k \in Producer, node'[k]._state = "leader"
               PROVE  IsQuorum("cft", node'[k].votes_for_me, Producer)
    BY DEF LeadersElected
  <2>1. CASE k = n
    BY <1>1, <1>5, <2>1 DEF SameRole, VoteStep, ElectionInv, LeadersElected
  <2>2. CASE k # n
    BY <1>1, <2>2 DEF ElectionInv, LeadersElected
  <2> QED
    BY <2>1, <2>2
<1>14. ProducersElected'
  <2> SUFFICES ASSUME NEW b \in produced'
               PROVE  \E Q \in SUBSET Producer :
                        /\ IsQuorum("cft", Q, Producer)
                        /\ \A p \in Q : <<Term(b), p, b[Len(b)].producer>> \in ballots'
    BY DEF ProducersElected, Elected
  <2>1. CASE b \in produced
    BY <1>2, <2>1 DEF ElectionInv, ProducersElected, Elected
  <2>2. CASE b \notin produced
    <3>1. s._state = "leader" /\ Term(b) = s.current_term /\ b[Len(b)].producer = n
      BY <2>2
    <3>2. IsQuorum("cft", s.votes_for_me, Producer)
      BY <3>1 DEF ElectionInv, LeadersElected
    <3>3. \A p \in s.votes_for_me : <<Term(b), p, b[Len(b)].producer>> \in ballots'
      BY <1>2, <3>1 DEF ElectionInv, VotesCounted
    <3>4. s.votes_for_me \in SUBSET Producer
      BY <3>2 DEF IsQuorum
    <3> QED
      BY <3>2, <3>3, <3>4
  <2> QED
    BY <2>1, <2>2
<1> QED
  BY <1>8, <1>9, <1>10, <1>12, <1>13, <1>14 DEF ElectionInv

\* Two quorums of a term share a voter, who voted once.
LEMMA ElectedOnce ==
  ASSUME VotesOnce, NEW term, NEW n, NEW m, Elected(term, n), Elected(term, m)
  PROVE  n = m
<1>1. PICK Q \in SUBSET Producer :
        IsQuorum("cft", Q, Producer) /\ \A p \in Q : <<term, p, n>> \in ballots
  BY DEF Elected
<1>2. PICK R \in SUBSET Producer :
        IsQuorum("cft", R, Producer) /\ \A p \in R : <<term, p, m>> \in ballots
  BY DEF Elected
<1>3. PICK p : p \in Q /\ p \in R
  BY <1>1, <1>2, CftAssumption, CftQuorumsIntersect
<1> QED
  BY <1>1, <1>2, <1>3 DEF VotesOnce

\* The election invariant implies election safety.
LEMMA ElectionInvSafe == ElectionInv => ElectionSafety
<1> SUFFICES ASSUME ElectionInv PROVE ElectionSafety
  OBVIOUS
<1>1. VotesOnce
  BY DEF ElectionInv
<1>2. ASSUME NEW n \in Producer, node[n]._state = "leader"
      PROVE  Elected(node[n].current_term, n)
  <2>1. /\ IsQuorum("cft", node[n].votes_for_me, Producer)
        /\ \A p \in node[n].votes_for_me : <<node[n].current_term, p, n>> \in ballots
    BY <1>2 DEF ElectionInv, LeadersElected, VotesCounted
  <2>2. node[n].votes_for_me \in SUBSET Producer
    BY <2>1 DEF IsQuorum
  <2> QED
    BY <2>1, <2>2 DEF Elected
<1>3. ASSUME NEW n \in Producer, NEW m \in Producer,
             node[n]._state = "leader", node[m]._state = "leader",
             node[n].current_term = node[m].current_term
      PROVE  n = m
  BY <1>1, <1>2, <1>3, ElectedOnce
<1>4. ASSUME NEW b \in produced, NEW c \in produced, Term(b) = Term(c)
      PROVE  b[Len(b)].producer = c[Len(c)].producer
  <2>1. Elected(Term(b), b[Len(b)].producer) /\ Elected(Term(b), c[Len(c)].producer)
    BY <1>4 DEF ElectionInv, ProducersElected
  <2> QED
    BY <1>1, <2>1, ElectedOnce
<1> QED
  BY <1>3, <1>4 DEF ElectionSafety

\* No vote has been cast at the start.
LEMMA InitElection == Init => ElectionInv
  BY DEF Init, ElectionInv, VotesRemembered, VotesOnce, VotesSent, VotesCounted,
         LeadersElected, ProducersElected, NewNode

\* Without restarts the election invariant is inductive.
LEMMA NextElection ==
  ASSUME MaxRestarts = 0, Inv, ElectionInv, [Next]_vars
  PROVE  Inv' /\ ElectionInv'
<1>1. Inv'
  BY NextInv
<1>2. CASE UNCHANGED vars
  BY <1>1, <1>2
  DEF vars, ElectionInv, VotesRemembered, VotesOnce, VotesSent, VotesCounted,
      LeadersElected, ProducersElected, Elected
<1>3. CASE Next
  <2>1. \A n \in Producer : ~Restart(n)
    BY DEF Inv, Restart
  <2>2. ElectionInv'
    BY <1>3, <2>1, NextIsCallback, CallbackElection
  <2> QED
    BY <1>1, <2>2
<1> QED
  BY <1>2, <1>3

\* Without restarts there is at most one leader per term, and all blocks of a term are
\* by the same producer, for any number of producers and whatever the network does.
THEOREM OneLeaderPerTerm ==
  ASSUME MaxRestarts = 0
  PROVE  Spec => []ElectionSafety
<1>1. Init => Inv /\ ElectionInv
  BY InitInv, InitElection
<1>2. Inv /\ ElectionInv /\ [Next]_vars => Inv' /\ ElectionInv'
  BY NextElection
<1>3. ElectionInv => ElectionSafety
  BY ElectionInvSafe
<1> QED
  BY <1>1, <1>2, <1>3, PTL DEF Spec
=============================================================================
