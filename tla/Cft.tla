--------------------------------- MODULE Cft ---------------------------------
(***************************************************************************)
(* The crash fault tolerant consensus algorithm (basic_cft_consensus) on   *)
(* top of the block network (blocknet) and of one fork database per node,  *)
(* for a fixed set of more than one producer.                              *)
(*                                                                         *)
(* Each action is one callback: the election timer, the block timer, or a  *)
(* message.  A callback runs to its end before the next one of the same    *)
(* node, including the fork switch and the messages it sends.  The network *)
(* loses, duplicates, delays and reorders messages: msgs holds everything  *)
(* that was ever sent, and a node may handle any of it at any time.        *)
(* Timers may fire at any time.                                            *)
(***************************************************************************)
EXTENDS ForkDb, ProducerSet

CONSTANTS
  Producer,     \* the active producers, positive numbers
  Candidate,    \* bound: the producers whose election timer may fire
  MaxNum,       \* bound on block numbers
  MaxElections, \* bound on the number of times an election timer fires
  MaxRestarts,  \* bound on the number of times a node is restarted
  WritesFail    \* whether writing a produced block to the database may fail

NullProducer == 0

ASSUME CftAssumption ==
  /\ Producer \subseteq Nat \ {NullProducer}
  /\ IsFiniteSet(Producer) /\ Cardinality(Producer) > 1
  /\ Candidate \subseteq Producer
  /\ {MaxNum, MaxElections, MaxRestarts} \subseteq Nat
  /\ WritesFail \in BOOLEAN

VARIABLES
  node,      \* the state of every node
  msgs,      \* all consensus messages ever sent
  produced,  \* all blocks ever produced, hence all BlockMessages ever sent
  ballots,   \* history: every vote ever cast
  elections, \* how often an election timer fired
  restarts   \* how often a node was restarted

vars == <<node, msgs, produced, ballots, elections, restarts>>

-----------------------------------------------------------------------------
(***************************************************************************)
(* Messages.                                                               *)
(***************************************************************************)
ConfirmMessage(term, follower, num, to) ==
  [type |-> "Confirm", term |-> term, follower_id |-> follower, head_num |-> num, to |-> to]

RequestVoteRequest(term, candidate, head) ==
  [type |-> "RequestVote", term |-> term, candidate_id |-> candidate,
   last_log_index |-> BlockNum(head), last_log_term |-> Term(head)]

RequestVoteResponse(term, candidate, voter, granted) ==
  [type |-> "Vote", term |-> term, candidate_id |-> candidate, voter_id |-> voter,
   vote_granted |-> granted]

-----------------------------------------------------------------------------
(***************************************************************************)
(* The state of a node.  out collects what the running callback sends.     *)
(***************************************************************************)
FirstBlock ==
  <<[term |-> 0, producer |-> NullProducer, commitNum |-> 1, valid |-> TRUE]>>

NoMatch == [p \in Producer |-> 0]

NewNode(db) ==
  [_state       |-> "follower",
   current_term |-> db.currentTerm,
   voted_for    |-> NullProducer,
   votes_for_me |-> {},
   match_index  |-> NoMatch,
   db           |-> db,
   out          |-> {}]

Init ==
  /\ node = [n \in Producer |-> NewNode(NewDb(FirstBlock))]
  /\ msgs = {}
  /\ produced = {}
  /\ ballots = {}
  /\ elections = 0
  /\ restarts = 0

-----------------------------------------------------------------------------
(***************************************************************************)
(* blocknet::start_leader and stop_leader.                                 *)
(***************************************************************************)
StartLeader(s) == [s EXCEPT !.db = StartBlock(@, s.current_term)]

\* Mutation: the pending block is not aborted.
KeepLeader(s) == s

StopLeader(s) == IF s._state = "leader" THEN [s EXCEPT !.db = AbortBlock(@)] ELSE s

(***************************************************************************)
(* on_fork_switch: a follower confirms a new head of the current term.     *)
(***************************************************************************)
OnForkSwitch(n, s) ==
  LET head == s.db.head
  IN  IF /\ s._state = "follower"
         /\ Term(head) = s.current_term
         /\ BlockNum(head) > s.db.commitIndex
        THEN [s EXCEPT !.out = @ \cup {ConfirmMessage(s.current_term, n, BlockNum(head),
                                                      head[Len(head)].producer)}]
        ELSE s

(***************************************************************************)
(* blocknet::switch_fork with its callback (reset_producers, on_fork_switch*)
(* and do_gc).  No block of a correct producer fails to execute, so the    *)
(* loop of async_switch_fork ends with its first iteration.                *)
(***************************************************************************)
ResetLeader(t) == IF t._state = "leader" THEN StartLeader(StopLeader(t)) ELSE t

AfterSwitch(n, s, t) ==
  IF t.db.failed \/ t.db.head = s.db.head THEN t
  ELSE [OnForkSwitch(n, ResetLeader(t)) EXCEPT !.db = Gc(@)]

SwitchHead(n, s) == AfterSwitch(n, s, [s EXCEPT !.db = SwitchOnce(@, @.head).db])

(***************************************************************************)
(* update_term, which every handler runs first.                            *)
(***************************************************************************)
UpdateTerm(n, s, term) ==
  LET t == [s EXCEPT !.votes_for_me = {}, !.current_term = term,
                     !.db.currentTerm = term, !.voted_for = NullProducer]
      follower == [StopLeader(t) EXCEPT !.match_index = NoMatch, !._state = "follower"]
  IN  IF term <= s.current_term THEN s
      ELSE IF s._state = "leader" THEN SwitchHead(n, follower)
      ELSE IF s._state = "candidate" THEN [t EXCEPT !._state = "follower"]
      ELSE t

(***************************************************************************)
(* check_votes: a candidate with a majority becomes the leader.            *)
(***************************************************************************)
\* Mutation: half of the votes, rounded down, are enough.
CheckVotesOffByOne(s) ==
  IF Cardinality(s.votes_for_me) >= Cardinality(Producer) \div 2
    THEN StartLeader([s EXCEPT !._state = "leader", !.match_index = NoMatch])
    ELSE s

CheckVotes(s) ==
  IF Cardinality(s.votes_for_me) > Cardinality(Producer) \div 2
    THEN StartLeader([s EXCEPT !._state = "leader", !.match_index = NoMatch])
    ELSE s

(***************************************************************************)
(* update_match_index: the largest number that a quorum has confirmed is   *)
(* irreversible.                                                           *)
(***************************************************************************)
\* Mutations: one confirmation is enough, or all are needed (the wrong end of match).
ConfirmedByOne(match) == CHOOSE k \in {match[p] : p \in Producer} : \A p \in Producer : match[p] <= k
ConfirmedByAll(match) == CHOOSE k \in {match[p] : p \in Producer} : \A p \in Producer : match[p] >= k

ConfirmedNum(match) ==
  LET confirms(k) == {p \in Producer : match[p] >= k}
  IN  CHOOSE k \in {match[p] : p \in Producer} :
        /\ IsQuorum("cft", confirms(k), Producer)
        /\ \A p \in Producer : match[p] > k => ~IsQuorum("cft", confirms(match[p]), Producer)

UpdateMatchIndex(s, p, num) ==
  LET match == [s.match_index EXCEPT ![p] = IF num > @ THEN num ELSE @]
  IN  [s EXCEPT !.match_index = match, !.db = Commit(@, ConfirmedNum(match))]

-----------------------------------------------------------------------------
(***************************************************************************)
(* The end of a callback of node n that leaves it in state s.              *)
(***************************************************************************)
Finish(n, s) ==
  /\ node' = [node EXCEPT ![n] = [s EXCEPT !.out = {}]]
  /\ msgs' = msgs \cup s.out
  /\ ballots' = ballots \cup
       (IF s.voted_for = NullProducer THEN {} ELSE {<<s.current_term, n, s.voted_for>>})
  /\ UNCHANGED restarts

Running(n) == ~node[n].db.failed

(***************************************************************************)
(* The election timer: a leader stops producing; everybody starts an       *)
(* election (request_vote).                                                *)
(***************************************************************************)
\* Mutation: the fork database is not told the new term (setTerm).
RequestVoteForgetsTerm(n, s) ==
  LET term == s.current_term + 1
  IN  CheckVotes([s EXCEPT !.current_term = term, !.voted_for = n, !.votes_for_me = {n},
        !._state = "candidate", !.out = @ \cup {RequestVoteRequest(term, n, s.db.head)}])

RequestVote(n, s) ==
  LET term == s.current_term + 1
      t == [s EXCEPT !.current_term = term, !.db.currentTerm = term, !.voted_for = n,
                     !.votes_for_me = {n}, !._state = "candidate",
                     !.out = @ \cup {RequestVoteRequest(term, n, s.db.head)}]
  IN  CheckVotes(t)

ElectionTimeout(n) ==
  /\ Running(n)
  /\ n \in Candidate /\ elections < MaxElections
  /\ Finish(n, RequestVote(n, StopLeader(node[n])))
  /\ elections' = elections + 1
  /\ UNCHANGED produced

(***************************************************************************)
(* The block timer of a leader: finish_block, start_leader,                *)
(* on_produce_block, on_fork_switch and do_gc.                             *)
(***************************************************************************)
ProduceBlock(n) ==
  LET s == node[n]
      started == StartLeader([s EXCEPT !.db = FinishBlock(@, n)])
      matched == UpdateMatchIndex(started, n, BlockNum(started.db.head))
  IN  /\ Running(n)
      /\ s._state = "leader"
      /\ BlockNum(s.db.head) < MaxNum
      /\ Finish(n, [matched EXCEPT !.db = Gc(@)])
      /\ produced' = produced \cup {FinishedBlock(s.db, n)}
      /\ UNCHANGED elections

\* Writing the block fails: finish_block drops it and the leader starts another one.
ProduceFails(n) ==
  /\ WritesFail
  /\ Running(n)
  /\ node[n]._state = "leader"
  /\ Finish(n, StartLeader([node[n] EXCEPT !.db = AbortBlock(@)]))
  /\ UNCHANGED <<produced, elections>>

(***************************************************************************)
(* recv(BlockMessage): insert, on_accept_block_header, switch_fork.  A     *)
(* block whose predecessor is not known yet is dropped.                    *)
(***************************************************************************)
FollowCommitNum(t, b) ==
  LET committed == Ancestor(b, CommitNum(b))
  IN  IF CommitNum(b) > t.db.commitIndex /\ ~InBestChain(t.db, committed)
        THEN [t EXCEPT !.db = SetSubtree(@, committed)] ELSE t

OnAcceptBlockHeader(n, s, b) == FollowCommitNum(UpdateTerm(n, s, Term(b)), b)

RecvBlock(n, b) ==
  LET s == node[n]
  IN  /\ Running(n)
      /\ CanInsert(s.db, b)
      /\ Finish(n, SwitchHead(n, OnAcceptBlockHeader(n, [s EXCEPT !.db = Insert(@, b)], b)))
      /\ UNCHANGED <<produced, elections>>

(***************************************************************************)
(* recv(ConfirmMessage).  A confirmation counts only if it is for a block  *)
(* of the best chain with the term of the message.                         *)
(***************************************************************************)
ConfirmsBestChain(n, m) ==
  LET db == node[n].db
  IN  /\ m.type = "Confirm" /\ m.to = n
      /\ m.head_num >= db.commitIndex
      /\ m.head_num \in DOMAIN db.byBlocknumIndex
      /\ Term(db.byBlocknumIndex[m.head_num]) = m.term

CountConfirm(t, m) ==
  IF m.term = t.current_term /\ t._state = "leader"
    THEN UpdateMatchIndex(t, m.follower_id, m.head_num) ELSE t

RecvConfirm(n, m) ==
  /\ Running(n)
  /\ ConfirmsBestChain(n, m)
  /\ Finish(n, CountConfirm(UpdateTerm(n, node[n], m.term), m))
  /\ UNCHANGED <<produced, elections>>

(***************************************************************************)
(* recv(RequestVoteRequest): a follower votes for the first candidate of a *)
(* term that is up to date.                                                *)
(***************************************************************************)
\* Mutation: only the terms are compared.
UpToDateByTerm(m, head) == m.last_log_term >= Term(head)

UpToDate(m, head) ==
  \/ m.last_log_term > Term(head)
  \/ m.last_log_term = Term(head) /\ m.last_log_index >= BlockNum(head)

Vote(n, t, m) ==
  LET granted == /\ m.term >= t.current_term
                 /\ t.voted_for \in {NullProducer, m.candidate_id}
                 /\ UpToDate(m, t.db.head)
      voted == IF granted THEN [t EXCEPT !.voted_for = m.candidate_id] ELSE t
      response == RequestVoteResponse(t.current_term, m.candidate_id, n, granted)
  IN  IF t._state = "follower" THEN [voted EXCEPT !.out = @ \cup {response}] ELSE t

RecvRequestVote(n, m) ==
  /\ Running(n)
  /\ m.type = "RequestVote" /\ m.candidate_id # n
  /\ Finish(n, Vote(n, UpdateTerm(n, node[n], m.term), m))
  /\ UNCHANGED <<produced, elections>>

(***************************************************************************)
(* recv(RequestVoteResponse).                                              *)
(***************************************************************************)
CountVote(t, m) ==
  IF m.term = t.current_term /\ m.vote_granted /\ t._state = "candidate"
    THEN CheckVotes([t EXCEPT !.votes_for_me = @ \cup {m.voter_id}]) ELSE t

RecvVote(n, m) ==
  /\ Running(n)
  /\ m.type = "Vote" /\ m.candidate_id = n
  /\ Finish(n, CountVote(UpdateTerm(n, node[n], m.term), m))
  /\ UNCHANGED <<produced, elections>>

(***************************************************************************)
(* The process stops and is started again.  The database is durable;       *)
(* current_term, voted_for and everything else is not: load_producers      *)
(* takes the term from the head.                                           *)
(***************************************************************************)
Restart(n) ==
  /\ restarts < MaxRestarts
  /\ node' = [node EXCEPT ![n] = NewNode(Reload(@.db))]
  /\ restarts' = restarts + 1
  /\ UNCHANGED <<msgs, produced, ballots, elections>>

Next ==
  \E n \in Producer :
    \/ ElectionTimeout(n)
    \/ ProduceBlock(n)
    \/ ProduceFails(n)
    \/ \E b \in produced : RecvBlock(n, b)
    \/ \E m \in msgs : RecvConfirm(n, m)
    \/ \E m \in msgs : RecvRequestVote(n, m)
    \/ \E m \in msgs : RecvVote(n, m)
    \/ Restart(n)

Spec == Init /\ [][Next]_vars

(***************************************************************************)
(* Fairness: as long as a leader's block timer is running, a block that a  *)
(* node can insert is on its way, or a confirmation that its leader has    *)
(* not counted yet, one of these eventually happens.  Nothing is assumed   *)
(* of the election timer.  CanProgress is ENABLED <<Progress>>_vars,       *)
(* written out, so that the condition is weak fairness of Progress.        *)
(***************************************************************************)
Progress ==
  \E n \in Producer :
    \/ ProduceBlock(n)
    \/ \E b \in produced : RecvBlock(n, b)
    \/ \E m \in msgs : RecvConfirm(n, m)

CanProgress ==
  \E n \in Producer :
    /\ Running(n)
    /\ \/ node[n]._state = "leader" /\ BlockNum(node[n].db.head) < MaxNum
       \/ \E b \in produced : CanInsert(node[n].db, b)
       \/ \E m \in msgs :
            /\ ConfirmsBestChain(n, m)
            /\ \/ m.term > node[n].current_term
               \/ /\ m.term = node[n].current_term /\ node[n]._state = "leader"
                  /\ m.head_num > node[n].match_index[m.follower_id]

Fairness == []<>(~CanProgress) \/ []<><<Progress>>_vars

FairSpec == Spec /\ Fairness
-----------------------------------------------------------------------------
(***************************************************************************)
(* Properties.                                                             *)
(***************************************************************************)
Message ==
  [type : {"Confirm"}, term : Nat, follower_id : Producer, head_num : Nat, to : Nat]
  \cup [type : {"RequestVote"}, term : Nat, candidate_id : Producer,
        last_log_index : Nat, last_log_term : Nat]
  \cup [type : {"Vote"}, term : Nat, candidate_id : Producer, voter_id : Producer,
        vote_granted : BOOLEAN]

NodeType(s) ==
  /\ DOMAIN s = {"_state", "current_term", "voted_for", "votes_for_me", "match_index",
                 "db", "out"}
  /\ s._state \in {"follower", "candidate", "leader"}
  /\ s.current_term \in Nat
  /\ s.voted_for \in Producer \cup {NullProducer}
  /\ s.votes_for_me \subseteq Producer
  /\ s.match_index \in [Producer -> Nat]
  /\ DbType(s.db) /\ IndexIsChainOfHead(s.db)
  /\ s.db.currentTerm = s.current_term
  /\ s.out \subseteq Message

\* Type correctness, with the index of the best chain: the commands that read it
\* by number depend on it being the chain of the head.
TypeOK ==
  /\ DOMAIN node = Producer
  /\ \A n \in Producer : NodeType(node[n])
  /\ msgs \subseteq Message
  /\ produced \subseteq Block
  /\ ballots \subseteq Nat \X Producer \X Producer
  /\ elections \in Nat /\ restarts \in Nat

Committed(n) == Ancestor(node[n].db.head, node[n].db.commitIndex)

\* The longest chain that some node regards as irreversible.
LongestCommitted ==
  Committed(CHOOSE n \in Producer :
    \A m \in Producer : node[m].db.commitIndex <= node[n].db.commitIndex)

\* No two nodes are leaders of the same term, and all blocks of a term are by the
\* same producer.  Votes are counted from messages that arrive in any order, and
\* several times; ConfirmMessage names a block only by its term and number.
ElectionSafety ==
  /\ \A n, m \in Producer :
       /\ node[n]._state = "leader" /\ node[m]._state = "leader"
       /\ node[n].current_term = node[m].current_term
       => n = m
  /\ \A b, c \in produced : Term(b) = Term(c) => b[Len(b)].producer = c[Len(c)].producer

\* "If two blocks are irreversible, one must be a descendant of the other."
OneIrreversibleFork ==
  \A n, m \in Producer :
    IsAncestor(Committed(n), Committed(m)) \/ IsAncestor(Committed(m), Committed(n))

\* Every irreversible block is in the chain of the newest leader, so that its blocks
\* never fork it out.
LeaderHasIrreversible ==
  \A n \in Producer :
    (/\ node[n]._state = "leader"
     /\ \A m \in Producer : node[m].current_term <= node[n].current_term)
    => IsAncestor(LongestCommitted, node[n].db.head)

\* No node ever stops with "Consensus failure", and the block that a header makes
\* irreversible is known to every node that accepts the header (the assertion in
\* on_accept_block_header).
NoConsensusFailure ==
  \A n \in Producer :
    /\ ~node[n].db.failed
    /\ \A b \in produced :
         CanInsert(node[n].db, b) =>
           \A i \in CommitNum(b)..BlockNum(b) - 1 :
             i > node[n].db.commitIndex => Ancestor(b, i) \in node[n].db.states

\* The node's own view of the term and of its pending block is consistent: exactly
\* the leader has a pending block, of the current term and on top of the head ("there
\* is an active block iff _state == leader").
ActiveBlockIffLeader ==
  \A n \in Producer :
    LET s == node[n]
    IN  /\ s._state = "leader" <=> s.db.blockContext # NoBlock
        /\ s._state = "leader" => s.db.blockContext.term = s.current_term
        /\ Running(n) => PendingBuildsOnHead(s.db)

\* "An irreversible block cannot be forked out": no step of any node takes the blocks
\* up to commitIndex out of its best chain, not even a restart.  Only a restart lets
\* commitIndex itself go back.
IrreversibleStays ==
  [][\A n \in Producer :
       /\ IsAncestor(Committed(n), node'[n].db.head)
       /\ restarts' = restarts => node'[n].db.commitIndex >= node[n].db.commitIndex]_vars

\* The network of nodes implements the abstract irreversible chain.
Abstract == INSTANCE Irreversibility WITH
  Node <- Producer, First <- FirstBlock,
  chain <- LongestCommitted, seen <- [n \in Producer |-> Committed(n)]

ImplementsIrreversibility == Abstract!Spec

\* The head that a candidate advertises is its best block: get_head requires that
\* "A fork switch is not required".
CandidateHeadIsBest ==
  \A n \in Producer :
    node[n]._state = "candidate" => LastOf(node[n].db.byOrderIndex) = {node[n].db.head}

\* When no more election timers fire, and there is a leader of the newest term that
\* may still produce, its blocks become irreversible: every block it needs the votes
\* for reaches a quorum, and the confirmations are for blocks in its best chain.
LeaderMakesProgress ==
  (/\ elections = MaxElections
   /\ \E n \in Producer :
        /\ node[n]._state = "leader"
        /\ \A m \in Producer : node[m].current_term <= node[n].current_term
        /\ BlockNum(node[n].db.head) < MaxNum)
  ~> \E n \in Producer : node[n].db.commitIndex = MaxNum
=============================================================================
