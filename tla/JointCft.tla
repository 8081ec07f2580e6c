------------------------------ MODULE JointCft ------------------------------
(***************************************************************************)
(* The crash fault tolerant algorithm while the set of producers changes   *)
(* (joint consensus).  A block may announce the next set of producers.     *)
(* From there on elections and irreversibility need majorities of both     *)
(* sets, until a block says in its header that the announcement is         *)
(* irreversible; the blocks after that one belong to the new set alone.    *)
(* Which sets a node goes by depends on its head, and changes with it.     *)
(*                                                                         *)
(* Cft has the same handlers for one set of producers, with restarts; here *)
(* no node restarts.  Actions, messages and timers are as in Cft.          *)
(***************************************************************************)
EXTENDS ForkDb, ProducerSet, FiniteSetsExt

CONSTANTS
  Scenarios   \* the sets of producers and the bounds to look at, see IsScenario

NullProducer == 0

(***************************************************************************)
(* A scenario has the sets of producers, positive numbers, in the order in *)
(* which they are announced, and the leader of term 1, which all of the    *)
(* first set voted for.  The bounds are the numbers of the blocks that may *)
(* announce a set, the producers whose election timers fire, how often     *)
(* they do so altogether, the largest block number, and whether writing a  *)
(* produced block to the database may fail.                                *)
(***************************************************************************)
IsScenario(sc) ==
  /\ \A k \in DOMAIN sc.sets :
       sc.sets[k] \subseteq Nat \ {NullProducer} /\ Cardinality(sc.sets[k]) > 1
  /\ sc.leader \in sc.sets[1]
  /\ sc.announce \subseteq Nat /\ sc.candidates \subseteq Nat
  /\ sc.elections \in Nat /\ sc.num \in Nat /\ sc.writesFail \in BOOLEAN

ASSUME JointCftAssumption == \A sc \in Scenarios : IsScenario(sc)

VARIABLES
  scenario,  \* the one of Scenarios that is played
  node,      \* the state of every node
  msgs,      \* all consensus messages ever sent
  produced,  \* all blocks ever produced
  elections  \* how often an election timer fired

vars == <<scenario, node, msgs, produced, elections>>

Sets == scenario.sets
Node == UNION {Sets[k] : k \in DOMAIN Sets}
FirstLeader == scenario.leader

-----------------------------------------------------------------------------
(***************************************************************************)
(* Producers of a block.  newConsensus of a header is the number in Sets   *)
(* of the set that the block announces, or NoSet.                          *)
(***************************************************************************)
NoSet == 0
Members(k) == IF k = NoSet THEN {} ELSE Sets[k]
NewConsensus(b) == b[Len(b)].newConsensus

\* A state of BlockHeaderState: its header declares the announcement irreversible.
Ends(state, b) == state.next # NoSet /\ CommitNum(b) >= state.num

\* producers, nextProducers and nextProducersBlockNum of BlockHeaderState.
HeaderState(b) ==
  LET first == [producers |-> 1, next |-> NoSet, num |-> 0]
      of[i \in 1..Len(b)] ==
        LET prev == IF i = 1 THEN first
                    ELSE IF Ends(of[i - 1], Ancestor(b, i - 1))
                      THEN [first EXCEPT !.producers = of[i - 1].next]
                      ELSE of[i - 1]
        IN  IF b[i].newConsensus = NoSet THEN prev
            ELSE [prev EXCEPT !.next = b[i].newConsensus, !.num = i]
  IN  of[Len(b)]

EndsJointConsensus(b) == Ends(HeaderState(b), b)

\* ForkDb::getProducers: those in charge after block b, and the next ones.
ProducersAfter(b) ==
  LET state == HeaderState(b)
  IN  IF Ends(state, b) THEN <<state.next, NoSet>> ELSE <<state.producers, state.next>>

\* getNextProducerClaim: who may produce a successor of b.
MayProduce(b) == Members(ProducersAfter(b)[1]) \cup Members(ProducersAfter(b)[2])

\* validate_producer: who may confirm b.
MayConfirm(b) == Members(HeaderState(b).producers) \cup Members(HeaderState(b).next)

-----------------------------------------------------------------------------
(***************************************************************************)
(* Messages.                                                               *)
(***************************************************************************)
ConfirmMessage(term, follower, num, to) ==
  [type |-> "Confirm", term |-> term, follower_id |-> follower, head_num |-> num, to |-> to]

RequestVoteRequest(term, candidate, head, to) ==
  [type |-> "RequestVote", term |-> term, candidate_id |-> candidate,
   last_log_index |-> BlockNum(head), last_log_term |-> Term(head), to |-> to]

RequestVoteResponse(term, candidate, voter, granted) ==
  [type |-> "Vote", term |-> term, candidate_id |-> candidate, voter_id |-> voter,
   vote_granted |-> granted]

-----------------------------------------------------------------------------
(***************************************************************************)
(* The state of a node.  out collects what the running callback sends.     *)
(* Of the pairs, the first part belongs to active_producers[0] and the     *)
(* second to active_producers[1].                                          *)
(***************************************************************************)
Header1 == [term |-> 0, producer |-> NullProducer, commitNum |-> 1, valid |-> TRUE,
            newConsensus |-> NoSet]
FirstBlock == <<Header1>>

NoMatch(k) == [p \in Members(k) |-> 0]

Active(s) == Members(s.active_producers[1]) \cup Members(s.active_producers[2])
IsJoint(s) == s.active_producers[2] # NoSet

StartLeader(s) == [s EXCEPT !.db = StartBlock(@, s.current_term)]
StopLeader(s) == IF s._state = "leader" THEN [s EXCEPT !.db = AbortBlock(@)] ELSE s

\* Some majority of the first set elected its leader; who is not in it waits.
FirstVotes ==
  CHOOSE Q \in SUBSET Sets[1] :
    FirstLeader \in Q /\ Cardinality(Q) = Threshold("cft", Cardinality(Sets[1]))

NewNode(n) ==
  LET voter == n \in Sets[1]
      term == IF voter THEN 1 ELSE 0
  IN  [_state           |-> IF voter THEN "follower" ELSE "nonvoting",
       current_term     |-> term,
       voted_for        |-> IF voter THEN FirstLeader ELSE NullProducer,
       votes_for_me     |-> <<{}, {}>>,
       active_producers |-> <<1, NoSet>>,
       match_index      |-> <<NoMatch(NoSet), NoMatch(NoSet)>>,
       db               |-> [NewDb(FirstBlock) EXCEPT !.currentTerm = term],
       out              |-> {}]

FirstLeaderNode ==
  StartLeader([NewNode(FirstLeader) EXCEPT
    !._state = "leader", !.votes_for_me[1] = FirstVotes, !.match_index[1] = NoMatch(1)])

Init ==
  /\ scenario \in Scenarios
  /\ node = [n \in Node |-> IF n = FirstLeader THEN FirstLeaderNode ELSE NewNode(n)]
  /\ msgs = {}
  /\ produced = {}
  /\ elections = 0

-----------------------------------------------------------------------------
(***************************************************************************)
(* set_producers.  A leader keeps the confirmations of the producers that  *)
(* stay; leaving joint consensus, those of the next producers become those *)
(* of the current ones.                                                    *)
(***************************************************************************)
\* Mutation: the confirmations are lost in every change.
MatchAfterStartsAgain(s, prods) == <<NoMatch(prods[1]), NoMatch(prods[2])>>

MatchAfter(s, prods) ==
  LET old == s.active_producers
      same(i, k) == old[i] # NoSet /\ Members(old[i]) = Members(k)
  IN  << IF same(1, prods[1]) THEN s.match_index[1]
         ELSE IF same(2, prods[1]) THEN s.match_index[2]
         ELSE NoMatch(prods[1]),
         IF same(2, prods[2]) THEN s.match_index[2] ELSE NoMatch(prods[2]) >>

SetProducers(n, s, prods) ==
  LET t == [s EXCEPT !.active_producers = prods,
                     !.match_index = IF s._state = "leader" THEN MatchAfter(s, prods) ELSE @]
  IN  IF n \in Active(t)
        THEN IF s._state = "nonvoting" THEN [t EXCEPT !._state = "follower"] ELSE t
        ELSE [StopLeader(t) EXCEPT !._state = "nonvoting"]

(***************************************************************************)
(* on_fork_switch, and the callback of switch_fork, as in Cft.             *)
(***************************************************************************)
OnForkSwitch(n, s) ==
  LET head == s.db.head
  IN  IF /\ s._state = "follower"
         /\ Term(head) = s.current_term
         /\ BlockNum(head) > s.db.commitIndex
        THEN [s EXCEPT !.out = @ \cup {ConfirmMessage(s.current_term, n, BlockNum(head),
                                                      head[Len(head)].producer)}]
        ELSE s

\* Mutation: a fork switch leaves the producers as they are.
ResetLeaderOnly(n, t) == IF t._state = "leader" THEN StartLeader(StopLeader(t)) ELSE t

ResetProducers(n, t) ==
  LET u == SetProducers(n, t, ProducersAfter(t.db.head))
  IN  IF u._state = "leader" THEN StartLeader(StopLeader(u)) ELSE u

AfterSwitch(n, s, t) ==
  IF t.db.failed \/ t.db.head = s.db.head THEN t
  ELSE [OnForkSwitch(n, ResetProducers(n, t)) EXCEPT !.db = Gc(@)]

SwitchHead(n, s) == AfterSwitch(n, s, [s EXCEPT !.db = SwitchOnce(@, @.head).db])

(***************************************************************************)
(* update_term, which every handler runs first.                            *)
(***************************************************************************)
UpdateTerm(n, s, term) ==
  LET t == [s EXCEPT !.votes_for_me = <<{}, {}>>, !.current_term = term,
                     !.db.currentTerm = term, !.voted_for = NullProducer]
      follower == [StopLeader(t) EXCEPT !.match_index = <<NoMatch(NoSet), NoMatch(NoSet)>>,
                                        !._state = "follower"]
  IN  IF term <= s.current_term THEN s
      ELSE IF s._state = "leader" THEN SwitchHead(n, follower)
      ELSE IF s._state = "candidate" THEN [t EXCEPT !._state = "follower"]
      ELSE t

(***************************************************************************)
(* check_votes: a candidate with majorities of the active sets becomes the *)
(* leader.                                                                 *)
(***************************************************************************)
HasMajority(votes, k) == Cardinality(votes) > Cardinality(Members(k)) \div 2

\* Mutation: the votes of the next producers are not needed.
IsElectedByOne(s) == HasMajority(s.votes_for_me[1], s.active_producers[1])

IsElected(s) ==
  /\ HasMajority(s.votes_for_me[1], s.active_producers[1])
  /\ IsJoint(s) =>
       Cardinality(s.votes_for_me[2]) >=
         Threshold("cft", Cardinality(Members(s.active_producers[2])))

CheckVotes(s) ==
  IF IsElected(s)
    THEN StartLeader([s EXCEPT
           !._state = "leader",
           !.match_index[1] = NoMatch(s.active_producers[1]),
           !.match_index[2] = IF IsJoint(s) THEN NoMatch(s.active_producers[2]) ELSE @])
    ELSE s

(***************************************************************************)
(* update_match_index: what majorities of the active sets have confirmed   *)
(* is irreversible.                                                        *)
(***************************************************************************)
\* Mutation: one confirmation is enough.
ConfirmedByOne(match) == Max(Range(match))

ConfirmedNum(match) ==
  Max({k \in Range(match) :
         IsQuorum("cft", {p \in DOMAIN match : match[p] >= k}, DOMAIN match)})

\* Mutation: during joint consensus only the next producers confirm.
JointConfirmedNumOfNext(s) == ConfirmedNum(s.match_index[IF IsJoint(s) THEN 2 ELSE 1])

JointConfirmedNum(s) ==
  Min({ConfirmedNum(s.match_index[1])} \cup
      (IF IsJoint(s) THEN {ConfirmedNum(s.match_index[2])} ELSE {}))

UpdateMatchIndex(n, s, p, num) ==
  LET raise(match) == [q \in DOMAIN match |-> IF q = p THEN Max({match[q], num}) ELSE match[q]]
      t == [s EXCEPT !.match_index =
              <<raise(@[1]), IF IsJoint(s) THEN raise(@[2]) ELSE @[2]>>]
      u == [t EXCEPT !.db = Commit(@, JointConfirmedNum(t))]
  IN  IF u.db.commitIndex = s.db.commitIndex THEN u
      ELSE SetProducers(n, u, ProducersAfter(u.db.head))

-----------------------------------------------------------------------------
(***************************************************************************)
(* The end of a callback of node n that leaves it in state s.              *)
(***************************************************************************)
Finish(n, s) ==
  /\ node' = [node EXCEPT ![n] = [s EXCEPT !.out = {}]]
  /\ msgs' = msgs \cup s.out
  /\ UNCHANGED scenario

Running(n) == ~node[n].db.failed

(***************************************************************************)
(* The election timer, which runs as long as the node is an active         *)
(* producer.                                                               *)
(***************************************************************************)
RequestVote(n, s) ==
  LET term == s.current_term + 1
      own(i) == {n} \cap Members(s.active_producers[i])
  IN  CheckVotes([s EXCEPT
        !.current_term = term, !.db.currentTerm = term, !.voted_for = n,
        !.votes_for_me = <<own(1), own(2)>>, !._state = "candidate",
        !.out = @ \cup {RequestVoteRequest(term, n, s.db.head, Active(s) \ {n})}])

ElectionTimeout(n) ==
  /\ Running(n) /\ node[n]._state # "nonvoting"
  /\ n \in scenario.candidates /\ elections < scenario.elections
  /\ Finish(n, RequestVote(n, StopLeader(node[n])))
  /\ elections' = elections + 1
  /\ UNCHANGED produced

(***************************************************************************)
(* The block timer of a leader.  The block announces the next producers if *)
(* a transaction in it does; the Producers service does not allow this     *)
(* while another change is under way.                                      *)
(***************************************************************************)
MayAnnounce(head) ==
  LET prods == ProducersAfter(head)
  IN  {NoSet} \cup {k \in DOMAIN Sets : /\ prods[2] = NoSet /\ k = prods[1] + 1
                                        /\ BlockNum(head) + 1 \in scenario.announce}

\* A new pending block is started first.  on_produce_block sees the producers of b.
AfterProduce(n, s, b) ==
  LET state == HeaderState(b)
      started == StartLeader([s EXCEPT !.db = AddHead(@, b)])
      announced == IF NewConsensus(b) = NoSet THEN started
                   ELSE SetProducers(n, started, <<state.producers, state.next>>)
      matched == UpdateMatchIndex(n, announced, n, BlockNum(b))
  IN  IF EndsJointConsensus(b) THEN SetProducers(n, matched, <<state.next, NoSet>>) ELSE matched

ProduceBlock(n, new) ==
  LET s == node[n]
      b == Append(s.db.head,
             [term |-> s.db.blockContext.term, producer |-> n,
              commitNum |-> s.db.blockContext.commitNum, valid |-> TRUE, newConsensus |-> new])
  IN  /\ Running(n)
      /\ s._state = "leader"
      /\ BlockNum(s.db.head) < scenario.num
      /\ Finish(n, [AfterProduce(n, s, b) EXCEPT !.db = Gc(@)])
      /\ produced' = produced \cup {b}
      /\ UNCHANGED elections

ProduceFails(n) ==
  /\ scenario.writesFail
  /\ Running(n)
  /\ node[n]._state = "leader"
  /\ Finish(n, StartLeader([node[n] EXCEPT !.db = AbortBlock(@)]))
  /\ UNCHANGED <<produced, elections>>

(***************************************************************************)
(* recv(BlockMessage), as in Cft; the producer of a block is checked when  *)
(* it is inserted.                                                         *)
(***************************************************************************)
FollowCommitNum(t, b) ==
  LET committed == Ancestor(b, CommitNum(b))
  IN  IF CommitNum(b) > t.db.commitIndex /\ ~InBestChain(t.db, committed)
        THEN [t EXCEPT !.db = SetSubtree(@, committed)] ELSE t

CanAccept(n, b) ==
  CanInsert(node[n].db, b) /\ b[Len(b)].producer \in MayProduce(Previous(b))

RecvBlock(n, b) ==
  LET s == [node[n] EXCEPT !.db = Insert(@, b)]
  IN  /\ Running(n)
      /\ CanAccept(n, b)
      /\ Finish(n, SwitchHead(n, FollowCommitNum(UpdateTerm(n, s, Term(b)), b)))
      /\ UNCHANGED <<produced, elections>>

(***************************************************************************)
(* recv(ConfirmMessage).                                                   *)
(***************************************************************************)
CountConfirm(n, t, m) ==
  IF m.term = t.current_term /\ t._state = "leader"
    THEN UpdateMatchIndex(n, t, m.follower_id, m.head_num) ELSE t

ConfirmsBestChain(n, m) ==
  LET db == node[n].db
  IN  /\ m.type = "Confirm" /\ m.to = n
      /\ m.head_num >= db.commitIndex
      /\ m.head_num \in DOMAIN db.byBlocknumIndex
      /\ Term(db.byBlocknumIndex[m.head_num]) = m.term
      /\ m.follower_id \in MayConfirm(db.byBlocknumIndex[m.head_num])

RecvConfirm(n, m) ==
  /\ Running(n)
  /\ ConfirmsBestChain(n, m)
  /\ Finish(n, CountConfirm(n, UpdateTerm(n, node[n], m.term), m))
  /\ UNCHANGED <<produced, elections>>

(***************************************************************************)
(* recv(RequestVoteRequest) and recv(RequestVoteResponse).  Both ignore    *)
(* who is not an active producer; a node that is none does not vote.       *)
(***************************************************************************)
UpToDate(m, head) ==
  \/ m.last_log_term > Term(head)
  \/ m.last_log_term = Term(head) /\ m.last_log_index >= BlockNum(head)

Vote(n, t, m) ==
  LET granted == /\ m.term >= t.current_term
                 /\ t.voted_for \in {NullProducer, m.candidate_id}
                 /\ UpToDate(m, t.db.head)
      voted == IF granted THEN [t EXCEPT !.voted_for = m.candidate_id] ELSE t
      response == RequestVoteResponse(t.current_term, m.candidate_id, n, granted)
  IN  IF t._state = "follower" THEN [voted EXCEPT !.out = @ \cup {response}] ELSE t

RecvRequestVote(n, m) ==
  /\ Running(n)
  /\ m.type = "RequestVote" /\ n \in m.to /\ m.candidate_id \in Active(node[n])
  /\ Finish(n, Vote(n, UpdateTerm(n, node[n], m.term), m))
  /\ UNCHANGED <<produced, elections>>

CountVote(t, m) ==
  LET counted(i) == t.votes_for_me[i] \cup ({m.voter_id} \cap Members(t.active_producers[i]))
  IN  IF m.term = t.current_term /\ m.vote_granted /\ t._state = "candidate"
        THEN CheckVotes([t EXCEPT !.votes_for_me = <<counted(1), counted(2)>>]) ELSE t

RecvVote(n, m) ==
  /\ Running(n)
  /\ m.type = "Vote" /\ m.candidate_id = n /\ m.voter_id \in Active(node[n])
  /\ Finish(n, CountVote(UpdateTerm(n, node[n], m.term), m))
  /\ UNCHANGED <<produced, elections>>

Next ==
  \E n \in Node :
    \/ ElectionTimeout(n)
    \/ \E new \in MayAnnounce(node[n].db.head) : ProduceBlock(n, new)
    \/ ProduceFails(n)
    \/ \E b \in produced : RecvBlock(n, b)
    \/ \E m \in msgs : RecvConfirm(n, m) \/ RecvRequestVote(n, m) \/ RecvVote(n, m)

Spec == Init /\ [][Next]_vars

(***************************************************************************)
(* Fairness: as in Cft.  While a leader's block timer is running, or a     *)
(* block that a node can accept or a confirmation that its leader has not  *)
(* counted is on its way, one of these eventually happens.  CanProgress is *)
(* ENABLED <<Progress>>_vars, written out.                                 *)
(***************************************************************************)
Progress ==
  \E n \in Node :
    \/ \E new \in MayAnnounce(node[n].db.head) : ProduceBlock(n, new)
    \/ \E b \in produced : RecvBlock(n, b)
    \/ \E m \in msgs : RecvConfirm(n, m)

IsNotCounted(s, m) ==
  \E i \in 1..2 :
    /\ m.follower_id \in Members(s.active_producers[i])
    /\ m.head_num > s.match_index[i][m.follower_id]

CanProgress ==
  \E n \in Node :
    LET s == node[n]
    IN  /\ Running(n)
        /\ \/ s._state = "leader" /\ BlockNum(s.db.head) < scenario.num
           \/ \E b \in produced : CanAccept(n, b)
           \/ \E m \in msgs :
                /\ ConfirmsBestChain(n, m)
                /\ \/ m.term > s.current_term
                   \/ m.term = s.current_term /\ s._state = "leader" /\ IsNotCounted(s, m)

FairSpec == Spec /\ ([]<>(~CanProgress) \/ []<><<Progress>>_vars)

-----------------------------------------------------------------------------
(***************************************************************************)
(* Properties.                                                             *)
(***************************************************************************)

Committed(n) == Ancestor(node[n].db.head, node[n].db.commitIndex)

LongestCommitted ==
  Committed(CHOOSE n \in Node :
    \A m \in Node : node[m].db.commitIndex <= node[n].db.commitIndex)

\* "Only one fork can ever become irreversible", also across a change of the producers.
OneIrreversibleFork ==
  \A n, m \in Node :
    IsAncestor(Committed(n), Committed(m)) \/ IsAncestor(Committed(m), Committed(n))

\* What a header says is irreversible is irreversible at some node: followers commit up
\* to commitNum, and change to the next producers because of it, without a check.
HeaderClaimsAreTrue ==
  LET longest == LongestCommitted
  IN  \A b \in produced : IsAncestor(Ancestor(b, CommitNum(b)), longest)

\* Between two callbacks a node goes by the producers of its head, and is voting or not
\* accordingly; and a leader may produce the next block ("If we're not a valid producer
\* for the next block, then we shouldn't have started block production").
ProducersFollowHead ==
  \A n \in Node :
    LET s == node[n]
    IN  /\ s.active_producers = ProducersAfter(s.db.head)
        /\ s._state = "nonvoting" <=> n \notin Active(s)
        /\ s._state = "leader" =>
             /\ n \in MayProduce(s.db.head)
             /\ s.db.blockContext # NoBlock /\ PendingBuildsOnHead(s.db)

\* Who voted for n in a term, as the messages say.
VotersOf(n, term, sent) ==
  {n} \cup {m.voter_id : m \in {k \in sent : /\ k.type = "Vote" /\ k.vote_granted
                                             /\ k.candidate_id = n /\ k.term = term}}

\* Once no more election timers fire, a leader of the newest term that belongs to all
\* the sets gets its blocks through, and with them the change of the producers: the next
\* producers take part as soon as they have the announcement, and what they confirmed
\* counts on when the others leave.
LeaderMakesProgress ==
  (/\ elections = scenario.elections
   /\ \E n \in Node :
        /\ node[n]._state = "leader" /\ \A k \in DOMAIN Sets : n \in Sets[k]
        /\ \A m \in Node : node[m].current_term <= node[n].current_term
        /\ BlockNum(node[n].db.head) < scenario.num)
  ~> \E n \in Node : node[n].db.commitIndex = scenario.num

\* "Leader elections and irreversibility require majorities of both the old and the new
\* producers": who becomes a leader has the votes of majorities of its active sets.
ElectedByMajorities ==
  [][\A n \in Node :
       LET s == node'[n]
           voters == VotersOf(n, s.current_term, msgs')
       IN  (s._state = "leader" /\ node[n]._state # "leader") =>
             \A i \in 1..2 : s.active_producers[i] # NoSet =>
               LET set == Members(s.active_producers[i]) IN IsQuorum("cft", voters \cap set, set)]_vars
=============================================================================
