--------------------------------- MODULE Bft ---------------------------------
(***************************************************************************)
(* The byzantine fault tolerant consensus algorithm (basic_bft_consensus)  *)
(* on top of blocknet and of one fork database per node, for a fixed set   *)
(* of producers of which some are faulty.                                  *)
(*                                                                         *)
(* The producers take turns: each term has one leader.  A block that a     *)
(* quorum has prepared and then a quorum has committed is irreversible.    *)
(* When a term makes no progress, the nodes move to a later one and tell   *)
(* each other the best block that they know to be prepared.                *)
(*                                                                         *)
(* Each action is one callback of a correct node, or a block of a faulty   *)
(* leader.  msgs holds everything that correct nodes ever sent; the faulty *)
(* producers confirm any block and send different view changes to          *)
(* different nodes, but cannot sign for others.  A node may handle any     *)
(* message at any time, also twice or never.                               *)
(***************************************************************************)
EXTENDS ForkDb, ProducerSet

CONSTANTS
  Order,        \* the active producers, in the order of their names
  Faulty,       \* the producers that do not follow the algorithm
  Scenarios     \* bounds on what happens in one behaviour, see ScenarioType

Producer == {Order[i] : i \in 1..Len(Order)}
Correct == Producer \ Faulty
N == Len(Order)
Quorum(Q) == IsQuorum("bft", Q, Producer)

(***************************************************************************)
(* Every behaviour has one of the scenarios: the first and the last term,  *)
(* the highest block number, how many blocks a correct leader produces in  *)
(* a term, and the faulty ones altogether, whose consensus timers fire,    *)
(* whether the faulty producers never confirm anything, and the nodes that *)
(* they send view changes to.                                              *)
(***************************************************************************)
ScenarioType ==
  [first : Nat, term : Nat, num : Nat, produced : Nat, forged : Nat,
   timeouts : SUBSET Correct, silent : BOOLEAN, told : SUBSET Correct]

ASSUME BftAssumption ==
  /\ Order \in Seq(Producer) /\ Cardinality(Producer) = N
  /\ Faulty \subseteq Producer /\ 3 * Cardinality(Faulty) < N
  /\ Scenarios \subseteq ScenarioType /\ \A s \in Scenarios : s.first <= s.term

VARIABLES
  node,      \* the state of every correct node
  msgs,      \* all messages that correct nodes ever sent
  produced,  \* all blocks ever produced, with the certificates in them
  scenario   \* the bounds, which never change

vars == <<node, msgs, produced, scenario>>

\* get_leader_index: the position of the leader.  A header names its producer by it.
LeaderIndex(term) == (term % N) + 1
LeaderOf(term) == Order[LeaderIndex(term)]
IsForged(b) == LeaderOf(Term(b)) \in Faulty

-----------------------------------------------------------------------------
(***************************************************************************)
(* Messages.  Whether a view change proves that its best block is prepared *)
(* is all that matters of the signatures in it.                            *)
(***************************************************************************)
PrepareMessage(b, p) == [type |-> "Prepare", block |-> b, producer |-> p]
CommitMessage(b, p) == [type |-> "Commit", block |-> b, producer |-> p]

\* NoId is the id of no block.  A view change that names no block, or a block that is
\* gone, has best_prepared_term 0 and proves nothing.
NoId == <<>>
ViewChangeMessage(term, p, b, t, proved) ==
  [type |-> "ViewChange", term |-> term, producer |-> p,
   best_prepared |-> b, best_prepared_term |-> t, proved |-> proved]

NoMessage == ViewChangeMessage(-1, NoId, NoId, 0, FALSE)

\* by_best_prepared(m) < by_best_prepared(k).  An id begins with the block number.
PreparedLess(m, k) ==
  \/ m.best_prepared_term < k.best_prepared_term
  \/ /\ m.best_prepared_term = k.best_prepared_term
     /\ \/ Len(m.best_prepared) < Len(k.best_prepared)
        \/ Len(m.best_prepared) = Len(k.best_prepared) /\ IdLess(m.best_prepared, k.best_prepared)

-----------------------------------------------------------------------------
(***************************************************************************)
(* The state of a node.                                                    *)
(***************************************************************************)
FirstBlock == <<[term |-> 0, producer |-> 0, commitNum |-> 1, valid |-> TRUE]>>

Signing == IF scenario.silent THEN {} ELSE Faulty
NoConfirms == [prepares |-> Signing, commits |-> Signing, committedByBlock |-> FALSE]
NoConfirmations == [b \in {} |-> NoConfirms]

\* Whether block b is better than the block c, which may be NoId.
Better(b, c) == c = NoId \/ OrderLess(c, b)
BetterOf(b, c) == IF Better(b, c) THEN b ELSE c

\* in_best_chain.  Blocks that are no longer in the index are in the block log.
OnBestChain(db, b) ==
  IF Len(b) < db.commitIndex THEN IsAncestor(b, db.byBlocknumIndex[db.commitIndex])
  ELSE InBestChain(db, b)

CommittedBlock(s) == s.db.byBlocknumIndex[s.db.commitIndex]

\* The confirmations of block b that the node knows.
Confirms(s, b) ==
  IF b \in DOMAIN s.confirmations THEN s.confirmations[b] ELSE NoConfirms

\* When a quorum is complete, it does not matter which one it is.
Complete(S) == IF Quorum(S) THEN Producer ELSE S
SetConfirms(s, b, c) ==
  [s EXCEPT !.confirmations = [x \in DOMAIN @ \cup {b} |-> IF x = b THEN c ELSE @[x]]]

IsCommitted(s, b) == Quorum(Confirms(s, b).commits) \/ Confirms(s, b).committedByBlock

\* What the node knows of producer p: the latest term in which it was active, and its
\* view change that counts, which may be for an earlier term.
View(s, p) == s.views[p]

IsLeader(n, s) == LeaderOf(s.current_term) = n

(***************************************************************************)
(* get_subtree_from_leader: the root that the view change of the leader    *)
(* defines, as a set with one element, or none as long as the term is not  *)
(* ready: the leader must prove that its best block is prepared, and a     *)
(* quorum must not know of a better one.                                   *)
(***************************************************************************)
\* validate_view_change with verifyMsig.
ValidViewChange(b, m) == m.best_prepared_term = Term(b) /\ m.proved

\* Mutant: a quorum in the term is enough, whatever blocks they know to be prepared.
AgreesWithAnything(s, m) == {p \in Producer : View(s, p).term = s.current_term}

\* is_term_ready(group, leader_msg)
AgreesWith(s, m) ==
  {p \in Producer : /\ View(s, p).term = s.current_term
                    /\ View(s, p).best_message # NoMessage
                    /\ ~PreparedLess(m, View(s, p).best_message)}

SubtreeFromLeader(s) ==
  LET view == View(s, LeaderOf(s.current_term))
      m == view.best_message
      b == m.best_prepared
  IN  IF view.term # s.current_term \/ m = NoMessage THEN {}
      ELSE IF ~Quorum(AgreesWith(s, m)) THEN {}
      ELSE IF b = NoId THEN {CommittedBlock(s)}
      ELSE IF b \in s.db.states THEN IF ValidViewChange(b, m) THEN {b} ELSE {}
      ELSE IF OnBestChain(s.db, b) THEN {CommittedBlock(s)}
      ELSE {}

IsTermReady(s) == SubtreeFromLeader(s) # {}

-----------------------------------------------------------------------------
(***************************************************************************)
(* Confirming blocks.                                                      *)
(***************************************************************************)
\* Mutant: a node confirms every fork that it switches to.
IsNeverForbidden(s, b) == FALSE

\* Mutant: within a term, a node confirms only once.
IsForbiddenTwice(s, b) == s.best_confirm # NoId /\ Term(s.best_confirm) >= Term(b)

\* is_forbidden_fork: within a term, a node confirms only one fork.
IsForbiddenFork(s, b) ==
  /\ s.best_confirm # NoId
  /\ ~(OnBestChain(s.db, b) /\ OnBestChain(s.db, s.best_confirm))
  /\ Term(s.best_confirm) >= Term(b)

\* can_prepare and can_commit, which are the same without joint consensus.
CanConfirm(s, b) ==
  /\ Term(b) = s.current_term
  /\ IsTermReady(s)
  /\ ~IsForbiddenFork(s, b)

\* Mutant: one confirmation less is enough.
CompletesEarly(S, P) ==
  ~Quorum(S) /\ Cardinality(S \cup P) >= Threshold("bft", N) - 1

\* block_info::confirm: whether the confirmations by P make the quorum complete.
Completes(S, P) == ~Quorum(S) /\ Quorum(S \cup P)

(***************************************************************************)
(* on_commit and on_prepare for what the node confirms itself, do_commit   *)
(* and do_prepare.  The block is of the current term, so that set_view has *)
(* no effect; what others confirm follows after set_view.                  *)
(***************************************************************************)
\* verify_commit: a block that conflicts with a better prepared one.
ContradictsPrepared(s, b) ==
  /\ s.best_prepared # NoId
  /\ OrderLess(b, s.best_prepared) /\ ~IsAncestor(b, s.best_prepared)

\* save_commit_data and setBlockData: the certificate is stored.
SetBlockData(s, b) == [s EXCEPT !.blockData = @ \cup {b}]

AddCommits(s, b, P) ==
  SetConfirms(s, b, [Confirms(s, b) EXCEPT !.commits = Complete(@ \cup P)])

\* The end of on_commit for a block that has a quorum; viewed is s after set_view.
CommitConfirmed(s, viewed, b) ==
  LET t == IF OnBestChain(s.db, b) THEN [s EXCEPT !.db = Commit(@, BlockNum(b))]
           ELSE IF ContradictsPrepared(s, b) THEN [s EXCEPT !.db = ConsensusFailure(@)]
           ELSE [viewed EXCEPT !.db = SetSubtree(@, b)]
  IN  [t EXCEPT !.best_prepared = BetterOf(b, @)]

DoCommit(n, s, b) ==
  LET t == AddCommits([s EXCEPT !.best_confirm = BetterOf(b, @),
                                !.out = @ \cup {CommitMessage(b, n)}], b, {n})
      u == SetBlockData(t, b)
  IN  IF Completes(Confirms(s, b).commits, {n}) THEN CommitConfirmed(u, u, b) ELSE t

CommitPrepared(n, s, b) == IF CanConfirm(s, b) THEN DoCommit(n, s, b) ELSE s

AddPrepares(s, b, P) ==
  SetConfirms(s, b, [Confirms(s, b) EXCEPT !.prepares = Complete(@ \cup P)])

\* Mutant: best_prepared is not recorded.
RecordNothing(s, b) == s

RecordPrepared(s, b) == [s EXCEPT !.best_prepared = BetterOf(b, @)]

DoPrepare(n, s, b) ==
  LET t == AddPrepares([s EXCEPT !.best_confirm = BetterOf(b, @),
                                 !.out = @ \cup {PrepareMessage(b, n)}], b, {n})
  IN  IF Completes(Confirms(s, b).prepares, {n})
        THEN CommitPrepared(n, RecordPrepared(t, b), b) ELSE t

-----------------------------------------------------------------------------
(***************************************************************************)
(* blocknet::start_leader, stop_leader, do_gc and switch_fork.  The blocks *)
(* that async_switch_fork executes have terms up to the current one, so    *)
(* that set_view has no effect there.  All blocks execute: the fork        *)
(* database with blocks that fail is in ForkDbNode.                        *)
(***************************************************************************)
StartLeader(s) == [s EXCEPT !._state = "leader", !.db = StartBlock(@, s.current_term)]
StopLeader(s) == [s EXCEPT !._state = "follower", !.db = AbortBlock(@)]

\* Mutant: the confirmations of the committed block go as well.
DoGcUpToCommitted(s) ==
  LET db == Gc(s.db)
  IN  [s EXCEPT !.db = db,
                !.confirmations =
                  [b \in {c \in DOMAIN @ \cap db.states : BlockNum(c) > db.commitIndex} |-> @[b]]]

DoGc(s) ==
  LET db == Gc(s.db)
  IN  [s EXCEPT !.db = db,
                !.confirmations = [b \in DOMAIN @ \cap db.states |-> @[b]]]

\* on_accept_block
PrepareAccepted(n, s, b) == IF CanConfirm(s, b) THEN DoPrepare(n, s, b) ELSE s

OnAcceptBlock(n, s, b) ==
  PrepareAccepted(n, IF IsCommitted(s, b) THEN [s EXCEPT !.db = Commit(@, BlockNum(b))] ELSE s, b)

\* One step of execute_fork: a block that has a revision is not executed again.
ExecuteBlock(n, s, b) ==
  IF b \in s.db.revisions THEN s
  ELSE OnAcceptBlock(n, [s EXCEPT !.db.revisions = @ \cup {b}], b)

\* trySetHead with execute_fork: the index is edited first, then the blocks without a
\* revision are executed and accepted in order, and head is assigned at the end.
ExecuteFork(n, s, new) ==
  LET fork == ForkPoint(s.db, new)
      above == (fork + 1)..BlockNum(new)
      index == [i \in {j \in DOMAIN s.db.byBlocknumIndex : j <= fork} \cup above |->
                  IF i > fork THEN Ancestor(new, i) ELSE s.db.byBlocknumIndex[i]]
      executed[i \in fork..BlockNum(new)] ==
        IF i = fork THEN [s EXCEPT !.db.byBlocknumIndex = index]
        ELSE ExecuteBlock(n, executed[i - 1], Ancestor(new, i))
  IN  [executed[BlockNum(new)] EXCEPT
        !.db.head = new, !.db.databaseHead = IF above = {} THEN @ ELSE new]

\* The callback of switch_fork: reset_producers, on_fork_switch and do_gc.
AfterSwitch(s) == DoGc(IF s._state = "leader" THEN StartLeader(StopLeader(s)) ELSE s)

SwitchHead(n, s) ==
  LET viable == {b \in s.db.byOrderIndex : Term(b) <= s.db.currentTerm}
      best == CHOOSE b \in LastOf(viable) : TRUE
  IN  IF LastOf(viable) = {} THEN [s EXCEPT !.db = ConsensusFailure(@)]
      ELSE IF best = s.db.head \/ KeepsPending(s.db, s.db.head, best) THEN s
      ELSE IF Conflicts(s.db, best) THEN [s EXCEPT !.db = ConsensusFailure(@)]
      ELSE AfterSwitch(ExecuteFork(n, s, best))

-----------------------------------------------------------------------------
(***************************************************************************)
(* Views.                                                                  *)
(***************************************************************************)
\* compare_view_change: whether m replaces the message old of the same producer.  The
\* leader may improve its best block; of the others the least one counts.
ReplacesView(old, m) ==
  \/ old = NoMessage
  \/ old.term < m.term
  \/ /\ old.term = m.term
     /\ IF LeaderOf(m.term) = m.producer THEN PreparedLess(old, m) ELSE PreparedLess(m, old)

\* Whether set_producer_view returns true.
ViewImproves(s, p, term, m) ==
  s.views[p].term < term \/ (m # NoMessage /\ ReplacesView(s.views[p].best_message, m))

\* set_producer_view: also starts and stops the leader.
NewView(old, term, m) ==
  [term |-> IF old.term < term THEN term ELSE old.term,
   best_message |-> IF m # NoMessage /\ ReplacesView(old.best_message, m)
                      THEN m ELSE old.best_message]

StartOrStopLeader(n, s) ==
  LET leads == IsLeader(n, s) /\ IsTermReady(s)
  IN  IF s._state = "follower" /\ leads THEN StartLeader(s)
      ELSE IF s._state = "leader" /\ ~leads THEN SwitchHead(n, StopLeader(s))
      ELSE s

SetProducerView(n, s, p, term, m) ==
  StartOrStopLeader(n, [s EXCEPT !.views[p] = NewView(@, term, m)])

MakeViewChange(n, s) ==
  LET b == s.best_prepared
  IN  IF b \in s.db.states
        THEN ViewChangeMessage(s.current_term, n, b, Term(b), Quorum(Confirms(s, b).prepares))
        ELSE ViewChangeMessage(s.current_term, n, b, 0, FALSE)

SendViewChange(n, s, m) ==
  [SetProducerView(n, s, n, s.current_term, m) EXCEPT !.out = @ \cup {m}]

SyncCurrentTerm(n, s) == SendViewChange(n, s, MakeViewChange(n, s))

SetView(n, s, term) ==
  IF term > s.current_term
    THEN SyncCurrentTerm(n, [s EXCEPT !.current_term = term, !.db.currentTerm = term])
    ELSE s

(***************************************************************************)
(* on_commit and on_prepare for the confirmations of the producers P: one, *)
(* or the ones in a view change (load_prepares).                           *)
(***************************************************************************)
OnCommit(n, s, b, P) ==
  LET t == AddCommits(s, b, P)
      u == SetBlockData(t, b)
  IN  IF Completes(Confirms(s, b).commits, P)
        THEN CommitConfirmed(u, SetView(n, u, Term(b)), b) ELSE t

BecomePrepared(n, s, b) ==
  IF Better(b, s.best_prepared) THEN SetView(n, RecordPrepared(s, b), Term(b)) ELSE s

OnPrepare(n, s, b, P) ==
  LET t == AddPrepares(s, b, P)
  IN  IF Completes(Confirms(s, b).prepares, P)
        THEN CommitPrepared(n, BecomePrepared(n, t, b), b) ELSE t

\* skip_advanced_leaders
SkipAdvancedLeaders(s, term) ==
  CHOOSE t \in term..scenario.term + N :
    /\ View(s, LeaderOf(t)).term <= t
    /\ \A u \in term..t - 1 : View(s, LeaderOf(u)).term > u

\* minimum_viable_view: more than a third of the producers are in this view or later.
MinimumViableView(s) ==
  LET terms == {s.views[p].term : p \in Producer}
      ahead(t) == {p \in Producer : s.views[p].term >= t}
      viable == {t \in terms : Cardinality(ahead(t)) >= N - (N * 2) \div 3}
  IN  CHOOSE t \in viable : \A u \in viable : u <= t

CheckViewChangeThreshold(n, s) ==
  LET viable == MinimumViableView(s)
      term == SkipAdvancedLeaders(s, IF viable > s.current_term THEN viable ELSE s.current_term)
  IN  SetView(n, s, term)

\* do_view_change: producer p has confirmed a block of the term.
CheckIfImproved(n, s, improved) == IF improved THEN CheckViewChangeThreshold(n, s) ELSE s

DoViewChange(n, s, p, term) ==
  CheckIfImproved(n, SetProducerView(n, s, p, term, NoMessage), ViewImproves(s, p, term, NoMessage))

(***************************************************************************)
(* set_root: the view change of the leader selects the subtree.  Until     *)
(* there is a valid one, the best prepared block does, and the leader      *)
(* learns the prepares that it lacks from the others.                      *)
(***************************************************************************)
\* get_subtree_from_view_change
SubtreeFromViewChange(s, m) ==
  LET b == m.best_prepared
  IN  IF m = NoMessage THEN {}
      ELSE IF b = NoId THEN {CommittedBlock(s)}
      ELSE IF b \in s.db.states /\ ValidViewChange(b, m) THEN {b}
      ELSE {}

BestPreparedRoot(s) ==
  IF s.best_prepared \in s.db.states /\ BlockNum(s.best_prepared) >= s.db.commitIndex
    THEN s.best_prepared ELSE CommittedBlock(s)

BestPreparedSubtree(s) == [s EXCEPT !.db = SetSubtree(@, BestPreparedRoot(s))]

\* The leader loads the prepares of the best view change.
LoadPrepares(n, s, best) ==
  LET root == CHOOSE b \in SubtreeFromViewChange(s, best) : TRUE
  IN  SyncCurrentTerm(n, OnPrepare(n, s, root, IF best.proved THEN Producer ELSE {}))

ViewChangesInTerm(s) ==
  {View(s, p).best_message : p \in {q \in Producer : View(s, q).term = s.current_term}}

AwaitRoot(n, s) ==
  LET usable == {m \in ViewChangesInTerm(s) : SubtreeFromViewChange(s, m) # {}}
      best == {m \in usable : \A k \in usable : ~PreparedLess(m, k)}
  IN  IF best = {} \/ ~IsLeader(n, s) THEN s
      ELSE LoadPrepares(n, s, CHOOSE m \in best : TRUE)

SetRoot(n, s) ==
  IF IsTermReady(s)
    THEN [s EXCEPT !.db = SetSubtree(@, CHOOSE b \in SubtreeFromLeader(s) : TRUE)]
    ELSE BestPreparedSubtree(AwaitRoot(n, [s EXCEPT !.pendingBlocks =
           {b \in {m.best_prepared : m \in ViewChangesInTerm(s)} \ s.db.states :
              BlockNum(b) > s.db.commitIndex}]))

-----------------------------------------------------------------------------
(***************************************************************************)
(* The initial state is the one after the producers have started and       *)
(* exchanged their view changes for the first term.                        *)
(***************************************************************************)
FirstView(p) ==
  [term |-> scenario.first,
   best_message |-> ViewChangeMessage(scenario.first, p, NoId, 0, FALSE)]

FirstNode(n) ==
  LET s == [_state        |-> "follower",
            current_term  |-> scenario.first,
            confirmations |-> NoConfirmations,
            views         |-> [p \in Producer |-> FirstView(p)],
            pendingBlocks |-> {},
            best_prepared |-> NoId,
            best_confirm  |-> NoId,
            blockData     |-> {},
            db            |-> [NewDb(FirstBlock) EXCEPT !.currentTerm = scenario.first],
            out           |-> {}]
  IN  IF LeaderOf(scenario.first) = n THEN StartLeader(s) ELSE s

Init ==
  /\ scenario \in Scenarios
  /\ node = [n \in Correct |-> FirstNode(n)]
  /\ msgs = {}
  /\ produced = {}

(***************************************************************************)
(* The end of a callback of node n that leaves it in state s.              *)
(***************************************************************************)
Finish(n, s) ==
  /\ node' = [node EXCEPT ![n] = [s EXCEPT !.out = {}]]
  /\ msgs' = msgs \cup s.out

Running(n) == ~node[n].db.failed

\* Mutant: the timer waits until everybody is in the term.
CanTimeoutTogether(n) ==
  /\ Running(n) /\ n \in scenario.timeouts
  /\ \A p \in Producer : View(node[n], p).term >= node[n].current_term
  /\ SkipAdvancedLeaders(node[n], node[n].current_term + 1) <= scenario.term

\* The consensus timer runs while a quorum is in the current term: increase_view.
CanTimeout(n) ==
  LET s == node[n]
  IN  /\ Running(n) /\ n \in scenario.timeouts
      /\ Quorum({p \in Producer : View(s, p).term >= s.current_term})
      /\ SkipAdvancedLeaders(s, s.current_term + 1) <= scenario.term

Timeout(n) ==
  LET s == node[n]
  IN  /\ CanTimeout(n)
      /\ Finish(n, SetView(n, s, SkipAdvancedLeaders(s, s.current_term + 1)))
      /\ UNCHANGED <<produced, scenario>>

\* The block timer of a leader: finish_block with makeBlockData, start_leader,
\* on_produce_block and do_gc.
CanProduce(n) ==
  LET s == node[n]
  IN  /\ Running(n)
      /\ s._state = "leader"
      /\ BlockNum(s.db.head) < scenario.num
      /\ Cardinality({m \in produced : Term(m.block) = s.current_term}) < scenario.produced

ProduceBlock(n) ==
  LET s == node[n]
      b == FinishedBlock(s.db, LeaderIndex(s.db.blockContext.term))
      aux == Ancestor(b, CommitNum(b)) \in s.blockData
      started == StartLeader([s EXCEPT !.db = FinishBlock(@, LeaderIndex(@.blockContext.term))])
  IN  /\ CanProduce(n)
      /\ Finish(n, DoGc(PrepareAccepted(n, started, b)))
      /\ produced' = produced \cup {[block |-> b, aux |-> aux]}
      /\ UNCHANGED scenario

(***************************************************************************)
(* recv(BlockMessage): insert, on_accept_block_header and switch_fork.     *)
(***************************************************************************)
\* validate_aux_consensus_data: the certificate in a block proves that the block with
\* number commitNum is irreversible.
CommitCertified(s, b) ==
  LET t == IF OnBestChain(s.db, b) THEN [s EXCEPT !.db = Commit(@, BlockNum(b))]
           ELSE IF ContradictsPrepared(s, b) THEN [s EXCEPT !.db = ConsensusFailure(@)]
           ELSE SetConfirms(s, b, [Confirms(s, b) EXCEPT !.committedByBlock = TRUE])
  IN  [t EXCEPT !.best_prepared = BetterOf(b, @)]

ValidateAux(n, s, b) ==
  LET known == SetConfirms(s, b, [Confirms(s, b) EXCEPT !.commits = Producer])
  IN  IF b \notin s.db.states THEN s
      ELSE CommitCertified(SetView(n, SetBlockData(known, b), Term(b)), b)

RetryRoot(n, s, b) == IF b \in s.pendingBlocks THEN SetRoot(n, s) ELSE s

OnAcceptBlockHeader(n, s, b, aux) ==
  RetryRoot(n, IF aux THEN ValidateAux(n, s, Ancestor(b, CommitNum(b))) ELSE s, b)

RecvBlock(n, m) ==
  LET s == node[n]
  IN  /\ Running(n)
      /\ CanInsert(s.db, m.block)
      /\ Finish(n, SwitchHead(n, OnAcceptBlockHeader(n, [s EXCEPT !.db = Insert(@, m.block)],
                                                     m.block, m.aux)))
      /\ UNCHANGED <<produced, scenario>>

(***************************************************************************)
(* recv(PrepareMessage) and recv(CommitMessage).  Each message raises the  *)
(* view of its producer, whose view change for the term may still be on    *)
(* its way.  One that has no other effect than to be remembered is handled *)
(* together with the one that completes the quorum, for the producers P.   *)
(***************************************************************************)
JustCompletes(S, P) ==
  P \cap S = {} /\ Completes(S, P) /\ \A p \in P : ~Quorum((S \cup P) \ {p})

\* Whether P is one producer whose view the message raises.
RaisesView(s, P, term) == \E p \in P : P = {p} /\ s.views[p].term < term

DoViewChanges(n, s, P, term) ==
  LET handled[i \in 0..N] ==
        IF i = 0 THEN s
        ELSE IF Order[i] \in P THEN DoViewChange(n, handled[i - 1], Order[i], term)
        ELSE handled[i - 1]
  IN  handled[N]

CanPrepare(n, b, P) ==
  /\ Running(n) /\ b \in node[n].db.states
  /\ \A p \in P : PrepareMessage(b, p) \in msgs
  /\ JustCompletes(Confirms(node[n], b).prepares, P) \/ RaisesView(node[n], P, Term(b))

CanCommit(n, b, P) ==
  /\ Running(n) /\ b \in node[n].db.states
  /\ \A p \in P : CommitMessage(b, p) \in msgs
  /\ JustCompletes(Confirms(node[n], b).commits, P) \/ RaisesView(node[n], P, Term(b))

RecvPrepares(n, b, P) ==
  LET s == node[n]
  IN  /\ CanPrepare(n, b, P)
      /\ Finish(n, OnPrepare(n, DoViewChanges(n, s, P, Term(b)), b, P))
      /\ UNCHANGED <<produced, scenario>>

RecvCommits(n, b, P) ==
  LET s == node[n]
  IN  /\ CanCommit(n, b, P)
      /\ Finish(n, SwitchHead(n, OnCommit(n, DoViewChanges(n, s, P, Term(b)), b, P)))
      /\ UNCHANGED <<produced, scenario>>

\* Any message of a producer may also start or stop the leader.
CanChangeView(n, m) ==
  /\ Running(n) /\ m.type = "ViewChange"
  /\ \/ ViewImproves(node[n], m.producer, m.term, m)
     \/ StartOrStopLeader(n, node[n]) # node[n]

FollowViewChange(n, s, improved) ==
  IF improved THEN SwitchHead(n, SetRoot(n, CheckViewChangeThreshold(n, s))) ELSE s

SwitchIfNewTerm(n, s, term) == IF s.current_term = term THEN s ELSE SwitchHead(n, s)

RecvViewChange(n, m) ==
  LET s == node[n]
      t == SetProducerView(n, s, m.producer, m.term, m)
  IN  /\ CanChangeView(n, m)
      /\ Finish(n, SwitchIfNewTerm(n, FollowViewChange(n, t, ViewImproves(s, m.producer, m.term, m)),
                                   s.current_term))
      /\ UNCHANGED <<produced, scenario>>

-----------------------------------------------------------------------------
(***************************************************************************)
(* Faulty producers.  A faulty leader builds on any block; two blocks that *)
(* differ only in what they claim to be irreversible are different blocks. *)
(* A view change can prove only what has been prepared.                    *)
(***************************************************************************)
Blocks == {FirstBlock} \cup {m.block : m \in produced}

\* Whether enough signatures for a proof that b is prepared exist.
CanProve(b) == Quorum(Faulty \cup {p \in Correct : PrepareMessage(b, p) \in msgs})

\* The view changes that node n may get from them: they name no block, or any block.
ForgedViewChanges(n) ==
  {ViewChangeMessage(t, p, b, IF b = NoId THEN 0 ELSE Term(b), b # NoId /\ CanProve(b)) :
     t \in scenario.first..scenario.term,
     p \in {q \in Faulty : n \in scenario.told},
     b \in Blocks \cup {NoId}}

Forge(t, prev) ==
  LET num == 1 + Cardinality({c \in Blocks \ {FirstBlock} : Previous(c) = prev /\ Term(c) = t})
      b == Append(prev, [term |-> t, producer |-> LeaderIndex(t), commitNum |-> num, valid |-> TRUE])
  IN  /\ LeaderOf(t) \in Faulty
      /\ t >= Term(prev)
      /\ BlockNum(b) <= scenario.num
      /\ Cardinality({m \in produced : IsForged(m.block)}) < scenario.forged
      /\ num <= BlockNum(b)
      /\ produced' = produced \cup {[block |-> b, aux |-> FALSE]}
      /\ UNCHANGED <<node, msgs, scenario>>

Next ==
  \/ \E n \in Correct :
       \/ Timeout(n)
       \/ ProduceBlock(n)
       \/ \E m \in produced : RecvBlock(n, m)
       \/ \E b \in Blocks, P \in SUBSET Correct : RecvPrepares(n, b, P) \/ RecvCommits(n, b, P)
       \/ \E m \in msgs \cup ForgedViewChanges(n) : RecvViewChange(n, m)
  \/ \E t \in scenario.first..scenario.term, prev \in Blocks : Forge(t, prev)

Spec == Init /\ [][Next]_vars

(***************************************************************************)
(* Fairness: the timers of correct nodes fire and messages between them    *)
(* arrive; as long as there is such a step, something happens.  Faulty     *)
(* producers cannot prevent it for ever, because forged blocks are         *)
(* bounded.  CanStep is written out because it is much cheaper to evaluate *)
(* than ENABLED.                                                           *)
(***************************************************************************)
CanStep ==
  \E n \in Correct :
    \/ CanTimeout(n)
    \/ CanProduce(n)
    \/ \E m \in produced : Running(n) /\ CanInsert(node[n].db, m.block)
    \/ \E b \in Blocks, P \in SUBSET Correct : CanPrepare(n, b, P) \/ CanCommit(n, b, P)
    \/ \E m \in msgs : CanChangeView(n, m)

Fairness == []<>(~CanStep) \/ []<><<TRUE>>_vars
FairSpec == Spec /\ Fairness
-----------------------------------------------------------------------------
Committed(n) == Ancestor(node[n].db.head, node[n].db.commitIndex)
LongestCommitted ==
  CHOOSE b \in {Committed(n) : n \in Correct} :
    \A n \in Correct : BlockNum(Committed(n)) <= BlockNum(b)

SameFork(b, c) == IsAncestor(b, c) \/ IsAncestor(c, b)
Sent(type) == {m \in msgs : m.type = type}

\* make_view_change asserts that it has the confirmations of best_prepared.  Garbage
\* collection must not remove them, nor the block, whatever becomes irreversible.
BestPreparedIsKnown ==
  \A n \in Correct :
    LET b == node[n].best_prepared
    IN  b # NoId => b \in node[n].db.states \cap DOMAIN node[n].confirmations

\* is_forbidden_fork: a correct producer prepares one fork per term, also if the leader of
\* the term signs conflicting blocks and the node switches between them.
OneForkPerTerm ==
  \A m, k \in Sent("Prepare") :
    m.producer = k.producer /\ Term(m.block) = Term(k.block) => SameFork(m.block, k.block)

\* do_commit: what a correct producer commits has been prepared by a quorum.
CommitsArePrepared ==
  \A m \in Sent("Commit") :
    Quorum(Faulty \cup {p \in Correct : PrepareMessage(m.block, p) \in msgs})

\* make_view_change: the view changes of a producer for later terms tell of every block
\* that it has committed, or of a better one.  Commits and view changes of the same
\* producer may be sent by different callbacks in any order.
ViewChangesReportCommits ==
  \A m \in Sent("Commit"), k \in Sent("ViewChange") :
    m.producer = k.producer /\ Term(m.block) < k.term =>
      ~PreparedLess(k, ViewChangeMessage(k.term, k.producer, m.block, Term(m.block), TRUE))

\* ForkDb::commit and set_root: only descendants of the last irreversible block are
\* considered when the node searches for the best block.
OnlyDescendantsConsidered ==
  \A n \in Correct :
    \A b \in node[n].db.byOrderIndex : IsAncestor(CommittedBlock(node[n]), b)

\* The correct nodes implement the abstract irreversible chain: it only grows, and so does
\* the part of it that each node knows.
Abstract == INSTANCE Irreversibility WITH
  Node <- Correct, First <- FirstBlock,
  chain <- LongestCommitted, seen <- [n \in Correct |-> Committed(n)]

ImplementsIrreversibility == Abstract!Spec

\* All correct nodes are in the last term, in which no timer fires, and know its root.
Stable ==
  \A n \in Correct : node[n].current_term = scenario.term /\ IsTermReady(node[n])

\* increase_view and check_view_change_threshold: the view changes get all correct nodes
\* out of the term of a leader that has failed and into the last term, and its leader
\* obtains what it needs to prove its best prepared block.
EventuallyStable == <>[]Stable

\* When all are in the term, the next block of the leader becomes irreversible everywhere,
\* with the blocks before it, although nobody confirms a block again that arrived before
\* the term was ready.
StableMakesProgress ==
  Stable /\ CanProduce(LeaderOf(scenario.term)) ~>
    \A n, m \in Correct : Committed(n) = node[m].db.head /\ Committed(n) # FirstBlock

\* is_term_ready: the root of a term is the best block of a quorum of view changes for the
\* term (bft.md, rule 4).  A confirmation raises the view of its producer at once, while
\* the view change that counts for it may still be the one for an earlier term.
ReadyHasViewChanges ==
  \A n \in Correct :
    LET s == node[n]
    IN  IsTermReady(s) =>
          Quorum({p \in Producer : View(s, p).best_message.term = s.current_term})
=============================================================================
