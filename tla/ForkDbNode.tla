----------------------------- MODULE ForkDbNode -----------------------------
(***************************************************************************)
(* One node's fork database under everything that its consensus layer and  *)
(* its peers may do to it: blocks of any fork arrive in any order, some    *)
(* fail to execute, any block of the best chain becomes irreversible, the  *)
(* consensus algorithm restricts the choice of the head to a subtree, the  *)
(* term advances, blocks are produced, and the node is restarted, also in  *)
(* the middle of a fork switch.                                            *)
(*                                                                         *)
(* Each action is a handler of blocknet or of a consensus class, from the  *)
(* event to the end of the callback, with its trailing fork switch and     *)
(* garbage collection.                                                     *)
(***************************************************************************)
EXTENDS ForkDb

CONSTANTS
  Self,        \* this node as a producer, a number
  LeaderOf,    \* the one producer that produces blocks in a term, for every term
  MaxTerm,     \* bound on terms
  MaxNum,      \* bound on block numbers
  MaxStates,   \* bound on the number of blocks kept at a time
  MaxRestarts  \* bound on the number of restarts

ASSUME ForkDbNodeAssumption ==
  /\ Self \in Nat /\ LeaderOf \in [0..MaxTerm -> Nat]
  /\ {MaxTerm, MaxNum, MaxStates, MaxRestarts} \subseteq Nat

VARIABLES
  db,        \* the fork database
  stopped,   \* production has stopped since the last fork switch
  restarts   \* how often the node was restarted

vars == <<db, stopped, restarts>>

Producers == {LeaderOf[t] : t \in 0..MaxTerm}

\* The first block of the chain is irreversible from the start.
FirstBlock == <<[term |-> 0, producer |-> LeaderOf[0], commitNum |-> 1, valid |-> TRUE]>>

Init == db = NewDb(FirstBlock) /\ stopped = FALSE /\ restarts = 0

\* blocknet::start_leader and stop_leader, as far as the database is concerned.
StartLeader(d) == StartBlock(d, d.currentTerm)
StopLeader(d) == IF d.blockContext = NoBlock THEN d ELSE AbortBlock(d)

(***************************************************************************)
(* blocknet::switch_fork with its callback: a leader whose pending block   *)
(* no longer builds on the head starts a new one, and garbage is collected *)
(* when the head has changed.                                              *)
(***************************************************************************)
\* Mutation: the leader goes on with a block that no longer builds on the head.
ResetNothing(s) == s

ResetLeader(s) == IF s.blockContext = NoBlock THEN s ELSE StartLeader(StopLeader(s))

AfterSwitch(d, s) == IF s.failed \/ s.head = d.head THEN s ELSE Gc(ResetLeader(s))

SwitchForkAndGc(d) == IF d.failed THEN d ELSE AfterSwitch(d, SwitchFork(d))

Handle(d) == db' = d /\ UNCHANGED <<stopped, restarts>>
HandleAndSwitch(d) == db' = d /\ stopped' = FALSE /\ UNCHANGED restarts

\* A block other producers may send.  Each term has one leader.  The commitNum only
\* covers blocks that a quorum has executed, so these are valid; terms never decrease
\* along a chain.  A leader may send conflicting blocks in its term, and invalid ones.
PeerBlock(b) ==
  /\ BlockNum(b) <= MaxNum
  /\ b[Len(b)].producer = LeaderOf[Term(b)] /\ LeaderOf[Term(b)] # Self
  /\ Term(b) >= Term(Previous(b))
  /\ CommitNum(b) \in CommitNum(Previous(b))..(BlockNum(b) - 1)
  /\ \A i \in 1..CommitNum(b) : b[i].valid

(***************************************************************************)
(* recv(BlockMessage): insert the block, advance the term and make sure    *)
(* that the block its header says is irreversible is considered viable     *)
(* (basic_cft_consensus::on_accept_block_header), then switch forks.       *)
(***************************************************************************)
FollowCommitNum(t, b) ==
  LET committed == Ancestor(b, CommitNum(b))
  IN  IF ~t.failed /\ CommitNum(b) > t.commitIndex /\ ~InBestChain(t, committed)
        THEN SetSubtree(t, committed) ELSE t

\* update_term, up to the fork switch, and with it.
AdvanceTerm(d, term) == IF term > d.currentTerm THEN [d EXCEPT !.currentTerm = term] ELSE d

UpdateTerm(d, term) ==
  IF term > d.currentTerm /\ d.blockContext # NoBlock
    THEN SwitchForkAndGc(StopLeader(AdvanceTerm(d, term)))
    ELSE AdvanceTerm(d, term)

OnAcceptBlockHeader(d, b) == FollowCommitNum(UpdateTerm(d, Term(b)), b)

CanReceive(b) ==
  /\ ~db.failed
  /\ Cardinality(db.states) < MaxStates
  /\ PeerBlock(b)
  /\ CanInsert(db, b)

RecvBlock(parent, header) ==
  LET b == Append(parent, header)
  IN  /\ CanReceive(b)
      /\ HandleAndSwitch(SwitchForkAndGc(OnAcceptBlockHeader(Insert(db, b), b)))

\* set_subtree followed by switch_fork: the consensus algorithm selects a subtree,
\* whose root has been executed by a quorum and is therefore valid.
CanSelect(root) ==
  /\ ~db.failed
  /\ root \in db.states
  /\ Term(root) <= db.currentTerm
  /\ \A i \in 1..Len(root) : root[i].valid

SelectSubtree(root) ==
  /\ CanSelect(root)
  /\ HandleAndSwitch(SwitchForkAndGc(SetSubtree(db, root)))

\* Enough producers have confirmed block number num of the best chain.
ConfirmBlock(num) ==
  /\ ~db.failed
  /\ num \in (db.commitIndex + 1)..BlockNum(db.head)
  /\ Handle(Commit(db, num))

\* A message of a newer term arrives: stop producing and switch forks.
NewTerm ==
  /\ ~db.failed
  /\ db.currentTerm < MaxTerm
  /\ IF db.blockContext = NoBlock THEN Handle(UpdateTerm(db, db.currentTerm + 1))
     ELSE HandleAndSwitch(UpdateTerm(db, db.currentTerm + 1))

\* The node becomes the leader of the current term, or stops being it because its
\* election timer fires: that handler does not switch forks.
BecomeLeader ==
  /\ ~db.failed
  /\ db.blockContext = NoBlock
  /\ LeaderOf[db.currentTerm] = Self
  /\ Handle(StartLeader(db))

LoseLeadership ==
  /\ ~db.failed
  /\ db.blockContext # NoBlock
  /\ db' = StopLeader(db)
  /\ stopped' = TRUE
  /\ UNCHANGED restarts

\* The block timer: finish the pending block, start the next one, collect garbage.
ProduceBlock ==
  /\ ~db.failed
  /\ db.blockContext # NoBlock
  /\ BlockNum(db.head) < MaxNum
  /\ Cardinality(db.states) < MaxStates
  /\ Handle(Gc(StartLeader(FinishBlock(db, Self))))

\* Or writing the block fails: finish_block drops it and the leader starts another one.
ProduceFails ==
  /\ ~db.failed
  /\ db.blockContext # NoBlock
  /\ Handle(StartLeader(AbortBlock(db)))

\* The process exits, for any reason, and is started again.
Restart ==
  /\ restarts < MaxRestarts
  /\ db' = Reload(db)
  /\ stopped' = FALSE
  /\ restarts' = restarts + 1

(***************************************************************************)
(* The process exits while a handler is switching forks, and is started    *)
(* again.  execute_fork saves each block of the new chain when it has      *)
(* executed it, so that what is left behind is as if the block at which it *)
(* stopped had been the new head.                                          *)
(***************************************************************************)
\* Iterations of the loop are over and have left e; in the next one the process exits.
CrashInIteration(e, original) ==
  \E best \in LastOf({b \in e.byOrderIndex : Term(b) <= e.currentTerm}) :
    \E b \in e.states :
      /\ IsAncestor(b, Target(e, original, best))
      /\ \A i \in 1..Len(b) : b[i].valid
      /\ db' = Reload(TrySetHead(e, b))
      /\ stopped' = FALSE
      /\ restarts' = restarts + 1

\* In the fork switch at the end of a handler, or in the one of update_term.
Crash(d) ==
  /\ restarts < MaxRestarts
  /\ ~d.failed
  /\ \E k \in 0..Cardinality(d.states) :
       LET loop == SwitchLoop(d)[k] IN ~loop.done /\ CrashInIteration(loop.db, d.head)

CrashInUpdateTerm(d, term) ==
  /\ term > d.currentTerm /\ d.blockContext # NoBlock
  /\ Crash(StopLeader(AdvanceTerm(d, term)))

RecvBlockCrashes(parent, header) ==
  LET b == Append(parent, header)
  IN  /\ CanReceive(b)
      /\ \/ CrashInUpdateTerm(Insert(db, b), Term(b))
         \/ Crash(OnAcceptBlockHeader(Insert(db, b), b))

SelectSubtreeCrashes(root) == CanSelect(root) /\ Crash(SetSubtree(db, root))

NewTermCrashes ==
  ~db.failed /\ db.currentTerm < MaxTerm /\ CrashInUpdateTerm(db, db.currentTerm + 1)

Next ==
  \/ \E parent \in db.states, header \in Header(0..MaxTerm, Producers, 1..MaxNum) :
       RecvBlock(parent, header) \/ RecvBlockCrashes(parent, header)
  \/ \E root \in db.states : SelectSubtree(root) \/ SelectSubtreeCrashes(root)
  \/ \E num \in 1..MaxNum : ConfirmBlock(num)
  \/ NewTerm \/ NewTermCrashes
  \/ BecomeLeader
  \/ LoseLeadership
  \/ ProduceBlock
  \/ ProduceFails
  \/ Restart

Spec == Init /\ [][Next]_vars
-----------------------------------------------------------------------------

\* byBlocknumIndex is the chain of the head after every handler, whatever fork it
\* switched to and whichever block of the new fork failed to execute.
IndexIsBestChain == IndexIsChainOfHead(db)

\* After every handler the head is the best block that may be the head, or a block
\* is being produced on it that is better than that; except from the moment the
\* leader's election timer has fired until the next fork switch.
HeadIsBest ==
  LET viable == {b \in db.byOrderIndex : Term(b) <= db.currentTerm}
  IN  ~db.failed /\ ~stopped =>
        /\ db.head \in viable
        /\ \A best \in LastOf(viable) : db.head = best \/ KeepsPending(db, db.head, best)

\* A descendant of a block that failed to execute is marked invalid as well, no
\* invalid block may become the head, and only valid blocks have a revision.
InvalidIsClosed ==
  /\ \A b \in db.states : Previous(b) \in db.invalid => b \in db.invalid
  /\ db.invalid \cap (db.byOrderIndex \cup db.revisions) = {}

\* If the process stops now, the restarted node finds the same head, and every block
\* from the last irreversible one to the head.
RestartKeepsChain ==
  ~db.failed =>
    /\ Reload(db).head = db.head
    /\ Reload(db).commitIndex <= db.commitIndex
    /\ \A i \in db.commitIndex..BlockNum(db.head) : Ancestor(db.head, i) \in Reload(db).states

\* "An irreversible block cannot be forked out": no step takes the blocks up to
\* commitIndex out of the best chain, not even a restart in the middle of a fork switch,
\* and commitIndex does not decrease while the node runs.
IrreversibleStays ==
  [][/\ IsAncestor(Ancestor(db.head, db.commitIndex), db'.head)
     /\ restarts' = restarts => db'.commitIndex >= db.commitIndex]_vars

\* A block that is being produced builds on the head, and declares no block
\* irreversible that is not, although the head may change under it.  (A node that
\* fails in the middle of a fork switch exits without starting its block again.)
PendingExtendsHead == ~db.failed => PendingBuildsOnHead(db)
=============================================================================
