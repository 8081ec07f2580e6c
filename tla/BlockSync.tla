------------------------------ MODULE BlockSync ------------------------------
(***************************************************************************)
(* The block exchange of blocknet over one connection between two nodes.   *)
(* The nodes first look for a common block: each sends hello messages with *)
(* the id of its head, of the block before it, and so on down to its last  *)
(* irreversible block.  A node that has found a common block then sends    *)
(* the blocks of its best chain above it, and goes on with every new head. *)
(* Meanwhile both nodes receive blocks from other peers, switch forks and  *)
(* advance irreversibility.                                                *)
(*                                                                         *)
(* Each action is one callback of a node: a connection is made, a message  *)
(* of the peer or a block from elsewhere is received, a write has          *)
(* completed, or the consensus algorithm commits a block.  A connection    *)
(* delivers messages in order and at most one is being written at a time.  *)
(*                                                                         *)
(* The block logs are complete, so no snapshots are sent.  A lost          *)
(* connection takes its whole state with it, and a new one starts as the   *)
(* first one does.  A node that produces a block is here a node that       *)
(* learns a new block: both run on_fork_switch and do_gc.                  *)
(***************************************************************************)
EXTENDS ForkDb

CONSTANTS
  Node,       \* the two nodes
  World,      \* the blocks that the producers produce
  Final,      \* the block of World that becomes irreversible, with all its ancestors
  QuietStart  \* whether no block arrives from elsewhere while a connection is started

FirstBlock == Ancestor(Final, 1)

MayCommit(head, num) ==
  /\ IsAncestor(Ancestor(head, num), Final)
  /\ \A b \in World : OrderLess(head, b) => IsAncestor(Ancestor(head, num), b)

(***************************************************************************)
(* What correct producers and the consensus algorithm guarantee: every     *)
(* block executes, terms do not decrease along a chain, the leader of a    *)
(* term produces one chain, and if a block is irreversible for a node with *)
(* a certain head, then every block that is better than that head descends *)
(* from it.                                                                *)
(***************************************************************************)
ASSUME BlockSyncAssumption ==
  /\ \E a, b \in Node : a # b /\ Node = {a, b}
  /\ World \subseteq Block /\ Final \in World
  /\ QuietStart \in BOOLEAN
  /\ \A b \in World :
       /\ Ancestor(b, 1) = FirstBlock
       /\ \A i \in 1..BlockNum(b) : Ancestor(b, i) \in World /\ b[i].valid /\ b[i].term <= Term(b)
       /\ MayCommit(b, CommitNum(b))
  /\ \A b, c \in World : Term(b) = Term(c) /\ BlockNum(b) <= BlockNum(c) => IsAncestor(b, c)

VARIABLES
  node,  \* the state of every node
  chan   \* chan[n]: the messages from n to its peer, in the order in which they were sent

vars == <<node, chan>>

Peer(n) == CHOOSE m \in Node : m # n

(***************************************************************************)
(* Messages.                                                               *)
(***************************************************************************)
HelloRequest(xid, committed) == [type |-> "hello", xid |-> xid, committed |-> committed]
BlockMessage(b) == [type |-> "block", xid |-> b, committed |-> FALSE]

(***************************************************************************)
(* The states of a connection.  "error" stands for an exception or a       *)
(* failed assertion.                                                       *)
(***************************************************************************)
None == <<>>  \* there is no block in an std::optional<ExtendedBlockId>

NotConnected == [tag |-> "none"]
ConnectionError == [tag |-> "error"]

ConnectionStateStart(hello, committed, sent, common) ==
  [tag |-> "start", hello |-> hello, committed |-> committed, hello_sent |-> sent,
   common |-> common]

ConnectionStateReady(sent, received) ==
  [tag |-> "ready", last_sent |-> sent, last_received |-> received]

\* A node: its fork database, its end of the connection, whether a write is under
\* way, and what the running callback has sent (out) and reported to the consensus
\* algorithm with post_send_block (posted).
NewNode ==
  [db |-> NewDb(FirstBlock), state |-> NotConnected, sending |-> FALSE,
   out |-> <<>>, posted |-> {}]

Init ==
  /\ node = [n \in Node |-> NewNode]
  /\ chan = [n \in Node |-> <<>>]

-----------------------------------------------------------------------------
(***************************************************************************)
(* Queries of the fork database and the block log.                         *)
(***************************************************************************)
\* ForkDb::get finds the block: it has a state or is in the log of the best chain.
Known(db, b) == b \in db.states \/ IsAncestor(b, db.head)

\* ForkDb::get_block_id, for numbers from the first block on.
GetBlockId(db, num) == IF num <= BlockNum(db.head) THEN Ancestor(db.head, num) ELSE None

\* ForkDb::get_common_ancestor, which requires that b is known: otherwise it throws,
\* or get_prev_id dereferences a null pointer.
GetCommonAncestor(db, b) ==
  CHOOSE a \in {Ancestor(b, i) : i \in 1..BlockNum(b)} :
    /\ IsAncestor(a, db.head)
    /\ \A i \in (BlockNum(a) + 1)..BlockNum(b) : ~IsAncestor(Ancestor(b, i), db.head)

Error(s) == [s EXCEPT !.state = ConnectionError]

-----------------------------------------------------------------------------
(***************************************************************************)
(* async_send_next, which starts the next write if there is something to   *)
(* send.                                                                   *)
(***************************************************************************)
Send(s, m) == [s EXCEPT !.out = Append(@, m), !.sending = TRUE]
PostSendBlock(s, b) == [s EXCEPT !.posted = @ \cup {b}]

\* In ConnectionStateReady: the block after the last one that was sent.
SendBlock(s, next) ==
  PostSendBlock(Send([s EXCEPT !.state.last_sent = next], BlockMessage(next)), next)

SendNextReady(s) ==
  LET num == BlockNum(s.state.last_sent)
  IN  IF num = BlockNum(s.db.head) THEN s
      ELSE IF GetBlockId(s.db, num + 1) = None THEN Error(s)
      ELSE SendBlock(s, GetBlockId(s.db, num + 1))

\* Mutation: the peer is thought to have the whole chain.
MakeReadyAtHead(s, common) ==
  [s EXCEPT !.state = ConnectionStateReady(s.db.head, common)]

\* make_connection_ready.
MakeReady(s, common) ==
  [s EXCEPT !.state = ConnectionStateReady(common, common)]

\* In ConnectionStateStart: all hello messages are sent.  If the peer's irreversible
\* block is in this node's future, wait for its blocks.
FinishStart(s) ==
  LET common == s.state.common
  IN  IF common = None THEN s
      ELSE IF common \in s.db.states
             THEN SendNextReady(MakeReady(s, GetCommonAncestor(s.db, common)))
      ELSE IF BlockNum(common) > s.db.commitIndex THEN s
      ELSE SendNextReady(MakeReady(s, common))

\* The block before the last hello message or, if that is gone, the last
\* irreversible block.
PrevHello(s) ==
  IF s.state.hello \in s.db.states /\ Previous(s.state.hello) \in s.db.states
    THEN Previous(s.state.hello)
    ELSE Ancestor(s.db.head, s.db.commitIndex)

SendHello(s, hello) ==
  LET committed == BlockNum(hello) <= s.db.commitIndex
  IN  Send([s EXCEPT !.state = ConnectionStateStart(hello, committed, TRUE, @.common)],
           HelloRequest(hello, committed))

SendNextStart(s) ==
  IF s.state.committed THEN FinishStart(s)
  ELSE SendHello(s, IF s.state.hello_sent THEN PrevHello(s) ELSE s.state.hello)

AsyncSendNext(s) ==
  CASE s.state.tag = "start" -> SendNextStart(s)
    [] s.state.tag = "ready" -> SendNextReady(s)
    [] OTHER -> s

SendIfIdle(s) == IF s.sending THEN s ELSE AsyncSendNext(s)

(***************************************************************************)
(* on_fork_switch: the blocks that the connection refers to are replaced   *)
(* by their nearest ancestors in the new best chain.                       *)
(***************************************************************************)
ForkSwitchStart(s, hello) ==
  LET common == s.state.common
  IN  [s EXCEPT !.state = ConnectionStateStart(
         hello, @.committed, @.hello_sent /\ hello = @.hello,
         IF common # None /\ common \in s.db.states THEN GetCommonAncestor(s.db, common)
         ELSE common)]

Later(a, b) == IF BlockNum(b) > BlockNum(a) THEN b ELSE a

\* Mutation: last_sent is not backed up.
ForkSwitchKeepsSent(s) == SendIfIdle(s)

ForkSwitchReady(s) ==
  LET sent == GetCommonAncestor(s.db, s.state.last_sent)
      received == s.state.last_received
  IN  SendIfIdle([s EXCEPT !.state.last_sent =
        IF received \in s.db.states THEN Later(sent, GetCommonAncestor(s.db, received))
        ELSE sent])

OnForkSwitch(s) ==
  CASE s.state.tag = "start" ->
         IF Known(s.db, s.state.hello)
           THEN ForkSwitchStart(s, GetCommonAncestor(s.db, s.state.hello)) ELSE Error(s)
    [] s.state.tag = "ready" ->
         IF Known(s.db, s.state.last_sent) THEN ForkSwitchReady(s) ELSE Error(s)
    [] OTHER -> s

(***************************************************************************)
(* switch_fork: on_fork_switch runs before orphaned blocks are pruned.  No *)
(* block of a correct producer fails to execute, so the loop of            *)
(* async_switch_fork ends with its first iteration.                        *)
(***************************************************************************)
\* Mutation: the order of the two is swapped.
AfterSwitchGcFirst(s, db) ==
  IF db.head = s.db.head THEN [s EXCEPT !.db = db]
  ELSE OnForkSwitch([s EXCEPT !.db = Gc(db)])

AfterSwitch(s, db) ==
  IF db.head = s.db.head THEN [s EXCEPT !.db = db]
  ELSE [OnForkSwitch([s EXCEPT !.db = db]) EXCEPT !.db = Gc(@)]

SwitchForkAndGc(s) == AfterSwitch(s, SwitchOnce(s.db, s.db.head).db)

(***************************************************************************)
(* ForkDb::insert and on_accept_block_header for a node that is not the    *)
(* leader: follow the term of the block and what it says is irreversible.  *)
(***************************************************************************)
FollowCommitNum(db, b) ==
  LET committed == Ancestor(b, CommitNum(b))
  IN  IF CommitNum(b) > db.commitIndex /\ ~InBestChain(db, committed)
        THEN SetSubtree(db, committed) ELSE db

FollowTerm(db, term) == IF term > db.currentTerm THEN [db EXCEPT !.currentTerm = term] ELSE db

AcceptHeader(s, b) ==
  [s EXCEPT !.db = FollowCommitNum(FollowTerm(Insert(@, b), Term(b)), b)]

\* update_last_received.  The connection of a node that is still looking for a common
\* block becomes ready.
UpdateLastReceived(s, b) ==
  LET best == InBestChain(s.db, b)
  IN  PostSendBlock(
        CASE s.state.tag = "start" ->
               [s EXCEPT !.state = ConnectionStateReady(GetCommonAncestor(s.db, b), b)]
          [] s.state.tag = "ready" ->
               [s EXCEPT !.state = ConnectionStateReady(IF best THEN Later(@.last_sent, b)
                                                        ELSE @.last_sent, b)]
          [] OTHER -> s, b)

-----------------------------------------------------------------------------
(***************************************************************************)
(* recv(HelloRequest).                                                     *)
(***************************************************************************)

\* Skip blocks that the peer does not have.
SkipHello(s, m) ==
  IF /\ ~s.state.committed
     /\ BlockNum(s.state.hello) > BlockNum(m.xid) + (IF s.state.hello_sent THEN 1 ELSE 0)
    THEN [s EXCEPT !.state.hello = GetBlockId(s.db, BlockNum(m.xid)), !.state.hello_sent = FALSE]
    ELSE s

\* Mutation: nothing is sent when the connection becomes ready.
FoundCommonIsIdle(s, common) ==
  IF s.state.committed THEN MakeReady(s, common) ELSE [s EXCEPT !.state.common = common]

\* A common block is found.
FoundCommon(s, common) ==
  IF s.state.committed THEN SendIfIdle(MakeReady(s, common))
  ELSE [s EXCEPT !.state.common = common]

\* Mutation: an unknown block counts as a future one even if it is not irreversible.
CompareHelloTrusting(s, m) ==
  IF m.xid \in s.db.states THEN FoundCommon(s, GetCommonAncestor(s.db, m.xid))
  ELSE IF GetBlockId(s.db, BlockNum(m.xid)) = m.xid THEN FoundCommon(s, m.xid)
  ELSE [s EXCEPT !.state.common = m.xid]

CompareHello(s, m) ==
  IF m.xid \in s.db.states THEN FoundCommon(s, GetCommonAncestor(s.db, m.xid))
  ELSE IF GetBlockId(s.db, BlockNum(m.xid)) = m.xid THEN FoundCommon(s, m.xid)
  ELSE IF m.committed /\ BlockNum(m.xid) <= s.db.commitIndex THEN Error(s)
  ELSE IF m.committed THEN [s EXCEPT !.state.common = m.xid]
  ELSE s

RecvHello(s, m) ==
  IF s.state.tag # "start" \/ s.state.common # None THEN s
  ELSE CompareHello(SkipHello(s, m), m)

(***************************************************************************)
(* recv(BlockMessage).  A block that cannot be inserted is ignored, but a  *)
(* known one still tells what the peer has.                                *)
(***************************************************************************)
RecvBlock(s, b) ==
  IF CanInsert(s.db, b) THEN SwitchForkAndGc(UpdateLastReceived(AcceptHeader(s, b), b))
  ELSE IF b \in s.db.states /\ BlockNum(b) > s.db.commitIndex THEN UpdateLastReceived(s, b)
  ELSE s

-----------------------------------------------------------------------------
(***************************************************************************)
(* The actions.                                                            *)
(***************************************************************************)
Begin(n) == [node[n] EXCEPT !.posted = {}]

\* The end of a callback of n that leaves it in state s.
Finish(n, s, channels) ==
  /\ node' = [node EXCEPT ![n] = [s EXCEPT !.out = <<>>]]
  /\ chan' = [channels EXCEPT ![n] = @ \o s.out]

Connect(n) ==
  /\ node[n].state = NotConnected
  /\ Finish(n, AsyncSendNext([Begin(n) EXCEPT
       !.state = ConnectionStateStart(node[n].db.head, FALSE, FALSE, None)]), chan)

\* The handler of async_send: the write has completed.
SendHandler(n) ==
  /\ node[n].sending
  /\ Finish(n, AsyncSendNext([Begin(n) EXCEPT !.sending = FALSE]), chan)

CanRecv(n) == node[n].state # NotConnected /\ chan[Peer(n)] # <<>>

Recv(n) ==
  LET from == Peer(n)
  IN  /\ CanRecv(n)
      /\ LET m == Head(chan[from])
         IN  Finish(n, IF m.type = "hello" THEN RecvHello(Begin(n), m)
                       ELSE RecvBlock(Begin(n), m.xid),
                    [chan EXCEPT ![from] = Tail(@)])

\* A block arrives from another peer or is produced.
Learn(n, b) ==
  /\ QuietStart => node[n].state.tag # "start"
  /\ CanInsert(node[n].db, b)
  /\ Finish(n, SwitchForkAndGc(AcceptHeader(Begin(n), b)), chan)

\* The consensus algorithm learns that a block of the best chain is irreversible.
CommitBlock(n, num) ==
  LET db == node[n].db
  IN  /\ num \in (db.commitIndex + 1)..BlockNum(db.head)
      /\ MayCommit(db.head, num)
      /\ Finish(n, [Begin(n) EXCEPT !.db = Commit(@, num)], chan)

Next ==
  \E n \in Node :
    \/ Connect(n)
    \/ SendHandler(n)
    \/ Recv(n)
    \/ \E b \in World : Learn(n, b)
    \/ \E num \in 1..BlockNum(Final) : CommitBlock(n, num)

Spec == Init /\ [][Next]_vars

(***************************************************************************)
(* Fairness: the connection is made, writes complete and messages are      *)
(* received.  Blocks need not arrive from elsewhere and need not become    *)
(* irreversible.  RecvFairness(n) is WF_vars(Recv(n)), written out with    *)
(* the enabling condition of Recv(n).                                      *)
(***************************************************************************)
RecvFairness(n) == []<>(~CanRecv(n)) \/ []<><<Recv(n)>>_vars

Fairness ==
  \A n \in Node : WF_vars(Connect(n)) /\ WF_vars(SendHandler(n)) /\ RecvFairness(n)

FairSpec == Spec /\ Fairness
-----------------------------------------------------------------------------
Ready(n) == node[n].state.tag = "ready"

\* No exception is thrown and no assertion fails: the blocks that a connection refers
\* to are known, whatever forks are switched to and pruned, and the peers always have
\* a common block.
NoConnectionError == \A n \in Node : node[n].state # ConnectionError

\* What is on its way to the peer of n before position i, and what the peer has.
Sent(n, b, i) == \E j \in 1..(i - 1) : chan[n][j] = BlockMessage(b)
ForkedOut(db, b) == ~IsAncestor(Ancestor(db.head, db.commitIndex), b)
HasOrIgnores(n, b) == Known(node[n].db, b) \/ ForkedOut(node[n].db, b)

\* Every block is sent after its predecessor: ForkDb::insert drops a block without
\* one silently, and nobody would send it again.
BlocksArriveInOrder ==
  \A n \in Node : \A i \in 1..Len(chan[n]) :
    LET m == chan[n][i]
    IN  m.type = "block" =>
          \/ HasOrIgnores(Peer(n), Previous(m.xid))
          \/ Sent(n, Previous(m.xid), i)

\* peer_has_block(Peer(n), b).
PeerHasBlock(n, b) ==
  LET s == node[n]
  IN  /\ Ready(n)
      /\ \/ InBestChain(s.db, b) /\ BlockNum(b) <= BlockNum(s.state.last_sent)
         \/ /\ IsAncestor(b, s.state.last_received)
            /\ \A i \in (BlockNum(b) + 1)..BlockNum(s.state.last_received) :
                 Known(s.db, Ancestor(s.state.last_received, i))

\* "If peer_has_block returns true, then the peer's receipt of the block happens
\* before its receipt of any message sent after peer_has_block returns."
PeerHasBlockIsTrue ==
  \A n \in Node, b \in World :
    PeerHasBlock(n, b) => HasOrIgnores(Peer(n), b) \/ Sent(n, b, Len(chan[n]) + 1)

\* A node that waits because the peer's irreversible block is in its future.  "It is
\* impossible for both peers to reach this state."
Waiting(n) ==
  LET s == node[n]
  IN  s.state.tag = "start" /\ s.state.committed /\ ~s.sending /\ s.state.common # None

NotBothWaiting == ~ \A n \in Node : Waiting(n)

\* Unless blocks arrive from elsewhere while the connection is started, it becomes
\* ready on both sides and both nodes end with the same head.
EventuallySynced ==
  <>[](\A n \in Node : Ready(n) /\ node[n].db.head = node[Peer(n)].db.head)

\* "if the head block is not the last sent block, then exactly one instance of
\* async_send_fork is active"
HeadIsBeingSent ==
  \A n \in Node : Ready(n) /\ node[n].state.last_sent # node[n].db.head => node[n].sending

\* "If peer_has_block returns false, then one of the following will eventually happen:
\* - The block is not in the best chain - post_send_block(peer, id)"
BlockIsPosted ==
  \A n \in Node, b \in World :
    (/\ node[n].state # NotConnected /\ InBestChain(node[n].db, b) /\ ~PeerHasBlock(n, b))
      ~> (\/ ~InBestChain(node[n].db, b) \/ BlockNum(b) <= node[n].db.commitIndex
          \/ b \in node[n].posted)
=============================================================================
