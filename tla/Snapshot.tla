------------------------------ MODULE Snapshot ------------------------------
(***************************************************************************)
(* How blocknet brings a node up to date that is too far behind for the    *)
(* block log of its peer.  The peer sends the block headers that changed   *)
(* the producers, then the database as it was at its last signed snapshot, *)
(* in parts, and then the signatures.  A node that has loaded a snapshot   *)
(* passes it on to its other peers, whatever it was doing with them.       *)
(*                                                                         *)
(* There are no forks here: a block is its number.  The consensus          *)
(* algorithm is left out: a fixed number of blocks behind the head are not *)
(* yet irreversible.  The data of a block are the keys of the rows that    *)
(* the database then has.                                                  *)
(*                                                                         *)
(* Each action is one callback of a node; see BlockSync for how a write    *)
(* and its handler work.                                                   *)
(***************************************************************************)
EXTENDS KeyRanges, FiniteSets, FiniteSetsExt

CONSTANTS
  Node,        \* all nodes
  LastBlock,   \* no block is produced after this one
  Scenarios    \* the networks and chains to look at

(***************************************************************************)
(* A scenario has the connections between nodes; for every node, its head  *)
(* block and the block of the snapshot that it was loaded from, if any;    *)
(* how far the last irreversible block is behind the head; the nodes that  *)
(* produce blocks; the blocks whose state gets signed; the producer        *)
(* changes, in order, as the blocks that start the change, that are        *)
(* irreversible when it ends, and that end it; and the rows of the service *)
(* database after each block.                                              *)
(***************************************************************************)
IsScenario(sc) ==
  /\ \A e \in sc.edges : e \subseteq Node /\ Cardinality(e) = 2
  /\ sc.head \in [Node -> 1..LastBlock]
  /\ sc.loaded \in [Node -> 0..LastBlock]
  /\ \A n \in Node : sc.loaded[n] <= sc.head[n]
  /\ sc.lag \in Nat
  /\ sc.producing \subseteq Node
  /\ sc.signed \subseteq 1..LastBlock
  /\ \A i \in DOMAIN sc.changes :
       /\ 1 < sc.changes[i].start /\ sc.changes[i].start <= sc.changes[i].commit
       /\ sc.changes[i].commit + sc.lag < sc.changes[i].end + 1
       /\ sc.changes[i].commit < sc.changes[i].end
       /\ i > 1 => sc.changes[i - 1].end < sc.changes[i].start
  /\ DOMAIN sc.rows = 1..LastBlock

ASSUME SnapshotAssumption == LastBlock \in Nat /\ \A sc \in Scenarios : IsScenario(sc)

VARIABLES
  scenario, \* the one of Scenarios that is played
  node,     \* node[n]: what a node has, see NewNode
  conn,     \* conn[n][m]: the end of n of its connection with m
  chan      \* chan[n][m]: the messages from n to m that are on their way

vars == <<scenario, node, conn, chan>>

PeersOf(n) == {m \in Node : {n, m} \in scenario.edges /\ m # n}

-----------------------------------------------------------------------------
(***************************************************************************)
(* The chain.                                                              *)
(***************************************************************************)
\* The producers are numbered, from 0 on.  consensusState of a header: those in
\* charge and, during a change, the next ones (0: no change).
ConsensusAt(b) ==
  [current |-> Cardinality({i \in DOMAIN scenario.changes : scenario.changes[i].end < b}),
   next |-> Max({0} \cup {i \in DOMAIN scenario.changes :
              scenario.changes[i].start <= b /\ b <= scenario.changes[i].end})]

\* The header of b has newConsensus.
StartsChange(b) == \E i \in DOMAIN scenario.changes : scenario.changes[i].start = b

\* BlockHeaderState::endsJointConsensus.
EndsChange(b) == \E i \in DOMAIN scenario.changes : scenario.changes[i].end = b

Change(i) == scenario.changes[i]

Databases == <<"service", "native">>

\* The rows of the native database, which are few, are left out: it is one part.
RowsAt(db, b) == IF db = "service" THEN scenario.rows[b] ELSE {}

\* The headers that validate a snapshot of b from the start of the chain.
LightHeaders(b) ==
  LET next == ConsensusAt(b).next
  IN  (UNION {{Change(i).start, Change(i).commit, Change(i).end} : i \in DOMAIN scenario.changes}
         \cap 1..b)
      \cup (IF next # 0 THEN Change(next).start..b ELSE {})

(***************************************************************************)
(* What a node has: the head block; commitIndex; the states from there to  *)
(* the head, as the producers and nextProducers of a BlockHeaderState;     *)
(* logStart; the blocks that it has, here or in its block log, and the     *)
(* headers in the log without transactions; the changes recorded as        *)
(* ConsensusChangeRow; and the snapshots with enough signatures.           *)
(***************************************************************************)
NewNode(head, loaded) ==
  LET commit == Max({1, loaded, head - scenario.lag})
  IN  [head |-> head,
       commit |-> commit,
       states |-> [b \in commit..head |-> ConsensusAt(b)],
       logStart |-> loaded,
       blocks |-> (Max({1, loaded}) + 1)..head,
       headers |-> IF loaded > 0 THEN LightHeaders(loaded) ELSE {},
       changes |-> {i \in DOMAIN scenario.changes : Change(i).end <= head},
       snapshots |-> {loaded} \ {0}]

\* The id of the first block is the null id.
NullId == 1

\* get_block_id, which is null if neither the block nor the next one is in the log.
GetBlockId(s, b) ==
  IF b \in DOMAIN s.states \/ {b, b + 1} \cap (s.blocks \cup s.headers) # {} THEN b ELSE NullId

-----------------------------------------------------------------------------
(***************************************************************************)
(* Messages and the states of a connection.  "error" stands for an         *)
(* exception, which closes the connection, and "assertion" for an          *)
(* assertion that fails.                                                   *)
(***************************************************************************)
HelloRequest(b, id, committed) == [type |-> "hello", num |-> b, id |-> id, committed |-> committed]
BlockMessage(b) == [type |-> "block", num |-> b]
BlockHeaderMessage(b) == [type |-> "header", num |-> b]
SnapshotPartMessage(b, db, low, high, rows) ==
  [type |-> "part", num |-> b, db |-> db, low |-> low, high |-> high, rows |-> rows]
SnapshotVerifyMessage(b) == [type |-> "verify", num |-> b]

NoBlock == 0

\* The hello message has a number and an id; common is NoBlock as long as no common
\* block is known.
ConnectionStateStart(hello, committed, sent, common) ==
  [tag |-> "start", hello |-> hello, committed |-> committed, hello_sent |-> sent, common |-> common]
ConnectionStateSendFastForward(b) == [tag |-> "send headers", num |-> b]
ConnectionStateReceiveFastForward(v) == [tag |-> "receive headers", light |-> v]
ConnectionStateSendSnapshot(b, db, key) == [tag |-> "send snapshot", num |-> b, db |-> db, key |-> key]
ConnectionStateReceiveSnapshot(loader) == [tag |-> "receive snapshot", loader |-> loader]
ConnectionStateReady(sent, received) ==
  [tag |-> "ready", last_sent |-> sent, last_received |-> received]
ConnectionError == [tag |-> "error"]
AssertionFailed == [tag |-> "assertion"]

Xid(s, b) == [num |-> b, id |-> GetBlockId(s, b)]

\* connect, before the first hello message is sent.  out is what the running callback
\* has sent.
NewConnection(s) ==
  [state |-> ConnectionStateStart(Xid(s, s.head), FALSE, FALSE, NoBlock), sending |-> FALSE, out |-> <<>>]

Is(c, tag) == c.state.tag = tag

Become(c, state) == [c EXCEPT !.state = state]

Error(c) == Become(c, ConnectionError)

-----------------------------------------------------------------------------
(***************************************************************************)
(* LightHeaderState: which producers to trust, from headers alone.  It has *)
(* the consensus state of the last header and, as separate members, the    *)
(* producers in charge and the next ones.  base is the block whose state   *)
(* the snapshot is written over.                                           *)
(***************************************************************************)
\* The constructor.  If the change ends with this block only the consensus state is
\* moved on.
LightValidate(s) ==
  LET c == ConsensusAt(s.commit)
  IN  [prev |-> s.commit, base |-> s.commit,
       producers |-> s.states[s.commit].current, next |-> s.states[s.commit].next,
       state |-> IF EndsChange(s.commit) THEN [current |-> c.next, next |-> 0] ELSE c,
       pending |-> {}, ready |-> FALSE, headers |-> {}]

MaybeAdvance(v) ==
  IF v.ready
    THEN [v EXCEPT !.state = [current |-> @.next, next |-> 0], !.pending = {},
                   !.producers = v.next, !.next = 0, !.ready = FALSE]
    ELSE v

\* The beginning of a change.
AddNewConsensus(v, b) ==
  IF StartsChange(b)
    THEN LET i == ConsensusAt(b).next
         IN  [v EXCEPT !.next = i, !.state = [@ EXCEPT !.next = i]]
    ELSE v

\* light_verify: the header is signed by the producers in charge, and the block
\* that it makes irreversible is known.
CanVerify(v, b) ==
  /\ v.producers = ConsensusAt(b).current
  /\ Change(ConsensusAt(b).next).commit \in v.pending \cup {b}

\* Whether LightHeaderState::push throws; v has been advanced.
IsRejected(v, b) ==
  \/ StartsChange(b) /\ v.next # 0
  \/ AddNewConsensus(v, b).state # ConsensusAt(b)
  \/ EndsChange(b) /\ ~CanVerify(v, b)

Pushed(v, b) ==
  [AddNewConsensus(v, b) EXCEPT
     !.prev = b,
     !.headers = @ \cup {b},
     !.pending = IF ConsensusAt(b).next # 0 THEN @ \cup {b} ELSE @,
     !.ready = EndsChange(b)]

-----------------------------------------------------------------------------
(***************************************************************************)
(* async_send_next: s is the node, c the connection.                       *)
(***************************************************************************)
Send(c, m) == [c EXCEPT !.out = Append(@, m), !.sending = TRUE]

\* In ConnectionStateReady: the next block.  It must be in the log, with its
\* transactions.
SendNextReady(s, c) ==
  LET b == c.state.last_sent + 1
  IN  IF c.state.last_sent = s.head THEN c
      ELSE IF GetBlockId(s, b) = NullId THEN Become(c, AssertionFailed)
      ELSE IF b \notin s.blocks THEN Error(c)
      ELSE Send([c EXCEPT !.state.last_sent = b], BlockMessage(b))

\* In ConnectionStateStart: the hello messages are sent.  If the peer's irreversible
\* block is in the future, this node waits for blocks.
FinishStart(s, c) ==
  IF c.state.common = NoBlock \/ c.state.common > s.head THEN c
  ELSE SendNextReady(s, Become(c, ConnectionStateReady(c.state.common, c.state.common)))

\* The block before the last hello message or, if that is gone, the last irreversible
\* one.
PrevHello(s, hello) ==
  IF {hello.id - 1, hello.id} \subseteq DOMAIN s.states THEN Xid(s, hello.id - 1) ELSE Xid(s, s.commit)

SendHello(s, c, hello) ==
  LET committed == hello.num <= s.commit
  IN  Send(Become(c, ConnectionStateStart(hello, committed, TRUE, c.state.common)),
           HelloRequest(hello.num, hello.id, committed))

SendNextStart(s, c) ==
  IF c.state.committed THEN FinishStart(s, c)
  ELSE SendHello(s, c, IF c.state.hello_sent THEN PrevHello(s, c.state.hello) ELSE c.state.hello)

\* SnapshotSender::next and the messages of ConnectionStateSendSnapshot.  A part has
\* one row (limit), or none if it is the last one of its database.
SendNextPart(c) ==
  LET st == c.state
      left == {k \in RowsAt(Databases[st.db], st.num) : k >= st.key}
  IN  IF st.db > Len(Databases)
        THEN Send(Become(c, ConnectionStateReady(st.num, st.num)), SnapshotVerifyMessage(st.num))
      ELSE IF left = {}
        THEN Send(Become(c, ConnectionStateSendSnapshot(st.num, st.db + 1, Empty)),
                  SnapshotPartMessage(st.num, Databases[st.db], st.key, Empty, {}))
      ELSE Send(Become(c, ConnectionStateSendSnapshot(st.num, st.db, Min(left) + 1)),
                SnapshotPartMessage(st.num, Databases[st.db], st.key, Min(left) + 1, {Min(left)}))

\* The headers of recorded changes that come after b.
ChangesAfter(s, b) ==
  {h \in UNION {{Change(i).start, Change(i).commit, Change(i).end} : i \in s.changes} : h > b}

\* get_next_light_header_num, as a set with at most one number.  If the snapshot is in
\* joint consensus all the headers from the start of the change on are needed.
NextLightHeader(s, prev, snapshot) ==
  LET next == ConsensusAt(snapshot).next
      later == ChangesAfter(s, prev)
  IN  IF next # 0 /\ Change(next).start <= prev THEN {prev + 1}
      ELSE IF later = {} THEN {}
      ELSE {Min(later)}

\* In ConnectionStateSendFastForward: the next header up to the last snapshot, or
\* the first part of it.
SendNextHeader(s, c) ==
  LET last == Max(s.snapshots)
      next == {h \in NextLightHeader(s, c.state.num, last) : h <= last}
  IN  IF next = {} THEN SendNextPart(Become(c, ConnectionStateSendSnapshot(last, 1, Empty)))
      ELSE IF ~(next \subseteq s.blocks \cup s.headers) THEN Error(c)
      ELSE Send(Become(c, ConnectionStateSendFastForward(Min(next))), BlockHeaderMessage(Min(next)))

AsyncSendNext(s, c) ==
  CASE Is(c, "start") -> SendNextStart(s, c)
    [] Is(c, "ready") -> SendNextReady(s, c)
    [] Is(c, "send headers") -> SendNextHeader(s, c)
    [] Is(c, "send snapshot") -> SendNextPart(c)
    [] OTHER -> c

SendIfIdle(s, c) == IF c.sending THEN c ELSE AsyncSendNext(s, c)

-----------------------------------------------------------------------------
(***************************************************************************)
(* Receiving headers and snapshots.                                        *)
(***************************************************************************)
StartReceiveFastForward(s, c, b) ==
  CASE Is(c, "receive snapshot") ->
         IF b > c.state.loader.num
           THEN Become(c, ConnectionStateReceiveFastForward(c.state.loader.light)) ELSE c
    [] ~Is(c, "receive snapshot") /\ ~Is(c, "receive headers") /\ b > s.commit ->
         Become(c, ConnectionStateReceiveFastForward(LightValidate(s)))
    [] OTHER -> c

\* start_snapshot and the constructor of SnapshotLoader.
NewLoader(v, b) ==
  [num |-> b,
   light |-> IF b > v.prev THEN MaybeAdvance(v) ELSE v,
   ranges |-> [db \in ToSet(Databases) |-> <<>>],
   rows |-> [db \in ToSet(Databases) |-> RowsAt(db, v.base)]]

StartReceiveSnapshot(s, c, b) ==
  LET started == StartReceiveFastForward(s, c, b)
  IN  IF Is(started, "receive headers")
        THEN Become(c, ConnectionStateReceiveSnapshot(NewLoader(started.state.light, b)))
        ELSE started

\* recv(BlockHeaderMessage) after start_receive_fast_forward.
PushLightHeader(c, b) ==
  LET v == c.state.light
  IN  IF ~Is(c, "receive headers") \/ b <= v.prev THEN c
      ELSE IF IsRejected(MaybeAdvance(v), b) THEN Error(c)
      ELSE Become(c, ConnectionStateReceiveFastForward(Pushed(MaybeAdvance(v), b)))

\* SnapshotLoader::add.
AddPart(c, m) ==
  LET loader == c.state.loader
      added == AddRange(loader.ranges[m.db], m.low, m.high)
  IN  IF m.num # loader.num \/ ~added.ok THEN Error(c)
      ELSE [c EXCEPT !.state.loader.ranges[m.db] = added.ranges,
                     !.state.loader.rows[m.db] = @ \cup m.rows]

\* recv(SnapshotPartMessage) after start_receive_snapshot.
RecvPart(c, m) == IF Is(c, "receive snapshot") THEN AddPart(c, m) ELSE c

\* The checks of apply_snapshot: the snapshot is complete, signed by the producers in
\* charge, and has the state that they signed.
IsValidSnapshot(loader) ==
  /\ \A db \in ToSet(Databases) : Complete(loader.ranges[db])
  /\ loader.light.producers = ConsensusAt(loader.num).current
  /\ \A db \in ToSet(Databases) : loader.rows[db] = RowsAt(db, loader.num)

\* apply_snapshot ignores the snapshot: its block is executed already, or in the past.
IsIgnored(s, b) == b \in DOMAIN s.states \/ b < s.commit

\* What apply_snapshot and gc do to the node otherwise.  The block log is part of the
\* state that the snapshot was written over, with the headers that were received.
ApplySnapshot(s, loader) ==
  [s EXCEPT !.head = loader.num,
            !.commit = loader.num,
            !.states = [b \in {loader.num} |->
                          [current |-> loader.light.producers, next |-> loader.light.next]],
            !.logStart = loader.num,
            !.blocks = {b \in @ : b <= loader.light.base},
            !.headers = {b \in @ : b <= loader.light.base} \cup loader.light.headers,
            !.snapshots = @ \cup {loader.num}]

\* Mutation: a snapshot that is being sent is not replaced.
AdjustPeerNotSending(s, c, from, to) ==
  CASE Is(c, "start") /\ ~c.state.committed -> [c EXCEPT !.state.hello = Xid(s, to)]
    [] Is(c, "receive headers") /\ to > c.state.light.prev ->
         SendIfIdle(s, Become(c, ConnectionStateSendFastForward(c.state.light.prev)))
    [] Is(c, "receive snapshot") /\ to > c.state.loader.num ->
         SendIfIdle(s, Become(c, ConnectionStateSendFastForward(c.state.loader.num)))
    [] Is(c, "ready") /\ to # c.state.last_sent ->
         SendIfIdle(s, Become(c, ConnectionStateSendFastForward(from)))
    [] OTHER -> c

\* adjust_peer_for_snapshot: the node had the block from and has now loaded a
\* snapshot of the block to.
AdjustPeer(s, c, from, to) ==
  CASE Is(c, "start") /\ ~c.state.committed -> [c EXCEPT !.state.hello = Xid(s, to)]
    [] Is(c, "send snapshot") /\ to > c.state.num ->
         Become(c, ConnectionStateSendFastForward(c.state.num))
    [] Is(c, "receive headers") /\ to > c.state.light.prev ->
         SendIfIdle(s, Become(c, ConnectionStateSendFastForward(c.state.light.prev)))
    [] Is(c, "receive snapshot") /\ to > c.state.loader.num ->
         SendIfIdle(s, Become(c, ConnectionStateSendFastForward(c.state.loader.num)))
    [] Is(c, "ready") /\ to # c.state.last_sent ->
         SendIfIdle(s, Become(c, ConnectionStateSendFastForward(from)))
    [] OTHER -> c

-----------------------------------------------------------------------------
(***************************************************************************)
(* The actions.                                                            *)
(***************************************************************************)
\* The end of a callback of n that leaves the node in state s and its connections
\* in cs.
Finish(n, s, cs, channels) ==
  /\ node' = [node EXCEPT ![n] = s]
  /\ conn' = [conn EXCEPT ![n] = [m \in DOMAIN cs |-> [cs[m] EXCEPT !.out = <<>>]]]
  /\ chan' = [channels EXCEPT ![n] = [m \in DOMAIN cs |-> @[m] \o cs[m].out]]
  /\ UNCHANGED scenario

Init ==
  /\ scenario \in Scenarios
  /\ node = [n \in Node |-> NewNode(scenario.head[n], scenario.loaded[n])]
  /\ LET started(n) == AsyncSendNext(node[n], NewConnection(node[n]))
     IN  /\ conn = [n \in Node |-> [m \in PeersOf(n) |-> [started(n) EXCEPT !.out = <<>>]]]
         /\ chan = [n \in Node |-> [m \in PeersOf(n) |-> started(n).out]]

\* Mutation: the handler does not look for the next thing to send.
SendHandlerStops(n, m) ==
  /\ conn[n][m].sending
  /\ Finish(n, node[n], [conn[n] EXCEPT ![m].sending = FALSE], chan)

\* The handler of async_send: a write has completed.
SendHandler(n, m) ==
  /\ conn[n][m].sending
  /\ Finish(n, node[n], [conn[n] EXCEPT ![m] = AsyncSendNext(node[n], [@ EXCEPT !.sending = FALSE])], chan)

HasMessage(n, m, type) == chan[m][n] # <<>> /\ Head(chan[m][n]).type = type /\ conn[n][m].state.tag \notin {"error", "assertion"}

Received(n, m) == [chan EXCEPT ![m][n] = Tail(@)]

\* recv(HelloRequest): blocks that the peer does not have are skipped.
SkipHellos(s, c, m) ==
  IF ~c.state.committed /\ c.state.hello.num > m.num + (IF c.state.hello_sent THEN 1 ELSE 0)
    THEN Become(c, ConnectionStateStart(Xid(s, m.num), FALSE, FALSE, c.state.common))
    ELSE c

\* The connection is ready when this node has sent its irreversible block.
FoundCommon(s, c, b) ==
  IF c.state.committed THEN SendIfIdle(s, Become(c, ConnectionStateReady(b, b)))
  ELSE [c EXCEPT !.state.common = b]

AnswerHello(s, c, m) ==
  IF m.id = NullId \/ m.id \in DOMAIN s.states THEN FoundCommon(s, c, m.id)
  ELSE IF GetBlockId(s, m.num) = m.id THEN FoundCommon(s, c, m.num)
  ELSE IF m.committed /\ m.num <= s.commit THEN Error(c)
  ELSE IF m.committed THEN [c EXCEPT !.state.common = m.num]
  ELSE c

RecvHello(n, m) ==
  LET msg == Head(chan[m][n])
      s == node[n]
      c == conn[n][m]
      answer ==
        IF ~Is(c, "start") THEN c
        ELSE IF c.state.common # NoBlock THEN c
        ELSE IF msg.committed /\ msg.num < s.logStart
          THEN SendIfIdle(s, Become(c, ConnectionStateSendFastForward(msg.num)))
        ELSE AnswerHello(s, SkipHellos(s, c, msg), msg)
  IN  /\ HasMessage(n, m, "hello")
      /\ Finish(n, s, [conn[n] EXCEPT ![m] = answer], Received(n, m))

\* recv(BlockHeaderMessage).  A change that ends is recorded at once, before there is
\* a snapshot.
RecvHeader(n, m) ==
  LET b == Head(chan[m][n]).num
      started == StartReceiveFastForward(node[n], conn[n][m], b)
      pushed == PushLightHeader(started, b)
      ended == IF pushed = started \/ Is(pushed, "error") THEN {}
               ELSE {i \in DOMAIN scenario.changes : Change(i).end = b}
  IN  /\ HasMessage(n, m, "header")
      /\ Finish(n, [node[n] EXCEPT !.changes = @ \cup ended],
           [conn[n] EXCEPT ![m] = pushed], Received(n, m))

\* recv(SnapshotPartMessage).
RecvSnapshotPart(n, m) ==
  LET msg == Head(chan[m][n])
  IN  /\ HasMessage(n, m, "part")
      /\ Finish(n, node[n],
           [conn[n] EXCEPT ![m] = RecvPart(StartReceiveSnapshot(node[n], @, msg.num), msg)],
           Received(n, m))

\* The snapshot is in the past, or its block is known.
IsNotNeeded(s, b) == b <= s.commit \/ b \in DOMAIN s.states

\* recv(SnapshotVerifyMessage) when the snapshot is not needed.
SkipSnapshot(n, m) ==
  LET b == Head(chan[m][n]).num
      c == conn[n][m]
  IN  /\ HasMessage(n, m, "verify")
      /\ Is(c, "receive snapshot") => b = c.state.loader.num /\ IsNotNeeded(node[n], b)
      /\ Finish(n, node[n],
           [conn[n] EXCEPT ![m] =
              IF Is(c, "receive snapshot")
                THEN SendIfIdle(node[n], Become(c, ConnectionStateReady(b, b))) ELSE c],
           Received(n, m))

\* recv(SnapshotVerifyMessage) when it is: the snapshot is loaded, and sent on.
LoadSnapshot(n, m) ==
  LET b == Head(chan[m][n]).num
      c == conn[n][m]
      s == ApplySnapshot(node[n], c.state.loader)
      loaded == [conn[n] EXCEPT ![m] = Become(c, ConnectionStateReady(b, b))]
  IN  /\ HasMessage(n, m, "verify")
      /\ Is(c, "receive snapshot")
      /\ b = c.state.loader.num => ~IsNotNeeded(node[n], b)
      /\ IF b # c.state.loader.num \/ ~IsValidSnapshot(c.state.loader)
           THEN Finish(n, node[n], [conn[n] EXCEPT ![m] = Error(c)], Received(n, m))
         ELSE IF IsIgnored(node[n], b)
           THEN Finish(n, node[n], conn[n], Received(n, m))
         ELSE Finish(n, s, [p \in PeersOf(n) |-> AdjustPeer(s, loaded[p], node[n].commit, b)],
                     Received(n, m))

\* on_fork_switch, for a new block on top of the chain.  get_common_ancestor throws if the
\* block is neither in the index nor in the log.
OnForkSwitch(s, c) ==
  CASE Is(c, "start") -> IF GetBlockId(s, c.state.hello.num) = c.state.hello.id THEN c ELSE Error(c)
    [] Is(c, "ready") ->
         IF GetBlockId(s, c.state.last_sent) # c.state.last_sent THEN Error(c)
         ELSE SendIfIdle(s, [c EXCEPT !.state.last_sent =
                IF c.state.last_received \in DOMAIN s.states /\ c.state.last_received > @
                  THEN c.state.last_received ELSE @])
    [] OTHER -> c

\* BlockHeaderState::endsJointConsensus of the head.
EndsJointConsensus(s) == s.states[s.head].next # 0 /\ EndsChange(s.head)

\* getNextProducerClaim: the producer of block b may produce on top of the head.
MayProduce(s, b) ==
  LET st == s.states[s.head]
  IN  \/ ~EndsJointConsensus(s) /\ st.current = ConsensusAt(b).current
      \/ st.next # 0 /\ st.next = ConsensusAt(b).current

\* The constructor of BlockHeaderState for the next block.
NextState(s) ==
  LET st == s.states[s.head]
  IN  [current |-> IF EndsJointConsensus(s) THEN st.next ELSE st.current,
       next |-> IF StartsChange(s.head + 1) THEN ConsensusAt(s.head + 1).next
                ELSE IF EndsJointConsensus(s) THEN 0 ELSE st.next]

\* Mutation: what a header claims to be irreversible is taken as it is.
CommitAsClaimed(s, num) ==
  [s EXCEPT !.commit = Min({num, s.head}),
            !.states = [b \in {c \in DOMAIN @ : c >= Min({num, s.head})} |-> @[b]]]

\* commit and gc.
Commit(s, num) ==
  LET commit == Max({Min({num, s.head}), s.commit})
  IN  [s EXCEPT !.commit = commit, !.states = [b \in {c \in DOMAIN @ : c >= commit} |-> @[b]]]

\* A node that has executed the next block.
Extended(s) ==
  LET b == s.head + 1
  IN  Commit([s EXCEPT !.head = b,
                       !.states = [c \in DOMAIN @ \cup {b} |-> IF c = b THEN NextState(s) ELSE @[c]],
                       !.blocks = @ \cup {b},
                       !.changes = @ \cup {i \in DOMAIN scenario.changes : Change(i).end = b}],
             Max({1, b - scenario.lag}))

\* update_last_received: common is the last block of the chain that the peer has.
UpdateLastReceived(c, b, common) ==
  CASE Is(c, "start") -> Become(c, ConnectionStateReady(common, b))
    [] Is(c, "ready") ->
         Become(c, ConnectionStateReady(
           IF common = b /\ b > c.state.last_sent THEN b ELSE c.state.last_sent, b))
    [] OTHER -> c

\* recv(BlockMessage).  A block is ignored if it is irreversible, or its parent missing.
RecvBlock(n, m) ==
  LET b == Head(chan[m][n]).num
      old == node[n]
      s == Extended(old)
      cs == [conn[n] EXCEPT ![m] = UpdateLastReceived(@, b, old.head)]
  IN  /\ HasMessage(n, m, "block")
      /\ IF b <= old.commit \/ b > old.head + 1
           THEN Finish(n, old, conn[n], Received(n, m))
         ELSE IF b <= old.head
           THEN Finish(n, old, [conn[n] EXCEPT ![m] = UpdateLastReceived(@, b, b)], Received(n, m))
         ELSE IF MayProduce(old, b)
           THEN Finish(n, s, [p \in PeersOf(n) |-> OnForkSwitch(s, cs[p])], Received(n, m))
         ELSE Finish(n, old, [conn[n] EXCEPT ![m] = Error(@)], Received(n, m))

ProduceBlock(n) ==
  /\ n \in scenario.producing
  /\ node[n].head < LastBlock
  /\ LET s == Extended(node[n])
     IN  Finish(n, s, [p \in PeersOf(n) |-> OnForkSwitch(s, conn[n][p])], chan)

\* The last signature that was missing for the snapshot of a block arrives.
SignSnapshot(n, b) ==
  /\ b \in scenario.signed
  /\ b \in node[n].blocks /\ b \notin node[n].snapshots /\ b < node[n].commit
  /\ Finish(n, [node[n] EXCEPT !.snapshots = @ \cup {b}], conn[n], chan)

Recv(n, m) ==
  \/ RecvHello(n, m)
  \/ RecvHeader(n, m)
  \/ RecvSnapshotPart(n, m)
  \/ SkipSnapshot(n, m)
  \/ LoadSnapshot(n, m)
  \/ RecvBlock(n, m)

Next ==
  \/ \E n \in Node : \E m \in PeersOf(n) : SendHandler(n, m) \/ Recv(n, m)
  \/ \E n \in Node : ProduceBlock(n) \/ \E b \in scenario.signed : SignSnapshot(n, b)

Spec == Init /\ [][Next]_vars

\* Writes complete and messages are delivered.
FairSpec ==
  Spec /\ WF_vars(\E n \in Node : \E m \in PeersOf(n) : SendHandler(n, m) \/ Recv(n, m))

-----------------------------------------------------------------------------
(***************************************************************************)
(* Properties.                                                             *)
(***************************************************************************)

\* However the transfers of several snapshots, of headers and of blocks overlap, no
\* node sees a message that it has to reject (recv throws), and none is asked to send
\* a block that is not in its log.  This is not so of a connection that is still starting
\* when a snapshot and then a block arrive on another one: adjust_peer_for_snapshot leaves
\* its hello as it is, and on_fork_switch looks for that block (network RelayAndProduce).
NoConnectionError ==
  \A n \in Node : \A m \in PeersOf(n) : conn[n][m].state.tag \notin {"error", "assertion"}

\* "If the snapshot is in joint consensus, send all the headers after the new producers
\* were set": the producers that a node goes by, and during a change the next ones, are
\* those of the chain at its head, also if it got there with a snapshot that only headers
\* vouch for.  It fails if a node passes on a snapshot that it loaded itself during the
\* change (network PassedOn, SnapshotProducers.cfg).
KnowsProducers == \A n \in Node : node[n].states[node[n].head] = ConsensusAt(node[n].head)

\* async_send_next asserts that it knows the id of the block after last_sent.  It fails if
\* the logs of both peers are truncated (network TwoTruncatedLogs, SnapshotNullId.cfg).
NextBlockHasId == \A n \in Node : \A m \in PeersOf(n) : ~Is(conn[n][m], "assertion")

\* A node never goes back: neither a snapshot that arrives late nor a block after a
\* snapshot, whose header claims less than the snapshot, lowers commitIndex.
IrreversibleAdvances ==
  [][\A n \in Node : node'[n].commit >= node[n].commit]_vars

\* "Connected nodes MUST converge to the same chain": once no more blocks are
\* produced, all the nodes that a path connects get to the same block.  They do not in the
\* networks AtEndOfChange, DeletedRow and FutureBlock, each of which has a .cfg.
EventuallyConverged ==
  <>[](\A n \in Node : \A m \in PeersOf(n) : node[n].head = node[m].head)
=============================================================================
