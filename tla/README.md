# TLA+ models of psibase consensus

This directory holds TLA+ models of the part of psibase that decides which
blocks become irreversible, and that gets blocks and messages from node to node:
the fork database of a node, the crash fault tolerant (CFT) and the byzantine
fault tolerant (BFT) consensus algorithm on top of it, changes of the producers,
the exchange of blocks and of snapshots between nodes, and routing. The models
are checked with TLC on small instances. For the fork database and the CFT
algorithm with a fixed set of producers all safety properties, and the refinement
of an abstract specification of irreversibility, are also proved with TLAPS, for
every number of producers, blocks and elections; what each correct node of the BFT
algorithm keeps to, for every number of producers of which fewer than a third are
faulty; the safety of the block exchange, for every tree of blocks that correct
producers can make; and that routes form no loop, for every network.

Paths below are relative to the repository.

## 1. Inventory

### How the parts fit together

    peers / sockets
         |  messages                     timers (block timer, election timer)
    routing (shortest_path_routing, direct_routing)        |
         |                                                 |
    basic_bft_consensus < basic_cft_consensus < blocknet > >
         |  insert, set_subtree, commit, async_switch_fork, start/finish_block, gc
    ForkDb ---- SnapshotLoader
         |  getRevision, setHead, removeRevisions
    SharedDatabase (triedent)  <---- BlockContext executes transactions (wasm)

A node is one such stack (`libraries/net/tests/test_util.hpp:52` composes it).
Everything above SharedDatabase runs on one thread, in callbacks: a message or a
timer runs a handler, which changes the state of the consensus classes, calls
the fork database, and ends with a fork switch and with messages to the peers.
Nodes share nothing but messages, and messages may be lost (a connection
closes), repeated and reordered (several routes).

| Component | State | Operations | Hard behaviour |
|---|---|---|---|
| Fork database (`ForkDb.hpp`) | blocks, states, byOrderIndex, byBlocknumIndex, head, commitIndex, blockContext, currentTerm | insert, set_subtree, blacklist_subtree, commit, async_switch_fork, gc, start/abort/finish_block | an index edited in place while blocks execute, fail and commit; a durable head that is written block by block |
| CFT consensus (`cft.hpp`) | _state, current_term, voted_for, votes_for_me, match_index | election timer, request_vote, check_votes, update_term, update_match_index, three recv handlers | late and repeated messages, stale terms, a restart that forgets term and vote |
| Block network (`blocknet.hpp`) | connections with last_sent and last_received, pending block timer, producer sets | recv(HelloRequest/BlockMessage/...), start_leader, stop_leader, switch_fork, async_send_fork, snapshot transfer | a fork switch under a pending block; sends that race with fork switches |
| BFT consensus (`bft.hpp`) | views, prepares, commits, view change buffers | recv(Prepare/Commit/ViewChange), do_view_change, set_subtree by quorum | view changes racing with commits, faulty producers |
| Joint consensus (`cft.hpp`, `bft.hpp`, `ForkDb.hpp`) | active_producers[0..1] and one of each vote and match set per set | set_producers on each fork switch and commit | two sets at once, switched back by a fork |
| Producer sets (`ForkDb.hpp`) | the active producers and the algorithm | threshold, weak_threshold | rounding |
| Snapshot loading (`ForkDb.hpp`, `blocknet.hpp`) | received key ranges per database, light headers | add, complete, verify | parts in any order |
| Routing (`shortest_path_routing.hpp`) | routes with metric and sequence number | update, request, retract | loops |
| Run queue, sockets, watchdog | threads and their tasks | post, run, cancel | locks and callbacks |
| Triedent | memory mapped trie | lock-free readers and one writer | memory order |

What makes each correct: a fork database has one best chain, indexed by number,
whose head is the best block it may have, and never gives up a block that is
irreversible; a consensus algorithm makes one fork irreversible in the whole
network and, with a stable leader, keeps doing so; block sync sends every block
of the best chain after its predecessor; a snapshot is complete only if every
key was received; routes have no loops.

`PROJECT.json` lists every component, also the ones that are not modelled, and
the hazards with the line where each bites.

## 2. Modules

| Module | Models | Checked by |
|---|---|---|
| `ProducerSet` | `ProducerSet::threshold`, `weak_threshold` | `Cft`, `Bft`, `JointCft`, proofs |
| `ForkDb` | every member function of `ForkDb` that changes its state, as an operator from the state before to the state after | `ForkDbNode`, `Cft`, `BlockSync`, `Bft`, `JointCft`, proofs |
| `ForkDbNode`, `MCForkDbNode` | one fork database driven by everything its callers can do | run `forkdb`, proofs |
| `Cft` | all handlers of `basic_cft_consensus` and the parts of `blocknet` they use, one `ForkDb` per node | the runs `cft_fixed` and `cft_restart*`, proofs |
| `Irreversibility` | what the documentation promises: one irreversible chain that only grows | refined by `Cft` (run and proof) and by `Bft` (run) |
| `JointCft`, `MCJointCft` | the same handlers while the set of producers changes | the runs `cft_joint*` |
| `Bft`, `MCBft` | `basic_bft_consensus` with faulty producers | the runs `bft_*`, proofs |
| `BlockSync`, `MCBlockSync` | the block exchange of `blocknet` over one connection, one `ForkDb` at each end | the runs `sync_*`, proofs |
| `KeyRanges` | `SnapshotLoader::KeyRanges` | `Snapshot` |
| `Snapshot`, `MCSnapshot` | the transfer of headers, snapshots and blocks to nodes that are far behind, over any number of connections | run `snapshot` |
| `Routing`, `MCRouting` | `shortest_path_routing` | run `routing`, proofs |
| `ProducerSetProofs`, `ForkDbProofs`, `ForkDbNodeProofs`, `CftProofs`, `CftAgreementProofs`, `BftProofs`, `BlockSyncProofs`, `RoutingProofs` | theorems | TLAPS |

### ForkDb

A block id is a hash of the header, which contains the id of the previous
block. A block is therefore represented by the sequence of headers from the
first block to itself; equality of sequences is equality of ids, and
`Ancestor(b, num)` is a prefix. A header has the fields the code of this layer
reads: term, producer, commitNum, and whether executing the block succeeds
(execution is deterministic, so this is a property of the block). `order()` is
the lexicographic order of term, number and id, with an arbitrary fixed order of
ids.

The record `db` has one field per member of the class: `states` (with
`blocks`), `invalid` and `revisions` (two members of `BlockHeaderState`),
`byOrderIndex`, `byBlocknumIndex`, `head`, `commitIndex`, `currentTerm`,
`blockContext`. `databaseHead` is what `SharedDatabase` has as its head, and
with `revisions` it is all that survives a restart. `failed` says that
`consensus_failure` was thrown; `psinode` exits then.

`TrySetHead` is `trySetHead` with `execute_fork` and `execute_block` as the code
runs them: the index is extended first; blocks without a revision execute in
order and each executed block commits what its header declares (`AcceptBlocks`;
capped by the number of the *old* head, as in the code); if one fails, the index
is cut, the rest of the fork is blacklisted, and the head stays below it.
`SwitchOnce` is one iteration of `async_switch_fork`, `SwitchLoop` what each
iteration leaves and `SwitchFork` the whole loop.

### ForkDbNode

One node. Actions: `RecvBlock` (`recv(BlockMessage)` with
`on_accept_block_header` and the fork switch), `SelectSubtree`, `ConfirmBlock`,
`NewTerm`, `BecomeLeader`, `LoseLeadership`, `ProduceBlock`, `ProduceFails`,
`Restart`, which is also an exit between two handlers. The process may exit within a
handler as well: `RecvBlockCrashes`, `SelectSubtreeCrashes` and `NewTermCrashes` stop
in any iteration of the fork switch after any number of its blocks, each of which
`execute_fork` has saved as the durable head, and start again from there. (A crash
while `execute_block` runs leaves the durable state as before that block.) Peers are
not modelled, so the environment is restricted to what a
correct network sends (`PeerBlock`): one leader per term, terms that do not
decrease along a chain, and header claims only about blocks that a quorum has
executed. A leader may send conflicting blocks and blocks that fail.

### Cft

All nodes of a network with a fixed set of more than one producer. A node is a
record with the members of `basic_cft_consensus` and its fork database. `msgs`
is the set of all messages ever sent and a node may handle any of them at any
time: loss, delay, repetition and reordering need no further actions.
`produced` is the set of all blocks; `recv(BlockMessage)` drops a block whose
predecessor is missing, and the retransmission that follows in the code is the
later delivery of the same block. Timers fire at any time, within the bounds.

| Action | Code |
|---|---|
| `ElectionTimeout` | the callback of `randomize_timer`, `request_vote`, `check_votes` |
| `ProduceBlock`, `ProduceFails` | the block timer in `start_leader`, `finish_block`, `on_produce_block`, `update_match_index`, `do_gc` |
| `RecvBlock` | `recv(BlockMessage)`, `on_accept_block_header`, `update_term`, `switch_fork`, `on_accept_block`, `on_fork_switch` |
| `RecvConfirm`, `RecvRequestVote`, `RecvVote` | the three `recv` of `cft.hpp` |
| `Restart` | the constructors, `load_producers` |

Each action is a whole callback. `ballots` is a history variable: every vote
that was cast. No block of a correct producer fails to execute, so one iteration
of the fork switch is enough here; failing blocks are in `ForkDbNode`.

### BlockSync

One connection between two nodes, each with a `ForkDb`. A node is a record with
its database, the `ConnectionState` of its end, the flag `sending`, and what the
running callback sends (`out`) and passes to `post_send_block` (`posted`). The
channels are sequences, because a connection delivers in order.

| Action | Code |
|---|---|
| `Connect` | `connect`, `async_send_next` |
| `SendHandler` | `send_handler`, `check_cancel`, `async_send_next` for hello messages and for blocks |
| `Recv` | `recv(HelloRequest)`; `recv(BlockMessage)` with `update_last_received`, the fork switch, `on_fork_switch` and `do_gc` |
| `Learn` | a block from another peer or an own one: the same without `update_last_received` |
| `CommitBlock` | the consensus algorithm calls `commit` |

An exception or failed assertion in one of these is the state `ConnectionError`.
The consensus algorithm is reduced to what it guarantees (`MayCommit`): one chain
becomes irreversible, and a block that is better than the head of a node descends
from what is irreversible there. The block logs are complete, so that
`ConnectionStateSendFastForward` and the snapshot states do not occur. A closed
connection takes its state with it; a new one starts from whatever the databases
are, as `Connect` does. The nodes are not leaders, which saves the pending block:
for the connection, producing a block is learning one.

### KeyRanges and Snapshot

Keys are numbers; 0 is the empty key, which stands for the end of the database
as an upper bound, as in the code. `AddRange` is `KeyRanges::add` branch by
branch.

`Snapshot` has any number of nodes and connections. There are no forks: a block is
its number. The consensus algorithm is left out: the last `lag` blocks below the head
are not yet irreversible. The data of a block are the keys of the rows that the
service database then has, so that rows appear and disappear. A scenario fixes the
network, the head of each node and the snapshot it was loaded from, which blocks get
signed, and when the producers change; `NewNode` and `LightHeaders` make the initial
state from it and translate no code. A node has `head`, `commit`, `logStart`, the
block log, the states (with the producers they go by), the light headers, the
ConsensusChangeRows and the snapshots it has. Actions: `SendHandler` (with
`async_send_next` in every connection state), `RecvHello`, `RecvHeader`,
`RecvSnapshotPart`, `SkipSnapshot` (the state is already known, or is older than the
last irreversible block), `LoadSnapshot` (`apply_snapshot` with its own guard against
an older snapshot, and `adjust_peer_for_snapshot` for each other connection, those in
`ConnectionStateStart` included), `RecvBlock`, `ProduceBlock`, `SignSnapshot`. The
light validator is `LightHeaderState`. An exception is the connection state `error`,
an assertion that fails `assertion`.

### JointCft

`Cft` with `set_producers`: a block may announce a set of producers, and from
there on a node has two sets of `active_producers`, each with its `votes_for_me`
and `match_index`, until a header says that the announcement is irreversible.
Which sets a node goes by follows its head, through every fork switch. Actions
are those of `Cft` without `Restart`.

### Bft

Correct nodes run the handlers of `basic_bft_consensus`: `Timeout`,
`ProduceBlock`, `RecvBlock`, `RecvPrepares`, `RecvCommits`, `RecvViewChange`.
Faulty producers prepare and commit every block, which is part of what receivers
start from (`NoConfirms`), `Forge` produces their blocks, and `ForgedViewChanges(n)`
are the view changes that they may send to node `n`: for any term, naming no block
or any block there is, with a proof if the signatures for one exist, and different
ones to different nodes. A scenario bounds the nodes that they send view changes to
(`told`); a view change whose best_prepared_term is not that of its block, which
`validate_view_change` rejects, is left out.
A prepare or commit of a correct producer is handled at once if it raises the view
of its producer (`RaisesView`) or completes a quorum. One that does neither is only
remembered, and is handled together with the one that completes the quorum:
`RecvPrepares(n, b, P)` is the arrival of the messages of `P`. Nobody prepares a block
again that arrived before the term was ready, and a node whose
`best_prepared` came from commits without a quorum of prepares sends a view
change without a proof; both are as in the code. A restarted node has forgotten
`best_confirm` and counts as faulty.

### Routing

Routes to one producer, since producers are independent of each other. A
connection is used once and each end finds out for itself that it is gone;
messages of a connection arrive in order. Actions: `Connect`, `Disconnect`,
`Recv` (updates, requests for routes, requests for a sequence number),
`SeqnoTimer`, `OnProducerChange`, `Restart`. The 16-bit sequence number wraps
(`FirstSeqno = 65535`) and distances are `uint16_t` that saturate.

## 3. Runs

| Run | Instance | States | Shows |
|---|---|---|---|
| `forkdb` | terms 0..2, 3 block numbers, at most 5 blocks at a time, 1 restart or crash, also between two blocks of a fork switch | 127,129 | index, head, invalid flags, durable state and pending block stay consistent; no irreversible block is forked out |
| `cft_fixed` | 3 producers, 2 candidates, 3 block numbers, 2 elections, with fairness | 214,470 | one leader per term; the newest leader has all irreversible blocks; no consensus failure; the leader of the newest term makes its blocks irreversible; `Irreversibility` is implemented |
| `cft_restart` | 2 block numbers, 2 elections, 1 restart, failing writes | 81,480 | each node keeps its irreversible blocks and a consistent state across restarts |
| `cft_joint` | 5 changes of the producers, up to 2 elections and 4 block numbers, with fairness | 107,122 | one irreversible fork across the change; headers tell the truth; each node goes by the producers of its head; leaders have the majorities they need; a leader that stays gets the change through |
| `bft_safety` | 4 producers, one faulty: it leads the first term and its block competes with the next leader's, or it equivocates, or it succeeds a correct leader | 123,163 | one fork prepared per term; commits are prepared; view changes report what may be committed; `Irreversibility` is implemented |
| `bft_liveness` | 4 producers, the faulty one silent, 3 terms, with fairness | 116,775 | views come together; a correct leader of the last view gets its block committed everywhere |
| `sync_safety` | 2 nodes, a fork of 1 block and a chain of 3 above the first block | about 612,000 | a connection never refers to a pruned block; blocks arrive after their predecessors; `peer_has_block` is true only if the peer has or is about to get the block; the peers never both wait |
| `sync_liveness` | 2 nodes, two forks of 2 blocks, nothing learned while a connection starts | 177,636 | both nodes become ready and end with the same head |
| `snapshot` | 3 nodes, 7 blocks, 6 networks, with fairness | 194,070 | in these networks (not in those of the counterexamples below): no transfer is cut short; no node goes back; all nodes get to the same block |
| `routing` | 4 nodes, 7 networks, with fairness | 158,357 | no loops of routes to one router; feasibility distances decrease along routes; a newer sequence number makes a route usable; the protocol comes to rest and neighbours then agree |
| `cft_restart_forks` | `Cft` with 1 restart | | violated, see the findings |
| `cft_joint_votes` | `JointCft`, {1,2,5} changes to {1,2,3,4} | | violated, see the findings |

Bounds. Three producers are the smallest set in which a minority exists, a
quorum is not everybody and two quorums overlap in one node. Two candidates are
enough for competing leaders (the third node decides). Two elections give two
leaders one after the other and chains that fork; with three, which make late
votes of an earlier term of the same candidate possible, `ElectionSafety` was
checked once (527,678 states); the theorems hold for any number.
Three block numbers above which
nothing is produced allow a fork of length two above the first, irreversible
block, a commit in the middle of it, and its loss. A leader whose write fails
starts its pending block again with a newer commitNum: otherwise no header could
declare a block above the first irreversible within three numbers. The safety
properties of `cft_fixed` were checked once with failing writes (405,074 states)
and once with four block numbers (3,188,772 states). In the worlds of the `sync_*` runs a block
of term 1 first loses to a fork of term 2 and is then made irreversible by the
leader of term 3, which builds on it: one fork switch executes, commits and prunes
at the same time. They were checked once with forks of two
and three blocks together (1,724,259 states, and 2,358,168 for the liveness
property). `sync_safety` identifies states that differ in the order of the two
nodes, which are interchangeable, or only in `posted`, which nothing reads. The bounds
on elections, block numbers and restarts are guards of the actions that raise them.

The scenarios of `cft_joint` are a producer that joins and stands for election, a
leader that leaves, one that is replaced (with one election and more blocks, with
two elections and fewer), and sets whose majorities need not intersect. Larger
ones were checked once: {1,2} to {2,3} with 2 elections and 4 numbers (225,725
states), a joining producer with 2 elections (503,637; with two candidates
1,046,728), a leaving leader with 4 numbers (570,463), {1,2,3} to {1,4} with 3
numbers (375,792; with failing writes 577,712), {1,2} to {3,4} (189,114), and two
changes in a row (290,073 and 543,178). Four producers are the fewest of which one
may be faulty. The scenarios of `bft_safety` have at most two terms (`first` to
`term`; the one in which the faulty producer succeeds goes from term 3 to term 4,
which the faulty producer leads) and at most one node to which the faulty producer
sends view changes of its own (`told`): that node gets any well-formed ones, the
other nodes what correct producers send. A faulty leader of term 0 that does both,
confirms blocks and misleads a node, was checked once (276,546 states with the other
scenarios). A faulty leader that sends different view changes to several nodes is
beyond these bounds. Four nodes of `routing` are the smallest network with a detour
around a failing connection; a square with four failing connections was checked once
(7.6M states). Three nodes of `snapshot` are a source, a node that passes on, and a
receiver.

Model-checking stops when all of them are used up, so deadlock is not checked.

Fairness. `cft_fixed` (and `cft_joint`) assumes weak fairness of the progress steps
together: while a leader may produce a block, or a node may insert a block that was
sent, or a leader has not counted a confirmation yet, one such step is eventually
taken. The block timer of a leader is rearmed after every block, and blocknet keeps
sending the blocks of its best chain and, through `on_fork_switch`, the
confirmations, until the connection closes. Nothing is assumed of election timers,
of votes, or of restarts. `CanProgress` is the enabling condition written out.
`sync_liveness` assumes weak fairness of `Connect`, `SendHandler` and `Recv` of each
node: the connection is made, writes complete and the messages which were written
are received; a connection that does not do this is closed. Nothing is assumed of
blocks from elsewhere or of irreversibility. `snapshot` assumes the same of all
connections together, and nothing of new blocks and snapshots. `routing` assumes
that a node which has something to read or whose timer has expired is served in the
end. `bft_liveness` assumes that something happens as long as a correct node has a
step: the timers of correct nodes fire and messages between them arrive, while
elections and forged blocks are bounded.

### Findings

* `cft_restart_forks`: `current_term` and `voted_for` are not stored. A node
  that votes, restarts and votes again in the same term elects a second leader of
  that term; two forks become irreversible. The documentation says that only one
  fork can ever become irreversible.
* `cft_joint_votes`: when joint consensus ends, `set_producers` leaves
  `votes_for_me` alone, and `check_votes` compares its size with the new set,
  whoever voted. A candidate of {1,2,5}, which changes to {1,2,3,4}, becomes the
  leader with the votes of 5, of itself and of one more. With four new producers
  this is harmless for agreement, since the new leader needs a majority to commit
  anything; with five or more, two leaders of a term are conceivable (an
  argument, not a run).

Further counterexamples, with a configuration each, to be run with
`tlc -config X.cfg M`. Each property states what a comment or a document of the
repository says, except the last two:

* `CftStaleHead.cfg` (`Cft`, `CandidateHeadIsBest`): when the election timer of a
  leader fires, the handler drops the pending block and asks for votes without a
  fork switch. The head it advertises is not the best block if a longer fork of an
  older term arrived before; `get_head` requires that no fork switch is due.
  `HeadIsBest` of `forkdb` leaves this window out.
* `BftReady.cfg` (`MCBft`, `ReadyHasViewChanges`): each prepare or commit raises
  `view.term` of its producer and leaves its `best_message` alone, and
  `is_term_ready` counts the producer with that message, whatever term it is for.
  The documentation requires view changes for the term. Whether two forks can become
  irreversible this way is open.
* `BftRoot.cfg` (`MCBft`, `OnlyDescendantsConsidered`): `commit` makes sure "that
  only descendants of the committed block are considered when searching for the best
  block" (ForkDb.hpp:1492). When a further view change of the term arrives after
  that, `set_root` selects the block of the leader's view change again, which may be
  an ancestor of the committed block, without the comparison with `commit_index`
  that it makes for its own best prepared block. `set_subtree` then refills the
  index with every block above that one which has not been garbage collected. A
  block of a later term that builds on one of them would make the node stop with a
  consensus failure, although only one fork has been confirmed.
* `SyncStalls.cfg` (`MCBlockSync`, `HeadIsBeingSent`): a node that has sent all its
  hello messages and knows that the peer's irreversible block is in its future waits
  for the peer's blocks. If it gets that block and a later one from elsewhere first,
  the peer's block makes the connection ready without a fork switch, and nobody
  starts the send loop: the later block is not sent before the next head. The code
  asks at this place "how do we handle a fork switch during connection startup?";
  `sync_liveness` shows that without such blocks the exchange completes.
* `SyncPosts.cfg` (`MCBlockSync`, `BlockIsPosted`): messages about a block that the
  peer may not have are deferred until `post_send_block`. For the blocks up to the
  common block that is found when a connection starts, `post_send_block` is never
  called, and what was deferred during the start stays.
* `RoutingLoops.cfg` (`MCRouting`, `NoLoopAtRest`): a producer's node that restarts
  has a new router id, and routes to the old and to the new one are kept apart
  (`RouteKey`). `selectRoute` does not retract the route to the old router, so two
  nodes can keep pointing at each other for good, one by the old and one by the new
  id. Loops of routes to *one* router do not occur (`LoopFree`), unless the producer
  leaves and joins again.
* `SnapshotProducers.cfg` (`MCSnapshot`, `KnowsProducers`): a snapshot that was made
  during a change of the producers and is passed on by a node that loaded it itself
  comes without the headers of the change (`get_next_light_header_num`, against its
  comment "If the snapshot is in joint consensus, send all the headers after the new
  producers were set."), and the receiver does not know the next producers.
* `SnapshotEndOfChange.cfg` (`MCSnapshot`, `EventuallyConverged`): a receiver whose
  last irreversible block ends a change of the producers checks the signatures of
  the snapshot with the old producers (`LightHeaderState` moves `state` on, not
  `producers`) and rejects every snapshot.
* `SnapshotDeletedRow.cfg` (`MCSnapshot`, `EventuallyConverged`): `SnapshotLoader`
  writes over the revision of the base block and deletes nothing; if a row was
  deleted since, the checksum does not match.
* `SnapshotFutureBlock.cfg` (`MCSnapshot`, `EventuallyConverged`): a node that waits
  for the blocks of a peer which was ahead goes on waiting after it has loaded a
  snapshot that is further ahead; `adjust_peer_for_snapshot` does nothing for such a
  connection.
* `SnapshotNullId.cfg` (`MCSnapshot`, `NextBlockHasId`): for a block that a
  truncated log does not have, the hello gets the null id, which says that the log
  is empty; if the peer's log is truncated as well it then fails an assertion.
* `RoutingStarves.cfg` (`MCRouting`, `NobodyStarvesAtRest`): a node may stay without
  a route although a neighbour has one. It rejects the offers as infeasible, and
  `sendSeqnoRequest` asks once, along a route that may be gone. The next sequence
  number ends this (`NewerSeqnoEndsStarvation`, in `routing`).
* `SnapshotRelay.cfg` (`MCSnapshot`, `NoConnectionError`): while a connection is
  starting, a snapshot and then a block arrive on another one.
  `adjust_peer_for_snapshot` leaves the hello as it is, and the fork switch on the
  block calls `get_common_ancestor` for it, which throws. The network
  (`RelayAndProduce`) is therefore not one of those of `snapshot`.

Read from the code while modelling, without a run: `apply_snapshot` never updates
`prev`; a part that joins two ranges makes `KeyRanges::add` forget the right one
(ForkDb.hpp:669), so that an overlapping part is accepted later; `RunQueue::pop`
looks no further than a row that is being run; a thread that exits after
`setNumThreads` notifies nobody; `~CloseLock` calls `tryClose` after unlocking.

## 4. Proofs

All theorems hold for all values of the constants that satisfy the assumptions of
the module: in `Cft`, the producers are a finite set of at least two positive
numbers; in `Bft`, `Order` is a sequence of different producers of which fewer than
a third are faulty (`BftAssumption`), and nothing is assumed of the scenarios but
their type and that the first term is not after the last; in `BlockSync`, the blocks
are such as correct producers make (`BlockSyncAssumption`, see below); in `Routing`,
the nodes are a finite set, a connection has two of them as its ends, and sequence
numbers have 16 bits.

**Quorums** (`ProducerSetProofs`). Two CFT quorums intersect
(`CftQuorumsIntersect`); two BFT quorums share a correct producer when fewer than
a third are faulty, and `weak_threshold` producers include a correct one
(`BftQuorumsShareCorrect`, `WeakThresholdHasCorrect`). From the cardinality of
unions and the rounding of the thresholds.

**One node** (`ForkDbProofs`). `Good(db)` says that the database has its type,
that byBlocknumIndex is the chain of the head from some block at or below
commitIndex, and that the durable head is the head or a descendant with all
revisions from commitIndex on. Every operator of `ForkDb` preserves it, and every
operator other than the constructors keeps the irreversible blocks in the chain
of the head. The critical one is `TrySetHeadGood`: the commits in the middle of
the switch are capped by the old head *and* by the commitNum of the executed
blocks, and a header never declares a block above itself irreversible; together
with the comparison at the beginning of `trySetHead` this keeps commitIndex
within the new chain wherever execution stops. DurableHead is needed for
`ReloadGood`: without it a restart could come back below an irreversible block.

**Trees of blocks** (also in `ForkDbProofs`). The order of blocks is total on blocks
whose terms do not decrease (`AtLeast`, `OrderLess`) and a finite set of such
blocks has a best one. `Tidy(db)` says that `states` is a tree, that the viable
blocks are those from one block on, and that the head is one of them. If there is
one chain per term the last viable block is the best (`BestOfTree`). `Tidy` is
preserved by `Insert`, `SetSubtree`, `Commit`, `TrySetHead`, a fork switch, `Gc`
and `FinishBlock`.

**One node under any sequence of calls** (`ForkDbNodeProofs`). All properties of
`ForkDbNode` are theorems, from the assumption of the module on its constants
alone. What is hard here is the loop of `async_switch_fork`: a fork may fail
after some of its blocks have executed and committed, the rest of it leaves the
index, and the next best fork is tried. `SwitchFork` is a recursive function;
`SwitchForkIsLoop` shows, by the least counterexample, that it is a run of
`SwitchOnce` iterations, so that its properties follow from those of one
iteration. The invariants:

* `Forest(s, r)`: `states` is a finite tree with a root `r` at or below
  commitIndex; every block with a revision executes, invalid blocks do not, and
  their descendants are invalid; the node's own blocks and those that a header
  declares irreversible execute;
* `Indexed(s)`: `byOrderIndex` is the set of descendants of some block that are
  not invalid, or empty;
* `Ready(s)`: `Good`, `Forest` and `Indexed`, and, unless the node has failed,
  the durable head is the head, the pending block builds on it and is of the
  current term, which the node leads, and no block has a later term;
* `Settled(s)`: the head is viable; `NoBetter(s)`: no viable block is better.

`InLoop` is the invariant of the loop: each iteration but the last takes a block
out of `byOrderIndex`, so that as many iterations as there are blocks suffice
(`SwitchForkShape`), and after the last one the head is the best viable block or a
better one is being produced on it. One lemma per handler (`RecvBlockInv` ...
`RestartInv`) shows that `Inv` is kept; `InvAlways` combines them. A crash in a fork
switch (`RecvBlockCrashesInv`, `SelectSubtreeCrashesInv`, `NewTermCrashesInv`) comes
down to one lemma, `CrashInv`: wherever `InLoop` holds, the blocks that an iteration
has executed and saved are a chain on the irreversible block, from which `Reload`
makes a good database. `InvAlways` yields
`IndexIsAlwaysBestChain`, `HeadIsAlwaysBest`, `InvalidIsAlwaysClosed`,
`RestartAlwaysKeepsChain`, `PendingAlwaysExtendsHead` and
`IrreversibleAlwaysStays`. The attempt showed that a consensus failure in the
middle of a fork switch leaves a pending block that does not build on the head;
`PendingExtendsHead` therefore excludes failed nodes (`psinode` exits then). `Inv`
was checked with TLC on the instance of `forkdb` before it was proved.

**The network** (`CftProofs`). The inductive invariant `Inv` says of every node
between two callbacks that it has its type, that its database is `Good`, that it
has a pending block exactly if it is the leader, of the current term, and that
the pending block builds on the head unless the node has failed. There is one
lemma per function (`UpdateTermInv`, `SwitchHeadInv`, `CheckVotesInv` ...) and
one per handler, which shows that the handler is a `Callback`: it keeps the
invariant, keeps the irreversible blocks, and treats votes as `VoteStep` allows.
From this follow `TypeCorrect` (`[]TypeOK`), `PendingBlock`
(`[]ActiveBlockIffLeader`) and `IrreversibleIsKept` (`IrreversibleStays`), all
with any number of restarts.

`OneLeaderPerTerm` (`[]ElectionSafety`) assumes `MaxRestarts = 0`, as it must:
run `cft_restart_forks` shows what a restart does. The strengthening
`ElectionInv` relates the votes that nodes remember, the votes in messages and
the votes that candidates count to `ballots`; the leader of a term, and the
producer of each block of the term, has a quorum of ballots, two quorums share a
voter, and nobody votes twice in a term.

**Agreement** (`CftAgreementProofs`). A block is *chosen* when a quorum has
accepted it: its producer, and the nodes that sent a ConfirmMessage for it or for
a later block of the same term. A block has *passed* when a quorum is in a later
term and never accepted it; then it cannot be chosen any more (`Passed` is stable
and excludes `Chosen`, because quorums intersect). The inductive invariant
`AgreementInv` adds to `Inv` and `ElectionInv`:

* all blocks: one chain per term (`OneChain`), every block of an earlier term is
  an ancestor or has passed (`SafeBlocks`), what a header declares irreversible is
  an ancestor of a chosen block (`HeadersTrue`);
* nodes: the database is a tree of known blocks of terms up to the current one
  (`NodeBlocks`); a leader has all blocks of its term (`LeaderChain`) and the next
  block it produces is safe (`SafeLeaders`); it counts only blocks that were
  accepted (`MatchTrue`); what it regards as irreversible is (`CommitsChosen`);
* messages: a node's head never gets worse than what it confirmed or produced
  (`ConfirmsTrue`, `ProducersLead`), nor than the head it asked for votes with
  (`Candidacies`); a vote is for a head at least as good as everything the voter
  had accepted (`VotesUpToDate`, `VotesRecorded`).

The heart is the election: the voters of a new leader form a quorum, each
advertises-compares before it votes, so for a block of an earlier term either a
voter that accepted it is among them, and then the candidate's head is at least
as good and, by `SafeBlocks`, builds on it, or the voters are the quorum that
makes it `Passed`. Fork switches then never leave the chain of a chosen block,
and `consensus_failure` is not thrown. From `AgreementIsInvariant` follow
`OnlyOneFork` (`[]OneIrreversibleFork`), `LeaderIsComplete`
(`[]LeaderHasIrreversible`), `NoFailure` (`[]NoConsensusFailure`) and `Refinement`
(`ImplementsIrreversibility`: the longest irreversible chain of the network is
the abstract one; the blocks of a node are a prefix of it).

All of them assume `MaxRestarts = 0`: the algorithm does not agree across restarts
(`cft_restart_forks`). `AgreementInv` was checked with TLC before it was proved, on
the instance of `cft_fixed` with failing writes (405,074 states).

**BFT** (`BftProofs`). What a correct node keeps to, whatever the faulty producers
sign and whichever messages arrive, in whichever order. A callback of `Bft` runs up
to a dozen functions of the node, each of which may prepare or commit a block, and
some of them in the middle of a fork switch; its messages are sent at its end. The
invariant of a node `NodeOK(n, s, M, T)` therefore speaks of a state `s` within a
callback, with `M` the messages sent before, and each function is a `Step` from one
such state to another that also keeps the irreversible blocks. Its parts:

* `ConfirmationsOK`: the prepares counted for a block are `Justified`: their
  producers are faulty or have sent them, or a quorum has prepared the block. The
  second case is needed because a leader loads the prepares from the proof in
  a view change, and because complete quorums are not told apart;
* `ViewsOK`, `MessageOK`: a view change that proves its block is right, a commit that
  was sent is for a prepared block, no term is above the last one (with it, the
  searches in `skip_advanced_leaders` and `minimum_viable_view` find a term);
* `PreparesOK`: `best_confirm` is the end of the only fork that the node has prepared
  in the last term in which it has prepared any. It is what `is_forbidden_fork`
  relies on when it looks at `best_confirm` alone;
* `DatabaseOK`: the database is `Good` and a leader has a pending block on its head.

`Chain(db, top)` and `Raised` describe the database in the middle of a fork switch,
when the index is already the chain of the new head and `head` is still the old one:
then `in_best_chain` answers for the new chain, on which `NotForbidden` and
`PreparesGrow` rest. There is a lemma per function (`DoCommitFacts` ...
`OnAcceptBlockHeaderFacts`) and per handler (`TimeoutCallback` ...
`RecvViewChangeCallback`); `CallbackInv` sends the messages, and `BftInvariant` is
the inductive invariant of the network. It yields `BftOneForkPerTerm`
(`[]OneForkPerTerm`), `BftCommitsArePrepared` (`[]CommitsArePrepared`) and
`BftKeepsIrreversible` (a node never leaves a block that it considers irreversible).
The view changes that faulty producers make up need no case of their own:
`ForgedViewChangeFacts` shows that one which proves its block carries prepares of a
quorum, since nobody can sign for a correct producer. `BftInv` was checked with TLC
on smaller scenarios, without such view changes, before it was proved.

**Block exchange** (`BlockSyncProofs`). Both ends of a connection keep a picture of
the other one, which is out of date: the peer receives blocks from elsewhere,
switches forks and prunes while messages are on their way. The inductive invariant
`SyncInv` has one part per direction, `Link(s, K, y)`, which relates the sender `s`,
the messages `K` on their way, and the *present* fork database of the receiver `y`:

* `Has(db, b)`: `b` is known, older than the last irreversible block, or forked out.
  What a node has it goes on having (`HasStays`), and with a block it has its
  ancestors (`HasAncestors`). This is why a picture that is out of date stays right,
  although blocks are pruned;
* `ReadyOK`: the receiver has `last_sent`, or will have it with the messages on their
  way (`WillHave`), and it has `last_received`. `StartOK`, `CommonOK`: the
  common block that was found is had by the receiver, and is in the sender's best
  chain, or is the irreversible block with which the peer ended its search;
* `MessageOK`: a block on its way has its predecessor before it in the channel, or
  the receiver has it. This is what a fork switch in the middle of a send could
  break: it moves `last_sent` back to a block of the new chain;
* `WaitOK`: who waits for the other's blocks ended its search with an older
  irreversible block than the other one did;
* `DbOK`: the database is `Good` and `Tidy`, its blocks are of the world, and
  `MayCommit` holds of its head and commit index.

Every function of a callback keeps `Link` in the direction in which it sends and is
an `Advance`: the node goes on having what it had, and a search that has ended is
not resumed, so that the other direction's `Link` is kept too. There is a lemma
per function and one per action. From `SyncInvariant` follow `SyncNoConnectionError`,
`SyncBlocksArriveInOrder`, `SyncPeerHasBlock` and `SyncNotBothWaiting`, for any
number of blocks and any length of the chains. `BlockSyncAssumption` is what the
consensus algorithm guarantees with correct producers: blocks execute, terms do not
decrease along a chain, a term has one chain (for CFT proved by `OneLeaderPerTerm`
and `OneChain` of `AgreementInv`), and a block better than the head of a node
descends from what is irreversible there. `SyncInv` was checked with TLC on the
instance of `sync_safety` before it was proved.

**Routing** (`RoutingProofs`). The invariant `TypeInv` says of every node that its
connections are distinct and opened by it, that routes lead over open connections,
that the route in use is in routeTable with exactly one more than its distance in
sourceTable, that a node which has not seen the Origin as a producer has an empty
sourceTable, and that nothing has come over a connection from an end that did not
open it. Every handler is a `Step` of one node: it takes over only distances that
it has or that are on their way to it (`Learns`), and sends only updates that agree
with its new sourceTable (`Tells`). `TablesBelongTogether` (`[]TypeOK`) needs no
hypothesis.

`Honest` is what keeps routes free of loops: as long as a node has a connection
open, every distance that is on its way over it, or is in the routeTable at the far
end, is no better than the one in the node's sourceTable. A route is used only if it
is better than the node's own distance in sourceTable, which is then one more than
the route's; so distances decrease strictly from hop to hop
(`DistanceAlwaysDecreases`), and a set of nodes that routes among itself would have
no best member (`AlwaysLoopFree`). Two hypotheses are needed for `Honest`, and both
are about the code:

* `NeverRejoins`: a producer which has left the producers does not come back.
  `on_producer_change` erases the sourceTable without a retraction, so that a node
  may later be told its own old distance again and find it feasible;
* `[]SeqnosAreRecent`: for each router there is a sequence number such that all
  distances that are stored or on their way are at most half a circle (32767
  increments) older. `SequenceNumber` compares in a circle of 16 bits, and "better"
  is not transitive beyond half of it. The code does not enforce this: a
  sourceTable entry does not expire. It fails only if an entry, a route or a message
  outlasts 32768 increments, of which there is at most one per second
  (`minSeqnoUpdateInterval`), without the node hearing of a newer one.

The instance of run `routing` satisfies both. `TypeInv` and `Honest` were checked with
TLC on it before they were proved.

### Only model-checked

Liveness (`LeaderMakesProgress`, `EventuallySynced`, `EventuallyStable`,
`StableMakesProgress`, `Settles`, `EventuallyConverged`), which is out of reach of
the prover; the safety of `JointCft` and `Snapshot`; of `Routing`,
`TablesAgreeAtRest` and `NewerSeqnoEndsStarvation`; and of `Bft`, agreement
(`ImplementsIrreversibility`, `ViewChangesReportCommits`) and `BestPreparedIsKnown`.
The latter needs agreement: garbage collection spares `best_prepared` only because
nothing that conflicts with it becomes irreversible. Agreement needs, besides
`BftInv` and `BftQuorumsShareCorrect`, that a block of a later term builds on every
block that may be committed; with `set_root` as it is (`BftRoot.cfg`) this does not
follow from the subtree alone, and with `is_term_ready` as it is (`BftReady.cfg`) a
leader may choose its root without the view changes that the argument of the
documentation rests on. `bft_safety` has no faulty leader that uses this against
several nodes, so that agreement is open there.

## 5. What is not modelled, and the plan

Not modelled: transaction execution (reduced to success or failure of a block),
authentication of services and block signatures, the block log, saved snapshots,
transaction queues, `RoutingEnvelope` forwarding and the messages deferred until a
block is sent (`send_after_block`), the peer manager, changes of the producers
under BFT, the run queue, sockets and watchdog (native threads), storage, HTTP, the
virtual machine, applications.

Next, in order: agreement of `Bft`, on top of `BftInv`; `ProducersFollowHead` and agreement of `JointCft`.
