------------------------------- MODULE ForkDb -------------------------------
(***************************************************************************)
(* The fork database of one node (class ForkDb): the tree of blocks above  *)
(* the last irreversible one, the chain that is currently the best, and    *)
(* the block being produced.                                               *)
(*                                                                         *)
(* The id of a block is a hash that covers its header and, through the     *)
(* field previous, its whole history.  A block is therefore represented by *)
(* the sequence of the headers from the first block to itself: its number  *)
(* is the length, its predecessor the sequence without the last header.    *)
(*                                                                         *)
(* A database is a record, and each member function an operator from the   *)
(* record before the call to the record after it.  The maps blocks and     *)
(* states of the code always have the same keys and are one set here.      *)
(***************************************************************************)
EXTENDS Integers, Sequences, FiniteSets

\* No block is being produced: blockContext is empty.
NoBlock == [term |-> -1, num |-> -1, commitNum |-> -1]

(***************************************************************************)
(* The fields of a block header that the fork database looks at.  "valid"  *)
(* says whether executing the block succeeds: execution is deterministic,  *)
(* so this is a property of the block.                                     *)
(***************************************************************************)
Header(terms, producers, nums) ==
  [term : terms, producer : producers, commitNum : nums, valid : BOOLEAN]

\* A chain of headers; none declares a block after itself irreversible.
Block ==
  {b \in Seq(Header(Nat, Nat, Nat)) :
     b # <<>> /\ \A i \in 1..Len(b) : b[i].commitNum \in 1..i}

BlockNum(b) == Len(b)
Term(b) == b[Len(b)].term
CommitNum(b) == b[Len(b)].commitNum
Previous(b) == SubSeq(b, 1, Len(b) - 1)
Ancestor(b, num) == SubSeq(b, 1, num)

\* ForkDb::is_ancestor.
IsAncestor(a, b) == Len(a) <= Len(b) /\ Ancestor(b, Len(a)) = a

\* An arbitrary total order of headers, and the order of block ids it gives: ids
\* of blocks with the same number compare as their last different headers do.
HeaderLess(h, k) ==
  \/ h.term < k.term
  \/ h.term = k.term /\ h.producer < k.producer
  \/ h.term = k.term /\ h.producer = k.producer /\ h.commitNum < k.commitNum
  \/ /\ h.term = k.term /\ h.producer = k.producer /\ h.commitNum = k.commitNum
     /\ h.valid /\ ~k.valid

IdLess(b, c) ==
  \E i \in 1..Len(b) :
    /\ HeaderLess(b[i], c[i])
    /\ \A j \in (i + 1)..Len(b) : b[j] = c[j]

\* Whether BlockHeaderState::order() of b is less than the order of c.
OrderLess(b, c) ==
  \/ Term(b) < Term(c)
  \/ Term(b) = Term(c) /\ BlockNum(b) < BlockNum(c)
  \/ Term(b) = Term(c) /\ BlockNum(b) = BlockNum(c) /\ IdLess(b, c)

\* The last and the first entry of an index sorted by order(), as a set with one
\* element, or none if the index is empty.
LastOf(index) == {b \in index : \A c \in index \ {b} : OrderLess(c, b)}
FirstOf(index) == {b \in index : \A c \in index \ {b} : OrderLess(b, c)}

(***************************************************************************)
(* The constructor for a chain whose first block is irreversible.          *)
(***************************************************************************)
NewDb(first) ==
  [states          |-> {first},             \* states and blocks
   invalid         |-> {},                  \* the states with the flag invalid
   revisions       |-> {first},             \* the states with a revision: executed blocks
   byOrderIndex    |-> {first},             \* the blocks that may become the head
   byBlocknumIndex |-> [i \in {Len(first)} |-> first], \* the best chain
   head            |-> first,
   databaseHead    |-> first,               \* SharedDatabase::head, which is durable
   commitIndex     |-> Len(first),
   currentTerm     |-> Term(first),
   blockContext    |-> NoBlock,
   failed          |-> FALSE]               \* consensus_failure was thrown: the node exits

InBestChain(db, b) ==
  Len(b) \in DOMAIN db.byBlocknumIndex /\ db.byBlocknumIndex[Len(b)] = b

\* throw consensus_failure{}
ConsensusFailure(db) == [db EXCEPT !.failed = TRUE]

(***************************************************************************)
(* ForkDb::insert.  A block at or below commitIndex, a known block and a   *)
(* block whose predecessor is unknown leave the database as it is.         *)
(***************************************************************************)
CanInsert(db, b) ==
  /\ BlockNum(b) > db.commitIndex
  /\ b \notin db.states
  /\ Previous(b) \in db.states

\* Mutation: the block does not inherit the flag invalid.
InsertAsValid(db, b) ==
  [db EXCEPT !.states = @ \cup {b},
             !.byOrderIndex = IF Previous(b) \in db.byOrderIndex THEN @ \cup {b} ELSE @]

Insert(db, b) ==
  [db EXCEPT
    !.states = @ \cup {b},
    !.invalid = IF Previous(b) \in db.invalid THEN @ \cup {b} ELSE @,
    !.byOrderIndex = IF Previous(b) \in db.byOrderIndex \ db.invalid THEN @ \cup {b} ELSE @]

(***************************************************************************)
(* ForkDb::set_subtree: only descendants of root may become the head.  The *)
(* pruning loop visits blocks in order(), so it keeps a block if all its   *)
(* ancestors down from the root are there (terms never decrease along a    *)
(* chain).                                                                 *)
(***************************************************************************)
SetSubtree(db, root) ==
  LET pool == IF root \in db.byOrderIndex THEN db.byOrderIndex ELSE db.states \ db.invalid
  IN  IF root \in db.invalid
        THEN ConsensusFailure(db)
        ELSE [db EXCEPT !.byOrderIndex =
               {b \in pool : /\ IsAncestor(root, b)
                             /\ \A i \in Len(root)..Len(b) : Ancestor(b, i) \in pool}]

\* ForkDb::blacklist_subtree: root failed to execute.  If root is not in the
\* index, the loop that marks its descendants starts at the end.
BlacklistSubtree(db, root) ==
  LET dead == IF root \in db.byOrderIndex
                THEN {b \in db.byOrderIndex : IsAncestor(root, b)} ELSE {}
  IN  [db EXCEPT !.invalid = @ \cup {root} \cup dead, !.byOrderIndex = @ \ dead]

(***************************************************************************)
(* ForkDb::commit.  A block above the head cannot be committed, and        *)
(* commitIndex never decreases.                                            *)
(***************************************************************************)
NewCommitIndex(db, num) ==
  LET capped == IF num < BlockNum(db.head) THEN num ELSE BlockNum(db.head)
  IN  IF capped > db.commitIndex THEN capped ELSE db.commitIndex

Commit(db, num) ==
  LET new == NewCommitIndex(db, num)
      pruned == IF \E b \in FirstOf(db.byOrderIndex) : BlockNum(b) < new
                  THEN SetSubtree(db, db.byBlocknumIndex[new]) ELSE db
  IN  [pruned EXCEPT !.commitIndex = new]

(***************************************************************************)
(* basic_cft_consensus::on_accept_block, called once for each block when   *)
(* it has been executed: commit what the header says is irreversible.  The *)
(* commits of the blocks of one fork switch only ever raise commitIndex,   *)
(* so together they amount to the largest.  All of them are capped by the  *)
(* head from before the switch, because head is assigned at the end.       *)
(***************************************************************************)
AcceptBlocks(db, accepted) ==
  LET nums == {CommitNum(b) : b \in accepted}
  IN  IF accepted = {} THEN db
      ELSE Commit(db, CHOOSE n \in nums : \A m \in nums : m <= n)

(***************************************************************************)
(* ForkDb::trySetHead with execute_fork and execute_block.  The blocks of  *)
(* the new chain above the fork point that have no revision yet are        *)
(* executed in order.  If one fails, it and its descendants are            *)
(* blacklisted and the head is left at the block before it.                *)
(***************************************************************************)
\* Mutation: the new chain is not compared with the irreversible block.
NeverConflicts(db, new) == FALSE

Conflicts(db, new) ==
  \/ BlockNum(new) < db.commitIndex
  \/ Ancestor(new, db.commitIndex) # db.byBlocknumIndex[db.commitIndex]

\* Mutation: the loop that looks for the fork point stops too early.
ForkPointByNumber(db, new) ==
  IF BlockNum(new) < BlockNum(db.head) THEN BlockNum(new) ELSE BlockNum(db.head)

ForkPoint(db, new) ==
  CHOOSE i \in DOMAIN db.byBlocknumIndex :
    /\ IsAncestor(db.byBlocknumIndex[i], new)
    /\ \A j \in DOMAIN db.byBlocknumIndex :
         j > i => ~IsAncestor(db.byBlocknumIndex[j], new)

TrySetHead(db, new) ==
  LET fork == ForkPoint(db, new)
      above == (fork + 1)..BlockNum(new)
      fresh == {i \in above : Ancestor(new, i) \notin db.revisions}
      bad == {i \in fresh : ~new[i].valid}
      last == IF bad = {} THEN BlockNum(new) ELSE (CHOOSE i \in bad : \A j \in bad : i <= j) - 1
      accepted == {Ancestor(new, i) : i \in {j \in fresh : j <= last}}
      index(top) == [i \in {j \in DOMAIN db.byBlocknumIndex \cup above : j <= top} |->
                       IF i > fork THEN Ancestor(new, i) ELSE db.byBlocknumIndex[i]]
      executed == AcceptBlocks(
                    [db EXCEPT !.byBlocknumIndex = index(BlockNum(new)),
                               !.revisions = @ \cup accepted], accepted)
      checked == IF bad = {} THEN executed
                 ELSE BlacklistSubtree(executed, Ancestor(new, last + 1))
  IN  IF new = db.head THEN db
      ELSE IF Conflicts(db, new) THEN ConsensusFailure(db)
      ELSE [checked EXCEPT
             !.byBlocknumIndex = index(last),
             !.head = Ancestor(new, last),
             !.databaseHead = IF last > fork THEN Ancestor(new, last) ELSE @]

(***************************************************************************)
(* ForkDb::async_switch_fork.  One iteration of its loop tries the best    *)
(* block that may become the head, unless the block being produced is      *)
(* better than that.  Every iteration but the last blacklists a block.     *)
(***************************************************************************)
KeepsPending(db, original, best) ==
  /\ db.blockContext # NoBlock
  /\ original \in db.byOrderIndex
  /\ \/ Term(best) < db.blockContext.term
     \/ Term(best) = db.blockContext.term /\ BlockNum(best) < db.blockContext.num

\* The head that an iteration tries to set.
Target(db, original, best) == IF KeepsPending(db, original, best) THEN original ELSE best

\* The result of an iteration; there is no other one if target has become the head.
Tried(db, target) == [db |-> db, done |-> db.failed \/ db.head = target]

TryBest(db, original, best) ==
  LET target == Target(db, original, best)
  IN  Tried(TrySetHead(db, target), target)

SwitchOnce(db, original) ==
  LET viable == {b \in db.byOrderIndex : Term(b) <= db.currentTerm}
  IN  IF LastOf(viable) = {}
        THEN [db |-> ConsensusFailure(db), done |-> TRUE]
        ELSE TryBest(db, original, CHOOSE b \in LastOf(viable) : TRUE)

\* The database after each iteration.
SwitchLoop(db) ==
  LET loop[k \in Nat] ==
        IF k = 0 THEN [db |-> db, done |-> FALSE]
        ELSE LET prev == loop[k - 1]
             IN  IF prev.done THEN prev ELSE SwitchOnce(prev.db, db.head)
  IN  loop

\* Mutation: no other block is tried after one failed.
SwitchForkOnce(db) == SwitchOnce(db, db.head).db

SwitchFork(db) == SwitchLoop(db)[Cardinality(db.states)].db

(***************************************************************************)
(* ForkDb::gc: only the last irreversible block and its descendants are    *)
(* kept, and of the revisions only those that build on revisions that are  *)
(* kept (SharedDatabase::removeRevisions).                                 *)
(***************************************************************************)
RemoveRevisions(revisions, root) ==
  {b \in revisions : /\ IsAncestor(root, b)
                     /\ \A i \in Len(root)..Len(b) : Ancestor(b, i) \in revisions}

Gc(db) ==
  LET root == db.byBlocknumIndex[db.commitIndex]
      kept == {b \in db.states : IsAncestor(root, b)}
  IN  [db EXCEPT
        !.states = kept,
        !.invalid = @ \cap kept,
        !.revisions = RemoveRevisions(@, root),
        !.byOrderIndex = @ \cap kept,
        !.byBlocknumIndex = [i \in {j \in DOMAIN @ : j >= db.commitIndex} |-> @[i]]]

(***************************************************************************)
(* Block production: start_block, abort_block and finish_block.            *)
(***************************************************************************)
StartBlock(db, term) ==
  [db EXCEPT !.blockContext = [term |-> term, num |-> BlockNum(db.head) + 1,
                               commitNum |-> db.commitIndex]]

AbortBlock(db) == [db EXCEPT !.blockContext = NoBlock]

FinishedBlock(db, producer) ==
  Append(db.head, [term |-> db.blockContext.term, producer |-> producer,
                   commitNum |-> db.blockContext.commitNum, valid |-> TRUE])

\* b, which was produced on top of the head, becomes the head.
AddHead(db, b) ==
  [db EXCEPT
    !.states = @ \cup {b},
    !.revisions = @ \cup {b},
    !.byOrderIndex = @ \cup {b},
    !.byBlocknumIndex = [i \in DOMAIN @ \cup {Len(b)} |-> IF i = Len(b) THEN b ELSE @[i]],
    !.head = b,
    !.databaseHead = b,
    !.blockContext = NoBlock]

\* Mutation: the new head is not saved.
FinishBlockUnsaved(db, producer) ==
  [AddHead(db, FinishedBlock(db, producer)) EXCEPT !.databaseHead = db.databaseHead]

FinishBlock(db, producer) == AddHead(db, FinishedBlock(db, producer))

(***************************************************************************)
(* The constructor on a database that has a head: it loads the blocks from *)
(* the durable head down to the lowest one whose revision is still stored. *)
(***************************************************************************)
\* Mutation: only the head itself is loaded.
ReloadHeadOnly(db) == NewDb(db.databaseHead)

Reload(db) ==
  LET head == db.databaseHead
      low == CHOOSE i \in 1..Len(head) :
               /\ \A j \in i..Len(head) : Ancestor(head, j) \in db.revisions
               /\ i > 1 => Ancestor(head, i - 1) \notin db.revisions
      loaded == {Ancestor(head, i) : i \in low..Len(head)}
  IN  [NewDb(head) EXCEPT
        !.states = loaded,
        !.revisions = loaded,
        !.byOrderIndex = loaded,
        !.byBlocknumIndex = [i \in low..Len(head) |-> Ancestor(head, i)],
        !.commitIndex = low]
-----------------------------------------------------------------------------
(***************************************************************************)
(* What the functions above preserve.                                      *)
(***************************************************************************)

\* byBlocknumIndex is the chain of the head: it has an entry for every number from
\* some block at or below commitIndex to the head, and each is the ancestor of the
\* head with that number.  trySetHead edits the index in place, and execute_fork
\* truncates it in the middle of the edit.
IndexIsChainOfHead(db) ==
  /\ db.commitIndex \in 1..BlockNum(db.head)
  /\ \E low \in 1..db.commitIndex :
       db.byBlocknumIndex = [i \in low..BlockNum(db.head) |-> Ancestor(db.head, i)]

\* A block that is being produced builds on the head, and declares no block
\* irreversible that is not.
PendingBuildsOnHead(db) ==
  db.blockContext # NoBlock =>
    /\ db.blockContext.num = BlockNum(db.head) + 1
    /\ db.blockContext.commitNum \in 1..db.commitIndex

\* If the process stops now it can be restarted: the durable head is the head or,
\* between two iterations of async_switch_fork, a descendant of it, and all blocks
\* from the last irreversible one to the durable head have a revision.
DurableHead(db) ==
  /\ IsAncestor(db.head, db.databaseHead)
  /\ \A i \in db.commitIndex..Len(db.databaseHead) : Ancestor(db.databaseHead, i) \in db.revisions

DbType(db) ==
  /\ DOMAIN db = {"states", "invalid", "revisions", "byOrderIndex", "byBlocknumIndex", "head",
                  "databaseHead", "commitIndex", "currentTerm", "blockContext", "failed"}
  /\ db.states \cup db.invalid \cup db.revisions \cup db.byOrderIndex \subseteq Block
  /\ db.head \in Block /\ db.databaseHead \in Block
  /\ db.currentTerm \in Nat
  /\ db.blockContext \in {NoBlock} \cup [term : Nat, num : Nat, commitNum : Nat]
  /\ db.failed \in BOOLEAN
=============================================================================
