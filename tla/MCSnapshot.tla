----------------------------- MODULE MCSnapshot -----------------------------
(***************************************************************************)
(* The small networks that TLC looks at for Snapshot.                      *)
(***************************************************************************)
EXTENDS Snapshot, TLC

CONSTANTS n1, n2, n3

At(x, y, z) == n1 :> x @@ n2 :> y @@ n3 :> z
Changes(start, end) == <<[start |-> start, commit |-> start, end |-> end]>>

\* n1 has the snapshot of block 5, produces another block and gets the snapshot of
\* block 6 signed; n2 passes what it gets on to n3.
Line ==
  [edges |-> {{n1, n2}, {n2, n3}}, head |-> At(5, 1, 1), loaded |-> At(5, 0, 0), lag |-> 0, producing |-> {n1},
   signed |-> {6}, changes |-> Changes(2, 3), rows |-> [i \in 1..LastBlock |-> IF i < 5 THEN {} ELSE {1}]]

\* n1 is ahead of n2 and n2 of n3: what n2 sends to n3 is out of date when it has
\* loaded the snapshot of n1.
Relay == [Line EXCEPT !.head = At(6, 5, 1), !.loaded = At(6, 5, 0), !.producing = {}]

\* n2 and n3 are connected to n1 and to one another, and pass the same snapshot on.
Cycle == [Line EXCEPT !.edges = @ \cup {{n1, n3}}, !.producing = {}, !.signed = {}, !.changes = <<>>]

\* n3 has all the blocks: n2 gets them from n3 while n1 sends the snapshot, of a block
\* that for n2 need not be irreversible yet.
TwoSources ==
  [Line EXCEPT !.head = At(5, 1, 5), !.loaded = At(3, 0, 0), !.lag = 2, !.producing = {}, !.signed = {},
               !.changes = <<>>, !.rows = [i \in 1..LastBlock |-> IF i < 3 THEN {} ELSE {1}]]

\* n2 is in the middle of the chain, and sends blocks to n3 when it gets the snapshot.
Behind == [Line EXCEPT !.head = At(6, 3, 1), !.loaded = At(6, 0, 0), !.changes = Changes(4, 5)]

\* The snapshot is of a block during a change of the producers.
DuringChange ==
  [Line EXCEPT !.edges = {{n1, n2}}, !.head = At(7, 1, 1), !.changes = Changes(4, 6)]

Networks == {Line, Relay, Cycle, TwoSources, Behind, DuringChange}

(***************************************************************************)
(* Networks in which a transfer goes wrong.                                *)
(***************************************************************************)
\* As DuringChange, and n2 passes the snapshot on to n3.
PassedOn == {[DuringChange EXCEPT !.edges = Line.edges]}

\* n2 is at the block that ends a change of the producers.
AtEndOfChange == {[Behind EXCEPT !.edges = {{n1, n2}}, !.changes = Changes(2, 3)]}

\* n2 has a row that is deleted before the snapshot.
DeletedRow ==
  {[Behind EXCEPT !.edges = {{n1, n2}}, !.changes = <<>>,
                  !.rows = [i \in 1..LastBlock |-> IF i < 5 THEN {1} ELSE {2}]]}

\* n3 is ahead of n2 when they connect, and n2 loads the snapshot of n1.
FutureBlock == {[Line EXCEPT !.head = At(5, 1, 3), !.changes = <<>>, !.producing = {}]}

\* As Relay, with a new block while n2 and n3 have not yet answered one another.
RelayAndProduce == {[Relay EXCEPT !.producing = {n1}]}

\* Both nodes have loaded snapshots, and blocks that are not yet irreversible.
TwoTruncatedLogs ==
  {[Line EXCEPT !.edges = {{n1, n2}}, !.head = At(7, 5, 1), !.loaded = At(6, 3, 0), !.lag = 1,
                !.producing = {}, !.changes = <<>>]}
=============================================================================
