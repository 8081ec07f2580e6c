--------------------------- MODULE Irreversibility ---------------------------
(***************************************************************************)
(* What every consensus algorithm promises: "Only one fork can ever become *)
(* irreversible".  There is one irreversible chain.  It only grows at its  *)
(* end, and what a node regards as irreversible is a part of it that only  *)
(* grows either.                                                           *)
(***************************************************************************)
EXTENDS Naturals, Sequences

CONSTANTS
  Node,   \* the nodes of the network
  First   \* the chain that is irreversible from the start

VARIABLES
  chain,  \* the irreversible chain
  seen    \* the part of it each node knows to be irreversible

vars == <<chain, seen>>

\* Sequence s begins with r.
Extends(s, r) == Len(r) <= Len(s) /\ SubSeq(s, 1, Len(r)) = r

Init == chain = First /\ seen = [n \in Node |-> First]

\* A node makes more blocks irreversible.
Extend(n) ==
  /\ chain' # chain
  /\ Extends(chain', chain)
  /\ seen' = [seen EXCEPT ![n] = chain']

\* A node learns that more blocks are irreversible.
Learn(n) ==
  /\ \E num \in (Len(seen[n]) + 1)..Len(chain) :
       seen' = [seen EXCEPT ![n] = SubSeq(chain, 1, num)]
  /\ UNCHANGED chain

\* Either way some node sees more than before.
Next == seen' # seen /\ \E n \in Node : Extend(n) \/ Learn(n)

Spec == Init /\ [][Next]_vars
=============================================================================
