----------------------------- MODULE MCBlockSync -----------------------------
(***************************************************************************)
(* The small instances of BlockSync that TLC checks.                       *)
(***************************************************************************)
EXTENDS BlockSync, TLC

H(t, c) == [term |-> t, producer |-> t, commitNum |-> c, valid |-> TRUE]
Chain(b) == {Ancestor(b, i) : i \in 1..Len(b)}

\* The leader of term 1 produced one block, which the leader of term 2 never saw.
\* It produced two others, which the leader of term 3 never saw.
Old == <<H(0, 1), H(2, 1), H(2, 1)>>
New == <<H(0, 1), H(1, 1), H(3, 2)>>
NewLong == Append(New, H(3, 2))

Forks == Chain(Old) \cup Chain(New)
LongFork == Chain(Ancestor(Old, 2)) \cup Chain(NewLong)
OneChain == Chain(New)
LongChain == Chain(NewLong)

\* What post_send_block was called for does not influence anything.
View == <<[n \in Node |-> [node[n] EXCEPT !.posted = {}]], chan>>

Symmetry == Permutations(Node)
=============================================================================
