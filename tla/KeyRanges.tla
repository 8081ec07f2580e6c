----------------------------- MODULE KeyRanges -----------------------------
(***************************************************************************)
(* SnapshotLoader::KeyRanges: which parts of a database a node that loads  *)
(* a snapshot has received so far, as a sorted vector of half-open key     *)
(* ranges that do not overlap.                                             *)
(*                                                                         *)
(* A key is a byte vector in the code and a natural number here.  The      *)
(* empty vector is number 0: as a lower bound it is the least key, as an   *)
(* upper bound it means "to the end of the database".                      *)
(***************************************************************************)
EXTENDS Naturals, Sequences, SequencesExt

\* The empty key.
Empty == 0

\* std::ranges::lower_bound on the field low.
LowerBound(ranges, low) ==
  CHOOSE p \in 1..(Len(ranges) + 1) :
    /\ \A i \in 1..(p - 1) : ranges[i].low < low
    /\ p <= Len(ranges) => ranges[p].low >= low

(***************************************************************************)
(* KeyRanges::add.  The result has the function's return value and the     *)
(* vector it leaves behind.  When the new range touches both neighbours    *)
(* the code first gives the left one the upper bound of the right one,     *)
(* erases the right one, and then falls through to "merge left", which     *)
(* sets the upper bound to that of the new range.                          *)
(***************************************************************************)
AddRange(ranges, low, high) ==
  LET pos == LowerBound(ranges, low)
      hasLeft == pos > 1
      hasRight == pos <= Len(ranges)
      overlapsLeft == hasLeft /\ (ranges[pos - 1].high = Empty \/ low < ranges[pos - 1].high)
      overlapsRight == hasRight /\ (high = Empty \/ high > ranges[pos].low)
      touchesLeft == hasLeft /\ ranges[pos - 1].high = low
      touchesRight == hasRight /\ ranges[pos].low = high
      mergedLeft == [ranges EXCEPT ![pos - 1].high = high]
  IN  IF overlapsLeft \/ overlapsRight
        THEN [ok |-> FALSE, ranges |-> ranges]
      ELSE IF touchesLeft
        THEN [ok |-> TRUE,
              ranges |-> IF touchesRight THEN RemoveAt(mergedLeft, pos) ELSE mergedLeft]
      ELSE IF touchesRight
        THEN [ok |-> TRUE, ranges |-> [ranges EXCEPT ![pos].low = low]]
      ELSE [ok |-> TRUE, ranges |-> InsertAt(ranges, pos, [low |-> low, high |-> high])]

\* KeyRanges::complete.
Complete(ranges) ==
  /\ Len(ranges) = 1
  /\ ranges[1].low = Empty
  /\ ranges[1].high = Empty
=============================================================================
