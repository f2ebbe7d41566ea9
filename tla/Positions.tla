----------------------------- MODULE Positions -----------------------------
(***************************************************************************)
(* The part of a sequence that a loop over it collects.  SelectSeq says    *)
(* the same by recursion, of which nothing can be proved here.             *)
(***************************************************************************)
EXTENDS Integers, Sequences, FiniteSets

\* The elements of a sequence at a set of positions, in their order.
AtPositions(seq, at) ==
    [n \in 1 .. Cardinality(at) |-> seq[CHOOSE i \in at : Cardinality({j \in at : j < i}) = n - 1]]
=============================================================================
