------------------------------ MODULE Positions ------------------------------
(***************************************************************************)
(* What a loop makes of a sequence when it appends some of the elements    *)
(* to its result and skips the others.                                     *)
(***************************************************************************)
EXTENDS Naturals, SequencesExt

\* The elements of values at these positions, in order.
Pick(values, keep) ==
    [j \in 1 .. Cardinality(keep) |->
        values[CHOOSE i \in keep : Cardinality({k \in keep : k <= i}) = j]]
=============================================================================
