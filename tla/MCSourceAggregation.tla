------------------------- MODULE MCSourceAggregation -------------------------
(* SourceAggregation for model checking: interchangeable groups. *)
EXTENDS SourceAggregation, TLC

Symmetry == Permutations(Group)
=============================================================================
