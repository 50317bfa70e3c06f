--------------------------- MODULE MCPrefetchCache ---------------------------
(* PrefetchCache for model checking: interchangeable processes. *)
EXTENDS PrefetchCache, TLC

Symmetry == Permutations(Proc)
=============================================================================
