-------------------------- MODULE MCPrefetchFiles --------------------------
(***************************************************************************)
(* The prefetching with its cache (PrefetchCache), and what stores the     *)
(* files of the cache (PickleStorage), for TLC, in one run.  As they share *)
(* no variable, nothing is lost when in each behaviour only one of them    *)
(* leaves its initial state.                                               *)
(***************************************************************************)
EXTENDS MCPrefetchCache, PickleStorage

MCInit == CacheInit /\ PickleInit

MCNext ==
  \/ PickleInit /\ CacheNext /\ UNCHANGED pickleVars
  \/ CacheInit /\ PickleNext /\ UNCHANGED vars

MCSpec == MCInit /\ [][MCNext]_<<vars, pickleVars>>
=============================================================================
