----------------------------- MODULE MCStateFiles -----------------------------
(***************************************************************************)
(* What keeps its state in files or documents from one run to the next:    *)
(* the aggregator (SourceAggregation, AggregatorStorage), the collectors   *)
(* of time-ordered rows (RowsCollector) and the archiver (RawArchive), for *)
(* TLC, in one run.  As they share no variable, and no property is about   *)
(* variables of two of them, nothing is lost when in each behaviour only   *)
(* one leaves its initial state.                                           *)
(***************************************************************************)
EXTENDS SourceAggregation, AggregatorStorage, RowsCollector, RawArchive, TLC

CONSTANTS a, b, c, v, w

Sizes == <<1, 2, 1, 2>>

(* Two of the three rows have the same time. *)
ThreeRows == {a, b, c}
ThreeTimes == (a :> 1) @@ (b :> 2) @@ (c :> 2)

Symmetry ==
  {d @@ e @@ f @@ k : d \in Permutations(Group), e \in Permutations(Run),
                      f \in Permutations({b, c}), k \in Permutations({v, w})}

MCInit == AggregationInit /\ StorageInit /\ RowsInit /\ ArchiveInit

(* For the others it does not matter which tolerance or type has been chosen. *)
AnyTolerance == tolerance = CHOOSE t \in Tolerances : TRUE
AnyType == rawType = "blacklist"

MCNext ==
  \/ /\ AnyType /\ ArchiveInit /\ StorageInit /\ RowsInit /\ AggregationNext
     /\ UNCHANGED <<archiveVars, storageVars, vars>>
  \/ /\ AnyType /\ ArchiveInit /\ AnyTolerance /\ AggregationInit /\ RowsInit /\ StorageNext
     /\ UNCHANGED <<archiveVars, aggregationVars, vars>>
  \/ /\ AnyType /\ ArchiveInit /\ AnyTolerance /\ AggregationInit /\ StorageInit /\ RowsNext
     /\ UNCHANGED <<archiveVars, aggregationVars, storageVars>>
  \/ /\ AnyTolerance /\ AggregationInit /\ StorageInit /\ RowsInit /\ ArchiveNext
     /\ UNCHANGED <<aggregationVars, storageVars, vars>>

MCSpec == MCInit /\ [][MCNext]_<<aggregationVars, storageVars, vars, archiveVars>>
===============================================================================
