----------------------------- MODULE PrefetchJob -----------------------------
(***************************************************************************)
(* What the interprocess synchronizer of Auth API prefetching promises to  *)
(* the code inside its `with` block: any number of processes may be using  *)
(* the shared cache files at a time, or one process may be doing the job   *)
(* of replacing them -- alone.                                             *)
(***************************************************************************)

CONSTANT Proc   (* The processes that share the cache directory. *)

VARIABLE phase  (* phase[p]: "out" of the block, "in" it, or doing the "job". *)

Init == phase = [p \in Proc |-> "out"]

Enter(p) ==
  /\ phase[p] = "out"
  /\ \A q \in Proc : phase[q] # "job"
  /\ phase' = [phase EXCEPT ![p] = "in"]

BeginJob(p) ==
  /\ phase[p] = "in"
  /\ \A q \in Proc \ {p} : phase[q] = "out"
  /\ phase' = [phase EXCEPT ![p] = "job"]

EndJob(p) ==
  /\ phase[p] = "job"
  /\ phase' = [phase EXCEPT ![p] = "in"]

(* At the end, or by a failure at any moment. *)
Leave(p) ==
  /\ phase[p] # "out"
  /\ phase' = [phase EXCEPT ![p] = "out"]

Next == \E p \in Proc : Enter(p) \/ BeginJob(p) \/ EndJob(p) \/ Leave(p)

Spec == Init /\ [][Next]_phase

=============================================================================
