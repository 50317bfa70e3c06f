---------------------------- MODULE MCPrefetching ----------------------------
(***************************************************************************)
(* What the prefetching of the Auth API rests on, for TLC: the             *)
(* interprocess synchronizer (PrefetchSync) and the threaded asynchronous  *)
(* task (ThreadedAsync).  They share no variable, and no property is about *)
(* variables of both; so in each behaviour only one of them leaves its     *)
(* initial state.  Processes and readers are told apart for the sake of    *)
(* the liveness properties.                                                *)
(***************************************************************************)
EXTENDS PrefetchSync, ThreadedAsync

CONSTANTS p1, p2, r1, r2

TwoProcesses == {p1, p2}
TwoReaders == {r1, r2}

allVars == <<syncVars, vars>>

SyncRuns(A) == AsyncInit /\ A /\ UNCHANGED vars
TaskRunsAlone(A) == Init /\ A /\ UNCHANGED syncVars

MCInit == Init /\ AsyncInit

(* The process of the task has exited; whatever else stops is a deadlock. *)
Exited == main = "exited" /\ UNCHANGED allVars

MCNext == SyncRuns(Next) \/ TaskRunsAlone(AsyncNext) \/ Exited

(* Fairness, and AsyncFairness. *)
MCFairness ==
  /\ \A p \in Proc :
       /\ WF_allVars(SyncRuns(Proceed(p)))
       /\ SF_allVars(SyncRuns(EnterAcquireGetjob(p) \/ AskAcquireGetjob(p)
                               \/ LateAcquireOutcome(p)))
       /\ WF_allVars(SyncRuns(FinishJob(p) \/ StartLeaving(p)))
       /\ WF_allVars(SyncRuns(Die(p)))
  /\ WF_allVars(TaskRunsAlone(TaskRuns))
  /\ WF_allVars(TaskRunsAlone(AsyncStart)) /\ WF_allVars(TaskRunsAlone(SetTrigger))
  /\ WF_allVars(TaskRunsAlone(Join))
  /\ \A r \in Reader : WF_allVars(TaskRunsAlone(ReaderRuns(r)))

MCSpec == MCInit /\ [][MCNext]_allVars /\ MCFairness
==============================================================================
