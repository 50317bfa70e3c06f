---------------------------- MODULE ThreadedAsync ----------------------------
(***************************************************************************)
(* Threaded asynchronous tasks (N6Lib/n6lib/threaded_async.py: Future,     *)
(* Task, LoopedTask) as AuthAPIWithPrefetching uses them                   *)
(* (N6Lib/n6lib/auth_api.py): a thread that loads the Auth DB's data again *)
(* and again, threads that want these data, and the main thread, which     *)
(* starts the task and at exit cancels it.                                 *)
(*                                                                         *)
(* Every method of a Future holds the lock of the condition variable from  *)
(* its beginning to its end, so each is one step; only result() gives the  *)
(* lock up, to wait.  What the prefetching does in a call is in            *)
(* PrefetchCache.                                                          *)
(***************************************************************************)
EXTENDS Naturals

CONSTANTS
  Reader,    (* The threads that make use of the future.                    *)
  MaxVersion (* The newest version of the data.                             *)

ASSUME AsyncAssumption == MaxVersion \in Nat

VARIABLES
  done, res, excInfo, (* The future: _done; _res, as the version of the data,
                         or 0 for none; _exc_info: "none", "error" or
                         "cancelled"...                                     *)
  cancelEvent,        (* ...and _cancel_event.                              *)
  trigger,            (* The initial trigger event of the task.             *)
  main,               (* Where the main thread is.                          *)
  task,               (* Where the thread of the task is.                   *)
  last,               (* last_root_node: its version, or 0 for LackOf.      *)
  at, what,           (* at[r]: what reader r is doing; what[r]: the state of
                         the future that it is looking for.                 *)
  told,               (* told[r]: what result() gave it last.  A history
                         variable, and so are the next ones.                *)
  lateCalls,          (* The number of calls of the target and the hook that
                         began after the cancellation.                      *)
  triggerTimeout      (* Whether the wait for the trigger has timed out.     *)

future == <<done, res, excInfo, cancelEvent>>
readers == <<at, what, told>>
history == <<lateCalls, triggerTimeout>>
vars == <<future, trigger, main, task, last, readers, history>>

Version == 1 .. MaxVersion
LackOf == 0


AsyncInit ==
  /\ done = FALSE /\ res = 0 /\ excInfo = "none" /\ cancelEvent = FALSE
  /\ trigger = FALSE /\ main = "new" /\ task = "new" /\ last = LackOf
  /\ at = [r \in Reader |-> "away"]
  /\ what = [r \in Reader |-> "none"]
  /\ told = [r \in Reader |-> [state |-> "unfinished", value |-> 0]]
  /\ lateCalls = 0 /\ triggerTimeout = FALSE

-----------------------------------------------------------------------------
(* The future. *)

StateLabel ==
  IF ~done THEN "unfinished"
  ELSE IF cancelEvent THEN "cancelled"
  ELSE IF excInfo = "none" THEN "successful" ELSE "failed"

PeekResult(default) == IF done /\ excInfo = "none" THEN res ELSE default

(* Without notify_all(). *)
NotifyNobody == UNCHANGED at

NotifyAll ==
  at' = [r \in Reader |-> IF at[r] = "waiting" THEN "asking" ELSE at[r]]

(* __set() that does not care whether the future has been cancelled. *)
SetAlways(value, exception) ==
  /\ done' = TRUE /\ res' = value /\ excInfo' = exception
  /\ NotifyAll

(* __set(). *)
Set(value, exception) ==
  \/ cancelEvent /\ UNCHANGED <<done, res, excInfo, at>>
  \/ /\ ~cancelEvent
     /\ done' = TRUE /\ res' = value /\ excInfo' = exception
     /\ NotifyAll

-----------------------------------------------------------------------------
(* The thread of the task: run(). *)

TaskGoesTo(place) == task' = place /\ UNCHANGED <<trigger, main, what, told>>

TriggerComes ==
  /\ task = "trigger" /\ trigger
  /\ TaskGoesTo("check")
  /\ UNCHANGED <<future, at, last, history>>

(* RuntimeError: the future does not get to know of it. *)
TriggerTimesOut ==
  /\ task = "trigger" /\ ~trigger
  /\ TaskGoesTo("ended")
  /\ triggerTimeout' = TRUE
  /\ UNCHANGED <<future, at, last, lateCalls>>

(* _run_func(): the test, the call, the setting of what it gave. *)
CheckBeforeCall ==
  /\ task = "check"
  /\ TaskGoesTo(IF cancelEvent THEN "test" ELSE "call")
  /\ UNCHANGED <<future, at, last, history>>

CountCall ==
  /\ lateCalls' = IF cancelEvent THEN lateCalls + 1 ELSE lateCalls
  /\ UNCHANGED triggerTimeout

CallTarget ==
  /\ task = "call"
  /\ TaskGoesTo("target")
  /\ CountCall
  /\ UNCHANGED <<future, at, last>>

(* task_target_func() returns fresh data, or the last ones, which after an
   error must be new enough... *)
TargetReturns(v) ==
  /\ task = "target"
  /\ last <= v
  /\ Set(v, "none")
  /\ TaskGoesTo("test")
  /\ UNCHANGED <<cancelEvent, last, history>>

(* ...or raises SystemExit.  The loop ends with any exception. *)
TargetRaises ==
  /\ task = "target"
  /\ Set(0, "error")
  /\ TaskGoesTo("ended")
  /\ UNCHANGED <<cancelEvent, last, history>>

AfterTest == IF cancelEvent THEN "ended" ELSE "hook"

TestAfterCall ==
  /\ task = "test"
  /\ TaskGoesTo(AfterTest)
  /\ UNCHANGED <<future, at, last, history>>

CallHook ==
  /\ task = "hook"
  /\ TaskGoesTo("peek")
  /\ CountCall
  /\ UNCHANGED <<future, at, last>>

(* loop_iteration_hook(): peek_result(), then sleep_until_cancelled(). *)
PeekLast ==
  /\ task = "peek"
  /\ last' = PeekResult(LackOf)
  /\ TaskGoesTo("sleep")
  /\ UNCHANGED <<future, at, history>>

WakeUp ==
  /\ task = "sleep"
  /\ TaskGoesTo("check")
  /\ UNCHANGED <<future, at, last, history>>

TaskRuns ==
  \/ TriggerComes \/ TriggerTimesOut \/ CheckBeforeCall \/ CallTarget
  \/ (\E v \in Version : TargetReturns(v)) \/ TargetRaises
  \/ TestAfterCall \/ CallHook \/ PeekLast \/ WakeUp

-----------------------------------------------------------------------------
(* The main thread: AuthAPIWithPrefetching.__init__(), and at exit the
   callback that async_start() has registered. *)

AsyncStart ==
  /\ main = "new"
  /\ main' = "started" /\ task' = "trigger"
  /\ UNCHANGED <<future, trigger, last, readers, history>>

SetTrigger ==
  /\ main = "started"
  /\ main' = "ready" /\ trigger' = TRUE
  /\ UNCHANGED <<future, task, last, readers, history>>

(* The process exits, or __init__() is broken off by an exception. *)
CancelAtExit ==
  /\ main \in {"started", "ready"}
  /\ main' = "joining"
  /\ Set(0, "cancelled")
  /\ cancelEvent' = TRUE
  /\ UNCHANGED <<trigger, task, last, what, told, history>>

Join ==
  /\ main = "joining" /\ task = "ended"
  /\ main' = "exited"
  /\ UNCHANGED <<future, trigger, task, last, readers, history>>

-----------------------------------------------------------------------------
(* The readers, once they have got the object. *)

ReaderGoesTo(r, place, aim) ==
  /\ at' = [at EXCEPT ![r] = place]
  /\ what' = [what EXCEPT ![r] = aim]
  /\ UNCHANGED <<future, trigger, main, task, last, history>>

CallResult(r) ==
  /\ at[r] = "away" /\ trigger
  /\ ReaderGoesTo(r, "asking", "none")
  /\ UNCHANGED told

(* result(): the while loop, with the lock (re)acquired... *)
Wait(r) ==
  /\ at[r] = "asking" /\ ~done
  /\ ReaderGoesTo(r, "waiting", "none")
  /\ UNCHANGED told

(* ...and what comes after it. *)
Given ==
  IF excInfo = "none" THEN [state |-> "successful", value |-> res]
  ELSE IF excInfo = "error" THEN [state |-> "failed", value |-> 0]
  ELSE [state |-> "cancelled", value |-> 0]

Answer(r) ==
  /\ at[r] = "asking" /\ done
  /\ ReaderGoesTo(r, "away", "none")
  /\ told' = [told EXCEPT ![r] = Given]

(* The second test with its parts swapped. *)
PartSwapped(state, n) ==
  \/ state = "successful" /\ n = 1 /\ done
  \/ state = "successful" /\ n = 2 /\ excInfo = "none"
  \/ state = "failed" /\ n = 1 /\ ~cancelEvent
  \/ state = "failed" /\ n = 2 /\ excInfo # "none"

(* "...you can confirm a future `f` is in this state by testing the
   condition": `f.done() and not f.peek_exc_info()`, or
   `f.peek_exc_info() and not f.cancelled()`; two calls, one after the other. *)
Part(state, n) ==
  \/ state = "successful" /\ n = 1 /\ done
  \/ state = "successful" /\ n = 2 /\ excInfo = "none"
  \/ state = "failed" /\ n = 1 /\ excInfo # "none"
  \/ state = "failed" /\ n = 2 /\ ~cancelEvent

StartTest(r, state) ==
  /\ at[r] = "away" /\ trigger
  /\ Part(state, 1)
  /\ ReaderGoesTo(r, "testing", state)
  /\ UNCHANGED told

FinishTest(r) ==
  /\ at[r] = "testing"
  /\ IF Part(what[r], 2) THEN ReaderGoesTo(r, "confirmed", what[r])
                          ELSE ReaderGoesTo(r, "away", "none")
  /\ UNCHANGED told

GoAway(r) ==
  /\ at[r] = "confirmed"
  /\ ReaderGoesTo(r, "away", "none")
  /\ UNCHANGED told

ReaderRuns(r) == Wait(r) \/ Answer(r) \/ FinishTest(r) \/ GoAway(r)

ReaderBegins(r) ==
  CallResult(r) \/ \E state \in {"successful", "failed"} : StartTest(r, state)

AsyncNext ==
  \/ TaskRuns
  \/ AsyncStart \/ SetTrigger \/ CancelAtExit \/ Join
  \/ \E r \in Reader : ReaderRuns(r) \/ ReaderBegins(r)

AsyncSpec == AsyncInit /\ [][AsyncNext]_vars

(***************************************************************************)
(* Threads go on executing their code, the calls of the target end, and so *)
(* does the sleep of the hook.  Nothing makes anyone begin to read, or the *)
(* process exit, or the wait for the trigger time out while it may still   *)
(* be set.                                                                 *)
(***************************************************************************)
AsyncFairness ==
  /\ WF_vars(TaskRuns)
  /\ WF_vars(AsyncStart) /\ WF_vars(SetTrigger) /\ WF_vars(Join)
  /\ \A r \in Reader : WF_vars(ReaderRuns(r))

FairAsyncSpec == AsyncSpec /\ AsyncFairness

-----------------------------------------------------------------------------
Promise == INSTANCE Promise WITH
  outcome <- [state |-> StateLabel,
              value |-> IF StateLabel = "successful" THEN res ELSE 0],
  asking <- {r \in Reader : at[r] \in {"asking", "waiting"}}

(* result() gives what the future has at some moment of the call: neither
   nothing, nor data older than those given before, nor anything but
   FutureCancelled after the cancellation; and it returns once there is
   something to give: no wake-up is lost. *)
ImplementsPromise == Promise!FairSpec

(* "...note that this order of the component expressions makes the test
   resistant to race-conditions": between the two calls of a test the target
   may end, again or with an error, and the future may be cancelled; still the
   future is in the state that the test confirms. *)
ConfirmedIsTrue ==
  [][\A r \in Reader :
       at[r] = "testing" /\ at'[r] = "confirmed" => StateLabel' = what'[r]]_vars

(* "...once the state of the future is set to *cancelled*, neither the task's
   target function nor the `loop_iteration_hook` will be invoked anymore": but
   for one of them, if the test that precedes it has just been passed. *)
AtMostOneLateCall == lateCalls <= 1

(* What the future says of its state can be relied on: by who tests it, and by
   who cancels it. *)
StateIsReliable == []AtMostOneLateCall /\ ConfirmedIsTrue

(* Who calls result() gets something, and a process that exits gets rid of
   the task; except that a task whose trigger came too late leaves those who
   call result() waiting until the process exits. *)
NobodyHangs ==
  /\ \A r \in Reader :
       at[r] \in {"asking", "waiting"} ~> at[r] = "away" \/ triggerTimeout
  /\ main = "joining" ~> main = "exited"

=============================================================================
