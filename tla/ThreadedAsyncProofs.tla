------------------------- MODULE ThreadedAsyncProofs -------------------------
(***************************************************************************)
(* Proofs about ThreadedAsync, for any readers and any number of versions. *)
(* The inductive invariant says what the future looks like in each of its  *)
(* states, and what each point of the task's loop implies for it.          *)
(***************************************************************************)
EXTENDS ThreadedAsync, TLAPS

AsyncTypes ==
  /\ done \in BOOLEAN /\ cancelEvent \in BOOLEAN
  /\ res \in Nat /\ last \in Nat
  /\ excInfo \in {"none", "error", "cancelled"}
  /\ at \in [Reader -> {"away", "asking", "waiting", "testing", "confirmed"}]
  /\ what \in [Reader -> {"none", "successful", "failed"}]
  /\ DOMAIN told = Reader
  /\ lateCalls \in Nat

(* The states of the future. *)
FutureIsWhole ==
  /\ ~done => res = 0 /\ excInfo = "none"
  /\ cancelEvent <=> excInfo = "cancelled"
  /\ excInfo # "none" => res = 0
  /\ done /\ excInfo = "none" => res \in Version

(* The task has not begun before it is started, and ends with an error; and
   when it calls the target, the last root node is the present result. *)
TaskKnowsFuture ==
  /\ main = "new" => task = "new"
  /\ excInfo = "error" => task = "ended"
  /\ ~cancelEvent /\ task \notin {"test", "hook", "peek", "ended"} => last = res

(* Whoever waits in result() waits with a reason. *)
WaitersHaveReason == \A r \in Reader : at[r] = "waiting" => ~done

(* The first part of a test remains true. *)
TestsHoldOn ==
  \A r \in Reader : at[r] = "testing" =>
    \/ what[r] = "successful" /\ done
    \/ what[r] = "failed" /\ excInfo # "none"

(* A call that follows the cancellation has been due before it. *)
LateCallsAreDue ==
  /\ ~cancelEvent => lateCalls = 0
  /\ task \in {"call", "hook"} => lateCalls = 0
  /\ lateCalls <= 1

AsyncInvariant ==
  /\ AsyncTypes /\ FutureIsWhole /\ TaskKnowsFuture
  /\ WaitersHaveReason /\ TestsHoldOn /\ LateCallsAreDue

-----------------------------------------------------------------------------
LEMMA AsyncInitially == AsyncInit => AsyncInvariant
<1> SUFFICES ASSUME AsyncInit  PROVE AsyncInvariant
  OBVIOUS
<1>1. AsyncTypes
  BY DEF AsyncInit, AsyncTypes, LackOf
<1>2. FutureIsWhole /\ TaskKnowsFuture /\ LateCallsAreDue
  BY DEF AsyncInit, FutureIsWhole, TaskKnowsFuture, LateCallsAreDue, LackOf
<1>3. WaitersHaveReason /\ TestsHoldOn
  BY DEF AsyncInit, WaitersHaveReason, TestsHoldOn
<1> QED
  BY <1>1, <1>2, <1>3 DEF AsyncInvariant

(* The steps of the task that leave the future and the readers alone. *)
TaskMoves ==
  \/ TriggerComes \/ TriggerTimesOut \/ CheckBeforeCall \/ CallTarget
  \/ TestAfterCall \/ CallHook \/ PeekLast \/ WakeUp

LEMMA TaskMovesKeepInvariant ==
  ASSUME AsyncInvariant, TaskMoves
  PROVE  AsyncInvariant'
<1>1. UNCHANGED <<done, res, excInfo, cancelEvent, at, what, told, main>>
  BY DEF TaskMoves, TriggerComes, TriggerTimesOut, CheckBeforeCall, CallTarget,
     TestAfterCall, CallHook, PeekLast, WakeUp, TaskGoesTo, future
<1>2. last' \in Nat /\ lateCalls' \in Nat
  BY DEF TaskMoves, TriggerComes, TriggerTimesOut, CheckBeforeCall, CallTarget,
     TestAfterCall, CallHook, PeekLast, WakeUp, CountCall, history, PeekResult,
     LackOf, AsyncInvariant, AsyncTypes
<1>3. TaskKnowsFuture'
  BY <1>1 DEF TaskMoves, TriggerComes, TriggerTimesOut, CheckBeforeCall, CallTarget,
     TestAfterCall, AfterTest, CallHook, PeekLast, WakeUp, TaskGoesTo, PeekResult,
     LackOf, AsyncInvariant, AsyncTypes, FutureIsWhole, TaskKnowsFuture
<1>4. LateCallsAreDue'
  BY <1>1 DEF TaskMoves, TriggerComes, TriggerTimesOut, CheckBeforeCall, CallTarget,
     TestAfterCall, AfterTest, CallHook, PeekLast, WakeUp, TaskGoesTo, CountCall,
     history, AsyncInvariant, AsyncTypes, LateCallsAreDue
<1> QED
  BY <1>1, <1>2, <1>3, <1>4 DEF AsyncInvariant, AsyncTypes, FutureIsWhole,
     WaitersHaveReason, TestsHoldOn

(* __set(), unless the future has been cancelled. *)
LEMMA SetNotifies ==
  ASSUME AsyncTypes, NEW value, NEW exception, ~cancelEvent, Set(value, exception)
  PROVE  /\ done' = TRUE /\ res' = value /\ excInfo' = exception
         /\ at' \in [Reader -> {"away", "asking", "waiting", "testing", "confirmed"}]
         /\ \A r \in Reader :
              /\ at'[r] # "waiting"
              /\ at[r] \notin {"asking", "waiting"} => at'[r] = at[r]
              /\ at[r] \in {"asking", "waiting"} => at'[r] = "asking"
BY DEF AsyncTypes, Set, NotifyAll

LEMMA TargetEndsKeepsInvariant ==
  ASSUME AsyncInvariant, TargetRaises \/ \E v \in Version : TargetReturns(v)
  PROVE  AsyncInvariant'
<1>1. /\ task = "target" /\ task' \in {"test", "ended"}
      /\ UNCHANGED <<cancelEvent, last, what, told, lateCalls, main>>
  BY DEF TargetRaises, TargetReturns, TaskGoesTo, history
<1>2. CASE cancelEvent
  <2>1. UNCHANGED <<done, res, excInfo, at>>
    BY <1>2 DEF TargetRaises, TargetReturns, Set
  <2> QED
    BY <1>1, <1>2, <2>1 DEF AsyncInvariant, AsyncTypes, FutureIsWhole, TaskKnowsFuture,
       WaitersHaveReason, TestsHoldOn, LateCallsAreDue
<1>3. CASE ~cancelEvent
  <2>1. excInfo = "none"
    BY <1>1, <1>3 DEF AsyncInvariant, AsyncTypes, FutureIsWhole, TaskKnowsFuture
  <2>2. PICK value, exception :
          /\ Set(value, exception)
          /\ \/ value \in Version /\ exception = "none" /\ task' = "test"
             \/ value = 0 /\ exception = "error" /\ task' = "ended"
    BY DEF TargetRaises, TargetReturns, TaskGoesTo
  <2>3. /\ done' = TRUE /\ res' = value /\ excInfo' = exception
        /\ at' \in [Reader -> {"away", "asking", "waiting", "testing", "confirmed"}]
        /\ \A r \in Reader :
             /\ at'[r] # "waiting"
             /\ at'[r] = "testing" => at[r] = "testing"
    BY <1>3, <2>2, SetNotifies DEF AsyncInvariant
  <2>4. AsyncTypes' /\ FutureIsWhole'
    BY <1>1, <1>3, <2>2, <2>3, AsyncAssumption
    DEF AsyncInvariant, AsyncTypes, FutureIsWhole, Version
  <2> QED
    BY <1>1, <1>3, <2>1, <2>2, <2>3, <2>4 DEF AsyncInvariant, TaskKnowsFuture,
       WaitersHaveReason, TestsHoldOn, LateCallsAreDue
<1> QED
  BY <1>2, <1>3

LEMMA CancelKeepsInvariant ==
  ASSUME AsyncInvariant, CancelAtExit
  PROVE  AsyncInvariant'
<1>1. /\ UNCHANGED <<task, last, what, told, lateCalls>>
      /\ cancelEvent' = TRUE /\ main' = "joining"
  BY DEF CancelAtExit, history
<1>2. CASE cancelEvent
  <2>1. UNCHANGED <<done, res, excInfo, at>>
    BY <1>2 DEF CancelAtExit, Set
  <2> QED
    BY <1>1, <1>2, <2>1 DEF AsyncInvariant, AsyncTypes, FutureIsWhole, TaskKnowsFuture,
       WaitersHaveReason, TestsHoldOn, LateCallsAreDue
<1>3. CASE ~cancelEvent
  <2>1. /\ done' = TRUE /\ res' = 0 /\ excInfo' = "cancelled"
        /\ at' \in [Reader -> {"away", "asking", "waiting", "testing", "confirmed"}]
        /\ \A r \in Reader :
             /\ at'[r] # "waiting"
             /\ at'[r] = "testing" => at[r] = "testing"
    BY <1>3, SetNotifies DEF AsyncInvariant, CancelAtExit
  <2> QED
    BY <1>1, <1>3, <2>1 DEF AsyncInvariant, AsyncTypes, FutureIsWhole, TaskKnowsFuture,
       WaitersHaveReason, TestsHoldOn, LateCallsAreDue
<1> QED
  BY <1>2, <1>3

LEMMA ReaderKeepsInvariant ==
  ASSUME AsyncInvariant, NEW r \in Reader, ReaderRuns(r) \/ ReaderBegins(r)
  PROVE  AsyncInvariant'
<1>1. UNCHANGED <<done, res, excInfo, cancelEvent, main, task, last, lateCalls>>
  BY DEF ReaderRuns, ReaderBegins, Wait, Answer, FinishTest, GoAway, CallResult,
     StartTest, ReaderGoesTo, future, history
<1>2. AsyncTypes'
  BY <1>1 DEF ReaderRuns, ReaderBegins, Wait, Answer, FinishTest, GoAway, CallResult,
     StartTest, ReaderGoesTo, AsyncInvariant, AsyncTypes
<1>3. WaitersHaveReason'
  BY <1>1 DEF ReaderRuns, ReaderBegins, Wait, Answer, FinishTest, GoAway, CallResult,
     StartTest, ReaderGoesTo, AsyncInvariant, AsyncTypes, WaitersHaveReason
<1>4. TestsHoldOn'
  <2>1. CASE \E state \in {"successful", "failed"} : StartTest(r, state)
    BY <1>1, <2>1 DEF StartTest, ReaderGoesTo, Part, AsyncInvariant, AsyncTypes,
       TestsHoldOn
  <2>2. CASE ReaderRuns(r) \/ CallResult(r)
    <3>1. \A s \in Reader : at'[s] = "testing" => at[s] = "testing" /\ what'[s] = what[s]
      BY <2>2 DEF ReaderRuns, Wait, Answer, FinishTest, GoAway, CallResult, ReaderGoesTo,
         AsyncInvariant, AsyncTypes
    <3> QED
      BY <1>1, <3>1 DEF AsyncInvariant, TestsHoldOn
  <2> QED
    BY <2>1, <2>2 DEF ReaderBegins
<1> QED
  BY <1>1, <1>2, <1>3, <1>4 DEF AsyncInvariant, FutureIsWhole, TaskKnowsFuture, LateCallsAreDue

LEMMA AsyncInvariantIsKept == AsyncInvariant /\ [AsyncNext]_vars => AsyncInvariant'
<1> SUFFICES ASSUME AsyncInvariant, [AsyncNext]_vars  PROVE AsyncInvariant'
  OBVIOUS
<1>1. CASE TaskRuns
  BY <1>1, TaskMovesKeepInvariant, TargetEndsKeepsInvariant DEF TaskRuns, TaskMoves
<1>2. CASE AsyncStart \/ SetTrigger \/ Join \/ UNCHANGED vars
  BY <1>2 DEF AsyncStart, SetTrigger, Join, vars, future, readers, history,
     AsyncInvariant, AsyncTypes, FutureIsWhole, TaskKnowsFuture, WaitersHaveReason,
     TestsHoldOn, LateCallsAreDue
<1>3. CASE CancelAtExit
  BY <1>3, CancelKeepsInvariant
<1>4. CASE \E r \in Reader : ReaderRuns(r) \/ ReaderBegins(r)
  BY <1>4, ReaderKeepsInvariant
<1> QED
  BY <1>1, <1>2, <1>3, <1>4 DEF AsyncNext

LEMMA AsyncInvariantHolds == AsyncSpec => []AsyncInvariant
BY AsyncInitially, AsyncInvariantIsKept, PTL DEF AsyncSpec

(* At most one call of the target or the hook begins after the cancellation,
   whatever the readers do and however many versions there are. *)
THEOREM OneLateCallAtMost == AsyncSpec => []AtMostOneLateCall
<1>1. AsyncInvariant => AtMostOneLateCall
  BY DEF AsyncInvariant, LateCallsAreDue, AtMostOneLateCall
<1> QED
  BY <1>1, AsyncInvariantHolds, PTL

(* No wake-up is lost: nobody waits in result() for what is already there. *)
THEOREM NoWakeUpIsLost == AsyncSpec => []WaitersHaveReason
BY AsyncInvariantHolds, PTL DEF AsyncInvariant

(* The tests that the documentation recommends confirm what is the case. *)
THEOREM TestsAreTrue == AsyncSpec => ConfirmedIsTrue
<1> DEFINE Confirms(r) == at[r] = "testing" /\ at'[r] = "confirmed"
<1>1. AsyncInvariant /\ [AsyncNext]_vars =>
        [\A r \in Reader : Confirms(r) => StateLabel' = what'[r]]_vars
  <2> SUFFICES ASSUME AsyncInvariant, AsyncNext, NEW r \in Reader, Confirms(r)
               PROVE  StateLabel' = what'[r]
    OBVIOUS
  <2>1. ~CancelAtExit /\ ~TaskRuns /\ ~AsyncStart /\ ~SetTrigger /\ ~Join
    BY SetNotifies DEF CancelAtExit, TaskRuns, TriggerComes, TriggerTimesOut,
       CheckBeforeCall, CallTarget, TargetReturns, TargetRaises, TestAfterCall, CallHook,
       PeekLast, WakeUp, AsyncStart, SetTrigger, Join, Set, NotifyAll, readers,
       AsyncInvariant, AsyncTypes
  <2>2. PICK s \in Reader : ReaderRuns(s) \/ ReaderBegins(s)
    BY <2>1 DEF AsyncNext
  <2>3. FinishTest(r)
    BY <2>2 DEF ReaderRuns, ReaderBegins, Wait, Answer, FinishTest, GoAway, CallResult,
       StartTest, ReaderGoesTo, AsyncInvariant, AsyncTypes
  <2>4. UNCHANGED <<done, excInfo, cancelEvent>>
    BY <2>3 DEF FinishTest, ReaderGoesTo, future
  <2>5. Part(what[r], 2) /\ what'[r] = what[r]
    BY <2>3 DEF FinishTest, ReaderGoesTo, AsyncInvariant, AsyncTypes
  <2>6. \/ what[r] = "successful" /\ done /\ excInfo = "none"
        \/ what[r] = "failed" /\ excInfo # "none" /\ ~cancelEvent
    BY <2>5 DEF Part, AsyncInvariant, TestsHoldOn
  <2> QED
    BY <2>4, <2>5, <2>6 DEF StateLabel, AsyncInvariant, AsyncTypes, FutureIsWhole
<1> QED
  BY <1>1, AsyncInvariantHolds, PTL DEF AsyncSpec, ConfirmedIsTrue

(* Both together: whoever tests the future, or cancels it, gets what the
   documentation promises. *)
THEOREM StateReliable == AsyncSpec => StateIsReliable
BY OneLateCallAtMost, TestsAreTrue, PTL DEF StateIsReliable

-----------------------------------------------------------------------------
(* ThreadedAsync implements Promise: each step is a step of Promise, or
   changes nothing that Promise tells of. *)

Asking == {r \in Reader : at[r] \in {"asking", "waiting"}}
Outcome == [state |-> StateLabel, value |-> IF StateLabel = "successful" THEN res ELSE 0]

LEMMA SetLeavesCallersAsking ==
  ASSUME AsyncTypes, NEW value, NEW exception, Set(value, exception)
  PROVE  Asking' = Asking
BY SetNotifies DEF Asking, Set

(* What result() returns or raises is the state of the future. *)
LEMMA GivenIsOutcome ==
  ASSUME AsyncTypes, FutureIsWhole, done
  PROVE  Given = Outcome /\ Outcome # Promise!Unfinished
BY DEF AsyncTypes, FutureIsWhole, Given, Outcome, StateLabel, Promise!Unfinished

LEMMA FutureDecides ==
  ASSUME UNCHANGED future
  PROVE  Outcome' = Outcome
BY DEF future, Outcome, StateLabel

LEMMA TaskImplementsPromise ==
  ASSUME AsyncInvariant, TaskRuns
  PROVE  [Promise!Next]_(Promise!vars)
<1>1. CASE TaskMoves
  <2>1. UNCHANGED <<future, at, told>>
    BY <1>1 DEF TaskMoves, TriggerComes, TriggerTimesOut, CheckBeforeCall, CallTarget,
       TestAfterCall, CallHook, PeekLast, WakeUp, TaskGoesTo
  <2> QED
    BY <2>1, FutureDecides DEF Promise!vars, Outcome
<1>2. ASSUME NEW v \in Version, TargetReturns(v)  PROVE [Promise!Next]_(Promise!vars)
  <2>1. Asking' = Asking /\ UNCHANGED told /\ task = "target" /\ last <= v
    BY <1>2, SetLeavesCallersAsking DEF TargetReturns, TaskGoesTo, AsyncInvariant
  <2>2. CASE cancelEvent
    <3>1. UNCHANGED future
      BY <1>2, <2>2 DEF TargetReturns, Set, future
    <3> QED
      BY <2>1, <3>1, FutureDecides DEF Promise!vars, Asking, Outcome
  <2>3. CASE ~cancelEvent
    <3>1. excInfo = "none" /\ last = res
      BY <2>1, <2>3 DEF AsyncInvariant, AsyncTypes, FutureIsWhole, TaskKnowsFuture
    <3>2. done' /\ res' = v /\ excInfo' = "none" /\ ~cancelEvent'
      BY <1>2, <2>3, SetNotifies DEF TargetReturns, AsyncInvariant
    <3>3. Outcome' = Promise!Successful(v)
      BY <3>2 DEF Outcome, StateLabel, Promise!Successful
    <3>4. Outcome.state \in {"unfinished", "successful"} /\ Outcome.value <= v
      BY <2>1, <2>3, <3>1, AsyncAssumption
      DEF Outcome, StateLabel, AsyncInvariant, AsyncTypes, Version
    <3>5. Promise!Resolve(v)
      BY <2>1, <3>3, <3>4 DEF Promise!Resolve, Promise!Open, Outcome, Asking
    <3> QED
      BY <3>5 DEF Promise!Next
  <2> QED
    BY <2>2, <2>3
<1>3. CASE TargetRaises
  <2>1. Asking' = Asking /\ UNCHANGED told /\ task = "target"
    BY <1>3, SetLeavesCallersAsking DEF TargetRaises, TaskGoesTo, AsyncInvariant
  <2>2. CASE cancelEvent
    <3>1. UNCHANGED future
      BY <1>3, <2>2 DEF TargetRaises, Set, future
    <3> QED
      BY <2>1, <3>1, FutureDecides DEF Promise!vars, Asking, Outcome
  <2>3. CASE ~cancelEvent
    <3>1. excInfo = "none"
      BY <2>1, <2>3 DEF AsyncInvariant, AsyncTypes, FutureIsWhole, TaskKnowsFuture
    <3>2. done' /\ excInfo' = "error" /\ ~cancelEvent'
      BY <1>3, <2>3, SetNotifies DEF TargetRaises, AsyncInvariant
    <3>3. Outcome' = Promise!Failed /\ Outcome.state \in {"unfinished", "successful"}
      BY <2>3, <3>1, <3>2 DEF Outcome, StateLabel, Promise!Failed
    <3>4. Promise!Fail
      BY <2>1, <3>3 DEF Promise!Fail, Promise!Open, Outcome, Asking
    <3> QED
      BY <3>4 DEF Promise!Next
  <2> QED
    BY <2>2, <2>3
<1> QED
  BY <1>1, <1>2, <1>3 DEF TaskRuns, TaskMoves

LEMMA CancelImplementsPromise ==
  ASSUME AsyncInvariant, CancelAtExit
  PROVE  Promise!Cancel
<1>1. Asking' = Asking /\ UNCHANGED told /\ cancelEvent'
  BY SetLeavesCallersAsking DEF CancelAtExit, AsyncInvariant
<1>2. done'
  <2>1. CASE cancelEvent
    BY <2>1 DEF CancelAtExit, Set, AsyncInvariant, AsyncTypes, FutureIsWhole
  <2>2. CASE ~cancelEvent
    BY <2>2, SetNotifies DEF CancelAtExit, AsyncInvariant
  <2> QED
    BY <2>1, <2>2
<1>3. Outcome' = Promise!Cancelled
  BY <1>1, <1>2 DEF Outcome, StateLabel, Promise!Cancelled
<1> QED
  BY <1>1, <1>3 DEF Promise!Cancel, Outcome, Asking

LEMMA ReaderImplementsPromise ==
  ASSUME AsyncInvariant, NEW r \in Reader, ReaderRuns(r) \/ ReaderBegins(r)
  PROVE  [Promise!Next]_(Promise!vars)
<1>1. Outcome' = Outcome
  BY FutureDecides DEF ReaderRuns, ReaderBegins, Wait, Answer, FinishTest, GoAway,
     CallResult, StartTest, ReaderGoesTo
<1>2. CASE CallResult(r)
  <2>1. at[r] = "away" /\ at' = [at EXCEPT ![r] = "asking"] /\ UNCHANGED told
    BY <1>2 DEF CallResult, ReaderGoesTo
  <2>2. r \notin Asking /\ Asking' = Asking \cup {r}
    BY <2>1 DEF Asking, AsyncInvariant, AsyncTypes
  <2>3. Promise!Ask(r)
    BY <1>1, <2>1, <2>2 DEF Promise!Ask, Asking, Outcome
  <2> QED
    BY <2>3 DEF Promise!Next
<1>3. CASE Answer(r)
  <2>1. /\ at[r] = "asking" /\ at' = [at EXCEPT ![r] = "away"]
        /\ done /\ told' = [told EXCEPT ![r] = Given]
    BY <1>3 DEF Answer, ReaderGoesTo
  <2>2. r \in Asking /\ Asking' = Asking \ {r}
    BY <2>1 DEF Asking, AsyncInvariant, AsyncTypes
  <2>3. Given = Outcome /\ Outcome # Promise!Unfinished
    BY <2>1, GivenIsOutcome DEF AsyncInvariant
  <2>4. Promise!Tell(r)
    BY <1>1, <2>1, <2>2, <2>3 DEF Promise!Tell, Asking, Outcome
  <2> QED
    BY <2>4 DEF Promise!Next
<1>4. CASE Wait(r) \/ FinishTest(r) \/ GoAway(r) \/ (ReaderBegins(r) /\ ~CallResult(r))
  <2>1. Asking' = Asking /\ UNCHANGED told
    BY <1>4 DEF Wait, FinishTest, GoAway, ReaderBegins, StartTest, ReaderGoesTo, Asking,
       AsyncInvariant, AsyncTypes
  <2> QED
    BY <1>1, <2>1 DEF Promise!vars, Asking, Outcome
<1> QED
  BY <1>2, <1>3, <1>4 DEF ReaderRuns

(* For any readers and any versions: what result() gives is always the outcome
   at some moment of the call, and outcomes only go forward. *)
THEOREM PromiseIsImplemented == AsyncSpec => Promise!Spec
<1>1. AsyncInit => Promise!Init
  BY DEF AsyncInit, Promise!Init, Promise!Unfinished, StateLabel
<1>2. AsyncInvariant /\ [AsyncNext]_vars => [Promise!Next]_(Promise!vars)
  <2> SUFFICES ASSUME AsyncInvariant, [AsyncNext]_vars
               PROVE  [Promise!Next]_(Promise!vars)
    OBVIOUS
  <2>1. CASE AsyncStart \/ SetTrigger \/ Join \/ UNCHANGED vars
    <3>1. UNCHANGED <<future, at, told>>
      BY <2>1 DEF AsyncStart, SetTrigger, Join, vars, readers
    <3> QED
      BY <3>1, FutureDecides DEF Promise!vars, Outcome
  <2> QED
    BY <2>1, TaskImplementsPromise, CancelImplementsPromise, ReaderImplementsPromise
    DEF AsyncNext, Promise!Next
<1> QED
  BY <1>1, <1>2, AsyncInvariantHolds, PTL DEF AsyncSpec, Promise!Spec
=============================================================================
