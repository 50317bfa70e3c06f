--------------------------- MODULE PrefetchProofs ---------------------------
(***************************************************************************)
(* Proofs about PrefetchSync, for any set of processes and any faults: its *)
(* type invariant, the exclusiveness of the job, the assertions of the     *)
(* code, and that it implements PrefetchJob; and about PrefetchCache, for  *)
(* any number of versions, too: attempts make sense, and no process goes   *)
(* back to older data.  At the end: about PickleStorage.                   *)
(***************************************************************************)
EXTENDS PrefetchCache, PickleStorage, TLAPS

(* Of two processes, none has a lock that the other has exclusively. *)
Compatible ==
  \A p \in Proc, q \in Proc, l \in Lock :
    p # q /\ held[p][l] = "exclusive" => held[q][l] = "none"

(* What the point that a process has reached says of its own locks, lock by
   lock. *)
GetjobPossession(p) ==
  /\ pc[p] \in {"idle", "enter_getjob", "dead"} => held[p]["GETJOB"] = "none"
  /\ pc[p] \in {"late_outcome", "late_job", "late_activity", "late_reljob", "inside",
                "ask_getjob", "won_switch", "won_activity"} \cup Working \cup Serving
       => held[p]["GETJOB"] = "none"

JobPossession(p) ==
  /\ pc[p] \in {"enter_activity", "enter_reljob", "late_activity", "late_reljob"}
       => held[p]["JOB"] = "shared"
  /\ pc[p] \in {"won_relgetjob", "won_switch", "won_activity"} \cup Working
       => held[p]["JOB"] = "exclusive"
  /\ pc[p] \in {"idle", "enter_getjob", "dead", "enter_job", "enter_relgetjob",
                "late_relgetjob", "late_outcome", "late_job", "inside", "ask_getjob",
                "ask_job", "lost_relgetjob", "rel_getjob"}
       => held[p]["JOB"] = "none"

ActivityPossession(p) ==
  /\ pc[p] \in Inside \ {"won_activity", "won_switchback", "won_shared"}
       => held[p]["ACTIVITY"] = "shared"
  /\ pc[p] \in {"idle", "enter_getjob", "dead", "enter_job", "enter_activity",
                "late_relgetjob", "late_outcome", "late_job", "late_activity",
                "won_activity", "won_shared", "rel_job", "rel_getjob"}
       => held[p]["ACTIVITY"] = "none"
  /\ pc[p] = "won_switchback" => held[p]["ACTIVITY"] = "exclusive"

OutcomePossession(p) ==
  /\ pc[p] \in {"idle", "enter_getjob", "dead", "rel_activity", "rel_job", "rel_getjob"}
                 \cup Asking \cup Working
       => held[p]["OUTCOME"] = "none"
  /\ pc[p] \in Entering \cup {"inside"} => held[p]["OUTCOME"] # "exclusive"
  /\ pc[p] \in {"late_job", "late_activity", "late_reljob"} => held[p]["OUTCOME"] = "shared"

(* Who has the ACTIVITY lock exclusively has the JOB lock so, too -- unless
   the kernel is closing the files of a killed process. *)
ActivityUnderJob(p) ==
  held[p]["ACTIVITY"] = "exclusive" => pc[p] = "dying" \/ held[p]["JOB"] = "exclusive"

Possession(p) ==
  /\ GetjobPossession(p) /\ JobPossession(p) /\ ActivityPossession(p)
  /\ OutcomePossession(p) /\ ActivityUnderJob(p)

(* The inductive invariant. *)
SyncInvariant ==
  /\ TypeOK
  /\ Compatible
  /\ \A p \in Proc : Possession(p)
  /\ JobIsExclusive

-----------------------------------------------------------------------------
(* A step of p is one of the synchronizer's steps. *)
Step(p) == Proceed(p) \/ Decide(p) \/ Fail(p)

USE DEF Goto

(* flock(2) keeps the holders of a lock compatible when it grants it ... *)
LEMMA AcquireKeepsCompatible ==
  ASSUME TypeOK, Compatible, NEW p \in Proc, NEW l \in Lock,
         NEW mode \in Mode, Acquire(p, l, mode)
  PROVE  Compatible'
BY DEF TypeOK, Compatible, Acquire, Grantable

(* ... and when it takes it away. *)
LEMMA ReleaseKeepsCompatible ==
  ASSUME TypeOK, Compatible, NEW p \in Proc, NEW l \in Lock, Release(p, l)
  PROVE  Compatible'
BY DEF TypeOK, Compatible, Release

(* Every step keeps the types. *)
LEMMA StepKeepsTypes ==
  ASSUME TypeOK, NEW p \in Proc, Step(p)
  PROVE  TypeOK'
<1>1. CASE Enter(p)
  BY SMTT(30), <1>1 DEF TypeOK, Enter, EnterAcquireGetjob, EnterTryJob, EnterAcquireActivity,
     EnterReleaseJob, EnterReleaseGetjob, LateReleaseGetjob, LateAcquireOutcome,
     LateAcquireJob, LateAcquireActivity, LateReleaseJob, AcquireActivityImmediately,
     Acquire, Release, Lock, Mode, Point, Engaged, Entering, Leaving
<1>2. CASE Ask(p)
  BY <1>2 DEF TypeOK, Ask, AskAcquireGetjob, AskTryJob, LostReleaseGetjob,
     WonReleaseGetjob, WonDropShared, WonAcquireActivity, WonDropExclusive,
     WonReacquireShared, Acquire, Release, Lock, Mode, Point, Engaged, Asking,
     Working, Leaving
<1>3. CASE Serve(p) \/ Leave(p)
  BY <1>3 DEF TypeOK, Serve, Leave, ServeReleaseJob, ServeAcquireOutcome,
     ServeReleaseOutcome, ReleaseOutcome, ReleaseActivity, ReleaseJob, ReleaseGetjob,
     Acquire, Release, Lock, Mode, Point, Engaged, Serving, Leaving
<1>4. CASE Decide(p)
  BY <1>4 DEF TypeOK, Decide, StartEntering, StartAsking, FinishJob, StartLeaving,
     Release, Lock, Mode, Point, Engaged, Entering, Asking, Working, Leaving
<1>5. CASE Fail(p)
  BY <1>5 DEF TypeOK, Fail, Raise, Crash, Die, KernelCloses, Vanish, Restart,
     Release, Lock, Mode, Point, Engaged, Leaving
<1> QED
  BY <1>1, <1>2, <1>3, <1>4, <1>5 DEF Step, Proceed

(* Every step keeps the locks compatible. *)
LEMMA StepKeepsCompatible ==
  ASSUME TypeOK, Compatible, NEW p \in Proc, Step(p)
  PROVE  Compatible'
<1>1. CASE \E l \in Lock, mode \in Mode : Acquire(p, l, mode)
  BY <1>1, AcquireKeepsCompatible
<1>2. CASE \E l \in Lock : Release(p, l)
  BY <1>2, ReleaseKeepsCompatible
<1>3. CASE UNCHANGED held
  BY <1>3 DEF Compatible
<1>4. "GETJOB" \in Lock /\ "JOB" \in Lock /\ "ACTIVITY" \in Lock /\ "OUTCOME" \in Lock
  BY DEF Lock
<1>5. "shared" \in Mode /\ "exclusive" \in Mode
  BY DEF Mode
<1>6. CASE Proceed(p)
  BY <1>1, <1>2, <1>3, <1>4, <1>5, <1>6 DEF Proceed, Enter, EnterAcquireGetjob,
     EnterTryJob, EnterAcquireActivity, EnterReleaseJob, EnterReleaseGetjob,
     LateReleaseGetjob, LateAcquireOutcome, LateAcquireJob, LateAcquireActivity,
     LateReleaseJob, AcquireActivityImmediately, Ask, AskAcquireGetjob, AskTryJob,
     LostReleaseGetjob, WonReleaseGetjob, WonDropShared, WonAcquireActivity,
     WonDropExclusive, WonReacquireShared, Serve, ServeReleaseJob,
     ServeAcquireOutcome, ServeReleaseOutcome, Leave, ReleaseOutcome,
     ReleaseActivity, ReleaseJob, ReleaseGetjob
<1>7. CASE Decide(p) \/ Fail(p)
  BY <1>2, <1>3, <1>4, <1>7 DEF Decide, StartEntering, StartAsking, FinishJob,
     StartLeaving, Fail, Raise, Crash, Die, KernelCloses, Vanish, Restart
<1> QED
  BY <1>6, <1>7 DEF Step

(* A step of one process changes neither the point nor the locks of another. *)
LEMMA StepIsLocal ==
  ASSUME TypeOK, NEW p \in Proc, Step(p), NEW q \in Proc, q # p
  PROVE  pc'[q] = pc[q] /\ held'[q] = held[q]
<1>1. CASE Proceed(p)
  BY <1>1 DEF TypeOK, Proceed, Enter, EnterAcquireGetjob,
     EnterTryJob, EnterAcquireActivity, EnterReleaseJob, EnterReleaseGetjob,
     LateReleaseGetjob, LateAcquireOutcome, LateAcquireJob, LateAcquireActivity,
     LateReleaseJob, AcquireActivityImmediately, Ask, AskAcquireGetjob, AskTryJob,
     LostReleaseGetjob, WonReleaseGetjob, WonDropShared, WonAcquireActivity,
     WonDropExclusive, WonReacquireShared, Serve, ServeReleaseJob,
     ServeAcquireOutcome, ServeReleaseOutcome, Leave, ReleaseOutcome,
     ReleaseActivity, ReleaseJob, ReleaseGetjob, Acquire, Release
<1>2. CASE Decide(p) \/ Fail(p)
  BY <1>2 DEF TypeOK, Decide, StartEntering, StartAsking, FinishJob,
     StartLeaving, Fail, Raise, Crash, Die, KernelCloses, Vanish, Restart, Release
<1> QED
  BY <1>1, <1>2 DEF Step

-----------------------------------------------------------------------------
(* The process that makes a step has, at the point that it reaches, the locks
   that Possession says. *)
LEMMA StepKeepsPossession ==
  ASSUME TypeOK, NEW p \in Proc, Possession(p), Step(p)
  PROVE  Possession(p)'
<1> USE DEF TypeOK, Possession, GetjobPossession, JobPossession, ActivityPossession,
    OutcomePossession, ActivityUnderJob, Inside, Entering, Asking, Working, Serving, Leaving,
    Lock, Mode
<1>1. CASE Enter(p)
  BY <1>1 DEF Enter, EnterAcquireGetjob, EnterTryJob, EnterAcquireActivity,
     EnterReleaseJob, EnterReleaseGetjob, LateReleaseGetjob, LateAcquireOutcome,
     LateAcquireJob, LateAcquireActivity, LateReleaseJob, AcquireActivityImmediately,
     Acquire, Release
<1>2. CASE Ask(p)
  BY <1>2 DEF Ask, AskAcquireGetjob, AskTryJob, LostReleaseGetjob, WonReleaseGetjob,
     WonDropShared, WonAcquireActivity, WonDropExclusive, WonReacquireShared,
     Acquire, Release
<1>3. CASE Serve(p) \/ Leave(p)
  BY <1>3 DEF Serve, Leave, ServeReleaseJob, ServeAcquireOutcome,
     ServeReleaseOutcome, ReleaseOutcome, ReleaseActivity, ReleaseJob, ReleaseGetjob,
     Acquire, Release
<1>4. CASE Decide(p)
  BY <1>4 DEF Decide, StartEntering, StartAsking, FinishJob, StartLeaving, Release
<1>5. CASE Fail(p)
  BY <1>5 DEF Fail, Raise, Crash, Die, KernelCloses, Vanish, Restart, Release,
     Engaged, NoLocks
<1> QED
  BY <1>1, <1>2, <1>3, <1>4, <1>5 DEF Step, Proceed

-----------------------------------------------------------------------------
(* The heart of the matter.  A process begins to work when no other has the
   ACTIVITY lock; then no other can come in, since that takes the JOB lock. *)
LEMMA StepKeepsJobExclusive ==
  ASSUME SyncInvariant, NEW p \in Proc, Step(p), TypeOK',
         Compatible', \A q \in Proc : Possession(q)'
  PROVE  JobIsExclusive'
<1> SUFFICES ASSUME NEW a \in Proc, NEW b \in Proc, a # b,
                    pc'[a] \in Working, pc'[b] \in Inside
             PROVE  FALSE
  BY DEF JobIsExclusive
<1>1. held'[a]["JOB"] = "exclusive"
  BY DEF Possession, JobPossession
<1>2. held'[b]["JOB"] = "none"
  BY <1>1 DEF Compatible, Lock
<1>3. pc'[b] \notin {"enter_reljob", "late_reljob", "won_relgetjob", "won_switch",
                    "won_activity"} \cup Working
  BY <1>2 DEF Possession, JobPossession
<1>4. held'[b]["ACTIVITY"] = "shared"
  BY <1>3 DEF Possession, ActivityPossession, Working
<1>5. ~(pc[a] \in Working /\ pc[b] \in Inside)
  BY DEF SyncInvariant, JobIsExclusive
<1>6. CASE p = a
  <2>1. pc[b] \in Inside
    BY <1>6, StepIsLocal DEF SyncInvariant
  <2>2. pc[a] \notin Working
    BY <2>1, <1>5
  <2>3. pc'[a] = "won_switchback"
    BY <1>6, <2>2 DEF SyncInvariant, TypeOK, Step, Proceed, Enter, EnterAcquireGetjob,
       EnterTryJob, EnterAcquireActivity, EnterReleaseJob, EnterReleaseGetjob,
       LateReleaseGetjob, LateAcquireOutcome, LateAcquireJob, LateAcquireActivity,
       LateReleaseJob, AcquireActivityImmediately, Ask, AskAcquireGetjob, AskTryJob,
       LostReleaseGetjob, WonReleaseGetjob, WonDropShared, WonAcquireActivity,
       WonDropExclusive, WonReacquireShared, Serve, ServeReleaseJob,
       ServeAcquireOutcome, ServeReleaseOutcome, Leave, ReleaseOutcome,
       ReleaseActivity, ReleaseJob, ReleaseGetjob, Decide, StartEntering, StartAsking,
       FinishJob, StartLeaving, Fail, Raise, Crash, Die, KernelCloses, Vanish,
       Restart, Working
  <2>4. held'[a]["ACTIVITY"] = "exclusive"
    BY <2>3 DEF Possession, ActivityPossession
  <2> QED
    BY <2>4, <1>4 DEF Compatible, Lock
<1>7. CASE p # a
  <2>1. pc[a] \in Working
    BY <1>7, StepIsLocal DEF SyncInvariant
  <2>2. pc[b] \notin Inside
    BY <2>1, <1>5
  <2>3. p = b
    BY <2>2, StepIsLocal DEF SyncInvariant
  <2>4. pc[b] \in {"enter_activity", "late_activity"}
    BY <2>2, <2>3, <1>3 DEF SyncInvariant, TypeOK, Step, Proceed, Enter,
       EnterAcquireGetjob, EnterTryJob, EnterAcquireActivity, EnterReleaseJob,
       EnterReleaseGetjob, LateReleaseGetjob, LateAcquireOutcome, LateAcquireJob,
       LateAcquireActivity, LateReleaseJob, AcquireActivityImmediately, Ask,
       AskAcquireGetjob, AskTryJob, LostReleaseGetjob, WonReleaseGetjob, WonDropShared,
       WonAcquireActivity, WonDropExclusive, WonReacquireShared, Serve,
       ServeReleaseJob, ServeAcquireOutcome, ServeReleaseOutcome, Leave,
       ReleaseOutcome, ReleaseActivity, ReleaseJob, ReleaseGetjob, Decide,
       StartEntering, StartAsking, FinishJob, StartLeaving, Fail, Raise, Crash, Die,
       KernelCloses, Vanish, Restart, Working, Inside, Asking, Serving
  <2>5. held[b]["JOB"] = "shared" /\ held[a]["JOB"] = "exclusive"
    BY <2>1, <2>4 DEF SyncInvariant, Possession, JobPossession
  <2> QED
    BY <2>5 DEF SyncInvariant, Compatible, Lock
<1> QED
  BY <1>6, <1>7

-----------------------------------------------------------------------------
LEMMA InitInvariant == Init => SyncInvariant
BY DEF Init, SyncInvariant, TypeOK, Compatible, Possession, GetjobPossession,
   JobPossession, ActivityPossession, OutcomePossession, ActivityUnderJob,
   JobIsExclusive, NoLocks, Lock, Mode, Point, Engaged, Entering, Inside, Asking,
   Working, Serving

LEMMA StepKeepsInvariant ==
  ASSUME SyncInvariant, NEW p \in Proc, Step(p)
  PROVE  SyncInvariant'
<1>1. TypeOK'
  BY StepKeepsTypes DEF SyncInvariant
<1>2. Compatible'
  BY StepKeepsCompatible DEF SyncInvariant
<1>3. ASSUME NEW q \in Proc
      PROVE  Possession(q)'
  <2>1. CASE q = p
    BY <2>1, StepKeepsPossession DEF SyncInvariant
  <2>2. CASE q # p
    <3>1. pc'[q] = pc[q] /\ held'[q] = held[q]
      BY <2>2, StepIsLocal DEF SyncInvariant
    <3> QED
      BY <3>1 DEF SyncInvariant, Possession, GetjobPossession, JobPossession,
         ActivityPossession, OutcomePossession, ActivityUnderJob
  <2> QED
    BY <2>1, <2>2
<1>4. JobIsExclusive'
  BY <1>1, <1>2, <1>3, StepKeepsJobExclusive
<1> QED
  BY <1>1, <1>2, <1>3, <1>4 DEF SyncInvariant

(* SyncInvariant holds in every state that the synchronizer reaches. *)
THEOREM InvariantHolds == Spec => []SyncInvariant
<1>1. SyncInvariant /\ [Next]_syncVars => SyncInvariant'
  <2> SUFFICES ASSUME SyncInvariant, [Next]_syncVars
               PROVE  SyncInvariant'
    OBVIOUS
  <2>1. CASE Next
    BY <2>1, StepKeepsInvariant DEF Next, Step
  <2>2. CASE UNCHANGED syncVars
    BY <2>2 DEF syncVars, SyncInvariant, TypeOK, Compatible, Possession,
       GetjobPossession, JobPossession, ActivityPossession, OutcomePossession,
       ActivityUnderJob, JobIsExclusive
  <2> QED
    BY <2>1, <2>2
<1> QED
  BY <1>1, InitInvariant, PTL DEF Spec

(* The type invariant. *)
THEOREM TypeCorrect == Spec => []TypeOK
BY InvariantHolds, PTL DEF SyncInvariant

(* However many processes there are, and whatever fails: while one is doing
   the job of loading and pickling, no other is inside its `with` block. *)
THEOREM JobExclusive == Spec => []JobIsExclusive
BY InvariantHolds, PTL DEF SyncInvariant

(* __enter__() can take the ACTIVITY lock at once, unless a process has been
   killed whose files the kernel is still closing. *)
THEOREM ActivityImmediate == Spec => []ActivityIsImmediate
<1>1. SyncInvariant => ActivityIsImmediate
  <2> SUFFICES ASSUME SyncInvariant, NEW p \in Proc, NEW q \in Proc, p # q,
                      pc[p] \in {"enter_activity", "late_activity"},
                      held[q]["ACTIVITY"] = "exclusive", pc[q] # "dying"
               PROVE  FALSE
    BY DEF ActivityIsImmediate
  <2>1. held[p]["JOB"] = "shared" /\ held[q]["JOB"] = "exclusive"
    BY DEF SyncInvariant, Possession, JobPossession, ActivityUnderJob
  <2> QED
    BY <2>1 DEF SyncInvariant, Compatible, Lock
<1> QED
  BY <1>1, InvariantHolds, PTL

(* None of the assertions in the synchronizer's methods can fail. *)
THEOREM AssertionsNeverFail == Spec => []AssertionsHold
<1>1. SyncInvariant => MethodsFindTheirLocks
  <2> SUFFICES ASSUME SyncInvariant, NEW p \in Proc
               PROVE  /\ pc[p] \in {"idle", "enter_getjob", "dead"} => held[p] = NoLocks
                      /\ pc[p] = "inside" =>
                           /\ held[p]["GETJOB"] = "none" /\ held[p]["JOB"] = "none"
                           /\ held[p]["ACTIVITY"] = "shared"
                           /\ held[p]["OUTCOME"] # "exclusive"
                      /\ pc[p] \in {"job", "pause"} =>
                           /\ held[p]["GETJOB"] = "none" /\ held[p]["JOB"] = "exclusive"
                           /\ held[p]["ACTIVITY"] = "shared"
                           /\ held[p]["OUTCOME"] = "none"
    BY DEF MethodsFindTheirLocks
  <2>1. held[p] \in [Lock -> Mode]
    BY DEF SyncInvariant, TypeOK
  <2> QED
    BY <2>1 DEF SyncInvariant, Possession, GetjobPossession, JobPossession,
       ActivityPossession, OutcomePossession, NoLocks, Lock, Inside, Working
<1> QED
  BY <1>1, ActivityImmediate, InvariantHolds, PTL DEF AssertionsHold

-----------------------------------------------------------------------------
(* How a step may take a process into the `with` block, to work, and out. *)
LEMMA Transitions ==
  ASSUME TypeOK, NEW p \in Proc, Step(p)
  PROVE  \/ pc[p] \in Working /\ pc'[p] \in Working
         \/ pc[p] \in Inside \ Working /\ pc'[p] \in Inside \ Working
         \/ pc[p] \notin Inside /\ pc'[p] \notin Inside
         \/ pc[p] \in {"enter_activity", "late_activity"} /\ pc'[p] \in Inside \ Working
         \/ pc[p] \in Inside \ Working /\ pc'[p] \in Working
         \/ pc[p] \in Working /\ pc'[p] \in Inside \ Working
         \/ pc[p] \in Inside /\ pc'[p] \notin Inside
<1> USE DEF TypeOK, Inside, Asking, Working, Serving, Leaving
<1>1. CASE Proceed(p)
  BY <1>1 DEF Proceed, Enter,
     EnterAcquireGetjob, EnterTryJob, EnterAcquireActivity, EnterReleaseJob,
     EnterReleaseGetjob, LateReleaseGetjob, LateAcquireOutcome, LateAcquireJob,
     LateAcquireActivity, LateReleaseJob, AcquireActivityImmediately, Ask,
     AskAcquireGetjob, AskTryJob, LostReleaseGetjob, WonReleaseGetjob, WonDropShared,
     WonAcquireActivity, WonDropExclusive, WonReacquireShared, Serve,
     ServeReleaseJob, ServeAcquireOutcome, ServeReleaseOutcome, Leave,
     ReleaseOutcome, ReleaseActivity, ReleaseJob, ReleaseGetjob
<1>2. CASE Decide(p) \/ Fail(p)
  BY <1>2 DEF Decide, StartEntering, StartAsking, FinishJob, StartLeaving, Fail,
     Raise, Crash, Die, KernelCloses, Vanish, Restart
<1> QED
  BY <1>1, <1>2 DEF Step

(* Every step of the synchronizer is a step of PrefetchJob, or a stutter. *)
LEMMA StepImplementsJob ==
  ASSUME SyncInvariant, NEW p \in Proc, Step(p)
  PROVE  Job!Next \/ UNCHANGED phase
<1> DEFINE Seen(point) == IF point \in Working THEN "job"
                          ELSE IF point \in Inside THEN "in" ELSE "out"
<1>1. \A q \in Proc : phase[q] = Seen(pc[q]) /\ phase'[q] = Seen(pc'[q])
  BY DEF phase
<1>2. phase' = [phase EXCEPT ![p] = Seen(pc'[p])]
  <2>1. \A q \in Proc : q # p => phase'[q] = phase[q]
    BY <1>1, StepIsLocal DEF SyncInvariant
  <2>2. phase \in [Proc -> {"out", "in", "job"}] /\ phase' \in [Proc -> {"out", "in", "job"}]
    BY DEF phase
  <2> QED
    BY <1>1, <2>1, <2>2
<1>3. SyncInvariant'
  BY StepKeepsInvariant
<1>4. Working \subseteq Inside
  BY DEF Inside
<1>5. CASE Seen(pc[p]) = Seen(pc'[p])
  <2>1. phase' = [phase EXCEPT ![p] = phase[p]]
    BY <1>1, <1>2, <1>5
  <2> QED
    BY <2>1 DEF phase
<1>6. CASE pc[p] \in {"enter_activity", "late_activity"} /\ pc'[p] \in Inside \ Working
  <2>1. held[p]["JOB"] = "shared"
    BY <1>6 DEF SyncInvariant, Possession, JobPossession
  <2>2. ASSUME NEW q \in Proc PROVE phase[q] # "job"
    <3>1. pc[q] \in Working => held[q]["JOB"] = "exclusive"
      BY DEF SyncInvariant, Possession, JobPossession
    <3>2. pc[q] \notin Working
      BY <2>1, <3>1 DEF SyncInvariant, Compatible, Lock
    <3> QED
      BY <1>1, <3>2
  <2>3. phase[p] = "out" /\ phase' = [phase EXCEPT ![p] = "in"]
    BY <1>1, <1>2, <1>6 DEF Inside, Asking, Working, Serving
  <2>4. Job!Enter(p)
    BY <2>2, <2>3 DEF Job!Enter
  <2> QED
    BY <2>4 DEF Job!Next
<1>7. CASE pc[p] \in Inside \ Working /\ pc'[p] \in Working
  <2>1. ASSUME NEW q \in Proc \ {p} PROVE phase[q] = "out"
    <3>1. pc'[q] \notin Inside
      BY <1>3, <1>7 DEF SyncInvariant, JobIsExclusive
    <3>2. pc[q] \notin Inside
      BY <3>1, StepIsLocal DEF SyncInvariant
    <3> QED
      BY <1>1, <1>4, <3>2
  <2>2. phase[p] = "in" /\ phase' = [phase EXCEPT ![p] = "job"]
    BY <1>1, <1>2, <1>7
  <2>3. Job!BeginJob(p)
    BY <2>1, <2>2 DEF Job!BeginJob
  <2> QED
    BY <2>3 DEF Job!Next
<1>8. CASE pc[p] \in Working /\ pc'[p] \in Inside \ Working
  <2>1. phase[p] = "job" /\ phase' = [phase EXCEPT ![p] = "in"]
    BY <1>1, <1>2, <1>8
  <2>2. Job!EndJob(p)
    BY <2>1 DEF Job!EndJob
  <2> QED
    BY <2>2 DEF Job!Next
<1>9. CASE pc[p] \in Inside /\ pc'[p] \notin Inside
  <2>1. phase[p] # "out" /\ phase' = [phase EXCEPT ![p] = "out"]
    BY <1>1, <1>2, <1>4, <1>9
  <2>2. Job!Leave(p)
    BY <2>1 DEF Job!Leave
  <2> QED
    BY <2>2 DEF Job!Next
<1> QED
  <2>1. \/ pc[p] \in Working /\ pc'[p] \in Working
        \/ pc[p] \in Inside \ Working /\ pc'[p] \in Inside \ Working
        \/ pc[p] \notin Inside /\ pc'[p] \notin Inside
        => Seen(pc[p]) = Seen(pc'[p])
    BY <1>4
  <2> HIDE DEF Seen
  <2> QED
    BY Transitions, <1>5, <1>6, <1>7, <1>8, <1>9, <2>1 DEF SyncInvariant

(* The locks keep the promise of PrefetchJob for any number of processes. *)
THEOREM ImplementsPrefetchJob == Spec => ImplementsJob
<1>1. Init => Job!Init
  BY DEF Init, Job!Init, phase, Working, Inside, Asking, Serving
<1>2. SyncInvariant /\ [Next]_syncVars => [Job!Next]_phase
  <2> SUFFICES ASSUME SyncInvariant, [Next]_syncVars
               PROVE  Job!Next \/ UNCHANGED phase
    OBVIOUS
  <2>1. CASE Next
    BY <2>1, StepImplementsJob DEF Next, Step
  <2>2. CASE UNCHANGED syncVars
    BY <2>2 DEF syncVars, phase
  <2> QED
    BY <2>1, <2>2
<1> QED
  BY <1>1, <1>2, InvariantHolds, PTL DEF Spec, ImplementsJob, Job!Spec

(***************************************************************************)
(* The cache                                                               *)
(***************************************************************************)
Place == {"none", "peek", "choose", "unpickle", "load", "dump", "describe", "served"}
Known == 0 .. dbVer

CacheTypes ==
  /\ dbVer \in Version
  /\ meta \in Known /\ pickle \in Known
  /\ last \in [Proc -> Known]
  /\ task \in [Proc -> [at : Place, db : Known, ver : Known]]
  /\ owed \in [Proc -> SUBSET Proc]

(* Where the attempt is, while the synchronizer is at a point of its own. *)
TaskFollows(p) ==
  /\ pc[p] \in {"idle", "dying", "dead"} \cup Leaving => At(p, "none")
  /\ pc[p] \in Entering => At(p, "peek")
  /\ pc[p] = "inside" => task[p].at \in {"peek", "choose", "unpickle"}
  /\ pc[p] \in Asking \cup {"won_switchback", "won_shared"} => At(p, "load")
  /\ pc[p] = "job" => task[p].at \in {"load", "dump", "describe"}
  /\ pc[p] \in {"pause"} \cup Serving => At(p, "served")

(* No process has newer data than the files. *)
MemoryIsBehind(ver) == \A p \in Proc : last[p] <= ver

FilesAreAhead == meta # 0 => MemoryIsBehind(meta)

(* What the attempt is about. *)
AttemptIsRight(p) ==
  /\ At(p, "choose") => meta <= task[p].db /\ last[p] <= task[p].db
  /\ At(p, "unpickle") => last[p] <= task[p].ver /\ meta \in {0, task[p].ver}
  /\ At(p, "load") => meta < dbVer \/ pickle # meta
  /\ At(p, "dump") => /\ 0 < task[p].ver /\ MemoryIsBehind(task[p].ver)
                      /\ meta < task[p].ver \/ pickle # meta
  /\ At(p, "describe") => MemoryIsBehind(task[p].ver) /\ pickle \in {0, task[p].ver}
  /\ At(p, "served") => last[p] <= task[p].ver /\ meta \in {0, task[p].ver}

(* Those to whom p owes the outcome of its job have not given up the OUTCOME
   lock. *)
DebtsAreHeld(p) ==
  /\ \A q \in owed[p] :
       /\ q # p /\ held[q]["OUTCOME"] = "shared"
       /\ pc[q] \in {"late_job", "late_activity", "late_reljob", "inside"}
  /\ pc[p] = "serve_reloutcome" => owed[p] = {}

CacheInvariant ==
  /\ SyncInvariant /\ CacheTypes
  /\ \A p \in Proc : TaskFollows(p) /\ AttemptIsRight(p) /\ DebtsAreHeld(p)
  /\ FilesAreAhead

-----------------------------------------------------------------------------
(* A step of p's attempt, and what it does to the synchronizer. *)
CacheStep(p) ==
  \/ Begin(p) \/ PeekDatabase(p) \/ Choose(p) \/ Unpickle(p)
  \/ LoadFresh(p) \/ StorePickle(p) \/ StoreMetadata(p)
  \/ LetOthersIn(p) \/ ServeOurselves(p)
  \/ Synchronize(p) \/ Break(p) \/ CrashTask(p) \/ AfterCrash(p)

LEMMA AttemptSynchronizes ==
  ASSUME NEW p \in Proc, CacheStep(p)
  PROVE  Step(p) \/ UNCHANGED syncVars
BY DEF CacheStep, Step, Proceed, Decide, Fail, Serve, Begin, PeekDatabase, Choose, Unpickle,
   LoadFresh, StorePickle, StoreMetadata, LetOthersIn, ServeOurselves, Synchronize, Break,
   CrashTask, AfterCrash, ReturnNode, GoForJob

LEMMA SyncRemains ==
  ASSUME SyncInvariant, NEW p \in Proc, CacheStep(p)
  PROVE  /\ SyncInvariant'
         /\ \A q \in Proc \ {p} : pc'[q] = pc[q] /\ held'[q] = held[q]
<1>1. CASE Step(p)
  BY <1>1, StepKeepsInvariant, StepIsLocal DEF SyncInvariant
<1>2. CASE UNCHANGED syncVars
  BY <1>2 DEF syncVars, SyncInvariant, TypeOK, Compatible, Possession, GetjobPossession,
     JobPossession, ActivityPossession, OutcomePossession, ActivityUnderJob, JobIsExclusive
<1> QED
  BY <1>1, <1>2, AttemptSynchronizes

(* The points between which the synchronizer's own steps lead. *)
LEMMA SynchronizerMoves ==
  ASSUME TypeOK, NEW p \in Proc, Enter(p) \/ Ask(p) \/ ServeAcquireOutcome(p) \/ Leave(p)
  PROVE  \/ pc[p] \in Entering /\ pc'[p] \in Entering \cup {"inside", "rel_outcome"}
         \/ /\ pc[p] \in Asking \cup {"won_switchback", "won_shared"}
            /\ pc'[p] \in Asking \cup {"won_switchback", "won_shared", "job", "rel_outcome"}
         \/ pc[p] = "serve_outcome" /\ pc'[p] = "serve_reloutcome"
         \/ pc[p] \in Leaving /\ pc'[p] \in {"idle"} \cup (Leaving \ {"rel_outcome"})
<1> USE DEF TypeOK, Entering, Asking, Leaving
<1>1. CASE Enter(p)
  BY <1>1 DEF Enter, EnterAcquireGetjob, EnterTryJob, EnterAcquireActivity, EnterReleaseJob,
     EnterReleaseGetjob, LateReleaseGetjob, LateAcquireOutcome, LateAcquireJob,
     LateAcquireActivity, LateReleaseJob, AcquireActivityImmediately
<1>2. CASE Ask(p)
  BY <1>2 DEF Ask, AskAcquireGetjob, AskTryJob, LostReleaseGetjob, WonReleaseGetjob,
     WonDropShared, WonAcquireActivity, WonDropExclusive, WonReacquireShared
<1>3. CASE ServeAcquireOutcome(p) \/ Leave(p)
  BY <1>3 DEF ServeAcquireOutcome, Leave, ReleaseOutcome, ReleaseActivity, ReleaseJob,
     ReleaseGetjob
<1> QED
  BY <1>1, <1>2, <1>3

(* What each place of an attempt says of the point of the synchronizer. *)
LEMMA Places ==
  ASSUME TypeOK, NEW p \in Proc, TaskFollows(p)
  PROVE  /\ At(p, "choose") \/ At(p, "unpickle") => pc[p] = "inside"
         /\ At(p, "load") => pc[p] \in Asking \cup {"won_switchback", "won_shared", "job"}
         /\ At(p, "dump") \/ At(p, "describe") => pc[p] = "job"
         /\ At(p, "served") => pc[p] \in {"pause"} \cup Serving
BY DEF TypeOK, TaskFollows, At, Point, Engaged, Entering, Asking, Working, Serving, Leaving

-----------------------------------------------------------------------------
LEMMA CacheTypesPreserved ==
  ASSUME CacheTypes, TypeOK, NEW p \in Proc, CacheStep(p)
  PROVE  /\ CacheTypes'
         /\ dbVer' = dbVer
         /\ \A q \in Proc \ {p} :
              task'[q] = task[q] /\ last'[q] = last[q] /\ owed'[q] \subseteq owed[q]
<1> DEFINE State == [at : Place, db : Known, ver : Known]
<1>1. /\ dbVer \in Nat /\ dbVer \in Known /\ 0 \in Known /\ Known \subseteq Nat
      /\ NoTask \in State /\ [NoTask EXCEPT !.at = "load"] \in State
      /\ task[p] \in State /\ last[p] \in Known
      /\ meta \in Known /\ pickle \in Known
  BY CacheAssumption DEF CacheTypes, Version, Known, NoTask, Place
<1>2. dbVer' = dbVer
  BY DEF CacheStep, Begin, PeekDatabase, Choose, Unpickle, LoadFresh, StorePickle,
     StoreMetadata, LetOthersIn, ServeOurselves, Synchronize, Break, CrashTask, AfterCrash,
     database, cacheVars
<1>3. \E state \in State : task' = [task EXCEPT ![p] = state]
  <2>1. \A place \in Place : [task[p] EXCEPT !.at = place] \in State
    BY <1>1
  <2>2. \A place \in Place, v \in Known :
          /\ [task[p] EXCEPT !.at = place, !.db = v] \in State
          /\ [task[p] EXCEPT !.at = place, !.ver = v] \in State
    BY <1>1
  <2>0. p \in DOMAIN task
    BY DEF CacheTypes
  <2>a. ASSUME NEW place \in Place, task' = [task EXCEPT ![p].at = place]
        PROVE  \E state \in State : task' = [task EXCEPT ![p] = state]
    <3>1. task' = [task EXCEPT ![p] = [task[p] EXCEPT !.at = place]]
      BY <2>0, <2>a
    <3> QED  BY <2>1, <3>1
  <2>b. ASSUME NEW place \in Place, NEW v \in Known,
               task' = [task EXCEPT ![p].at = place, ![p].db = v]
        PROVE  \E state \in State : task' = [task EXCEPT ![p] = state]
    <3>1. task' = [task EXCEPT ![p] = [task[p] EXCEPT !.at = place, !.db = v]]
      BY <2>0, <2>b
    <3> QED  BY <2>2, <3>1
  <2>c. ASSUME NEW place \in Place, NEW v \in Known,
               task' = [task EXCEPT ![p].at = place, ![p].ver = v]
        PROVE  \E state \in State : task' = [task EXCEPT ![p] = state]
    <3>1. task' = [task EXCEPT ![p] = [task[p] EXCEPT !.at = place, !.ver = v]]
      BY <2>0, <2>c
    <3> QED  BY <2>2, <3>1
  <2>3. task = [task EXCEPT ![p] = task[p]]
    BY DEF CacheTypes
  <2>4. Adjusted(task[p].db, meta, last[p]).pickle \in Known
    BY <1>1 DEF Adjusted
  <2>5. {"peek", "choose", "unpickle", "dump", "describe", "served"} \subseteq Place
    BY DEF Place
  <2> HIDE DEF State
  <2>6. CASE Begin(p) \/ PeekDatabase(p) \/ StorePickle(p) \/ StoreMetadata(p)
    BY <1>1, <2>a, <2>b, <2>5, <2>6 DEF Begin, PeekDatabase, StorePickle, StoreMetadata
  <2>7. CASE LoadFresh(p)
    BY <1>1, <2>c, <2>5, <2>7 DEF LoadFresh
  <2>8. CASE Choose(p)
    <3>1. \/ task' = [task EXCEPT ![p] = NoTask]
          \/ task' = [task EXCEPT ![p] = [NoTask EXCEPT !.at = "load"]]
          \/ task' = [task EXCEPT ![p].at = "unpickle",
                                  ![p].ver = Adjusted(task[p].db, meta, last[p]).pickle]
      BY <2>8 DEF Choose, ReturnNode, EndTask, GoForJob
    <3> QED  BY <1>1, <2>c, <2>4, <2>5, <3>1
  <2>9. CASE Unpickle(p) \/ ServeOurselves(p) \/ Break(p) \/ CrashTask(p)
    <3>1. \/ task' = [task EXCEPT ![p] = NoTask]
          \/ task' = [task EXCEPT ![p] = [NoTask EXCEPT !.at = "load"]]
      BY <2>9 DEF Unpickle, ReturnNode, EndTask, GoForJob, ServeOurselves, Break, CrashTask
    <3> QED  BY <1>1, <3>1
  <2>10. CASE LetOthersIn(p) \/ Synchronize(p) \/ AfterCrash(p)
    BY <1>1, <2>3, <2>10 DEF LetOthersIn, Synchronize, AfterCrash, EndTask, cacheVars
  <2> QED  BY <2>6, <2>7, <2>8, <2>9, <2>10 DEF CacheStep
<1>4. \E v \in Known : last' = [last EXCEPT ![p] = v]
  <2>1. last = [last EXCEPT ![p] = last[p]]
    BY DEF CacheTypes
  <2>2. task[p].ver \in Known
    BY <1>1
  <2> QED
    BY <1>1, <2>1, <2>2 DEF CacheStep, Begin, PeekDatabase, Choose, Unpickle, LoadFresh,
       StorePickle, StoreMetadata, LetOthersIn, ServeOurselves, Synchronize, Break, CrashTask,
       AfterCrash, ReturnNode, GoForJob, Forgotten, cacheVars
<1>5. meta' \in Known /\ pickle' \in Known
  <2>1. task[p].ver \in Known
    BY <1>1
  <2> QED
    BY <1>1, <2>1 DEF CacheStep, Begin, PeekDatabase, Choose, Unpickle, LoadFresh,
       StorePickle, StoreMetadata, LetOthersIn, ServeOurselves, Synchronize, Break, CrashTask,
       AfterCrash, files, cacheVars, Files!WritePickle, Files!WriteMetadata,
       Files!RemoveMetadata
<1>6. /\ owed' \in [Proc -> SUBSET Proc]
      /\ \A q \in Proc \ {p} : owed'[q] \subseteq owed[q]
  <2>1. \/ owed' = owed
        \/ owed' = [q \in Proc |-> owed[q] \ {p}]
        \/ owed' = [owed EXCEPT ![p] = {q \in Proc \ {p} : pc[q] = "late_job"}]
    BY DEF CacheStep, Begin, PeekDatabase, Choose, Unpickle, LoadFresh,
       StorePickle, StoreMetadata, LetOthersIn, ServeOurselves, Synchronize, Break, CrashTask,
       AfterCrash, ReturnNode, GoForJob, EndTask, cacheVars
  <2> QED  BY <2>1 DEF CacheTypes
<1>7. Known' = Known
  BY <1>2 DEF Known
<1>8. /\ task' \in [Proc -> State] /\ last' \in [Proc -> Known]
      /\ \A q \in Proc \ {p} : task'[q] = task[q] /\ last'[q] = last[q]
  <2>1. task \in [Proc -> State] /\ last \in [Proc -> Known]
    BY DEF CacheTypes
  <2> HIDE DEF State
  <2> QED  BY <1>3, <1>4, <2>1
<1> QED
  BY <1>2, <1>5, <1>6, <1>7, <1>8 DEF CacheTypes

(* At the points of the synchronizer, each attempt is where it should be. *)
LEMMA AttemptFollows ==
  ASSUME TypeOK, CacheTypes, NEW p \in Proc, TaskFollows(p), CacheStep(p)
  PROVE  TaskFollows(p)'
<1> USE DEF TypeOK, CacheTypes, TaskFollows, At, NoTask
<1>1. CASE Begin(p)
  BY <1>1 DEF Begin, StartEntering, Entering, Asking, Working, Serving, Leaving
<1>2. CASE PeekDatabase(p)
  BY <1>2 DEF PeekDatabase, syncVars, Entering, Asking, Working, Serving, Leaving
<1>3. CASE Choose(p) \/ Unpickle(p)
  BY <1>3 DEF Choose, Unpickle, ReturnNode, GoForJob, EndTask, StartLeaving, StartAsking,
     syncVars, Entering, Asking, Working, Serving, Leaving
<1>4. CASE LoadFresh(p) \/ StorePickle(p) \/ StoreMetadata(p)
  BY <1>4 DEF LoadFresh, StorePickle, StoreMetadata, FinishJob, syncVars,
     Entering, Asking, Working, Serving, Leaving
<1>5. CASE LetOthersIn(p) \/ ServeOurselves(p)
  BY <1>5 DEF LetOthersIn, ServeOurselves, ServeReleaseJob, ServeReleaseOutcome,
     Entering, Asking, Working, Serving, Leaving
<1>6. CASE Synchronize(p)
  <2>1. CASE pc'[p] = "rel_outcome"
    BY <1>6, <2>1 DEF Synchronize, EndTask, Entering, Asking, Working, Serving, Leaving
  <2>2. CASE pc'[p] # "rel_outcome"
    BY <1>6, <2>2, SynchronizerMoves DEF Synchronize, Entering, Asking, Working, Serving, Leaving
  <2> QED  BY <2>1, <2>2
<1>7. CASE Break(p) \/ CrashTask(p)
  BY <1>7 DEF Break, CrashTask, Raise, Crash, EndTask, Entering, Asking, Working, Serving, Leaving
<1>8. CASE AfterCrash(p)
  BY <1>8 DEF AfterCrash, Die, KernelCloses, Vanish, Restart, cacheVars,
     Entering, Asking, Working, Serving, Leaving
<1> QED
  BY <1>1, <1>2, <1>3, <1>4, <1>5, <1>6, <1>7, <1>8 DEF CacheStep

(* Files change at the hands of who does the job, or become unusable. *)
FilesGoOn(p) ==
  \/ pc[p] = "job"
  \/ meta' = meta /\ pickle' = pickle
  \/ meta' = 0 /\ pickle' \in {0, pickle}

(* A process gets newer data inside the `with` block only. *)
MemoryGoesOn(p) == pc[p] \in Inside \/ last'[p] <= last[p]

LEMMA FilesAndMemory ==
  ASSUME TypeOK, CacheTypes, NEW p \in Proc, TaskFollows(p), CacheStep(p)
  PROVE  FilesGoOn(p) /\ MemoryGoesOn(p)
<1>0. last[p] \in Nat /\ last \in [Proc -> Known]
  BY DEF CacheTypes, Known
<1>1. last'[p] <= last[p] \/ pc[p] \in {"inside"} \cup Serving
  BY <1>0 DEF CacheStep, Begin, PeekDatabase, Choose, Unpickle, LoadFresh, StorePickle,
     StoreMetadata, LetOthersIn, ServeOurselves, ServeReleaseOutcome, Serving, Synchronize,
     Break, CrashTask, AfterCrash, ReturnNode, GoForJob, Forgotten, cacheVars
<1>2. FilesGoOn(p)
  BY DEF FilesGoOn, CacheStep, Begin, PeekDatabase, Choose, Unpickle, LoadFresh, StorePickle,
     StoreMetadata, FinishJob, LetOthersIn, ServeOurselves, Synchronize, Break, CrashTask,
     AfterCrash, files, cacheVars, Files!RemoveMetadata
<1> QED
  BY <1>1, <1>2 DEF MemoryGoesOn, Inside

(* What one does leaves the others' attempts right: files are only written, and
   newer data only taken, while nobody else is working on them. *)
LEMMA OthersRemainRight ==
  ASSUME CacheInvariant, NEW p \in Proc, CacheStep(p), NEW q \in Proc \ {p}
  PROVE  AttemptIsRight(q)'
<1>1. /\ task'[q] = task[q] /\ last'[q] = last[q] /\ dbVer' = dbVer
      /\ FilesGoOn(p) /\ MemoryGoesOn(p)
      /\ \A r \in Proc \ {p} : last'[r] = last[r]
  BY CacheTypesPreserved, FilesAndMemory DEF CacheInvariant, SyncInvariant
<1>2. /\ dbVer \in Nat /\ dbVer > 0 /\ meta \in Nat /\ pickle \in Nat /\ task[q].ver \in Nat
      /\ task[q].db \in Nat /\ \A r \in Proc : last[r] \in Nat /\ last'[r] \in Nat
  BY CacheTypesPreserved, CacheAssumption DEF CacheInvariant, SyncInvariant, CacheTypes, Known, Version
<1>3. /\ pc[q] \in Working => pc[p] \notin Inside
      /\ pc[p] \in Working => pc[q] \notin Inside
      /\ "job" \in Working /\ Working \subseteq Inside /\ "inside" \in Inside
      /\ Asking \cup {"pause"} \cup Serving \subseteq Inside
  BY DEF CacheInvariant, SyncInvariant, JobIsExclusive, Working, Inside
<1>4. /\ At(q, "choose") \/ At(q, "unpickle") => pc[q] \in Inside
      /\ At(q, "load") \/ At(q, "served") => pc[q] \in Inside
      /\ At(q, "dump") \/ At(q, "describe") => pc[q] = "job"
  BY Places DEF CacheInvariant, SyncInvariant, Inside, Working
<1>5. CASE pc[p] = "job"
  <2>1. task[q].at \notin {"choose", "unpickle", "load", "dump", "describe", "served"}
    BY <1>3, <1>4, <1>5 DEF At
  <2> QED  BY <1>1, <2>1 DEF AttemptIsRight, At
<1>6. CASE pc[p] # "job"
  <2>1. (meta' = meta /\ pickle' = pickle) \/ (meta' = 0 /\ pickle' \in {0, pickle})
    BY <1>1, <1>6 DEF FilesGoOn
  <2>2. ASSUME At(q, "dump") \/ At(q, "describe"), MemoryIsBehind(task[q].ver)
        PROVE  \A r \in Proc : last'[r] <= task[q].ver
    <3>1. pc[p] \notin Inside
      BY <1>3, <1>4, <2>2
    <3> QED  BY <1>1, <1>2, <3>1, <2>2 DEF MemoryGoesOn, MemoryIsBehind
  <2>3. AttemptIsRight(q)
    BY DEF CacheInvariant
  <2>4. /\ At(q, "dump") => /\ 0 < task[q].ver /\ MemoryIsBehind(task[q].ver)'
                            /\ meta' < task[q].ver \/ pickle' # meta'
        /\ At(q, "describe") => MemoryIsBehind(task[q].ver)' /\ pickle' \in {0, task[q].ver}
    <3>1. At(q, "dump") \/ At(q, "describe") => MemoryIsBehind(task[q].ver)'
      BY <1>1, <2>2, <2>3 DEF AttemptIsRight, MemoryIsBehind
    <3>2. At(q, "dump") => meta' < task[q].ver \/ pickle' # meta'
      BY <1>2, <2>1, <2>3 DEF AttemptIsRight
    <3>3. At(q, "describe") => pickle' \in {0, task[q].ver}
      BY <1>2, <2>1, <2>3 DEF AttemptIsRight
    <3> QED  BY <2>3, <3>1, <3>2, <3>3 DEF AttemptIsRight
  <2>5. /\ At(q, "choose") => meta' <= task[q].db /\ last[q] <= task[q].db
        /\ At(q, "unpickle") => last[q] <= task[q].ver /\ meta' \in {0, task[q].ver}
        /\ At(q, "load") => meta' < dbVer \/ pickle' # meta'
        /\ At(q, "served") => last[q] <= task[q].ver /\ meta' \in {0, task[q].ver}
    BY <1>1, <1>2, <2>1, <2>3 DEF AttemptIsRight
  <2> QED
    BY <1>1, <2>4, <2>5 DEF AttemptIsRight, At
<1> QED  BY <1>5, <1>6

-----------------------------------------------------------------------------
LEMMA CacheFacts ==
  ASSUME CacheInvariant, NEW p \in Proc
  PROVE  /\ dbVer \in Nat /\ 0 < dbVer /\ meta \in Nat /\ pickle \in Nat
         /\ meta <= dbVer /\ pickle <= dbVer
         /\ last \in [Proc -> Known] /\ \A q \in Proc : last[q] \in Nat /\ last[q] <= dbVer
         /\ task \in [Proc -> [at : Place, db : Known, ver : Known]]
         /\ task[p] \in [at : Place, db : Known, ver : Known]
         /\ task[p].ver \in Nat /\ task[p].ver <= dbVer
         /\ task[p].db \in Nat /\ task[p].db <= dbVer
         /\ AttemptIsRight(p) /\ TaskFollows(p) /\ TypeOK
BY CacheAssumption DEF CacheInvariant, SyncInvariant, CacheTypes, Known, Version

(* Nothing unexpected is found, so the adjustments have nothing to adjust. *)
LEMMA NothingToAdjust ==
  ASSUME CacheInvariant, NEW p \in Proc, pc[p] = "inside", At(p, "choose")
  PROVE  /\ meta <= task[p].db /\ last[p] <= task[p].db /\ (meta # 0 => last[p] <= meta)
         /\ Adjusted(task[p].db, meta, last[p]) = [pickle |-> meta, last |-> last[p]]
<1>1. /\ meta <= task[p].db /\ last[p] <= task[p].db
      /\ meta # 0 => last[p] <= meta
  BY CacheFacts DEF CacheInvariant, AttemptIsRight, FilesAreAhead, MemoryIsBehind
<1> QED
  BY <1>1, CacheFacts DEF Adjusted

(* An attempt that is over, or has not begun, is about nothing. *)
LEMMA NothingToDo ==
  ASSUME NEW p \in Proc, task'[p].at \in {"none", "peek"}
  PROVE  AttemptIsRight(p)'
BY DEF AttemptIsRight, At

LEMMA FilesRemain ==
  ASSUME CacheInvariant, NEW p \in Proc, last'[p] <= last[p], CacheStep(p),
         (meta' = meta /\ pickle' = pickle) \/ (meta' = 0 /\ pickle' \in {0, pickle})
  PROVE  FilesAreAhead'
<1>1. \A q \in Proc : last'[q] <= last[q] /\ last'[q] \in Nat /\ last[q] \in Nat /\ meta \in Nat
  BY CacheFacts, CacheTypesPreserved DEF CacheInvariant, SyncInvariant, CacheTypes, Known
<1> QED
  BY <1>1 DEF CacheInvariant, FilesAreAhead, MemoryIsBehind

LEMMA ChoosingIsRight ==
  ASSUME CacheInvariant, NEW p \in Proc, Choose(p)
  PROVE  AttemptIsRight(p)' /\ FilesAreAhead'
<1>1. /\ meta <= task[p].db /\ last[p] <= task[p].db /\ (meta # 0 => last[p] <= meta)
      /\ Adjusted(task[p].db, meta, last[p]).pickle = meta
      /\ Adjusted(task[p].db, meta, last[p]).last = last[p]
      /\ meta' = meta /\ pickle' = pickle /\ dbVer' = dbVer
  <2>1. /\ pc[p] = "inside" /\ At(p, "choose")
        /\ meta' = meta /\ pickle' = pickle /\ dbVer' = dbVer
    BY DEF Choose, files, database
  <2>2. /\ meta <= task[p].db /\ last[p] <= task[p].db /\ (meta # 0 => last[p] <= meta)
        /\ Adjusted(task[p].db, meta, last[p]) = [pickle |-> meta, last |-> last[p]]
    BY ONLY <2>1, NothingToAdjust, CacheInvariant, p \in Proc
  <2>3. ASSUME NEW r, r = [pickle |-> meta, last |-> last[p]]
        PROVE  r.pickle = meta /\ r.last = last[p]
    BY <2>3
  <2>4. /\ Adjusted(task[p].db, meta, last[p]).pickle = meta
        /\ Adjusted(task[p].db, meta, last[p]).last = last[p]
    BY <2>2, <2>3
  <2> QED  BY <2>1, <2>2, <2>4
<1>2. last' = last
  <2>1. last' = [last EXCEPT ![p] = last[p]] \/ last' = last
    BY DEF Choose, ReturnNode
  <2> QED  BY <2>1, CacheFacts
<1>3. FilesAreAhead'
  BY <1>1, <1>2 DEF CacheInvariant, FilesAreAhead, MemoryIsBehind
<1>4. \/ task'[p] = NoTask
      \/ task'[p].at = "unpickle" /\ task'[p].ver = meta /\ meta # 0
      \/ task'[p].at = "load" /\ meta # task[p].db
      \/ task'[p].at = "unpickle" /\ task'[p].ver = meta /\ meta = task[p].db
  BY <1>1, CacheFacts DEF Choose, ReturnNode, EndTask, GoForJob, PickleIsGood, NoTask
<1>5. task[p].db \in Nat /\ task[p].db <= dbVer /\ meta \in Nat /\ dbVer \in Nat
  BY CacheFacts
<1>6. AttemptIsRight(p)'
  BY <1>1, <1>2, <1>4, <1>5 DEF AttemptIsRight, At, NoTask
<1> QED  BY <1>3, <1>6

LEMMA UnpicklingIsRight ==
  ASSUME CacheInvariant, NEW p \in Proc, Unpickle(p)
  PROVE  AttemptIsRight(p)' /\ FilesAreAhead' /\ last[p] <= last'[p]
<1>1. /\ meta' = meta /\ pickle' = pickle /\ dbVer' = dbVer
      /\ last[p] <= task[p].ver /\ meta \in {0, task[p].ver}
  BY CacheFacts DEF Unpickle, files, database, AttemptIsRight
<1>2. CASE pickle = task[p].ver
  <2>1. last' = [last EXCEPT ![p] = task[p].ver] /\ task'[p] = NoTask
    BY <1>2, CacheFacts DEF Unpickle, ReturnNode, EndTask
  <2>2. FilesAreAhead'
    BY <1>1, <2>1, CacheFacts DEF CacheInvariant, FilesAreAhead, MemoryIsBehind
  <2> QED  BY <1>1, <2>1, <2>2, NothingToDo, CacheFacts DEF NoTask
<1>3. CASE pickle # task[p].ver
  <2>1. last' = last /\ task'[p].at = "load"
    BY <1>3, CacheFacts DEF Unpickle, GoForJob, NoTask
  <2>2. meta < dbVer \/ pickle # meta
    BY <1>1, <1>3, CacheFacts
  <2> QED
    BY <1>1, <2>1, <2>2, CacheFacts DEF CacheInvariant, FilesAreAhead, MemoryIsBehind,
       AttemptIsRight, At
<1> QED  BY <1>2, <1>3

LEMMA JobIsRight ==
  ASSUME CacheInvariant, NEW p \in Proc, LoadFresh(p) \/ StorePickle(p) \/ StoreMetadata(p)
  PROVE  AttemptIsRight(p)' /\ FilesAreAhead' /\ last' = last
<1> USE DEF AttemptIsRight, At
<1>1. CASE LoadFresh(p)
  <2>1. /\ task'[p].at = "dump" /\ task'[p].ver = dbVer /\ last' = last /\ dbVer' = dbVer
        /\ meta' = meta /\ pickle' = pickle /\ (meta < dbVer \/ pickle # meta)
    BY <1>1, CacheFacts DEF LoadFresh, files, database
  <2> QED
    BY <2>1, CacheFacts DEF CacheInvariant, FilesAreAhead, MemoryIsBehind
<1>2. CASE StorePickle(p)
  <2>1. /\ task'[p].at = "describe" /\ task'[p].ver = task[p].ver /\ last' = last /\ dbVer' = dbVer
        /\ meta' = meta /\ pickle' = task[p].ver /\ MemoryIsBehind(task[p].ver)
    BY <1>2, CacheFacts DEF StorePickle, Files!WritePickle, database
  <2> QED
    BY <2>1, CacheFacts DEF CacheInvariant, FilesAreAhead, MemoryIsBehind
<1>3. CASE StoreMetadata(p)
  <2>1. /\ task'[p].at = "served" /\ task'[p].ver = task[p].ver /\ last' = last /\ dbVer' = dbVer
        /\ meta' = pickle /\ pickle' = pickle /\ pickle \in {0, task[p].ver}
        /\ MemoryIsBehind(task[p].ver)
    BY <1>3, CacheFacts DEF StoreMetadata, Files!WriteMetadata, database
  <2> QED
    BY <2>1, CacheFacts DEF CacheInvariant, FilesAreAhead, MemoryIsBehind
<1> QED  BY <1>1, <1>2, <1>3

LEMMA ServingIsRight ==
  ASSUME CacheInvariant, NEW p \in Proc, LetOthersIn(p) \/ ServeOurselves(p)
  PROVE  AttemptIsRight(p)' /\ FilesAreAhead' /\ last[p] <= last'[p]
<1>1. CASE LetOthersIn(p)
  BY <1>1, CacheFacts DEF LetOthersIn, files, database, AttemptIsRight, At, CacheInvariant,
     FilesAreAhead, MemoryIsBehind
<1>2. CASE ServeOurselves(p)
  <2>1. At(p, "served")
    BY <1>2, CacheFacts DEF ServeOurselves, ServeReleaseOutcome, TaskFollows, Serving
  <2>2. /\ last[p] <= task[p].ver /\ meta \in {0, task[p].ver}
        /\ last' = [last EXCEPT ![p] = task[p].ver] /\ task'[p] = NoTask /\ meta' = meta
    BY <1>2, <2>1, CacheFacts DEF ServeOurselves, files, AttemptIsRight
  <2>3. FilesAreAhead'
    BY <2>2, CacheFacts DEF CacheInvariant, FilesAreAhead, MemoryIsBehind
  <2> QED  BY <2>2, <2>3, NothingToDo, CacheFacts DEF NoTask
<1> QED  BY <1>1, <1>2

(* Whatever else happens to p: its attempt goes on as it was, or is over. *)
LEMMA OtherwiseRight ==
  ASSUME CacheInvariant, NEW p \in Proc,
         \/ Begin(p) \/ PeekDatabase(p) \/ Synchronize(p) \/ Break(p) \/ CrashTask(p)
         \/ AfterCrash(p)
  PROVE  /\ AttemptIsRight(p)' /\ FilesAreAhead'
         /\ \/ last'[p] = last[p]
            \/ last'[p] = 0 /\ pc'[p] \in {"dying", "rel_outcome"}
<1>0. CacheStep(p) /\ p \in DOMAIN pc
  BY CacheFacts DEF CacheStep, TypeOK
<1>1. \/ last'[p] = last[p]
      \/ last'[p] = 0 /\ pc'[p] \in {"dying", "rel_outcome"}
  BY <1>0, CacheFacts DEF Begin, PeekDatabase, Synchronize, Break, CrashTask, AfterCrash, Raise,
     Crash, Forgotten, cacheVars
<1>2. (meta' = meta /\ pickle' = pickle) \/ (meta' = 0 /\ pickle' \in {0, pickle})
  BY DEF Begin, PeekDatabase, Synchronize, Break, CrashTask, AfterCrash, files, cacheVars,
     Files!RemoveMetadata
<1>3. last'[p] <= last[p]
  BY <1>1, CacheFacts
<1>4. FilesAreAhead'
  BY <1>0, <1>2, <1>3, FilesRemain
<1>5. dbVer' = dbVer
  BY <1>0, CacheTypesPreserved DEF CacheInvariant, SyncInvariant
<1>6. PeekDatabase(p) => AttemptIsRight(p)'
  BY <1>5, CacheFacts DEF PeekDatabase, files, AttemptIsRight, At
<1>7. task' = task /\ meta' = meta /\ pickle' = pickle /\ last' = last => AttemptIsRight(p)'
  BY <1>5, CacheFacts DEF AttemptIsRight, At, MemoryIsBehind
<1>8. task'[p].at \in {"none", "peek"} => AttemptIsRight(p)'
  BY NothingToDo
<1>9. \/ PeekDatabase(p)
      \/ task' = task /\ meta' = meta /\ pickle' = pickle /\ last' = last
      \/ task'[p].at \in {"none", "peek"}
  BY CacheFacts DEF Begin, Synchronize, Break, CrashTask, AfterCrash, EndTask, NoTask, cacheVars, files
<1> QED  BY <1>1, <1>4, <1>6, <1>7, <1>8, <1>9

-----------------------------------------------------------------------------
Blocked == {"late_job", "late_activity", "late_reljob", "inside"}

(* Who is owed an outcome keeps the OUTCOME lock, or is not owed it any more. *)
LEMMA DebtorsKeep ==
  ASSUME CacheInvariant, NEW p \in Proc, CacheStep(p), pc[p] \in Blocked,
         held[p]["OUTCOME"] = "shared"
  PROVE  \/ pc'[p] \in Blocked /\ held'[p]["OUTCOME"] = "shared"
         \/ \A r \in Proc : p \notin owed'[r]
<1>0. TypeOK
  BY CacheFacts
<1> USE DEF Blocked
<1>1. CASE Synchronize(p)
  <2>1. Enter(p)
    BY <1>0, <1>1, SynchronizerMoves DEF Synchronize, Ask, AskAcquireGetjob, AskTryJob,
       LostReleaseGetjob, WonReleaseGetjob, WonDropShared, WonAcquireActivity,
       WonDropExclusive, WonReacquireShared, ServeAcquireOutcome, Leave, ReleaseOutcome,
       ReleaseActivity, ReleaseJob, ReleaseGetjob
  <2>2. CASE pc'[p] = "rel_outcome"
    BY <1>1, <2>2 DEF Synchronize, EndTask
  <2>3. CASE pc'[p] # "rel_outcome"
    <3>1. LateAcquireJob(p) \/ LateAcquireActivity(p) \/ LateReleaseJob(p)
      BY <2>1 DEF Enter, EnterAcquireGetjob, EnterTryJob, EnterAcquireActivity, EnterReleaseJob,
         EnterReleaseGetjob, LateReleaseGetjob, LateAcquireOutcome, AcquireActivityImmediately
    <3> QED
      BY <1>0, <2>3, <3>1 DEF TypeOK, LateAcquireJob, LateAcquireActivity, LateReleaseJob,
         AcquireActivityImmediately, Acquire, Release, Lock
  <2> QED  BY <2>2, <2>3
<1>2. CASE Choose(p) \/ Unpickle(p)
  BY <1>2 DEF Choose, Unpickle, ReturnNode, GoForJob, EndTask, syncVars
<1>3. CASE Break(p) \/ CrashTask(p)
  BY <1>3 DEF Break, CrashTask, EndTask
<1>4. CASE PeekDatabase(p)
  BY <1>4 DEF PeekDatabase, syncVars
<1>5. ~(Begin(p) \/ LoadFresh(p) \/ StorePickle(p) \/ StoreMetadata(p) \/ LetOthersIn(p)
         \/ ServeOurselves(p) \/ AfterCrash(p))
  BY DEF Begin, StartEntering, LoadFresh, StorePickle, StoreMetadata, FinishJob, LetOthersIn,
     ServeReleaseJob, ServeOurselves, ServeReleaseOutcome, AfterCrash, Die, KernelCloses,
     Vanish, Restart
<1> QED
  BY <1>1, <1>2, <1>3, <1>4, <1>5 DEF CacheStep

LEMMA DebtsArePaid ==
  ASSUME CacheInvariant, NEW p \in Proc, CacheStep(p), NEW r \in Proc
  PROVE  DebtsAreHeld(r)'
<1>1. /\ \A q \in Proc \ {p} : pc'[q] = pc[q] /\ held'[q] = held[q]
      /\ \A q \in Proc \ {p} : owed'[q] \subseteq owed[q]
      /\ owed \in [Proc -> SUBSET Proc] /\ owed' \in [Proc -> SUBSET Proc]
      /\ TypeOK /\ DebtsAreHeld(r)
  BY SyncRemains, CacheTypesPreserved DEF CacheInvariant, SyncInvariant, CacheTypes
<1>2. CASE r = p /\ LetOthersIn(p)
  <2>1. owed'[p] = {q \in Proc \ {p} : pc[q] = "late_job"} /\ pc'[p] = "serve_outcome"
    BY <1>1, <1>2 DEF LetOthersIn, ServeReleaseJob, TypeOK
  <2>2. \A q \in Proc : pc[q] = "late_job" => held[q]["OUTCOME"] = "shared"
    BY DEF CacheInvariant, SyncInvariant, Possession, OutcomePossession
  <2> QED
    BY <1>1, <1>2, <2>1, <2>2 DEF DebtsAreHeld
<1>3. CASE ~(r = p /\ LetOthersIn(p))
  <2>1. owed'[r] \subseteq owed[r]
    BY <1>1, <1>3 DEF CacheStep, Begin, PeekDatabase, Choose, Unpickle, LoadFresh,
       StorePickle, StoreMetadata, LetOthersIn, ServeOurselves, Synchronize, Break, CrashTask,
       AfterCrash, ReturnNode, GoForJob, EndTask, cacheVars
  <2>2. ASSUME NEW q \in owed'[r]
        PROVE  q # r /\ held'[q]["OUTCOME"] = "shared" /\ pc'[q] \in Blocked
    <3>1. q \in Proc /\ q # r /\ held[q]["OUTCOME"] = "shared" /\ pc[q] \in Blocked
      BY <1>1, <2>1 DEF DebtsAreHeld, Blocked
    <3>2. CASE q = p
      BY <2>2, <3>1, <3>2, DebtorsKeep
    <3>3. CASE q # p
      BY <1>1, <3>1, <3>3
    <3> QED  BY <3>1, <3>2, <3>3
  <2>3. ASSUME pc'[r] = "serve_reloutcome"  PROVE owed[r] = {}
    <3>1. CASE pc[r] = "serve_reloutcome"
      BY <1>1, <3>1 DEF DebtsAreHeld
    <3>2. CASE pc[r] # "serve_reloutcome"
      <4>1. r = p
        BY <1>1, <2>3, <3>2
      <4>2. Synchronize(p)
        BY <1>1, <2>3, <3>2, <4>1 DEF CacheStep, TypeOK, Begin, StartEntering, PeekDatabase, Choose,
           Unpickle, ReturnNode, GoForJob, StartLeaving, StartAsking, LoadFresh, StorePickle,
           StoreMetadata, FinishJob, LetOthersIn, ServeReleaseJob, ServeOurselves,
           ServeReleaseOutcome, Break, Raise, CrashTask, Crash, AfterCrash, Die, KernelCloses,
           Vanish, Restart, syncVars
      <4>3. ServeAcquireOutcome(p)
        <5>1. pc[p] = "serve_outcome"
          BY <1>1, <2>3, <4>1, <4>2, SynchronizerMoves DEF Synchronize, Entering, Asking, Leaving
        <5> QED
          BY <4>2, <5>1 DEF Synchronize, Enter, EnterAcquireGetjob, EnterTryJob,
             EnterAcquireActivity, EnterReleaseJob, EnterReleaseGetjob, LateReleaseGetjob,
             LateAcquireOutcome, LateAcquireJob, LateAcquireActivity, LateReleaseJob,
             AcquireActivityImmediately, Ask, AskAcquireGetjob, AskTryJob, LostReleaseGetjob,
             WonReleaseGetjob, WonDropShared, WonAcquireActivity, WonDropExclusive,
             WonReacquireShared, Leave, ReleaseOutcome, ReleaseActivity, ReleaseJob,
             ReleaseGetjob
      <4>4. \A q \in Proc \ {p} : held[q]["OUTCOME"] = "none"
        BY <4>3 DEF ServeAcquireOutcome, Acquire, Grantable
      <4> QED
        BY <1>1, <4>1, <4>4 DEF DebtsAreHeld
    <3> QED  BY <3>1, <3>2
  <2> QED
    BY <1>1, <2>1, <2>2, <2>3 DEF DebtsAreHeld, Blocked
<1> QED  BY <1>2, <1>3

-----------------------------------------------------------------------------
(* The steps of the environment. *)
Environment ==
  /\ UNCHANGED <<held, pc, last, task, owed>>
  /\ dbVer' \in Version /\ dbVer <= dbVer'
  /\ (meta' = meta /\ pickle' = pickle) \/ (meta' = 0 /\ pickle' \in {0, pickle})

LEMMA EnvironmentSteps ==
  ASSUME CacheInvariant,
         CommitToDatabase \/ (\E v \in Version : GrowOld(v)) \/ FileGetsTooOld \/ UNCHANGED vars
  PROVE  Environment
<1>1. dbVer \in Version /\ dbVer \in Nat /\ MaxVer \in Nat /\ 1 <= dbVer
  BY CacheAssumption DEF CacheInvariant, CacheTypes, Version
<1>2. dbVer < MaxVer => dbVer + 1 \in Version
  BY <1>1 DEF Version
<1> QED
  BY <1>1, <1>2 DEF Environment, CommitToDatabase, GrowOld, FileGetsTooOld, Files!GetTooOld,
     vars, syncVars, database, files

LEMMA EnvironmentKeeps ==
  ASSUME CacheInvariant, Environment
  PROVE  CacheInvariant'
<1>1. SyncInvariant'
  BY DEF Environment, CacheInvariant, SyncInvariant, TypeOK, Compatible, Possession,
     GetjobPossession, JobPossession, ActivityPossession, OutcomePossession,
     ActivityUnderJob, JobIsExclusive
<1>2. CacheTypes'
  <2>1. Known \subseteq Known' /\ 0 \in Known'
    BY CacheAssumption DEF CacheInvariant, CacheTypes, Known, Environment, Version
  <2>2. meta' \in Known' /\ pickle' \in Known'
    BY <2>1 DEF Environment, CacheInvariant, CacheTypes
  <2>3. /\ last' \in [Proc -> Known']
        /\ task' \in [Proc -> [at : Place, db : Known', ver : Known']]
    BY <2>1 DEF Environment, CacheInvariant, CacheTypes
  <2> QED  BY <2>2, <2>3 DEF Environment, CacheInvariant, CacheTypes
<1>3. ASSUME NEW p \in Proc  PROVE TaskFollows(p)' /\ AttemptIsRight(p)' /\ DebtsAreHeld(p)'
  <2>1. TaskFollows(p)' /\ DebtsAreHeld(p)'
    BY DEF Environment, CacheInvariant, TaskFollows, DebtsAreHeld, At
  <2>2. /\ AttemptIsRight(p) /\ dbVer' \in Nat /\ dbVer <= dbVer'
        /\ (meta' = meta /\ pickle' = pickle) \/ (meta' = 0 /\ pickle' \in {0, pickle})
        /\ last' = last /\ task' = task
    BY CacheAssumption DEF Environment, CacheInvariant, Version
  <2>3. AttemptIsRight(p)'
    BY <2>2, CacheFacts DEF AttemptIsRight, At, MemoryIsBehind
  <2> QED  BY <2>1, <2>3
<1>4. FilesAreAhead'
  BY DEF Environment, CacheInvariant, FilesAreAhead, MemoryIsBehind
<1> QED
  BY <1>1, <1>2, <1>3, <1>4 DEF CacheInvariant

LEMMA AttemptKeeps ==
  ASSUME CacheInvariant, NEW p \in Proc, CacheStep(p)
  PROVE  CacheInvariant'
<1>1. AttemptIsRight(p)' /\ FilesAreAhead'
  BY ChoosingIsRight, UnpicklingIsRight, JobIsRight, ServingIsRight, OtherwiseRight DEF CacheStep
<1>2. \A q \in Proc : AttemptIsRight(q)'
  BY <1>1, OthersRemainRight
<1>3. \A q \in Proc : TaskFollows(q)'
  <2>1. TaskFollows(p)'
    BY AttemptFollows DEF CacheInvariant, SyncInvariant
  <2>2. ASSUME NEW q \in Proc \ {p}  PROVE TaskFollows(q)'
    BY SyncRemains, CacheTypesPreserved DEF CacheInvariant, SyncInvariant, TaskFollows, At
  <2> QED  BY <2>1, <2>2
<1>4. SyncInvariant' /\ CacheTypes'
  BY SyncRemains, CacheTypesPreserved DEF CacheInvariant, SyncInvariant
<1> QED
  BY <1>1, <1>2, <1>3, <1>4, DebtsArePaid DEF CacheInvariant

LEMMA CacheInvariantInitially == CacheInit => CacheInvariant
<1> SUFFICES ASSUME CacheInit  PROVE CacheInvariant
  OBVIOUS
<1>1. SyncInvariant
  BY InitInvariant DEF CacheInit
<1>2. 1 \in Version /\ Known = 0 .. 1
  BY CacheAssumption DEF CacheInit, Version, Known
<1>3. CacheTypes
  BY <1>2 DEF CacheInit, CacheTypes, NoTask, Place
<1>4. \A p \in Proc : TaskFollows(p) /\ AttemptIsRight(p) /\ DebtsAreHeld(p)
  BY DEF CacheInit, Init, TaskFollows, AttemptIsRight, DebtsAreHeld, At, NoTask, Entering, Asking,
     Working, Serving
<1>5. FilesAreAhead
  BY DEF CacheInit, FilesAreAhead
<1> QED  BY <1>1, <1>3, <1>4, <1>5 DEF CacheInvariant

LEMMA CacheInvariantHolds == CacheSpec => []CacheInvariant
<1>1. CacheInvariant /\ [CacheNext]_vars => CacheInvariant'
  BY AttemptKeeps, EnvironmentSteps, EnvironmentKeeps DEF CacheNext, CacheStep
<1> QED
  BY <1>1, CacheInvariantInitially, PTL DEF CacheSpec

(* However many processes share the cache, whatever fails, and however the
   database moves on: an attempt finds nothing that the code takes for impossible, no
   job is done in vain, and who has done one goes on only when those who were
   waiting for it have had their chance. *)
THEOREM AttemptsAlwaysMakeSense == CacheSpec => []AttemptsMakeSense
<1>1. CacheInvariant => NothingUnexpected
  BY NothingToAdjust DEF NothingUnexpected
<1>2. CacheInvariant => JobsAreOfUse
  <2>1. CacheInvariant => NoFutileJob
    BY CacheFacts DEF NoFutileJob, AttemptIsRight
  <2>2. CacheInvariant => OthersServed
    BY DEF CacheInvariant, DebtsAreHeld, OthersServed
  <2> QED  BY <2>1, <2>2 DEF JobsAreOfUse
<1> QED
  BY <1>1, <1>2, CacheInvariantHolds, PTL DEF AttemptsMakeSense

(* And no process replaces its data by older ones. *)
THEOREM NeverGoesBack == CacheSpec => NeverBackInTime
<1> DEFINE Forward(p) == last'[p] < last[p] =>
                           last'[p] = 0 /\ (pc'[p] = "dying" \/ pc'[p] = "rel_outcome")
<1>1. ASSUME CacheInvariant, NEW p \in Proc, CacheStep(p), NEW q \in Proc  PROVE Forward(q)
  <2>1. last'[q] \in Nat /\ last[q] \in Nat
    BY <1>1, CacheFacts, CacheTypesPreserved DEF CacheInvariant, SyncInvariant, CacheTypes, Known
  <2>2. CASE q # p
    BY <1>1, <2>1, <2>2, CacheTypesPreserved DEF CacheInvariant, SyncInvariant
  <2>3. CASE q = p
    <3>1. \/ last[p] <= last'[p]
          \/ last'[p] = 0 /\ pc'[p] \in {"dying", "rel_outcome"}
      <4>1. CASE Choose(p)
        <5>1. last' = [last EXCEPT ![p] = last[p]] \/ last' = last
          BY <4>1 DEF Choose, ReturnNode
        <5> QED  BY <1>1, <2>1, <2>3, <5>1, CacheFacts
      <4>2. CASE Unpickle(p) \/ LetOthersIn(p) \/ ServeOurselves(p)
        BY <1>1, <4>2, UnpicklingIsRight, ServingIsRight
      <4>3. CASE LoadFresh(p) \/ StorePickle(p) \/ StoreMetadata(p)
        BY <1>1, <2>1, <2>3, <4>3, JobIsRight
      <4>4. CASE Begin(p) \/ PeekDatabase(p) \/ Synchronize(p) \/ Break(p) \/ CrashTask(p)
                   \/ AfterCrash(p)
        BY <1>1, <2>1, <2>3, <4>4, OtherwiseRight
      <4> QED  BY <1>1, <4>1, <4>2, <4>3, <4>4 DEF CacheStep
    <3> QED  BY <2>1, <2>3, <3>1
  <2> QED  BY <2>2, <2>3
<1>2. ASSUME CacheInvariant, Environment, NEW q \in Proc  PROVE Forward(q)
  BY <1>2, CacheFacts DEF Environment
<1>3. CacheInvariant /\ [CacheNext]_vars => \A q \in Proc : Forward(q)
  BY <1>1, <1>2, EnvironmentSteps DEF CacheNext, CacheStep
<1>4. CacheInvariant /\ [CacheNext]_vars =>
        [\A p \in Proc : last'[p] < last[p] =>
           last'[p] = 0 /\ (pc'[p] = "dying" \/ pc'[p] = "rel_outcome")]_vars
  BY <1>3
<1> QED
  BY <1>4, CacheInvariantHolds, PTL DEF CacheSpec, NeverBackInTime


-----------------------------------------------------------------------------
(***************************************************************************)
(* That the pickle-file cache keeps what PickleFiles promises, whatever    *)
(* the readers, the versions, the ages and the troubles.                   *)
(*                                                                         *)
(* Two things make it so.  The files are opened in the order opposite to   *)
(* that of their commits, so the metadata never have a later timestamp     *)
(* than the pickle next to them: they get too old first.  And between the  *)
(* commits there is no way out of store_everything() that neither removes  *)
(* the metadata nor is on record as rough.                                 *)
(***************************************************************************)

StorageStep == {"idle", "open", "dump", "sign_pickle", "rename_pickle", "sign_meta",
                "rename_meta", "leave", "remove"}

File == [stamp : Int, ver : Nat, signed : BOOLEAN]

StoreType == [step : StorageStep, ver : Nat, meta : File, pickle : File, half : BOOLEAN]

ReadingType == [step : {"away", "open", "read", "described"}, what : {"meta", "pickle"},
                least : Int, file : File, expected : Nat, disturbed : BOOLEAN]

Types ==
  /\ clock \in Nat
  /\ dir \in [meta : File, pickle : File]
  /\ store \in StoreType
  /\ reading \in [Reader -> ReadingType]
  /\ rough \in BOOLEAN

Complete(file) == file.signed /\ file.ver \in Stored /\ file.stamp >= 0

FilesAreComplete ==
  /\ dir.meta = Missing \/ Complete(dir.meta)
  /\ dir.pickle = Missing \/ Complete(dir.pickle)

(* The timestamps follow each other as the files were opened. *)
InOrder ==
  /\ -1 <= dir.meta.stamp /\ dir.meta.stamp <= dir.pickle.stamp /\ dir.pickle.stamp <= clock
  /\ store.step \in {"open", "dump", "sign_pickle", "rename_pickle"} =>
       dir.pickle.stamp <= store.meta.stamp /\ 0 <= store.meta.stamp /\ store.meta.stamp <= clock
  /\ store.step \in {"dump", "sign_pickle", "rename_pickle", "sign_meta", "rename_meta"} =>
       /\ 0 <= store.meta.stamp /\ store.meta.stamp <= store.pickle.stamp
       /\ store.pickle.stamp <= clock

(* How far store_everything() has come. *)
Progress ==
  /\ ~Storing("idle") => store.ver \in Stored
  /\ store.step \in {"idle", "open", "dump", "sign_pickle", "rename_pickle", "leave"} => ~store.half
  /\ store.step \in {"sign_pickle", "rename_pickle", "sign_meta", "rename_meta"} =>
       store.meta.ver = store.ver /\ store.pickle.ver = store.ver
  /\ Storing("rename_pickle") => store.pickle.signed
  /\ store.step \in {"sign_meta", "rename_meta"} => dir.pickle = store.pickle
  /\ Storing("rename_meta") => store.meta.signed

(* Only between the commits, or after a rough end, do the metadata describe
   another pickle. *)
Matching == (~rough /\ ~store.half /\ dir.meta # Missing) => dir.meta.ver = dir.pickle.ver

(* What a reader that has not been disturbed has been told is still true. *)
Informed(r) ==
  /\ Is(r, "away") => reading[r].what = "meta"
  /\ Is(r, "read") => Complete(reading[r].file)
  /\ (Is(r, "read") /\ reading[r].what = "meta" /\ ~reading[r].disturbed) =>
       reading[r].file.ver = dir.pickle.ver
  /\ (Is(r, "described") /\ ~reading[r].disturbed) => reading[r].expected = dir.pickle.ver
  /\ (Is(r, "open") /\ reading[r].what = "pickle" /\ ~reading[r].disturbed) =>
       reading[r].expected = dir.pickle.ver
  /\ (Is(r, "read") /\ reading[r].what = "pickle" /\ ~reading[r].disturbed) =>
       reading[r].file.ver = reading[r].expected

ReadersInformed == \A r \in Reader : Informed(r)

(* The inductive invariant. *)
Kept == FilesAreComplete /\ InOrder /\ Progress /\ Matching
PickleInvariant == Types /\ Kept /\ ReadersInformed

-----------------------------------------------------------------------------
(* The steps of store_everything(), and those of a reader. *)
Store ==
  \/ \E ver \in Stored : OpenMetadata(ver)
  \/ OpenPickle \/ Dump \/ SignPickle \/ RenamePickle \/ SignMetadata \/ RenameMetadata
  \/ LeaveStore \/ FailStoring \/ RemoveMetadata \/ KillStoring

Read(r) ==
  RetrieveMetadata(r) \/ LeavePickle(r) \/ RetrieveRootNode(r) \/ OpenFile(r) \/ ReadFile(r)

(* What there is when nobody stores or reads. *)
LEMMA AtRest == Missing \in File /\ NoStore \in StoreType /\ Away \in ReadingType
<1>1. Missing \in File
  BY DEF Missing, File
<1>2. NoStore \in StoreType
  BY <1>1 DEF NoStore, StoreType, StorageStep
<1>3. Away \in ReadingType
  BY <1>1 DEF Away, ReadingType
<1> QED  BY <1>1, <1>2, <1>3

(* The invariant holds initially. *)
LEMMA InvariantHoldsFirst == PickleInit => PickleInvariant
<1> SUFFICES ASSUME PickleInit  PROVE PickleInvariant
  OBVIOUS
<1> USE DEF PickleInit
<1>1. Types
  BY AtRest DEF Types
<1>2. FilesAreComplete /\ Matching
  BY DEF FilesAreComplete, Matching
<1>3. InOrder /\ Progress
  BY DEF InOrder, Progress, Storing, NoStore, Missing
<1>4. ReadersInformed
  BY DEF ReadersInformed, Informed, Is, Away
<1> QED  BY <1>1, <1>2, <1>3, <1>4 DEF PickleInvariant, Kept

(* Types are preserved. *)
LEMMA TypesPreserved == Types /\ [PickleNext]_pickleVars => Types'
<1> SUFFICES ASSUME Types, [PickleNext]_pickleVars  PROVE Types'
  OBVIOUS
<1> USE DEF Types
<1>1. CASE Tick
  BY <1>1 DEF Tick
<1>2. ASSUME NEW ver \in Stored, OpenMetadata(ver)  PROVE Types'
  <2>1. Temporary \in File /\ ver \in Nat
    BY PickleAssumption DEF Temporary, File
  <2>2. store' \in StoreType
    BY <1>2, <2>1, AtRest DEF OpenMetadata, NoStore, StoreType, StorageStep
  <2> QED  BY <1>2, <2>2 DEF OpenMetadata
<1>3. CASE OpenPickle
  <2>1. Temporary \in File
    BY DEF Temporary, File
  <2>2. store' \in StoreType
    BY <1>3, <2>1 DEF OpenPickle, StoreType, StorageStep
  <2> QED  BY <1>3, <2>2 DEF OpenPickle
<1>4. CASE Dump
  <2>1. [store.pickle EXCEPT !.ver = store.ver] \in File /\ [store.meta EXCEPT !.ver = store.ver] \in File
    BY DEF StoreType, File
  <2>2. store' = [store EXCEPT !.step = "sign_pickle",
                               !.pickle = [store.pickle EXCEPT !.ver = store.ver],
                               !.meta = [store.meta EXCEPT !.ver = store.ver]]
    BY <1>4 DEF Dump, StoreType
  <2>3. store' \in StoreType
    BY <2>1, <2>2 DEF StoreType, StorageStep
  <2> QED  BY <1>4, <2>3 DEF Dump
<1>5. CASE SignPickle
  <2>1. [store.pickle EXCEPT !.signed = TRUE] \in File
    BY DEF StoreType, File
  <2>2. store' \in StoreType
    BY <1>5, <2>1 DEF SignPickle, Sign, StoreType, StorageStep
  <2> QED  BY <1>5, <2>2 DEF SignPickle, Sign
<1>6. CASE SignMetadata
  <2>1. [store.meta EXCEPT !.signed = TRUE] \in File
    BY DEF StoreType, File
  <2>2. store' \in StoreType
    BY <1>6, <2>1 DEF SignMetadata, Sign, StoreType, StorageStep
  <2> QED  BY <1>6, <2>2 DEF SignMetadata, Sign
<1>7. CASE RenamePickle
  BY <1>7, ZenonT(60) DEF RenamePickle, Is, StoreType, ReadingType, StorageStep
<1>8. CASE RenameMetadata
  BY <1>8 DEF RenameMetadata, StoreType, StorageStep
<1>9. CASE LeaveStore \/ KillStoring
  BY <1>9, AtRest DEF LeaveStore, KillStoring, StoreType
<1>10. CASE FailStoring
  <2>1. [store EXCEPT !.step = "remove"] \in StoreType
    BY DEF StoreType, StorageStep
  <2> QED  BY <1>10, <2>1, AtRest DEF FailStoring
<1>11. CASE RemoveMetadata
  BY <1>11, AtRest DEF RemoveMetadata, StoreType
<1>12. ASSUME NEW r \in Reader, Read(r)  PROVE Types'
  <2>1. reading' \in [Reader -> ReadingType]
    <3>1. CASE LeavePickle(r)
      BY <3>1, AtRest DEF LeavePickle, StopReading
    <3>2. CASE RetrieveMetadata(r) \/ RetrieveRootNode(r)
      <4>1. clock - MaxAge \in Int
        BY PickleAssumption
      <4> QED  BY <3>2, <4>1 DEF RetrieveMetadata, RetrieveRootNode, ReadingType
    <3>3. CASE OpenFile(r)
      <4>1. dir[reading[r].what] \in File
        BY DEF ReadingType
      <4> QED  BY <3>3, <4>1, AtRest DEF OpenFile, StopReading, ReadingType, StoreType
    <3>4. CASE ReadFile(r)
      <4>1. reading[r].file.ver \in Nat
        BY DEF ReadingType, File
      <4> QED  BY <3>4, <4>1, AtRest DEF ReadFile, StopReading, ReadingType
    <3> QED  BY <1>12, <3>1, <3>2, <3>3, <3>4 DEF Read
  <2> QED
    BY <1>12, <2>1 DEF Read, RetrieveMetadata, LeavePickle, RetrieveRootNode, OpenFile, ReadFile
<1> QED
  BY <1>1, <1>2, <1>3, <1>4, <1>5, <1>6, <1>7, <1>8, <1>9, <1>10, <1>11, <1>12
  DEF PickleNext, Read, pickleVars

-----------------------------------------------------------------------------
(* Who reads changes no file. *)
LEMMA ReadingChangesNothing ==
  ASSUME NEW r \in Reader, Read(r)
  PROVE UNCHANGED <<clock, dir, store, rough>>
BY DEF Read, RetrieveMetadata, LeavePickle, RetrieveRootNode, OpenFile, ReadFile

(* The files and what becomes of store_everything(), step by step. *)
LEMMA KeptPreserved == Types /\ Kept /\ [PickleNext]_pickleVars => Kept'
<1> SUFFICES ASSUME Types, Kept, [PickleNext]_pickleVars  PROVE Kept'
  OBVIOUS
<1> USE DEF Kept, FilesAreComplete, InOrder, Progress, Matching
<1>1. CASE Tick
  <2>1. clock < clock' /\ UNCHANGED <<dir, store, rough>>
    BY <1>1 DEF Tick, Types
  <2>2. {dir.meta.stamp, dir.pickle.stamp, store.meta.stamp, store.pickle.stamp, clock, clock'} \subseteq Int
    BY <1>1 DEF Tick, Types, StoreType, File
  <2>3. InOrder'
    BY <2>1, <2>2
  <2> QED  BY <2>1, <2>3 DEF Storing, Complete
<1>2. ASSUME NEW ver \in Stored, OpenMetadata(ver)  PROVE Kept'
  BY <1>2 DEF OpenMetadata, NoStore, Temporary, Storing, Complete, Types
<1>3. CASE OpenPickle
  BY <1>3 DEF OpenPickle, Temporary, Storing, Complete, Types, StoreType
<1>4. CASE Dump
  BY <1>4 DEF Dump, Storing, Complete, Types, StoreType, File
<1>5. CASE SignPickle
  BY <1>5 DEF SignPickle, Sign, Storing, Complete, Types, StoreType, File
<1>6. CASE SignMetadata
  BY <1>6 DEF SignMetadata, Sign, Storing, Complete, Types, StoreType, File
<1>7. CASE RenamePickle
  BY <1>7 DEF RenamePickle, Storing, Complete, Types, StoreType, File
<1>8. CASE RenameMetadata
  BY <1>8 DEF RenameMetadata, Storing, Complete, Types, StoreType, File
<1>9. CASE LeaveStore
  BY <1>9 DEF LeaveStore, Storing, NoStore, Complete, Types, StoreType
<1>10. CASE FailStoring
  BY <1>10 DEF FailStoring, Storing, NoStore, Complete, Types, StoreType
<1>11. CASE RemoveMetadata
  <2>1. store' = NoStore /\ UNCHANGED clock
    BY <1>11 DEF RemoveMetadata
  <2>2. CASE UNCHANGED dir /\ rough' = (rough \/ store.half)
    BY <2>1, <2>2 DEF Storing, NoStore, Complete
  <2>3. CASE dir' = [dir EXCEPT !.meta = Missing]
    <3>1. dir'.meta = Missing /\ dir'.pickle = dir.pickle /\ Missing.stamp = -1
      BY <2>3 DEF Types, Missing
    <3>2. -1 <= dir.pickle.stamp
      BY DEF Types, File
    <3> QED  BY <2>1, <3>1, <3>2 DEF Storing, NoStore, Complete
  <2> QED  BY <1>11, <2>2, <2>3 DEF RemoveMetadata
<1>12. CASE KillStoring
  BY <1>12 DEF KillStoring, Storing, NoStore, Complete, Types, StoreType
<1>13. ASSUME NEW r \in Reader, Read(r)  PROVE Kept'
  BY <1>13, ReadingChangesNothing DEF Storing, Complete
<1> QED
  BY <1>1, <1>2, <1>3, <1>4, <1>5, <1>6, <1>7, <1>8, <1>9, <1>10, <1>11, <1>12, <1>13
  DEF PickleNext, Read, pickleVars, Storing, Complete

(* Nobody is misinformed but by the commit of a pickle, which disturbs everybody. *)
LEMMA ReadersPreserved == PickleInvariant /\ [PickleNext]_pickleVars => ReadersInformed'
<1> SUFFICES ASSUME PickleInvariant, [PickleNext]_pickleVars, NEW r \in Reader
             PROVE Informed(r)'
  BY DEF ReadersInformed
<1> USE DEF PickleInvariant, ReadersInformed, Informed, Types, Is, Complete
<1>1. CASE UNCHANGED <<reading, dir.pickle>>
  BY <1>1
<1>2. CASE RenamePickle
  BY <1>2 DEF RenamePickle, ReadingType
<1>3. ASSUME NEW q \in Reader, Read(q), q # r  PROVE Informed(r)'
  <2>1. reading'[r] = reading[r]
    BY <1>3 DEF Read, RetrieveMetadata, LeavePickle, RetrieveRootNode, OpenFile, ReadFile, StopReading
  <2> QED  BY <1>3, <2>1, ReadingChangesNothing
<1>4. CASE RetrieveMetadata(r) \/ LeavePickle(r) \/ RetrieveRootNode(r)
  <2>1. CASE RetrieveMetadata(r)
    BY <2>1 DEF RetrieveMetadata, ReadingType
  <2>2. CASE LeavePickle(r)
    BY <2>2 DEF LeavePickle, StopReading, Away
  <2>3. CASE RetrieveRootNode(r)
    BY <2>3 DEF RetrieveRootNode, ReadingType
  <2> QED  BY <1>4, <2>1, <2>2, <2>3
<1>5. CASE OpenFile(r)
  <2>1. CASE reading[r].what = "meta"
    BY <1>5, <2>1 DEF OpenFile, StopReading, Away, ReadingType, Kept, FilesAreComplete, Matching, StoreType
  <2>2. CASE reading[r].what = "pickle"
    BY <1>5, <2>2 DEF OpenFile, StopReading, Away, ReadingType, Kept, FilesAreComplete
  <2> QED  BY <2>1, <2>2 DEF ReadingType
<1>6. CASE ReadFile(r)
  BY <1>6 DEF ReadFile, StopReading, Away, ReadingType
<1>7. CASE Tick \/ Store
  BY <1>1, <1>2, <1>7 DEF Tick, Store, OpenMetadata, OpenPickle, Dump, SignPickle, SignMetadata,
     Sign, RenameMetadata, LeaveStore, FailStoring, RemoveMetadata, KillStoring
<1> QED
  BY <1>1, <1>2, <1>3, <1>4, <1>5, <1>6, <1>7 DEF PickleNext, Store, Read, pickleVars

LEMMA InvariantPreserved == PickleInvariant /\ [PickleNext]_pickleVars => PickleInvariant'
BY TypesPreserved, KeptPreserved, ReadersPreserved DEF PickleInvariant

LEMMA PickleInvariantHolds == PickleSpec => []PickleInvariant
BY InvariantHoldsFirst, InvariantPreserved, PTL DEF PickleSpec

-----------------------------------------------------------------------------
(* An exception while the files are being stored leaves no metadata that
   describe another pickle; and who reads the files while they are replaced
   gets complete ones, and the pickle that the metadata have announced unless
   another has been committed meanwhile, or there has been a rough end. *)
THEOREM RetrievedAsStoredHolds == PickleSpec => []RetrievedAsStored
<1>1. PickleInvariant => RetrievedAsStored
  <2> SUFFICES ASSUME PickleInvariant  PROVE NoMismatch /\ ReadAsStored
    BY DEF RetrievedAsStored
  <2>1. NoMismatch
    BY DEF PickleInvariant, Kept, Progress, Matching, NoMismatch, Storing
  <2>2. ReadAsStored
    BY DEF PickleInvariant, ReadersInformed, Informed, Complete, ReadAsStored, Types, ReadingType
  <2> QED  BY <2>1, <2>2
<1> QED  BY <1>1, PickleInvariantHolds, PTL

-----------------------------------------------------------------------------
(* Although the files are stored step by step, and any step may fail or be the
   last one, those who use them are shown the pickle and then its metadata, or
   the loss of the metadata; and of the two, never the metadata alone. *)
THEOREM StoredAtOnceHolds == PickleSpec => StoredAtOnce
<1> DEFINE ShownMeta == Shown("meta")
           ShownPickle == Shown("pickle")
<1>1. PickleInit => Promised!FilesInit
  BY DEF PickleInit, Promised!FilesInit, Shown, Missing
<1>2. PickleInvariant /\ [PickleNext]_pickleVars => [Promised!FilesNext]_Promised!files
  <2> SUFFICES ASSUME PickleInvariant, [PickleNext]_pickleVars
               PROVE Promised!FilesNext \/ UNCHANGED <<ShownMeta, ShownPickle>>
    BY DEF Promised!files
  <2> USE DEF PickleInvariant, Shown
  <2>0. /\ {dir.meta.stamp, dir.pickle.stamp, clock, MaxAge} \subseteq Int
        /\ dir.meta.stamp <= dir.pickle.stamp
    BY PickleAssumption DEF Types, File, Kept, InOrder
  <2>1. CASE UNCHANGED <<clock, dir>>
    BY <2>1
  <2>2. CASE Tick
    <3>1. clock' = clock + 1 /\ UNCHANGED dir
      BY <2>2 DEF Tick
    <3>2. CASE dir.meta.stamp >= clock' - MaxAge
      BY <2>0, <3>1, <3>2
    <3>3. CASE dir.meta.stamp < clock' - MaxAge
      <4>1. ShownMeta' = 0 /\ ShownPickle' \in {0, ShownPickle}
        BY <2>0, <3>1, <3>3
      <4> QED  BY <4>1 DEF Promised!FilesNext, Promised!GetTooOld
    <3> QED  BY <2>0, <3>1, <3>2, <3>3
  <2>3. CASE RenamePickle
    <3>1. /\ UNCHANGED clock /\ dir'.meta = dir.meta /\ dir'.pickle = store.pickle
          /\ dir.pickle.stamp <= store.pickle.stamp /\ store.pickle.ver \in Stored
          /\ store.pickle.stamp \in Int
      BY <2>3 DEF RenamePickle, Kept, InOrder, Progress, Types, StoreType, File, Storing
    <3>2. CASE store.pickle.stamp >= clock - MaxAge
      BY <3>1, <3>2 DEF Promised!FilesNext, Promised!WritePickle
    <3>3. CASE store.pickle.stamp < clock - MaxAge
      BY <2>0, <3>1, <3>3
    <3> QED  BY <2>0, <3>1, <3>2, <3>3
  <2>4. CASE RenameMetadata
    <3>1. /\ UNCHANGED clock /\ dir'.meta = store.meta /\ dir'.pickle = dir.pickle
          /\ store.meta.stamp <= dir.pickle.stamp /\ store.meta.ver = dir.pickle.ver
          /\ store.meta.stamp \in Int
      BY <2>4 DEF RenameMetadata, Kept, InOrder, Progress, Types, StoreType, File, Storing
    <3>2. CASE store.meta.stamp >= clock - MaxAge
      BY <2>0, <3>1, <3>2 DEF Promised!FilesNext, Promised!WriteMetadata
    <3>3. CASE store.meta.stamp < clock - MaxAge
      <4>1. ShownMeta' = 0 /\ UNCHANGED ShownPickle
        BY <2>0, <3>1, <3>3
      <4> QED  BY <4>1 DEF Promised!FilesNext, Promised!RemoveMetadata
    <3> QED  BY <2>0, <3>1, <3>2, <3>3
  <2>5. CASE RemoveMetadata
    <3>1. UNCHANGED clock /\ dir' \in {dir, [dir EXCEPT !.meta = Missing]}
      BY <2>5 DEF RemoveMetadata
    <3>2. CASE dir' = [dir EXCEPT !.meta = Missing]
      <4>1. ShownMeta' = 0 /\ UNCHANGED ShownPickle
        BY <3>1, <3>2 DEF Missing, Types
      <4> QED  BY <4>1 DEF Promised!FilesNext, Promised!RemoveMetadata
    <3> QED  BY <2>1, <3>1, <3>2
  <2>6. ASSUME NEW r \in Reader, Read(r)  PROVE UNCHANGED <<clock, dir>>
    BY <2>6, ReadingChangesNothing
  <2> QED
    BY <2>1, <2>2, <2>3, <2>4, <2>5, <2>6
    DEF PickleNext, Read, pickleVars, OpenMetadata, OpenPickle, Dump, SignPickle, SignMetadata, Sign,
      LeaveStore, FailStoring, KillStoring
<1> QED
  BY <1>1, <1>2, PickleInvariantHolds, PTL DEF PickleSpec, StoredAtOnce, Promised!FilesSpec

=============================================================================
