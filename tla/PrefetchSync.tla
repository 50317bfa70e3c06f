---------------------------- MODULE PrefetchSync ----------------------------
(***************************************************************************)
(* The interprocess synchronizer of Auth API prefetching                   *)
(* (N6Lib/n6lib/auth_api.py: _InterprocessPrefetchingSynchronizer over     *)
(* _FileBasedInterprocessLock).                                            *)
(*                                                                         *)
(* Processes that share one pickle-file cache run their prefetching        *)
(* attempts inside `with synchronizer:`.  Four flock(2) locks decide which *)
(* of them does the job of loading and pickling fresh data, make the       *)
(* others wait for the outcome, and make the one that did the job wait     *)
(* until the others have had a chance to unpickle it.                      *)
(*                                                                         *)
(* What a process does inside the `with` block is left open here (it may   *)
(* leave, or ask for the job); PrefetchCache fills that in.                *)
(***************************************************************************)

CONSTANTS
  Proc,     (* The processes that share the cache directory.               *)
  Faults    (* The kinds of faults that may happen, a subset of FaultKind. *)

FaultKind == {"exception", "crash"}

ASSUME FaultsAssumption == Faults \subseteq FaultKind

VARIABLES
  held,  (* held[p][l]: the mode in which p holds the flock of lock file l. *)
  pc     (* pc[p]: the point that p has reached in the synchronizer's code. *)

syncVars == <<held, pc>>

Lock == {"GETJOB", "JOB", "ACTIVITY", "OUTCOME"}

Mode == {"none", "shared", "exclusive"}

NoLocks == [l \in Lock |-> "none"]

(***************************************************************************)
(* The control points, by the method they belong to.                       *)
(*   Entering  __enter__() ("late_": the JOB lock was not available)       *)
(*   Asking    designate_loading_and_pickling_job()                        *)
(*   Working   from the exclusive ACTIVITY lock to the release of JOB      *)
(*   Serving   the end of wait_giving_others_chance_to_unpickle()          *)
(*   Leaving   _release_all_locks(), in __exit__() or after an exception   *)
(***************************************************************************)
Entering == {"enter_getjob", "enter_job", "enter_activity", "enter_reljob",
             "enter_relgetjob", "late_relgetjob", "late_outcome", "late_job",
             "late_activity", "late_reljob"}

Asking == {"ask_getjob", "ask_job", "lost_relgetjob",
           "won_relgetjob", "won_switch", "won_activity"}

Working == {"won_switchback", "won_shared", "job", "pause"}

Serving == {"serve_outcome", "serve_reloutcome"}

Leaving == {"rel_outcome", "rel_activity", "rel_job", "rel_getjob"}

(* Between __enter__() and __exit__(), or on the way in or out. *)
Engaged == Entering \cup {"inside"} \cup Asking \cup Working \cup Serving \cup Leaving

Point == {"idle"} \cup Engaged \cup {"dying", "dead"}

(***************************************************************************)
(* flock(2): a shared lock conflicts with an exclusive one, an exclusive   *)
(* lock with any.  The kernel keeps no queue that favours writers: any     *)
(* compatible request may be granted, whoever has been waiting.            *)
(***************************************************************************)
Grantable(p, l, mode) ==
  \A q \in Proc \ {p} :
    /\ held[q][l] # "exclusive"
    /\ mode = "exclusive" => held[q][l] = "none"

(* acquire(): blocks until the lock is granted. *)
Acquire(p, l, mode) ==
  /\ Grantable(p, l, mode)
  /\ held' = [held EXCEPT ![p][l] = mode]

(* release(), and the kernel's half of acquire() that gives up the old mode
   of a lock before it asks for the new one (the switch is not atomic). *)
Release(p, l) == held' = [held EXCEPT ![p][l] = "none"]

Goto(p, from, to) ==
  /\ pc[p] = from
  /\ pc' = [pc EXCEPT ![p] = to]

Init ==
  /\ held = [p \in Proc |-> NoLocks]
  /\ pc = [p \in Proc |-> "idle"]

-----------------------------------------------------------------------------
(* __enter__().  Its forced cleanup of locks left over from an improper exit
   is not modelled: AssertionsHold shows that it never has work to do. *)

StartEntering(p) ==
  /\ Goto(p, "idle", "enter_getjob")
  /\ UNCHANGED held

EnterAcquireGetjob(p) ==
  /\ Goto(p, "enter_getjob", "enter_job")
  /\ Acquire(p, "GETJOB", "shared")

EnterWithoutJob(p) ==
  /\ Goto(p, "enter_job", "enter_activity")
  /\ UNCHANGED held

EnterTryJob(p) ==
  \/ /\ Goto(p, "enter_job", "enter_activity")
     /\ Acquire(p, "JOB", "shared")
  \/ /\ Goto(p, "enter_job", "late_relgetjob")
     /\ ~Grantable(p, "JOB", "shared")
     /\ UNCHANGED held

(* _activity_lock_acquire_in_shared_mode_immediately() raises RuntimeError
   when the lock is not to be had without blocking. *)
AcquireActivityImmediately(p, from, to) ==
  \/ /\ Goto(p, from, to)
     /\ Acquire(p, "ACTIVITY", "shared")
  \/ /\ Goto(p, from, "rel_outcome")
     /\ ~Grantable(p, "ACTIVITY", "shared")
     /\ UNCHANGED held

EnterAcquireActivity(p) ==
  AcquireActivityImmediately(p, "enter_activity", "enter_reljob")

EnterReleaseJob(p) ==
  /\ Goto(p, "enter_reljob", "enter_relgetjob")
  /\ Release(p, "JOB")

EnterReleaseGetjob(p) ==
  /\ Goto(p, "enter_relgetjob", "inside")
  /\ Release(p, "GETJOB")

LateReleaseGetjob(p) ==
  /\ Goto(p, "late_relgetjob", "late_outcome")
  /\ Release(p, "GETJOB")

LateAcquireOutcome(p) ==
  /\ Goto(p, "late_outcome", "late_job")
  /\ Acquire(p, "OUTCOME", "shared")

LateAcquireJob(p) ==
  /\ Goto(p, "late_job", "late_activity")
  /\ Acquire(p, "JOB", "shared")

LateAcquireActivity(p) ==
  AcquireActivityImmediately(p, "late_activity", "late_reljob")

LateKeepJob(p) ==
  /\ Goto(p, "late_reljob", "inside")
  /\ UNCHANGED held

LateReleaseJob(p) ==
  /\ Goto(p, "late_reljob", "inside")
  /\ Release(p, "JOB")

Enter(p) ==
  \/ EnterAcquireGetjob(p) \/ EnterTryJob(p) \/ EnterAcquireActivity(p)
  \/ EnterReleaseJob(p) \/ EnterReleaseGetjob(p) \/ LateReleaseGetjob(p)
  \/ LateAcquireOutcome(p) \/ LateAcquireJob(p) \/ LateAcquireActivity(p)
  \/ LateReleaseJob(p)

-----------------------------------------------------------------------------
(* designate_loading_and_pickling_job(). *)

StartAsking(p) ==
  /\ Goto(p, "inside", "ask_getjob")
  /\ Release(p, "OUTCOME")

AskAcquireGetjob(p) ==
  /\ Goto(p, "ask_getjob", "ask_job")
  /\ Acquire(p, "GETJOB", "exclusive")

AskTryJob(p) ==
  \/ /\ Goto(p, "ask_job", "won_relgetjob")
     /\ Acquire(p, "JOB", "exclusive")
  \/ /\ Goto(p, "ask_job", "lost_relgetjob")
     /\ ~Grantable(p, "JOB", "exclusive")
     /\ UNCHANGED held

LostReleaseGetjob(p) ==
  /\ Goto(p, "lost_relgetjob", "rel_outcome")
  /\ Release(p, "GETJOB")

WonReleaseGetjob(p) ==
  /\ Goto(p, "won_relgetjob", "won_switch")
  /\ Release(p, "GETJOB")

WonDropShared(p) ==
  /\ Goto(p, "won_switch", "won_activity")
  /\ Release(p, "ACTIVITY")

WonAcquireActivity(p) ==
  /\ Goto(p, "won_activity", "won_switchback")
  /\ Acquire(p, "ACTIVITY", "exclusive")

WonDropExclusive(p) ==
  /\ Goto(p, "won_switchback", "won_shared")
  /\ Release(p, "ACTIVITY")

WonReacquireShared(p) ==
  /\ Goto(p, "won_shared", "job")
  /\ Acquire(p, "ACTIVITY", "shared")

Ask(p) ==
  \/ AskAcquireGetjob(p) \/ AskTryJob(p) \/ LostReleaseGetjob(p)
  \/ WonReleaseGetjob(p) \/ WonDropShared(p) \/ WonAcquireActivity(p)
  \/ WonDropExclusive(p) \/ WonReacquireShared(p)

-----------------------------------------------------------------------------
(* wait_giving_others_chance_to_unpickle(). *)

FinishJob(p) ==
  /\ Goto(p, "job", "pause")
  /\ UNCHANGED held

ServeKeepingJob(p) ==
  /\ Goto(p, "pause", "serve_outcome")
  /\ UNCHANGED held

ServeReleaseJob(p) ==
  /\ Goto(p, "pause", "serve_outcome")
  /\ Release(p, "JOB")

ServeWithoutWaiting(p) ==
  /\ Goto(p, "serve_outcome", "serve_reloutcome")
  /\ UNCHANGED held

ServeAcquireOutcome(p) ==
  /\ Goto(p, "serve_outcome", "serve_reloutcome")
  /\ Acquire(p, "OUTCOME", "exclusive")

ServeReleaseOutcome(p) ==
  /\ Goto(p, "serve_reloutcome", "rel_outcome")
  /\ Release(p, "OUTCOME")

Serve(p) ==
  ServeReleaseJob(p) \/ ServeAcquireOutcome(p) \/ ServeReleaseOutcome(p)

-----------------------------------------------------------------------------
(* __exit__() and _release_all_locks(). *)

StartLeaving(p) ==
  /\ Goto(p, "inside", "rel_outcome")
  /\ UNCHANGED held

ReleaseOutcome(p) ==
  /\ Goto(p, "rel_outcome", "rel_activity")
  /\ Release(p, "OUTCOME")

ReleaseActivity(p) ==
  /\ Goto(p, "rel_activity", "rel_job")
  /\ Release(p, "ACTIVITY")

ReleaseJob(p) ==
  /\ Goto(p, "rel_job", "rel_getjob")
  /\ Release(p, "JOB")

ReleaseGetjob(p) ==
  /\ Goto(p, "rel_getjob", "idle")
  /\ Release(p, "GETJOB")

Leave(p) ==
  ReleaseOutcome(p) \/ ReleaseActivity(p) \/ ReleaseJob(p) \/ ReleaseGetjob(p)

-----------------------------------------------------------------------------
(* An exception raised at any point of the `with` statement (an OSError of
   flock or open, or any error of the body) makes the process release all its
   locks on the way out. *)
Raise(p) ==
  /\ "exception" \in Faults
  /\ pc[p] \in Engaged \ Leaving
  /\ pc' = [pc EXCEPT ![p] = "rel_outcome"]
  /\ UNCHANGED held

(* A process that is killed releases nothing itself: the kernel closes its
   files one by one, in the order of their descriptors. *)
Crash(p) ==
  /\ "crash" \in Faults
  /\ pc[p] \in {"idle"} \cup Engaged
  /\ pc' = [pc EXCEPT ![p] = "dying"]
  /\ UNCHANGED held

KernelCloses(p, l) ==
  /\ pc[p] = "dying"
  /\ held[p][l] # "none"
  /\ Release(p, l)
  /\ UNCHANGED pc

Vanish(p) ==
  /\ held[p] = NoLocks
  /\ Goto(p, "dying", "dead")
  /\ UNCHANGED held

Restart(p) ==
  /\ Goto(p, "dead", "idle")
  /\ UNCHANGED held

Die(p) == (\E l \in Lock : KernelCloses(p, l)) \/ Vanish(p)

-----------------------------------------------------------------------------
(* The steps that need no decision: those of the synchronizer's own code. *)
Proceed(p) == Enter(p) \/ Ask(p) \/ Serve(p) \/ Leave(p)

(* The steps that the prefetching task decides on. *)
Decide(p) == StartEntering(p) \/ StartAsking(p) \/ FinishJob(p) \/ StartLeaving(p)

Fail(p) == Raise(p) \/ Crash(p) \/ Die(p) \/ Restart(p)

Next == \E p \in Proc : Proceed(p) \/ Decide(p) \/ Fail(p)

Spec == Init /\ [][Next]_syncVars

(***************************************************************************)
(* Every process goes on executing its code, so that a lock which stays    *)
(* available is acquired in the end.  More is assumed of the two locks     *)
(* that are held only for moments, GETJOB, and OUTCOME in exclusive mode:  *)
(* who waits for them is not passed over each time they are released.      *)
(* Nothing of that kind is assumed of the JOB and ACTIVITY locks.          *)
(***************************************************************************)
Fairness ==
  \A p \in Proc :
    /\ WF_syncVars(Proceed(p))
    /\ SF_syncVars(EnterAcquireGetjob(p) \/ AskAcquireGetjob(p) \/ LateAcquireOutcome(p))
    /\ WF_syncVars(FinishJob(p) \/ StartLeaving(p))
    /\ WF_syncVars(Die(p))

FairSpec == Spec /\ Fairness

-----------------------------------------------------------------------------
(* Every lock is held in a mode of flock(2), every process is at a point of
   the code. *)
TypeOK ==
  /\ held \in [Proc -> [Lock -> Mode]]
  /\ pc \in [Proc -> Point]

(* The points between the acquisition of the ACTIVITY lock in __enter__()
   and its release, dying processes apart. *)
Inside == {"enter_reljob", "enter_relgetjob", "late_reljob", "inside"}
            \cup Asking \cup Working \cup Serving

(* "None of the other engaged processes can be here now, only us": while a
   process works, no other is past the acquisition of the ACTIVITY lock in
   __enter__() and short of its release in __exit__(); so none reads the
   pickle files or does the same job. *)
JobIsExclusive ==
  \A p \in Proc, q \in Proc :
    p # q /\ pc[p] \in Working => pc[q] \notin Inside

(* The ACTIVITY lock "should have been able to be acquired without blocking":
   at the point where __enter__() asks for it, no live process has it
   exclusively.  Only the remains of a killed process can be in the way. *)
ActivityIsImmediate ==
  \A p \in Proc, q \in Proc :
    /\ p # q
    /\ pc[p] \in {"enter_activity", "late_activity"}
    /\ held[q]["ACTIVITY"] = "exclusive"
    => pc[q] = "dying"

(* The assertions at the starts and the ends of the synchronizer's methods;
   that of __enter__() also says that its forced cleanup of locks left over
   from an improper exit never has anything to clean up. *)
MethodsFindTheirLocks ==
  \A p \in Proc :
    /\ pc[p] \in {"idle", "enter_getjob", "dead"} => held[p] = NoLocks
    /\ pc[p] = "inside" =>
         /\ held[p]["GETJOB"] = "none" /\ held[p]["JOB"] = "none"
         /\ held[p]["ACTIVITY"] = "shared" /\ held[p]["OUTCOME"] # "exclusive"
    /\ pc[p] \in {"job", "pause"} =>
         /\ held[p]["GETJOB"] = "none" /\ held[p]["JOB"] = "exclusive"
         /\ held[p]["ACTIVITY"] = "shared" /\ held[p]["OUTCOME"] = "none"

(* What the synchronizer asserts, or raises RuntimeError about, is true. *)
AssertionsHold == MethodsFindTheirLocks /\ ActivityIsImmediate

(* The lock and the mode that a process waits for at the points where it may
   be blocked. *)
Wanted == [enter_getjob  |-> <<"GETJOB", "shared">>,
           late_outcome  |-> <<"OUTCOME", "shared">>,
           late_job      |-> <<"JOB", "shared">>,
           ask_getjob    |-> <<"GETJOB", "exclusive">>,
           won_activity  |-> <<"ACTIVITY", "exclusive">>,
           won_shared    |-> <<"ACTIVITY", "shared">>,
           serve_outcome |-> <<"OUTCOME", "exclusive">>]

(* The processes whose locks keep p waiting. *)
Blockers(p) ==
  IF pc[p] \notin DOMAIN Wanted THEN {}
  ELSE LET l    == Wanted[pc[p]][1]
           mode == Wanted[pc[p]][2]
       IN  {q \in Proc \ {p} :
              \/ held[q][l] = "exclusive"
              \/ held[q][l] = "shared" /\ mode = "exclusive"}

(* No processes wait for each other in a circle: each of the blocking calls
   of the synchronizer ends when "each of those processes is outside its
   synchronizer's `with` block -- either sleeping ... or already being
   blocked in its synchronizer's __enter__()". *)
NoCircularWait ==
  \A S \in SUBSET Proc \ {{}} : \E p \in S : Blockers(p) \cap S = {}

(* The refinement mapping to PrefetchJob. *)
phase ==
  [p \in Proc |-> IF pc[p] \in Working THEN "job"
                 ELSE IF pc[p] \in Inside THEN "in" ELSE "out"]

Job == INSTANCE PrefetchJob

(* The four locks keep the promise of PrefetchJob, whatever fails: the files
   are used by many or replaced by one. *)
ImplementsJob == Job!Spec

(* p is on its way out because of an error, or has been killed. *)
GoneWrong(p) == pc[p] \in Leaving \cup {"dying"}

(* Sooner or later nothing fails any more.  (An exception raised inside the
   `with` block looks like a normal exit.) *)
FaultsCease ==
  <>[][\A p \in Proc : ~Crash(p) /\ (Raise(p) => pc[p] = "inside")]_syncVars

(* A process that has started to enter gets into the `with` block: nobody keeps
   it waiting for ever, whatever the failures were.  "...let us wait until they
   unpickle": nor does the process that did the job wait for ever for the
   others, and nobody keeps its locks. *)
NobodyWaitsForEver ==
  FaultsCease => \A p \in Proc :
    /\ pc[p] \in Entering ~> pc[p] \in Inside \/ GoneWrong(p)
    /\ pc[p] \in Serving ~> held[p] = NoLocks

=============================================================================
