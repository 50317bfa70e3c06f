------------------------ MODULE ThreadedPusherProofs ------------------------
(***************************************************************************)
(* The theorems about ThreadedPusher, for any numbers of pushing and       *)
(* closing threads, of connection attempts and of places in the fifo.      *)
(***************************************************************************)
EXTENDS ThreadedPusher, TLAPS

Result == {"none", "ok", "error"}
ThreadState == [at : ThreadPoint, hand : Nat, failures : Nat]
CloserState == [at : CloserPoint, result : Result, past : Seq(Result)]

PusherTypeOK ==
  /\ publishing \in BOOLEAN /\ shutdownInitiated \in BOOLEAN
  /\ connectionClosed \in BOOLEAN /\ indicator \in BOOLEAN
  /\ fifo \in Seq(Nat) /\ accepted \in Nat
  /\ lock \in [Lock -> LockState] /\ link \in {"up", "down"}
  /\ thread \in ThreadState
  /\ pusher \in [Pusher -> PusherPoint]
  /\ closer \in [Closer -> CloserState]
  /\ fate \in Seq(Fate) /\ sent \in Seq(Nat)

-----------------------------------------------------------------------------
(* The steps of the kinds of threads *)

CloserStep(c) == CloseBegin(c) \/ CloserTakes(c) \/ CloserRuns(c)
ThreadStep == ThreadRuns \/ LogLock

LEMMA TypesInitially == PusherInit => PusherTypeOK
<1> SUFFICES ASSUME PusherInit  PROVE PusherTypeOK
  OBVIOUS
<1>1. [at |-> "out", result |-> "none", past |-> <<>>] \in CloserState
  BY DEF CloserState, CloserPoint, Result
<1>2. closer \in [Closer -> CloserState]
  BY <1>1 DEF PusherInit
<1>3. fifo \in Seq(Nat) /\ fate \in Seq(Fate) /\ sent \in Seq(Nat)
  BY DEF PusherInit
<1>4. thread \in ThreadState
  BY DEF PusherInit, ThreadState, ThreadPoint
<1> QED
  BY <1>2, <1>3, <1>4 DEF PusherInit, PusherTypeOK, Lock, LockState, PusherPoint

LEMMA TypesKeptByPush ==
  ASSUME PusherTypeOK, NEW p \in Pusher, Push(p)
  PROVE  PusherTypeOK'
<1> USE DEF PusherTypeOK, Push, PusherGoes, flags, history, Take, Release, PutMessage,
            Lock, LockState, PusherPoint
<1>1. fifo' \in Seq(Nat) /\ accepted' \in Nat
  <2>1. (fifo' = fifo /\ accepted' = accepted)
        \/ (fifo' = Append(fifo, accepted + 1) /\ accepted' = accepted + 1)
    BY DEF PushBegin, PushLock, PushCheck, PushPut
  <2>2. fifo \in Seq(Nat) /\ accepted \in Nat
    OBVIOUS
  <2> QED  BY ONLY <2>1, <2>2
<1>2. pusher' \in [Pusher -> PusherPoint] /\ lock' \in [Lock -> LockState]
  BY DEF PushBegin, PushLock, PushCheck, PushPut
<1>3. UNCHANGED <<flags, link, thread, closer, history>>
  BY DEF PushBegin, PushLock, PushCheck, PushPut
<1> QED
  BY <1>1, <1>2, <1>3

(* How a step of shutdown() moves its thread. *)
LEMMA CloserMoves ==
  ASSUME PusherTypeOK, NEW c \in Closer, CloserStep(c)
  PROVE  /\ UNCHANGED <<thread, pusher, accepted, history>>
         /\ \E state \in CloserState : closer' = [closer EXCEPT ![c] = state]
<1> USE DEF CloserStep, CloserTakes, CloserRuns, CloserPoint, CloserState, Result
<1>0. closer[c] \in CloserState /\ closer \in [Closer -> CloserState]
  BY DEF PusherTypeOK
<1>1. ASSUME NEW from \in CloserPoint, NEW to \in CloserPoint, CloserGoes(c, from, to)
      PROVE  /\ UNCHANGED <<thread, pusher, accepted, history>>
             /\ \E state \in CloserState : closer' = [closer EXCEPT ![c] = state]
  <2>1. [closer[c] EXCEPT !.at = to] \in CloserState
    BY <1>0
  <2> QED  BY <1>0, <1>1, <2>1 DEF CloserGoes
<1>2. ASSUME NEW from, NEW result \in Result, CloserReturns(c, from, result)
      PROVE  /\ UNCHANGED <<thread, pusher, accepted, history>>
             /\ \E state \in CloserState : closer' = [closer EXCEPT ![c] = state]
  <2>0. Append(closer[c].past, result) \in Seq(Result)
    BY <1>0
  <2>1. [at |-> "out", result |-> "none", past |-> Append(closer[c].past, result)] \in CloserState
    BY <2>0
  <2> QED  BY <1>0, <1>2, <2>1 DEF CloserReturns
<1>3. CASE CheckStateAfterStop(c)
  <2>1. PICK result \in {"ok", "error"} :
          closer' = [closer EXCEPT ![c].at = "lock_connection", ![c].result = result]
    BY <1>3 DEF CheckStateAfterStop
  <2>2. [closer[c] EXCEPT !.at = "lock_connection", !.result = result] \in CloserState
    BY <1>0
  <2>3. closer' = [closer EXCEPT ![c] = [closer[c] EXCEPT !.at = "lock_connection", !.result = result]]
    BY <1>0, <2>1, Zenon
  <2> QED  BY <1>3, <2>2, <2>3 DEF CheckStateAfterStop
<1>4. CASE SkipClosing(c) \/ ConnectionLockTimesOut(c) \/ CloseEnd(c)
  BY <1>0, <1>2, <1>4 DEF SkipClosing, ConnectionLockTimesOut, CloseEnd
<1>5. CASE CloseBegin(c) \/ CloserTakes(c) \/ StopPublishing(c) \/ WakeThread(c) \/ ClearIndicator(c)
           \/ JoinThread(c) \/ JoinTimesOut(c) \/ CloseConnection(c)
  BY <1>1, <1>5
  DEF CloseBegin, CloseLockShutdown, CloseLockPush, CloseLockConnection, StopPublishing,
      WakeThread, ClearIndicator, JoinThread, JoinTimesOut, CloseConnection
<1> QED
  BY <1>3, <1>4, <1>5

LEMMA TypesKeptByClosers ==
  ASSUME PusherTypeOK, NEW c \in Closer, CloserStep(c)
  PROVE  PusherTypeOK'
<1> USE DEF CloserStep, CloserTakes, CloserRuns, CloserGoes, CloserReturns, Take, Release,
            CloseBegin, CloseLockShutdown, CloseLockPush, CloseLockConnection,
            StopPublishing, WakeThread, ClearIndicator, JoinThread, JoinTimesOut,
            CheckStateAfterStop, SkipClosing, ConnectionLockTimesOut, CloseConnection,
            CloseEnd, flags, history
<1>1. /\ publishing' \in BOOLEAN /\ shutdownInitiated' \in BOOLEAN
      /\ connectionClosed' \in BOOLEAN /\ indicator' \in BOOLEAN
      /\ link' \in {"up", "down"}
  BY DEF PusherTypeOK
<1>2. lock' \in [Lock -> LockState]
  BY DEF PusherTypeOK, Lock, LockState
<1>3. fifo' \in Seq(Nat)
  <2>1. fifo' = fifo \/ fifo' = Append(fifo, WakeUp)
    OBVIOUS
  <2>2. fifo \in Seq(Nat) /\ WakeUp \in Nat
    BY DEF PusherTypeOK, WakeUp
  <2> QED  BY ONLY <2>1, <2>2
<1>4. closer' \in [Closer -> CloserState] /\ UNCHANGED <<thread, pusher, accepted, history>>
  BY CloserMoves DEF PusherTypeOK
<1> QED
  BY <1>1, <1>2, <1>3, <1>4 DEF PusherTypeOK

LEMMA ThreadStates ==
  ASSUME NEW state \in ThreadState
  PROVE  /\ \A to \in ThreadPoint : /\ [state EXCEPT !.at = to] \in ThreadState
                                    /\ [at |-> to, hand |-> 0, failures |-> 0] \in ThreadState
                                    /\ [state EXCEPT !.at = to, !.failures = 0] \in ThreadState
         /\ \A n \in Nat : [state EXCEPT !.at = "serialize", !.hand = n] \in ThreadState
         /\ [state EXCEPT !.failures = @ + 1] \in ThreadState
<1> USE DEF ThreadState
<1>1. ASSUME NEW to \in ThreadPoint
      PROVE  /\ [state EXCEPT !.at = to] \in ThreadState
             /\ [at |-> to, hand |-> 0, failures |-> 0] \in ThreadState
             /\ [state EXCEPT !.at = to, !.failures = 0] \in ThreadState
  <2>1. [state EXCEPT !.at = to] \in ThreadState
    OBVIOUS
  <2>2. [at |-> to, hand |-> 0, failures |-> 0] \in ThreadState
    OBVIOUS
  <2>3. [state EXCEPT !.at = to, !.failures = 0] \in ThreadState
    OBVIOUS
  <2> QED  BY <2>1, <2>2, <2>3
<1>2. ASSUME NEW n \in Nat  PROVE [state EXCEPT !.at = "serialize", !.hand = n] \in ThreadState
  BY DEF ThreadPoint
<1>3. [state EXCEPT !.failures = @ + 1] \in ThreadState
  OBVIOUS
<1> QED
  BY <1>1, <1>2, <1>3

LEMMA TypesKeptByThread ==
  ASSUME PusherTypeOK, ThreadStep
  PROVE  PusherTypeOK'
<1> USE DEF ThreadStep, ThreadRuns, ThreadGoes, Settle, TakeConnection, SendSucceeds, SendFails,
            Take, Release, PutMessage, LoopCondition, MarkAlive, GetItem, Serialize, PublishLock,
            LogLock, LogCheck, LogPut, Send, DecideToReconnect, SetUp, Connect, RepublishLock,
            Resend, HandleError, CrashThread, EndThread, flags, history
<1>1. /\ publishing' \in BOOLEAN /\ shutdownInitiated' \in BOOLEAN
      /\ connectionClosed' \in BOOLEAN /\ indicator' \in BOOLEAN
      /\ UNCHANGED <<pusher, closer>>
  BY DEF PusherTypeOK
<1>2. link' \in {"up", "down"}
  BY DEF PusherTypeOK
<1>3. lock' \in [Lock -> LockState]
  BY DEF PusherTypeOK, Lock, LockState
<1>4. fifo' \in Seq(Nat) /\ accepted' \in Nat
  <2>1. \/ fifo' = fifo /\ accepted' = accepted
        \/ fifo # <<>> /\ fifo' = Tail(fifo) /\ accepted' = accepted
        \/ fifo' = Append(fifo, accepted + 1) /\ accepted' = accepted + 1
    OBVIOUS
  <2>2. fifo \in Seq(Nat) /\ accepted \in Nat /\ accepted + 1 \in Nat
    BY DEF PusherTypeOK
  <2>3. (fifo # <<>> => Tail(fifo) \in Seq(Nat)) /\ Append(fifo, accepted + 1) \in Seq(Nat)
    BY ONLY <2>2
  <2> QED  BY ONLY <2>1, <2>2, <2>3
<1>5. fate' \in Seq(Fate)
  <2>1. fate' = fate \/ \E how \in Fate : fate' = Append(fate, how)
    BY DEF Fate
  <2>2. fate \in Seq(Fate)
    BY DEF PusherTypeOK
  <2> QED  BY ONLY <2>1, <2>2
<1>6. sent' \in Seq(Nat)
  <2>1. sent' = sent \/ sent' = Append(sent, thread.hand)
    OBVIOUS
  <2>2. sent \in Seq(Nat) /\ thread.hand \in Nat
    BY DEF PusherTypeOK, ThreadState
  <2> QED  BY ONLY <2>1, <2>2
<1>7. thread' \in ThreadState
  <2>1. fifo # <<>> => Head(fifo) \in Nat
    <3>1. fifo \in Seq(Nat)
      BY DEF PusherTypeOK
    <3> QED  BY ONLY <3>1
  <2>2. \/ \E to \in ThreadPoint : thread' = [thread EXCEPT !.at = to]
        \/ \E to \in ThreadPoint : thread' = [at |-> to, hand |-> 0, failures |-> 0]
        \/ fifo # <<>> /\ thread' = [thread EXCEPT !.at = "serialize", !.hand = Head(fifo)]
        \/ \E to \in ThreadPoint : thread' = [thread EXCEPT !.at = to, !.failures = 0]
        \/ thread' = [thread EXCEPT !.failures = @ + 1]
    BY DEF ThreadPoint
  <2>3. thread \in ThreadState
    BY DEF PusherTypeOK
  <2> QED  BY ONLY <2>1, <2>2, <2>3, ThreadStates
<1> QED
  BY <1>1, <1>2, <1>3, <1>4, <1>5, <1>6, <1>7 DEF PusherTypeOK

LEMMA TypesAreKept ==
  ASSUME PusherTypeOK, [PusherNext]_vars
  PROVE  PusherTypeOK'
<1>1. CASE \E p \in Pusher : Push(p)
  BY <1>1, TypesKeptByPush
<1>2. CASE \E c \in Closer : CloserStep(c)
  BY <1>2, TypesKeptByClosers
<1>3. CASE ThreadStep
  BY <1>3, TypesKeptByThread
<1>4. CASE LoseLink \/ UNCHANGED vars
  BY <1>4 DEF LoseLink, vars, flags, history, PusherTypeOK
<1> QED
  BY <1>1, <1>2, <1>3, <1>4 DEF PusherNext, CloserStep, ThreadStep

(* Every variable keeps its type. *)
THEOREM PusherTypesCorrect == PusherSpec => []PusherTypeOK
<1>1. PusherInit => PusherTypeOK
  BY TypesInitially
<1>2. PusherTypeOK /\ [PusherNext]_vars => PusherTypeOK'
  BY TypesAreKept
<1> QED
  BY <1>1, <1>2, PTL DEF PusherSpec

-----------------------------------------------------------------------------
(* What the steps of closers and of the publishing thread do, as far as the
   invariants are concerned *)

SameLock == lock'["push"] = lock["push"]
LockTaken == lock["push"] = "free" /\ lock'["push"] = "held"
LockReleased == lock'["push"] = "free"

LEMMA LockFacts ==
  ASSUME PusherTypeOK, NEW l \in Lock
  PROVE  /\ Take(l) => IF l = "push" THEN LockTaken ELSE SameLock
         /\ Release(l) => IF l = "push" THEN LockReleased ELSE SameLock
         /\ UNCHANGED lock => SameLock
<1>1. "push" \in Lock /\ lock \in [Lock -> LockState]
  BY DEF PusherTypeOK, Lock
<1> QED
  BY <1>1 DEF Take, Release, SameLock, LockTaken, LockReleased

CloserMoved(c, from, to) ==
  /\ closer[c].at = from /\ closer'[c].at = to
  /\ closer'[c].result = closer[c].result /\ closer'[c].past = closer[c].past

CloserWalks(c) ==
  /\ \/ CloserMoved(c, "out", "lock_shutdown") \/ CloserMoved(c, "lock_shutdown", "lock_push")
     \/ CloserMoved(c, "clear", "join") \/ CloserMoved(c, "join", "clear")
     \/ CloserMoved(c, "join", "check") \/ CloserMoved(c, "lock_connection", "close")
  /\ UNCHANGED <<publishing, connectionClosed, fifo, link>> /\ SameLock

CloserLocks(c) ==
  /\ CloserMoved(c, "lock_push", "stop")
  /\ UNCHANGED <<publishing, connectionClosed, fifo, link>> /\ LockTaken

CloserStops(c) ==
  /\ CloserMoved(c, "stop", "wake")
  /\ ~publishing'
  /\ UNCHANGED <<connectionClosed, fifo, link>> /\ SameLock

CloserWakes(c) ==
  /\ CloserMoved(c, "wake", "clear")
  /\ fifo' = fifo \/ (Alive /\ fifo' = Append(fifo, WakeUp))
  /\ UNCHANGED <<publishing, connectionClosed, link>> /\ SameLock

CloserChecks(c) ==
  /\ closer[c].at = "check" /\ closer'[c].at = "lock_connection"
  /\ closer'[c].result = IF Alive \/ Pending # {} THEN "error" ELSE "ok"
  /\ closer'[c].past = closer[c].past
  /\ UNCHANGED <<publishing, connectionClosed, fifo, link>> /\ LockReleased

CloserLeaves(c) ==
  /\ closer[c].at \in {"lock_connection", "flag"} /\ closer'[c].at = "out"
  /\ closer'[c].result = "none"
  /\ \/ closer'[c].past = Append(closer[c].past, closer[c].result)
     \/ closer'[c].past = Append(closer[c].past, "error")
  /\ connectionClosed' => connectionClosed \/ closer[c].at = "flag"
  /\ UNCHANGED <<publishing, fifo, link>> /\ SameLock

CloserCloses(c) ==
  /\ CloserMoved(c, "close", "flag")
  /\ link' = "down"
  /\ UNCHANGED <<publishing, connectionClosed, fifo>> /\ SameLock

CloserKind(c) ==
  \/ CloserWalks(c) \/ CloserLocks(c) \/ CloserStops(c) \/ CloserWakes(c)
  \/ CloserChecks(c) \/ CloserLeaves(c) \/ CloserCloses(c)

LEMMA CloserFacts ==
  ASSUME PusherTypeOK, NEW c \in Closer, CloserStep(c)
  PROVE  /\ UNCHANGED <<thread, pusher, accepted, fate, sent>>
         /\ \A d \in Closer \ {c} : closer'[d] = closer[d]
         /\ CloserKind(c)
<1>0. closer \in [Closer -> CloserState] /\ closer[c] \in CloserState
  BY DEF PusherTypeOK
<1>1. ASSUME NEW from, NEW to, CloserGoes(c, from, to)  PROVE CloserMoved(c, from, to)
  BY <1>0, <1>1 DEF CloserGoes, CloserMoved, CloserState
<1>2. ASSUME NEW from, NEW result, CloserReturns(c, from, result)
      PROVE  /\ closer[c].at = from /\ closer'[c].at = "out" /\ closer'[c].result = "none"
             /\ closer'[c].past = Append(closer[c].past, result)
             /\ SameLock
  BY <1>0, <1>2, LockFacts DEF CloserReturns, Lock
<1>3. UNCHANGED <<thread, pusher, accepted, fate, sent>> /\ \A d \in Closer \ {c} : closer'[d] = closer[d]
  BY CloserMoves DEF PusherTypeOK, history
<1> USE DEF flags, Lock
<1>4. CASE CloseBegin(c) \/ CloseLockShutdown(c) \/ ClearIndicator(c) \/ CloseLockConnection(c)
           \/ JoinThread(c) \/ JoinTimesOut(c)
  <2>1. SameLock /\ UNCHANGED <<publishing, connectionClosed, fifo, link>>
    BY <1>4, LockFacts
    DEF CloseBegin, CloseLockShutdown, ClearIndicator, CloseLockConnection, JoinThread,
        JoinTimesOut, SameLock
  <2>2. CloserWalks(c)
    BY <1>1, <1>4, <2>1
    DEF CloseBegin, CloseLockShutdown, ClearIndicator, CloseLockConnection, JoinThread,
        JoinTimesOut, CloserWalks
  <2> QED  BY <1>3, <2>2 DEF CloserKind
<1>5. CASE CloseLockPush(c)
  BY <1>1, <1>3, <1>5, LockFacts DEF CloseLockPush, CloserLocks, CloserKind
<1>6. CASE StopPublishing(c)
  BY <1>1, <1>3, <1>6, LockFacts DEF StopPublishing, CloserStops, CloserKind
<1>7. CASE WakeThread(c)
  BY <1>1, <1>3, <1>7, LockFacts DEF WakeThread, CloserWakes, CloserKind
<1>8. CASE CheckStateAfterStop(c)
  <2>1. LockReleased /\ UNCHANGED <<publishing, connectionClosed, fifo, link>> /\ closer[c].at = "check"
    BY <1>8, LockFacts DEF CheckStateAfterStop
  <2>2. /\ closer'[c].at = "lock_connection"
        /\ closer'[c].result = IF Alive \/ Pending # {} THEN "error" ELSE "ok"
        /\ closer'[c].past = closer[c].past
    BY <1>0, <1>8 DEF CheckStateAfterStop, CloserState
  <2> QED  BY <1>3, <2>1, <2>2 DEF CloserChecks, CloserKind
<1>9. CASE SkipClosing(c) \/ ConnectionLockTimesOut(c) \/ CloseEnd(c)
  BY <1>2, <1>3, <1>9 DEF SkipClosing, ConnectionLockTimesOut, CloseEnd, CloserLeaves, CloserKind
<1>10. CASE CloseConnection(c)
  BY <1>1, <1>3, <1>10, LockFacts DEF CloseConnection, CloserCloses, CloserKind
<1> QED
  BY <1>4, <1>5, <1>6, <1>7, <1>8, <1>9, <1>10 DEF CloserStep, CloserTakes, CloserRuns

ThreadMoved(from, to) ==
  /\ thread.at = from /\ thread'.at = to /\ thread'.hand = thread.hand

SameQueues == UNCHANGED <<fifo, accepted, fate, sent>>

(* Of its moves around the loop, three depend on what the invariants are
   about. *)
ThreadWalks ==
  /\ \/ ThreadMoved("check_flag", "mark") \/ ThreadMoved("check_empty", "mark")
     \/ ThreadMoved("check_flag", "check_empty") /\ ~publishing
     \/ ThreadMoved("check_empty", "ending") /\ fifo = <<>>
     \/ ThreadMoved("mark", "get")
     \/ ThreadMoved("serialize", "publish") \/ ThreadMoved("serialize", "error")
     \/ ThreadMoved("publish", "send") \/ ThreadMoved("publish", "error")
     \/ ThreadMoved("publish", "log_lock")
     \/ ThreadMoved("log_check", "log_put") /\ publishing
     \/ ThreadMoved("decide", "error") \/ ThreadMoved("decide", "setup")
     \/ ThreadMoved("setup", "connect") \/ ThreadMoved("setup", "error")
     \/ ThreadMoved("republish", "resend") \/ ThreadMoved("republish", "error")
  /\ SameQueues /\ UNCHANGED <<publishing, link>> /\ SameLock

ThreadGets ==
  /\ thread.at = "get" /\ fifo # <<>> /\ fifo' = Tail(fifo)
  /\ IF Head(fifo) = WakeUp
       THEN thread'.at = "check_flag" /\ thread'.hand = thread.hand
       ELSE thread'.at = "serialize" /\ thread'.hand = Head(fifo)
  /\ UNCHANGED <<accepted, fate, sent, publishing, link>> /\ SameLock

ThreadSettles ==
  /\ thread'.hand = 0
  /\ \/ /\ thread.at \in {"serialize", "error"} /\ thread'.at = "check_flag"
        /\ fate' = Append(fate, "unpublished") /\ sent' = sent
     \/ /\ thread.at \in {"send", "resend"} /\ thread'.at = "check_flag"
        /\ fate' = Append(fate, "published") /\ sent' = Append(sent, thread.hand)
     \/ /\ thread.at \in {"serialize", "send", "resend", "error"} /\ thread'.at = "ending"
        /\ fate' = Append(fate, "crashed") /\ sent' = sent
  /\ UNCHANGED <<fifo, accepted, publishing, link>> /\ SameLock

ThreadFails ==
  /\ \/ ThreadMoved("send", "decide") \/ ThreadMoved("send", "error")
     \/ ThreadMoved("resend", "error")
  /\ sent' = sent \/ sent' = Append(sent, thread.hand)
  /\ link' = "down" \/ link' = link
  /\ UNCHANGED <<fifo, accepted, fate, publishing>> /\ SameLock

ThreadConnects ==
  /\ \/ ThreadMoved("connect", "republish") \/ ThreadMoved("connect", "connect")
     \/ ThreadMoved("connect", "error")
  /\ SameQueues /\ UNCHANGED publishing /\ SameLock

ThreadLogs ==
  /\ \/ ThreadMoved("log_lock", "log_check") /\ LockTaken /\ SameQueues
     \/ ThreadMoved("log_check", "send") /\ LockReleased /\ SameQueues
     \/ /\ ThreadMoved("log_put", "send") /\ LockReleased
        /\ PutMessage /\ UNCHANGED <<fate, sent>>
  /\ UNCHANGED <<publishing, link>>

ThreadEnds ==
  /\ ThreadMoved("ending", "dead")
  /\ ~publishing'
  /\ SameQueues /\ UNCHANGED link /\ SameLock

ThreadKind ==
  \/ ThreadWalks \/ ThreadGets \/ ThreadSettles \/ ThreadFails
  \/ ThreadConnects \/ ThreadLogs \/ ThreadEnds

LEMMA ThreadFacts ==
  ASSUME PusherTypeOK, ThreadStep
  PROVE  ThreadKind /\ UNCHANGED <<pusher, closer, connectionClosed>>
<1>0. thread \in ThreadState
  BY DEF PusherTypeOK
<1>1. ASSUME NEW from, NEW to, ThreadGoes(from, to)
      PROVE  ThreadMoved(from, to) /\ UNCHANGED <<pusher, closer>>
  BY <1>0, <1>1 DEF ThreadGoes, ThreadMoved, ThreadState
<1>2. ASSUME NEW from, NEW to, TakeConnection(from, to)
      PROVE  /\ ThreadMoved(from, to) \/ ThreadMoved(from, "error")
             /\ UNCHANGED <<pusher, closer, flags, fifo, link, accepted, history>> /\ SameLock
  BY <1>1, <1>2, LockFacts DEF TakeConnection, Lock
<1> USE DEF flags, history, Lock, SameQueues
<1>3. CASE LoopCondition \/ MarkAlive \/ DecideToReconnect
  <2>1. SameQueues /\ UNCHANGED <<publishing, link, connectionClosed>> /\ SameLock
    BY <1>3, LockFacts DEF LoopCondition, MarkAlive, DecideToReconnect
  <2> QED
    BY <1>1, <1>3, <2>1
    DEF LoopCondition, MarkAlive, DecideToReconnect, ThreadWalks, ThreadKind
<1>4. CASE GetItem
  BY <1>0, <1>4, LockFacts DEF GetItem, ThreadGets, ThreadKind, ThreadState
<1>5. CASE Serialize
  <2>1. CASE Settle("serialize", "check_flag", "unpublished")
    BY <1>5, <2>1, LockFacts DEF Serialize, Settle, ThreadSettles, ThreadKind
  <2>2. CASE (ThreadGoes("serialize", "publish") \/ ThreadGoes("serialize", "error")) /\ UNCHANGED fate
    BY <1>1, <1>5, <2>2, LockFacts DEF Serialize, ThreadWalks, ThreadKind
  <2> QED  BY <1>5, <2>1, <2>2 DEF Serialize
<1>6. CASE PublishLock \/ SetUp \/ RepublishLock
  BY <1>2, <1>6 DEF PublishLock, SetUp, RepublishLock, ThreadWalks, ThreadKind
<1>7. CASE LogLock \/ LogPut
  BY <1>1, <1>7, LockFacts DEF LogLock, LogPut, ThreadLogs, ThreadKind
<1>8. CASE LogCheck
  <2>1. CASE publishing
    BY <1>1, <1>8, <2>1, LockFacts DEF LogCheck, ThreadWalks, ThreadKind
  <2>2. CASE ~publishing
    BY <1>1, <1>8, <2>2, LockFacts DEF LogCheck, ThreadLogs, ThreadKind
  <2> QED  BY <2>1, <2>2
<1>9. ASSUME NEW from \in {"send", "resend"}, SendSucceeds(from)
      PROVE  ThreadKind /\ UNCHANGED <<pusher, closer, connectionClosed>>
  BY <1>9, LockFacts DEF SendSucceeds, Settle, ThreadSettles, ThreadKind
<1>10. ASSUME SendFails("send", "decide") \/ SendFails("send", "error") \/ SendFails("resend", "error")
       PROVE  ThreadKind /\ UNCHANGED <<pusher, closer, connectionClosed>>
  <2>1. link' = "down" \/ link' = link
    BY <1>10 DEF SendFails
  <2>2. sent' = sent \/ sent' = Append(sent, thread.hand)
    BY <1>10 DEF SendFails
  <2> QED
    BY <1>1, <1>10, <2>1, <2>2, LockFacts DEF SendFails, ThreadFails, ThreadKind
<1>11. CASE Send \/ Resend
  <2>1. \/ SendSucceeds("send") \/ SendSucceeds("resend")
        \/ SendFails("send", "decide") \/ SendFails("send", "error") \/ SendFails("resend", "error")
    BY <1>11 DEF Send, Resend
  <2>2. "send" \in {"send", "resend"} /\ "resend" \in {"send", "resend"}
    OBVIOUS
  <2> HIDE DEF SameQueues
  <2>3. CASE SendSucceeds("send")
    BY <1>9, <2>2, <2>3
  <2>4. CASE SendSucceeds("resend")
    BY <1>9, <2>2, <2>4
  <2> QED  BY <1>10, <2>1, <2>3, <2>4
<1>12. CASE Connect
  <2>1. \/ ThreadMoved("connect", "republish") \/ ThreadMoved("connect", "connect")
        \/ ThreadMoved("connect", "error")
    BY <1>0, <1>12 DEF Connect, ThreadMoved, ThreadState
  <2>2. SameLock
    BY <1>12, LockFacts DEF Connect
  <2>3. SameQueues /\ UNCHANGED <<publishing, pusher, closer, connectionClosed>>
    BY <1>12 DEF Connect
  <2> QED  BY <2>1, <2>2, <2>3 DEF ThreadConnects, ThreadKind
<1>13. CASE HandleError
  BY <1>13, LockFacts DEF HandleError, Settle, ThreadSettles, ThreadKind
<1>14. CASE CrashThread
  <2>1. PICK point \in {"serialize", "send", "resend", "error"} : Settle(point, "ending", "crashed")
    BY <1>14 DEF CrashThread
  <2>2. SameLock /\ UNCHANGED <<flags, fifo, link, accepted, sent>>
    BY <1>14, LockFacts DEF CrashThread
  <2> QED  BY <2>1, <2>2 DEF Settle, ThreadSettles, ThreadKind
<1>15. CASE EndThread
  BY <1>1, <1>15, LockFacts DEF EndThread, ThreadEnds, ThreadKind
<1> QED
  BY <1>3, <1>4, <1>5, <1>6, <1>7, <1>8, <1>11, <1>12, <1>13, <1>14, <1>15
  DEF ThreadStep, ThreadRuns

-----------------------------------------------------------------------------
(* The push lock has one holder at most *)

InPush(p) == pusher[p] \in {"check", "put"}
Stopping(c) == closer[c].at \in {"stop", "wake", "clear", "join", "check"}
ThreadPushes == thread.at \in {"log_check", "log_put"}

PushLockIsExclusive ==
  /\ lock["push"] = "free" =>
       /\ \A p \in Pusher : ~InPush(p)
       /\ \A c \in Closer : ~Stopping(c)
       /\ ~ThreadPushes
  /\ \A p, q \in Pusher : InPush(p) /\ InPush(q) => p = q
  /\ \A c, d \in Closer : Stopping(c) /\ Stopping(d) => c = d
  /\ \A p \in Pusher, c \in Closer : ~(InPush(p) /\ Stopping(c))
  /\ ThreadPushes => (\A p \in Pusher : ~InPush(p)) /\ \A c \in Closer : ~Stopping(c)

LEMMA LockKeptByPush ==
  ASSUME PusherTypeOK, PushLockIsExclusive, NEW p \in Pusher, Push(p)
  PROVE  PushLockIsExclusive'
<1> USE DEF Push, PushBegin, PushLock, PushCheck, PushPut, PusherGoes, Take, Release
<1>1. /\ \A q \in Pusher \ {p} : pusher'[q] = pusher[q]
      /\ \/ pusher[p] = "out" /\ pusher'[p] = "lock" /\ lock' = lock
         \/ pusher[p] = "lock" /\ pusher'[p] = "check" /\ lock["push"] = "free" /\ lock'["push"] = "held"
         \/ pusher[p] = "check" /\ pusher'[p] = "put" /\ lock' = lock
         \/ pusher[p] \in {"check", "put"} /\ pusher'[p] = "out" /\ lock'["push"] = "free"
      /\ UNCHANGED <<thread, closer>>
  BY DEF PusherTypeOK, Lock, LockState
<1> QED
  BY <1>1 DEF PushLockIsExclusive, InPush, Stopping, ThreadPushes

LEMMA LockKeptByClosers ==
  ASSUME PusherTypeOK, PushLockIsExclusive, NEW c \in Closer, CloserStep(c)
  PROVE  PushLockIsExclusive'
<1>1. /\ \A d \in Closer \ {c} : Stopping(d)' = Stopping(d)
      /\ ThreadPushes' = ThreadPushes /\ \A p \in Pusher : InPush(p)' = InPush(p)
  BY CloserFacts DEF Stopping, ThreadPushes, InPush
<1>2. \/ ~Stopping(c) /\ Stopping(c)' /\ LockTaken
      \/ Stopping(c) /\ ~Stopping(c)' /\ LockReleased
      \/ Stopping(c)' = Stopping(c) /\ SameLock
  BY CloserFacts
  DEF CloserKind, CloserWalks, CloserLocks, CloserStops, CloserWakes, CloserChecks,
      CloserLeaves, CloserCloses, CloserMoved, Stopping
<1> QED
  BY <1>1, <1>2 DEF PushLockIsExclusive, LockTaken, LockReleased, SameLock

LEMMA LockKeptByThread ==
  ASSUME PusherTypeOK, PushLockIsExclusive, ThreadStep
  PROVE  PushLockIsExclusive'
<1>1. UNCHANGED <<pusher, closer>>
  BY ThreadFacts
<1>2. \/ ~ThreadPushes /\ ThreadPushes' /\ LockTaken
      \/ ThreadPushes /\ ~ThreadPushes' /\ LockReleased
      \/ ThreadPushes' = ThreadPushes /\ SameLock
  BY ThreadFacts
  DEF ThreadKind, ThreadWalks, ThreadGets, ThreadSettles, ThreadFails, ThreadConnects,
      ThreadLogs, ThreadEnds, ThreadMoved, ThreadPushes
<1> QED
  BY <1>1, <1>2
  DEF PushLockIsExclusive, LockTaken, LockReleased, SameLock, InPush, Stopping, ThreadPushes

-----------------------------------------------------------------------------
(* The fifo holds the messages accepted and not yet taken, in their order *)

Holds(q, low, high) ==
  /\ low <= high
  /\ \A i \in 1 .. Len(q) : q[i] # WakeUp => low < q[i] /\ q[i] <= high
  /\ \A i, j \in 1 .. Len(q) : i < j /\ q[i] # WakeUp /\ q[j] # WakeUp => q[i] < q[j]
  /\ \A n \in Nat : low < n /\ n <= high => \E i \in 1 .. Len(q) : q[i] = n

LEMMA HoldsAppended ==
  ASSUME NEW q \in Seq(Nat), NEW low \in Nat, NEW high \in Nat, Holds(q, low, high)
  PROVE  Holds(Append(q, high + 1), low, high + 1) /\ Holds(Append(q, WakeUp), low, high)
<1>0. /\ Len(q) \in Nat /\ \A i \in 1 .. Len(q) : q[i] \in Nat
      /\ \A e \in Nat : /\ Len(Append(q, e)) = Len(q) + 1
                        /\ \A i \in 1 .. Len(q) : Append(q, e)[i] = q[i]
                        /\ Append(q, e)[Len(q) + 1] = e
      /\ \A i \in 1 .. Len(q) + 1 : i \in 1 .. Len(q) \/ i = Len(q) + 1
  OBVIOUS
<1>1. ASSUME NEW e \in Nat, NEW top \in Nat,
             (e = WakeUp /\ top = high) \/ (e = high + 1 /\ top = e)
      PROVE  Holds(Append(q, e), low, top)
  <2> DEFINE r == Append(q, e)
  <2>1. /\ Len(r) = Len(q) + 1 /\ r[Len(q) + 1] = e
        /\ \A i \in 1 .. Len(q) : r[i] = q[i]
    BY <1>0
  <2> HIDE DEF r
  <2>2. low <= top /\ high <= top
    BY <1>1 DEF Holds
  <2>3. ASSUME NEW i \in 1 .. Len(r), r[i] # WakeUp  PROVE low < r[i] /\ r[i] <= top
    BY <2>1, <2>2, <2>3, <1>0, <1>1 DEF Holds
  <2>4. ASSUME NEW i \in 1 .. Len(r), NEW j \in 1 .. Len(r), i < j, r[i] # WakeUp, r[j] # WakeUp
        PROVE  r[i] < r[j]
    <3>1. CASE j = Len(q) + 1
      BY <2>1, <2>2, <2>4, <3>1, <1>0, <1>1 DEF Holds
    <3>2. CASE j # Len(q) + 1
      <4>1. i \in 1 .. Len(q) /\ j \in 1 .. Len(q)
        BY <2>1, <2>4, <3>2, <1>0
      <4> QED  BY <2>1, <2>4, <4>1 DEF Holds
    <3> QED  BY <3>1, <3>2
  <2>5. ASSUME NEW n \in Nat, low < n, n <= top  PROVE \E i \in 1 .. Len(r) : r[i] = n
    <3>1. CASE n <= high
      <4>1. PICK i \in 1 .. Len(q) : q[i] = n
        BY <2>5, <3>1 DEF Holds
      <4> QED  BY <4>1, <2>1, <1>0
    <3>2. CASE ~(n <= high)
      <4>1. n = e
        BY <2>5, <3>2, <1>1
      <4>2. Len(q) + 1 \in 1 .. Len(r)
        BY <2>1, <1>0
      <4> QED  BY <4>1, <4>2, <2>1
    <3> QED  BY <3>1, <3>2
  <2> QED  BY <2>2, <2>3, <2>4, <2>5 DEF Holds, r
<1>2. WakeUp \in Nat /\ high + 1 \in Nat
  BY DEF WakeUp
<1> QED
  BY <1>1, <1>2

LEMMA HoldsTaken ==
  ASSUME NEW q \in Seq(Nat), NEW low \in Nat, NEW high \in Nat, Holds(q, low, high), q # <<>>
  PROVE  /\ Head(q) = WakeUp => Holds(Tail(q), low, high)
         /\ Head(q) # WakeUp => /\ Head(q) = low + 1
                                /\ Holds(Tail(q), low + 1, high)
<1> DEFINE r == Tail(q)
<1>0. /\ Len(q) \in Nat /\ Len(q) >= 1 /\ Head(q) = q[1] /\ Len(r) = Len(q) - 1
      /\ \A i \in 1 .. Len(r) : r[i] = q[i + 1] /\ i + 1 \in 1 .. Len(q)
      /\ \A i \in 1 .. Len(q) : q[i] \in Nat
  OBVIOUS
<1>1. \A i \in 1 .. Len(q) : i = 1 \/ (i - 1 \in 1 .. Len(r) /\ r[i - 1] = q[i] /\ 1 < i)
  BY <1>0
<1> HIDE DEF r
<1>2. /\ \A i, j \in 1 .. Len(r) : i < j /\ r[i] # WakeUp /\ r[j] # WakeUp => r[i] < r[j]
      /\ 1 \in 1 .. Len(q)
  <2>1. ASSUME NEW i \in 1 .. Len(r), NEW j \in 1 .. Len(r), i < j, r[i] # WakeUp, r[j] # WakeUp
        PROVE  r[i] < r[j]
    <3>1. /\ i + 1 \in 1 .. Len(q) /\ j + 1 \in 1 .. Len(q) /\ i + 1 < j + 1
          /\ r[i] = q[i + 1] /\ r[j] = q[j + 1]
      BY <1>0, <2>1
    <3> QED  BY <2>1, <3>1 DEF Holds
  <2> QED  BY <1>0, <2>1
<1>3. ASSUME Head(q) = WakeUp  PROVE Holds(r, low, high)
  <2>1. ASSUME NEW n \in Nat, low < n, n <= high  PROVE \E i \in 1 .. Len(r) : r[i] = n
    <3>1. PICK i \in 1 .. Len(q) : q[i] = n
      BY <2>1 DEF Holds
    <3>2. i # 1
      BY <3>1, <2>1, <1>0, <1>3 DEF WakeUp
    <3>3. i - 1 \in 1 .. Len(r) /\ r[i - 1] = n
      BY <3>1, <3>2, <1>1
    <3> QED  BY <3>3
  <2> QED  BY <2>1, <1>0, <1>2 DEF Holds
<1>4. ASSUME Head(q) # WakeUp  PROVE Head(q) = low + 1 /\ Holds(r, low + 1, high)
  <2>1. low < q[1] /\ q[1] <= high
    BY <1>0, <1>2, <1>4 DEF Holds
  <2>2. PICK i \in 1 .. Len(q) : q[i] = low + 1
    BY <2>1, <1>0, <1>2 DEF Holds
  <2>3. q[1] = low + 1
    <3>1. CASE i = 1
      BY <2>2, <3>1
    <3>2. CASE i # 1
      <4>1. 1 < i /\ 1 \in 1 .. Len(q) /\ i \in 1 .. Len(q)
        BY <3>2, <1>1, <1>2
      <4>2. q[1] # WakeUp /\ q[i] # WakeUp
        BY <2>2, <1>0, <1>4 DEF WakeUp
      <4>3. q[1] < q[i]
        BY <4>1, <4>2 DEF Holds
      <4> QED  BY <4>3, <2>1, <2>2, <1>0, <1>2
    <3> QED  BY <3>1, <3>2
  <2>4. ASSUME NEW j \in 1 .. Len(r), r[j] # WakeUp  PROVE low + 1 < r[j] /\ r[j] <= high
    <3>1. 1 < j + 1 /\ j + 1 \in 1 .. Len(q) /\ r[j] = q[j + 1]
      BY <1>0
    <3> QED  BY <3>1, <2>3, <2>4, <1>0, <1>2, <1>4 DEF Holds
  <2>5. ASSUME NEW n \in Nat, low + 1 < n, n <= high  PROVE \E j \in 1 .. Len(r) : r[j] = n
    <3>1. PICK j \in 1 .. Len(q) : q[j] = n
      BY <2>5 DEF Holds
    <3>2. j # 1
      BY <3>1, <2>3, <2>5
    <3>3. j - 1 \in 1 .. Len(r) /\ r[j - 1] = n
      BY <3>1, <3>2, <1>1
    <3> QED  BY <3>3
  <2> QED  BY <2>1, <2>3, <2>4, <2>5, <1>0, <1>2 DEF Holds
<1> QED
  BY <1>3, <1>4 DEF r

(* The points at which the thread has a message in its hand. *)
Busy == {"serialize", "publish", "log_lock", "log_check", "log_put", "send",
         "decide", "setup", "connect", "republish", "resend", "error"}

(* How many messages the thread has taken out of the fifo. *)
Taken == Len(fate) + (IF thread.at \in Busy THEN 1 ELSE 0)

InOrder ==
  /\ thread.hand = IF thread.at \in Busy THEN Taken ELSE 0
  /\ Holds(fifo, Taken, accepted)

LEMMA TypesOfOrder ==
  ASSUME PusherTypeOK
  PROVE  /\ Len(fate) \in Nat /\ Taken \in Nat /\ accepted \in Nat /\ fifo \in Seq(Nat)
         /\ \A how : Len(Append(fate, how)) = Len(fate) + 1
         /\ fifo # <<>> => Head(fifo) \in Nat
<1>1. Len(fate) \in Nat /\ \A how : Len(Append(fate, how)) = Len(fate) + 1
  BY DEF PusherTypeOK
<1>2. fifo \in Seq(Nat) /\ (fifo # <<>> => Head(fifo) \in Nat)
  BY DEF PusherTypeOK
<1> QED
  BY <1>1, <1>2 DEF PusherTypeOK, Taken

LEMMA OrderKeptByPut ==
  ASSUME PusherTypeOK, InOrder, PutMessage
  PROVE  Holds(fifo', Taken, accepted')
BY TypesOfOrder, HoldsAppended DEF InOrder, PutMessage

LEMMA OrderKeptByPush ==
  ASSUME PusherTypeOK, InOrder, NEW p \in Pusher, Push(p)
  PROVE  InOrder'
<1>1. UNCHANGED <<thread, fate>> /\ Taken' = Taken
  BY DEF Push, PushBegin, PushLock, PushCheck, PushPut, PusherGoes, history, Taken
<1>2. PutMessage \/ UNCHANGED <<fifo, accepted>>
  BY DEF Push, PushBegin, PushLock, PushCheck, PushPut
<1> QED
  BY <1>1, <1>2, OrderKeptByPut DEF InOrder

LEMMA OrderKeptByClosers ==
  ASSUME PusherTypeOK, InOrder, NEW c \in Closer, CloserStep(c)
  PROVE  InOrder'
<1>1. UNCHANGED <<thread, fate, accepted>> /\ Taken' = Taken
  BY CloserFacts DEF Taken
<1>2. fifo' = fifo \/ fifo' = Append(fifo, WakeUp)
  BY CloserFacts
  DEF CloserKind, CloserWalks, CloserLocks, CloserStops, CloserWakes, CloserChecks,
      CloserLeaves, CloserCloses
<1> QED
  BY <1>1, <1>2, TypesOfOrder, HoldsAppended DEF InOrder

LEMMA OrderKeptByThread ==
  ASSUME PusherTypeOK, InOrder, ThreadStep
  PROVE  InOrder'
<1>1. CASE ThreadGets
  <2>1. CASE Head(fifo) = WakeUp
    <3>1. Taken' = Taken /\ thread.at \notin Busy /\ thread'.at \notin Busy
      BY <1>1, <2>1 DEF ThreadGets, Taken, Busy
    <3> QED  BY <1>1, <2>1, <3>1, TypesOfOrder, HoldsTaken DEF ThreadGets, InOrder
  <2>2. CASE Head(fifo) # WakeUp
    <3>1. thread.at \notin Busy /\ thread'.at \in Busy
      BY <1>1, <2>2 DEF ThreadGets, Busy
    <3>2. Taken' = Taken + 1
      BY <1>1, <3>1, TypesOfOrder DEF ThreadGets, Taken
    <3> QED  BY <1>1, <2>2, <3>1, <3>2, TypesOfOrder, HoldsTaken DEF ThreadGets, InOrder
  <2> QED  BY <2>1, <2>2
<1>2. CASE ThreadSettles
  <2>1. thread.at \in Busy /\ thread'.at \notin Busy
    BY <1>2 DEF ThreadSettles, Busy
  <2>2. Taken' = Taken
    BY <1>2, <2>1, TypesOfOrder DEF ThreadSettles, Taken
  <2> QED  BY <1>2, <2>1, <2>2 DEF ThreadSettles, InOrder
<1>3. CASE ThreadWalks \/ ThreadFails \/ ThreadConnects \/ ThreadLogs \/ ThreadEnds
  <2>1. /\ (thread'.at \in Busy) = (thread.at \in Busy) /\ fate' = fate
        /\ thread'.hand = thread.hand
    BY <1>3
    DEF ThreadWalks, ThreadFails, ThreadConnects, ThreadLogs, ThreadEnds, ThreadMoved, Busy,
        SameQueues
  <2>2. Taken' = Taken
    BY <2>1 DEF Taken
  <2>3. PutMessage \/ UNCHANGED <<fifo, accepted>>
    BY <1>3 DEF ThreadWalks, ThreadFails, ThreadConnects, ThreadLogs, ThreadEnds, SameQueues
  <2> QED  BY <2>1, <2>2, <2>3, OrderKeptByPut DEF InOrder
<1> QED
  BY <1>1, <1>2, <1>3, ThreadFacts DEF ThreadKind

-----------------------------------------------------------------------------
(* Messages are sent in their order *)

Unsent == {"serialize", "publish", "log_lock", "log_check", "log_put", "send"}
Resending == {"decide", "setup", "connect", "republish", "resend"}

SentInOrder ==
  /\ \A i \in 1 .. Len(sent) : sent[i] <= Taken
  /\ thread.at \in Unsent => \A i \in 1 .. Len(sent) : sent[i] <= Len(fate)
  /\ thread.at \in Resending => \A i \in 1 .. Len(sent) - 1 : sent[i] <= Len(fate)
  /\ \A i, j \in 1 .. Len(sent) : i < j => sent[i] <= sent[j]
  /\ \A i \in 1 .. Len(sent) - 2 : sent[i] < sent[i + 2]
  /\ \A n \in 1 .. Len(fate) :
       fate[n] = "published" => \E i \in 1 .. Len(sent) : sent[i] = n

(* Only the thread sends. *)
LEMMA SentKeptOtherwise ==
  ASSUME SentInOrder, UNCHANGED <<thread, fate, sent>>
  PROVE  SentInOrder'
BY DEF SentInOrder, Taken

(* Both for a message sent for the first time and for one sent again. *)
LEMMA SentAppended ==
  ASSUME PusherTypeOK, InOrder, SentInOrder,
         thread.at \in {"send", "resend"}, sent' = Append(sent, thread.hand)
  PROVE  /\ Len(sent) \in Nat /\ Len(sent') = Len(sent) + 1 /\ sent'[Len(sent')] = Taken
         /\ Taken = Len(fate) + 1
         /\ \A i \in 1 .. Len(sent) : sent'[i] = sent[i] /\ sent[i] \in Nat
         /\ \A i \in 1 .. Len(sent') : sent'[i] <= Taken
         /\ thread.at = "send" => \A i \in 1 .. Len(sent') - 1 : sent'[i] <= Len(fate)
         /\ \A i, j \in 1 .. Len(sent') : i < j => sent'[i] <= sent'[j]
         /\ \A i \in 1 .. Len(sent') - 2 : sent'[i] < sent'[i + 2]
<1>1. thread.hand = Taken /\ Taken = Len(fate) + 1 /\ Taken \in Nat /\ Len(fate) \in Nat
  BY TypesOfOrder DEF InOrder, Busy, Taken
<1>2. sent \in Seq(Nat)
  BY DEF PusherTypeOK
<1>3. /\ Len(sent) \in Nat /\ Len(sent') = Len(sent) + 1 /\ sent'[Len(sent')] = Taken
      /\ \A i \in 1 .. Len(sent) : sent'[i] = sent[i] /\ sent[i] \in Nat
  BY <1>1, <1>2
<1>4. \A i \in 1 .. Len(sent') : i \in 1 .. Len(sent) \/ i = Len(sent')
  BY <1>3
<1>5. \A i \in 1 .. Len(sent') : sent'[i] <= Taken
  BY <1>1, <1>3, <1>4 DEF SentInOrder
<1>6. thread.at = "send" => \A i \in 1 .. Len(sent') - 1 : sent'[i] <= Len(fate)
  BY <1>3 DEF SentInOrder, Unsent
<1>7. \A i, j \in 1 .. Len(sent') : i < j => sent'[i] <= sent'[j]
  BY <1>3, <1>4, <1>5 DEF SentInOrder
<1>8. ASSUME NEW i \in 1 .. Len(sent') - 2  PROVE sent'[i] < sent'[i + 2]
  <2>1. CASE i = Len(sent') - 2
    <3>1. i + 2 = Len(sent') /\ i \in 1 .. Len(sent) /\ i \in 1 .. Len(sent) - 1
      BY <2>1, <1>3
    <3>2. sent[i] <= Len(fate)
      BY <3>1 DEF SentInOrder, Unsent, Resending
    <3> QED  BY <3>1, <3>2, <1>1, <1>3
  <2>2. CASE i # Len(sent') - 2
    <3>1. i \in 1 .. Len(sent) - 2 /\ i \in 1 .. Len(sent) /\ i + 2 \in 1 .. Len(sent)
      BY <2>2, <1>3
    <3> QED  BY <3>1, <1>3 DEF SentInOrder
  <2> QED  BY <2>1, <2>2
<1> QED
  BY <1>1, <1>3, <1>5, <1>6, <1>7, <1>8

LEMMA SentKeptByThread ==
  ASSUME PusherTypeOK, InOrder, SentInOrder, ThreadStep
  PROVE  SentInOrder'
<1>0. /\ Len(fate) \in Nat /\ Len(sent) \in Nat /\ Taken \in Nat
      /\ \A i \in 1 .. Len(sent) : sent[i] \in Nat
  BY TypesOfOrder DEF PusherTypeOK
<1>1. CASE ThreadWalks \/ ThreadConnects \/ ThreadLogs \/ ThreadEnds
  <2>1. /\ fate' = fate /\ sent' = sent
        /\ (thread'.at \in Busy) = (thread.at \in Busy)
        /\ thread'.at \in Unsent => thread.at \in Unsent
        /\ thread'.at \in Resending => thread.at \in Resending
    BY <1>1
    DEF ThreadWalks, ThreadConnects, ThreadLogs, ThreadEnds, ThreadMoved, Busy, Unsent,
        Resending, SameQueues
  <2>2. Taken' = Taken
    BY <2>1 DEF Taken
  <2> QED  BY <2>1, <2>2 DEF SentInOrder
<1>2. CASE ThreadGets
  <2>1. /\ fate' = fate /\ sent' = sent /\ thread.at \notin Busy
        /\ thread'.at \notin Resending /\ Taken = Len(fate)
    BY <1>2 DEF ThreadGets, Busy, Resending, Taken
  <2>2. Taken' \in Nat /\ Taken <= Taken'
    BY <2>1, <1>0 DEF Taken
  <2>3. \A i \in 1 .. Len(sent) : sent[i] <= Len(fate) /\ sent[i] <= Taken'
    BY <2>1, <2>2, <1>0 DEF SentInOrder
  <2> QED  BY <2>1, <2>3 DEF SentInOrder
<1>3. CASE ThreadSettles
  <2>1. /\ thread.at \in Busy /\ thread'.at \notin Busy
        /\ thread'.at \notin Unsent /\ thread'.at \notin Resending
    BY <1>3 DEF ThreadSettles, Busy, Unsent, Resending
  <2>2. PICK how \in Fate : /\ fate' = Append(fate, how)
                            /\ \/ how # "published" /\ sent' = sent
                               \/ /\ how = "published" /\ sent' = Append(sent, thread.hand)
                                  /\ thread.at \in {"send", "resend"}
    BY <1>3 DEF ThreadSettles, Fate
  <2>3. /\ Len(fate') = Len(fate) + 1 /\ fate'[Len(fate')] = how
        /\ \A n \in 1 .. Len(fate) : fate'[n] = fate[n]
        /\ \A n \in 1 .. Len(fate') : n \in 1 .. Len(fate) \/ n = Len(fate')
    BY <2>2, <1>0 DEF PusherTypeOK
  <2>4. Taken = Len(fate') /\ Taken' = Taken
    BY <2>1, <2>3 DEF Taken
  <2>5. CASE how # "published" /\ sent' = sent
    BY <2>1, <2>3, <2>4, <2>5 DEF SentInOrder
  <2>6. CASE how = "published" /\ sent' = Append(sent, thread.hand) /\ thread.at \in {"send", "resend"}
    <3>1. /\ Len(sent') = Len(sent) + 1 /\ sent'[Len(sent')] = Taken
          /\ \A i \in 1 .. Len(sent) : sent'[i] = sent[i]
          /\ \A i \in 1 .. Len(sent') : sent'[i] <= Taken
          /\ \A i, j \in 1 .. Len(sent') : i < j => sent'[i] <= sent'[j]
          /\ \A i \in 1 .. Len(sent') - 2 : sent'[i] < sent'[i + 2]
      BY <2>6, SentAppended
    <3>2. ASSUME NEW n \in 1 .. Len(fate'), fate'[n] = "published"
          PROVE  \E i \in 1 .. Len(sent') : sent'[i] = n
      <4>1. CASE n = Len(fate')
        <5>1. Len(sent') \in 1 .. Len(sent')
          BY <3>1, <1>0
        <5> QED  BY <4>1, <5>1, <3>1, <2>4
      <4>2. CASE n \in 1 .. Len(fate)
        <5>1. PICK i \in 1 .. Len(sent) : sent[i] = n
          BY <4>2, <3>2, <2>3 DEF SentInOrder
        <5> QED  BY <5>1, <3>1, <1>0
      <4> QED  BY <4>1, <4>2, <2>3
    <3> QED  BY <3>1, <3>2, <2>1, <2>4 DEF SentInOrder
  <2> QED  BY <2>2, <2>5, <2>6
<1>4. CASE ThreadFails
  <2>1. /\ thread.at \in {"send", "resend"} /\ thread.at \in Busy /\ thread'.at \in Busy
        /\ thread'.at \notin Unsent
        /\ thread'.at \in Resending => thread.at = "send"
        /\ thread.at = "send" => thread.at \in Unsent
        /\ fate' = fate
    BY <1>4 DEF ThreadFails, ThreadMoved, Busy, Unsent, Resending
  <2>2. Taken' = Taken
    BY <2>1 DEF Taken
  <2>3. CASE sent' = sent
    BY <2>1, <2>2, <2>3, <1>0 DEF SentInOrder
  <2>4. CASE sent' = Append(sent, thread.hand)
    <3>1. /\ Len(sent') = Len(sent) + 1
          /\ \A i \in 1 .. Len(sent) : sent'[i] = sent[i]
          /\ \A i \in 1 .. Len(sent') : sent'[i] <= Taken
          /\ thread.at = "send" => \A i \in 1 .. Len(sent') - 1 : sent'[i] <= Len(fate)
          /\ \A i, j \in 1 .. Len(sent') : i < j => sent'[i] <= sent'[j]
          /\ \A i \in 1 .. Len(sent') - 2 : sent'[i] < sent'[i + 2]
      BY <2>1, <2>4, SentAppended
    <3>2. ASSUME NEW n \in 1 .. Len(fate), fate[n] = "published"
          PROVE  \E i \in 1 .. Len(sent') : sent'[i] = n
      <4>1. PICK i \in 1 .. Len(sent) : sent[i] = n
        BY <3>2 DEF SentInOrder
      <4> QED  BY <4>1, <3>1, <1>0
    <3> QED  BY <3>1, <3>2, <2>1, <2>2 DEF SentInOrder
  <2> QED  BY <1>4, <2>3, <2>4 DEF ThreadFails
<1> QED
  BY <1>1, <1>2, <1>3, <1>4, ThreadFacts DEF ThreadKind

-----------------------------------------------------------------------------
(* A thread that ends in the normal way leaves no message *)

NobodyPuts == thread.at # "log_put" /\ \A p \in Pusher : pusher[p] # "put"

EndsInOrder ==
  ~Crashed =>
    /\ ~publishing => NobodyPuts
    /\ thread.at \in {"check_empty", "ending", "dead"} => ~publishing
    /\ thread.at \in {"ending", "dead"} => Pending = {}

(* A crash is not forgotten, and it has ended the thread. *)
LEMMA CrashesStay ==
  ASSUME PusherTypeOK, UNCHANGED fate \/ \E how : fate' = Append(fate, how)
  PROVE  /\ Crashed => Crashed'
         /\ \A how : how # "crashed" /\ fate' = Append(fate, how) => (Crashed' <=> Crashed)
         /\ fate' = Append(fate, "crashed") => Crashed'
<1>0. fate \in Seq(Fate) /\ Len(fate) \in Nat
  BY DEF PusherTypeOK
<1>1. CASE UNCHANGED fate
  BY <1>1, <1>0 DEF Crashed
<1>2. ASSUME NEW how, fate' = Append(fate, how)
      PROVE  Crashed' <=> (Crashed \/ how = "crashed")
  <2>1. /\ Len(fate') = Len(fate) + 1 /\ fate'[Len(fate')] = how
        /\ \A n \in 1 .. Len(fate) : fate'[n] = fate[n]
        /\ \A n \in 1 .. Len(fate') : n \in 1 .. Len(fate) \/ n = Len(fate')
        /\ Len(fate') \in 1 .. Len(fate') /\ 1 .. Len(fate) \subseteq 1 .. Len(fate')
    BY <1>0, <1>2
  <2> QED  BY <2>1 DEF Crashed
<1> QED
  BY <1>1, <1>2

LEMMA PendingFacts ==
  ASSUME PusherTypeOK, Pending = {}
  PROVE  /\ fifo' = fifo => Pending' = {}
         /\ fifo' = Append(fifo, WakeUp) => Pending' = {}
         /\ fifo # <<>> /\ fifo' = Tail(fifo) => Pending' = {}
<1>0. fifo \in Seq(Nat) /\ Len(fifo) \in Nat /\ \A i \in 1 .. Len(fifo) : fifo[i] = WakeUp
  <2>1. fifo \in Seq(Nat)
    BY DEF PusherTypeOK
  <2>2. \A i \in 1 .. Len(fifo) : fifo[i] = WakeUp
    BY DEF Pending
  <2> QED  BY <2>1, <2>2
<1>1. ASSUME fifo' = Append(fifo, WakeUp)  PROVE \A i \in 1 .. Len(fifo') : fifo'[i] = WakeUp
  <2>1. /\ Len(fifo') = Len(fifo) + 1 /\ fifo'[Len(fifo) + 1] = WakeUp
        /\ \A i \in 1 .. Len(fifo) : fifo'[i] = fifo[i]
    BY <1>0, <1>1 DEF WakeUp
  <2> QED  BY <2>1, <1>0
<1>2. ASSUME fifo # <<>>, fifo' = Tail(fifo)  PROVE \A i \in 1 .. Len(fifo') : fifo'[i] = WakeUp
  <2>1. Len(fifo') = Len(fifo) - 1 /\ \A i \in 1 .. Len(fifo') : fifo'[i] = fifo[i + 1]
    BY <1>0, <1>2
  <2> QED  BY <2>1, <1>0
<1> QED
  BY <1>1, <1>2 DEF Pending

(* What a step of push() does to the fifo, and who may do it. *)
LEMMA PushFacts ==
  ASSUME PusherTypeOK, NEW p \in Pusher, Push(p)
  PROVE  /\ UNCHANGED <<thread, closer, fate, sent, publishing, connectionClosed, link>>
         /\ \A q \in Pusher \ {p} : pusher'[q] = pusher[q]
         /\ pusher'[p] = "put" => publishing /\ pusher[p] = "check"
         /\ (PutMessage /\ pusher[p] = "put") \/ UNCHANGED <<fifo, accepted>>
<1> USE DEF Push, PushBegin, PushLock, PushCheck, PushPut, PusherGoes, flags, history
<1>1. /\ UNCHANGED <<thread, closer, fate, sent, publishing, connectionClosed, link>>
      /\ (PutMessage /\ pusher[p] = "put") \/ UNCHANGED <<fifo, accepted>>
  OBVIOUS
<1>2. pusher \in [Pusher -> PusherPoint]
  BY DEF PusherTypeOK
<1>3. /\ \A q \in Pusher \ {p} : pusher'[q] = pusher[q]
      /\ pusher'[p] = "put" => publishing /\ pusher[p] = "check"
  BY <1>2
<1> QED
  BY <1>1, <1>3

LEMMA EndsKeptByPush ==
  ASSUME PusherTypeOK, EndsInOrder, NEW p \in Pusher, Push(p)
  PROVE  EndsInOrder'
<1> SUFFICES ASSUME ~Crashed  PROVE EndsInOrder'
  BY PushFacts, CrashesStay DEF EndsInOrder
<1>1. ~publishing => NobodyPuts'
  BY PushFacts DEF EndsInOrder, NobodyPuts
<1>2. thread.at \in {"ending", "dead"} => fifo' = fifo
  BY PushFacts DEF EndsInOrder, NobodyPuts
<1> QED
  BY <1>1, <1>2, PushFacts DEF EndsInOrder, Pending

LEMMA StoppersExclude ==
  ASSUME PushLockIsExclusive, NEW c \in Closer, Stopping(c)
  PROVE  NobodyPuts
BY DEF PushLockIsExclusive, InPush, ThreadPushes, NobodyPuts

LEMMA EndsKeptByClosers ==
  ASSUME PusherTypeOK, PushLockIsExclusive, EndsInOrder, NEW c \in Closer, CloserStep(c)
  PROVE  EndsInOrder'
<1> SUFFICES ASSUME ~Crashed  PROVE EndsInOrder'
  BY CloserFacts, CrashesStay DEF EndsInOrder
<1>1. NobodyPuts' = NobodyPuts /\ thread' = thread
  BY CloserFacts DEF NobodyPuts
<1>2. /\ fifo' = fifo \/ fifo' = Append(fifo, WakeUp)
      /\ publishing' = publishing \/ (~publishing' /\ closer[c].at = "stop")
  BY CloserFacts
  DEF CloserKind, CloserWalks, CloserLocks, CloserStops, CloserWakes, CloserChecks,
      CloserLeaves, CloserCloses, CloserMoved
<1>3. Pending = {} => Pending' = {}
  BY <1>2, PendingFacts
<1>4. closer[c].at = "stop" => NobodyPuts
  BY StoppersExclude DEF Stopping
<1> QED
  BY <1>1, <1>2, <1>3, <1>4 DEF EndsInOrder

LEMMA EndsKeptByThread ==
  ASSUME PusherTypeOK, EndsInOrder, ThreadStep
  PROVE  EndsInOrder'
<1> SUFFICES ASSUME ~Crashed'  PROVE EndsInOrder'
  BY DEF EndsInOrder
<1>0. UNCHANGED pusher /\ ~Crashed
  <2>1. UNCHANGED fate \/ \E how : fate' = Append(fate, how)
    BY ThreadFacts
    DEF ThreadKind, ThreadWalks, ThreadGets, ThreadSettles, ThreadFails, ThreadConnects,
        ThreadLogs, ThreadEnds, SameQueues
  <2> QED  BY <2>1, CrashesStay, ThreadFacts
<1>1. CASE ThreadWalks
  <2>1. fifo = <<>> => Pending = {}
    BY DEF Pending
  <2>2. Pending' = Pending
    BY <1>1 DEF ThreadWalks, SameQueues, Pending
  <2> QED
    BY <2>1, <2>2, <1>0, <1>1 DEF ThreadWalks, ThreadMoved, EndsInOrder, NobodyPuts
<1>2. CASE ThreadGets \/ ThreadFails \/ ThreadConnects \/ ThreadLogs
  BY <1>0, <1>2
  DEF ThreadGets, ThreadFails, ThreadConnects, ThreadLogs, ThreadMoved, EndsInOrder, NobodyPuts
<1>3. CASE ThreadSettles
  <2>1. thread'.at = "check_flag"
    BY <1>0, <1>3, CrashesStay DEF ThreadSettles
  <2> QED  BY <2>1, <1>0, <1>3 DEF ThreadSettles, EndsInOrder, NobodyPuts
<1>4. CASE ThreadEnds
  BY <1>0, <1>4 DEF ThreadEnds, ThreadMoved, SameQueues, EndsInOrder, NobodyPuts, Pending
<1> QED
  BY <1>1, <1>2, <1>3, <1>4, ThreadFacts DEF ThreadKind

-----------------------------------------------------------------------------
(* Whoever has been told that all is done is right *)

Checked == {"lock_connection", "close", "flag"}

Done == ~Alive /\ Pending = {} /\ ~publishing /\ NobodyPuts

ToldOk(c) == closer[c].result = "ok" \/ Returned(c)

StopsInOrder ==
  /\ \A c \in Closer : closer[c].result = "none" <=> closer[c].at \notin Checked
  /\ \A c \in Closer : closer[c].at \in {"wake", "clear", "join", "check"} => ~publishing
  /\ \A c \in Closer : ToldOk(c) => Done

LEMMA RangeOfAppended ==
  ASSUME NEW S, NEW s \in Seq(S), NEW e \in S
  PROVE  Range(Append(s, e)) = Range(s) \cup {e}
<1>1. /\ DOMAIN s = 1 .. Len(s) /\ Len(s) \in Nat
      /\ DOMAIN Append(s, e) = 1 .. Len(s) + 1
      /\ \A i \in 1 .. Len(s) : Append(s, e)[i] = s[i]
      /\ Append(s, e)[Len(s) + 1] = e
      /\ \A i \in 1 .. Len(s) + 1 : i \in 1 .. Len(s) \/ i = Len(s) + 1
      /\ Len(s) + 1 \in 1 .. Len(s) + 1 /\ 1 .. Len(s) \subseteq 1 .. Len(s) + 1
  OBVIOUS
<1> QED
  BY <1>1 DEF Range

LEMMA DoneStays ==
  ASSUME PusherTypeOK, Done,
         \/ \E p \in Pusher : Push(p)
         \/ \E c \in Closer : CloserStep(c)
         \/ ThreadStep
  PROVE  Done' /\ UNCHANGED <<accepted, fate, sent>>
<1>1. ASSUME NEW p \in Pusher, Push(p)  PROVE Done' /\ UNCHANGED <<accepted, fate, sent>>
  BY <1>1, PushFacts DEF Done, NobodyPuts, Alive, Pending
<1>2. ASSUME NEW c \in Closer, CloserStep(c)  PROVE Done' /\ UNCHANGED <<accepted, fate, sent>>
  <2>1. fifo' = fifo /\ ~publishing'
    BY <1>2, CloserFacts
    DEF CloserKind, CloserWalks, CloserLocks, CloserStops, CloserWakes, CloserChecks,
        CloserLeaves, CloserCloses, Done
  <2> QED  BY <1>2, <2>1, CloserFacts DEF Done, NobodyPuts, Alive, Pending
<1>3. ~ThreadStep
  BY ThreadFacts
  DEF ThreadKind, ThreadWalks, ThreadGets, ThreadSettles, ThreadFails, ThreadConnects,
      ThreadLogs, ThreadEnds, ThreadMoved, Done, Alive
<1> QED
  BY <1>1, <1>2, <1>3

(* How the outcomes known to a closer change. *)
LEMMA Outcomes ==
  ASSUME PusherTypeOK, StopsInOrder, NEW c \in Closer, CloserStep(c)
  PROVE  /\ closer'[c].result = "none" <=> closer'[c].at \notin Checked
         /\ \/ closer'[c].result = closer[c].result /\ Returned(c)' = Returned(c)
            \/ CloserChecks(c) /\ Returned(c)' = Returned(c)
            \/ /\ closer'[c].result = "none"
               /\ (Returned(c)' => ToldOk(c)) /\ (Returned(c) => Returned(c)')
         /\ LET before == {closer[c].result} \cup Range(closer[c].past)
                after == {closer'[c].result} \cup Range(closer'[c].past)
            IN "error" \in before => "error" \in after
<1>0. /\ closer[c] \in CloserState /\ closer[c].past \in Seq(Result)
      /\ closer[c].result \in Result
  BY DEF PusherTypeOK, CloserState
<1> USE DEF StopsInOrder, Checked, Returned, ToldOk
<1>1. CASE CloserWalks(c) \/ CloserLocks(c) \/ CloserStops(c) \/ CloserWakes(c) \/ CloserCloses(c)
  BY <1>1
  DEF CloserWalks, CloserLocks, CloserStops, CloserWakes, CloserCloses, CloserMoved
<1>2. CASE CloserChecks(c)
  BY <1>2 DEF CloserChecks
<1>3. CASE CloserLeaves(c)
  <2>1. PICK r \in {closer[c].result, "error"} : closer'[c].past = Append(closer[c].past, r)
    BY <1>3 DEF CloserLeaves
  <2>2. Range(closer'[c].past) = Range(closer[c].past) \cup {r}
    BY <2>1, <1>0, RangeOfAppended DEF Result
  <2> QED  BY <2>1, <2>2, <1>3 DEF CloserLeaves
<1> QED
  BY <1>1, <1>2, <1>3, CloserFacts DEF CloserKind

LEMMA StopsKeptByClosers ==
  ASSUME PusherTypeOK, PushLockIsExclusive, StopsInOrder, NEW c \in Closer, CloserStep(c)
  PROVE  StopsInOrder'
<1>1. /\ \A d \in Closer \ {c} : closer'[d] = closer[d] /\ ToldOk(d)' = ToldOk(d)
      /\ publishing' => publishing
  BY CloserFacts
  DEF ToldOk, Returned, CloserKind, CloserWalks, CloserLocks, CloserStops, CloserWakes,
      CloserChecks, CloserLeaves, CloserCloses
<1>2. ASSUME NEW d \in Closer  PROVE closer'[d].result = "none" <=> closer'[d].at \notin Checked
  BY <1>1, Outcomes DEF StopsInOrder
<1>3. ASSUME NEW d \in Closer, closer'[d].at \in {"wake", "clear", "join", "check"}
      PROVE  ~publishing'
  <2>1. CASE d = c
    BY <1>1, <1>3, <2>1, CloserFacts
    DEF CloserKind, CloserWalks, CloserLocks, CloserStops, CloserWakes, CloserChecks,
        CloserLeaves, CloserCloses, CloserMoved, StopsInOrder
  <2> QED  BY <2>1, <1>1, <1>3 DEF StopsInOrder
<1>4. ASSUME NEW d \in Closer, ToldOk(d)'  PROVE Done'
  <2>1. CASE Done
    BY <2>1, DoneStays
  <2>2. CASE ~Done
    <3>1. ~ToldOk(c) /\ d = c /\ CloserChecks(c) /\ closer'[c].result = "ok"
      BY <2>2, <1>1, <1>4, Outcomes DEF StopsInOrder, ToldOk, Returned
    <3>2. ~Alive /\ Pending = {} /\ ~publishing /\ NobodyPuts
      BY <3>1, StoppersExclude DEF CloserChecks, StopsInOrder, Stopping
    <3> QED  BY <2>2, <3>2 DEF Done
  <2> QED  BY <2>1, <2>2
<1> QED
  BY <1>2, <1>3, <1>4 DEF StopsInOrder

LEMMA StopsKeptOtherwise ==
  ASSUME PusherTypeOK, StopsInOrder, (\E p \in Pusher : Push(p)) \/ ThreadStep
  PROVE  StopsInOrder'
<1>1. UNCHANGED closer /\ (publishing' => publishing)
  BY PushFacts, ThreadFacts
  DEF ThreadKind, ThreadWalks, ThreadGets, ThreadSettles, ThreadFails, ThreadConnects,
      ThreadLogs, ThreadEnds
<1> QED
  BY <1>1, DoneStays DEF StopsInOrder, ToldOk, Returned

-----------------------------------------------------------------------------
(* Who reopens the connection *)

ClosesInOrder ==
  connectionClosed \/ (\E c \in Closer : closer[c].at = "flag")
    => GaveUp \/ (~Alive /\ link = "down")

LEMMA ClosesKept ==
  ASSUME PusherTypeOK, StopsInOrder, ClosesInOrder,
         \/ \E p \in Pusher : Push(p)
         \/ \E c \in Closer : CloserStep(c)
         \/ ThreadStep
         \/ LoseLink
  PROVE  ClosesInOrder'
<1>1. CASE \E p \in Pusher : Push(p)
  BY <1>1, PushFacts DEF ClosesInOrder, GaveUp, Alive
<1>2. ASSUME NEW c \in Closer, CloserStep(c)  PROVE ClosesInOrder'
  <2>1. /\ \A d \in Closer \ {c} : closer'[d] = closer[d]
        /\ thread' = thread
    BY <1>2, CloserFacts
  <2>2. GaveUp => GaveUp'
    BY <1>2, <2>1, Outcomes DEF GaveUp
  <2>3. CASE CloserCloses(c)
    <3>1. closer[c].result # "none" /\ closer[c].result \in Result
          /\ closer'[c].result = closer[c].result /\ link' = "down"
      BY <2>3 DEF CloserCloses, CloserMoved, StopsInOrder, Checked, PusherTypeOK, CloserState
    <3>2. CASE closer[c].result = "error"
      BY <3>1, <3>2 DEF ClosesInOrder, GaveUp
    <3>3. CASE closer[c].result = "ok"
      BY <3>1, <3>3, <2>1 DEF ClosesInOrder, StopsInOrder, ToldOk, Done, Alive
    <3> QED  BY <3>1, <3>2, <3>3 DEF Result
  <2>4. CASE ~CloserCloses(c)
    <3>1. /\ link' = link
          /\ connectionClosed' => connectionClosed \/ closer[c].at = "flag"
          /\ closer'[c].at # "flag"
      BY <1>2, <2>4, CloserFacts
      DEF CloserKind, CloserWalks, CloserLocks, CloserStops, CloserWakes, CloserChecks,
          CloserLeaves, CloserMoved
    <3> QED  BY <3>1, <2>1, <2>2 DEF ClosesInOrder, Alive
  <2> QED  BY <2>3, <2>4
<1>3. CASE ThreadStep
  <2>1. Alive /\ UNCHANGED <<closer, connectionClosed>>
    BY <1>3, ThreadFacts
    DEF ThreadKind, ThreadWalks, ThreadGets, ThreadSettles, ThreadFails, ThreadConnects,
        ThreadLogs, ThreadEnds, ThreadMoved, Alive
  <2> QED  BY <2>1 DEF ClosesInOrder, GaveUp
<1>4. CASE LoseLink
  BY <1>4 DEF LoseLink, flags, ClosesInOrder, GaveUp, Alive
<1> QED
  BY <1>1, <1>2, <1>3, <1>4

-----------------------------------------------------------------------------
(* The whole *)

PusherInvariant ==
  /\ PusherTypeOK /\ PushLockIsExclusive /\ InOrder /\ SentInOrder
  /\ EndsInOrder /\ StopsInOrder /\ ClosesInOrder

LEMMA InvariantInitially == PusherInit => PusherInvariant
<1> SUFFICES ASSUME PusherInit  PROVE PusherInvariant
  OBVIOUS
<1> USE DEF PusherInit
<1>1. PusherTypeOK
  BY TypesInitially
<1>2. PushLockIsExclusive
  BY DEF PushLockIsExclusive, InPush, Stopping, ThreadPushes
<1>3. Len(fate) = 0 /\ Len(sent) = 0 /\ Len(fifo) = 0 /\ Taken = 0 /\ ~Crashed /\ Pending = {}
  BY DEF Taken, Busy, Crashed, Pending
<1>4. InOrder
  BY <1>3 DEF InOrder, Holds, Busy
<1>5. SentInOrder
  BY <1>3 DEF SentInOrder
<1>6. EndsInOrder
  BY DEF EndsInOrder
<1>7. StopsInOrder
  BY DEF StopsInOrder, ToldOk, Returned, Range, Checked
<1>8. ClosesInOrder
  BY DEF ClosesInOrder
<1> QED
  BY <1>1, <1>2, <1>4, <1>5, <1>6, <1>7, <1>8 DEF PusherInvariant

LEMMA InvariantIsKept ==
  ASSUME PusherInvariant, [PusherNext]_vars
  PROVE  PusherInvariant'
<1> USE DEF PusherInvariant
<1>0. PusherTypeOK'
  BY TypesAreKept
<1>1. ASSUME NEW p \in Pusher, Push(p)  PROVE PusherInvariant'
  <2>1. SentInOrder'
    BY <1>1, PushFacts, SentKeptOtherwise
  <2> QED
    BY <2>1, <1>0, <1>1, LockKeptByPush, OrderKeptByPush, EndsKeptByPush, StopsKeptOtherwise,
       ClosesKept
<1>2. ASSUME NEW c \in Closer, CloserStep(c)  PROVE PusherInvariant'
  <2>1. SentInOrder'
    BY <1>2, CloserFacts, SentKeptOtherwise
  <2> QED
    BY <2>1, <1>0, <1>2, LockKeptByClosers, OrderKeptByClosers, EndsKeptByClosers,
       StopsKeptByClosers, ClosesKept
<1>3. CASE ThreadStep
  BY <1>0, <1>3, LockKeptByThread, OrderKeptByThread, SentKeptByThread, EndsKeptByThread,
     StopsKeptOtherwise, ClosesKept
<1>4. CASE LoseLink \/ UNCHANGED vars
  <2>1. UNCHANGED <<publishing, connectionClosed, fifo, lock, thread, pusher, closer, accepted,
                    fate, sent>>
    BY <1>4 DEF LoseLink, vars, flags, history
  <2>2. PushLockIsExclusive' /\ InOrder'
    BY <2>1 DEF PushLockIsExclusive, InPush, Stopping, ThreadPushes, InOrder, Taken
  <2>3. SentInOrder' /\ EndsInOrder'
    BY <2>1, SentKeptOtherwise DEF EndsInOrder, Crashed, NobodyPuts, Pending
  <2>4. StopsInOrder'
    BY <2>1 DEF StopsInOrder, ToldOk, Returned, Done, NobodyPuts, Alive, Pending
  <2>5. ClosesInOrder'
    BY <1>4, ClosesKept DEF vars, flags, ClosesInOrder, GaveUp, Alive
  <2> QED  BY <2>2, <2>3, <2>4, <2>5, <1>0
<1> QED
  BY <1>1, <1>2, <1>3, <1>4 DEF PusherNext, CloserStep, ThreadStep

LEMMA PusherInvariantHolds == PusherSpec => []PusherInvariant
<1>1. PusherInit => PusherInvariant
  BY InvariantInitially
<1>2. PusherInvariant /\ [PusherNext]_vars => PusherInvariant'
  BY InvariantIsKept
<1> QED
  BY <1>1, <1>2, PTL DEF PusherSpec

(* The loop condition and the push lock: a thread that ends without a crash
   leaves nothing in the fifo; and what it sends, it sends in the order of
   acceptance, once, or twice when the connection broke. *)
THEOREM SentAsAcceptedHolds == PusherSpec => []SentAsAccepted
<1>1. PusherInvariant => SentAsAccepted
  BY DEF PusherInvariant, SentInOrder, EndsInOrder, SentAsAccepted, Alive
<1> QED
  BY <1>1, PusherInvariantHolds, PTL

(* _close_connection(): the connection stays closed unless the thread could not
   be stopped, and then some shutdown() has said so. *)
THEOREM ReopenedAfterGivingUp == PusherSpec => []ReopenedOnlyAfterGivingUp
<1>1. PusherInvariant => ReopenedOnlyAfterGivingUp
  BY DEF PusherInvariant, ClosesInOrder, ReopenedOnlyAfterGivingUp
<1> QED
  BY <1>1, PusherInvariantHolds, PTL

-----------------------------------------------------------------------------
(* The queue that is promised *)

SomebodyReturned == \E c \in Closer : Returned(c)

(* When all is done, everything accepted has been settled. *)
LEMMA DoneIsSettled ==
  ASSUME PusherInvariant, Done
  PROVE  Len(fate) = accepted
<1> USE DEF PusherInvariant
<1>1. Taken = Len(fate) /\ Taken \in Nat /\ accepted \in Nat /\ Holds(fifo, Taken, accepted)
  BY TypesOfOrder DEF Done, Alive, Taken, Busy, InOrder
<1>2. CASE Taken < accepted
  <2>1. PICK i \in 1 .. Len(fifo) : fifo[i] = accepted
    BY <1>1, <1>2 DEF Holds
  <2> QED  BY <2>1, <1>1, <1>2 DEF Done, Pending, WakeUp
<1> QED
  BY <1>1, <1>2 DEF Holds

LEMMA QueueInitially == PusherInit => Queue!Init
<1> SUFFICES ASSUME PusherInit  PROVE Queue!Init
  OBVIOUS
<1>1. Len(fate) = 0 /\ accepted = 0 /\ ~SomebodyReturned
  BY DEF PusherInit, SomebodyReturned, Returned, Range
<1> QED
  BY <1>1 DEF Queue!Init, SomebodyReturned

LEMMA QueueSteps ==
  ASSUME PusherInvariant, [PusherNext]_vars
  PROVE  [Queue!Next]_Queue!vars
<1> USE DEF PusherInvariant
<1>0. accepted \in Nat /\ Len(fate) \in Nat
  BY TypesOfOrder
<1>1. CASE UNCHANGED <<accepted, fate>> /\ SomebodyReturned' = SomebodyReturned
  BY <1>1 DEF Queue!vars, SomebodyReturned
(* A message is accepted. *)
<1>2. ASSUME PutMessage, UNCHANGED <<closer, fate>>,
             (\E p \in Pusher : Push(p)) \/ ThreadStep
      PROVE  [Queue!Next]_Queue!vars
  <2>1. SomebodyReturned' = SomebodyReturned
    BY <1>2 DEF SomebodyReturned, Returned
  <2>2. CASE accepted' = accepted
    BY <2>1, <2>2, <1>1, <1>2
  <2>3. CASE accepted' = accepted + 1
    <3>1. ~SomebodyReturned
      BY <2>3, <1>0, <1>2, DoneStays DEF SomebodyReturned, StopsInOrder, ToldOk
    <3> QED
      BY <3>1, <2>1, <2>3, <1>2 DEF Queue!Next, Queue!Accept, SomebodyReturned
  <2> QED  BY <2>2, <2>3, <1>2 DEF PutMessage
<1>3. ASSUME NEW p \in Pusher, Push(p)  PROVE [Queue!Next]_Queue!vars
  BY <1>1, <1>2, <1>3, PushFacts DEF SomebodyReturned, Returned
(* A shutdown() returns. *)
<1>4. ASSUME NEW c \in Closer, CloserStep(c)  PROVE [Queue!Next]_Queue!vars
  <2>1. /\ UNCHANGED <<accepted, fate>>
        /\ \A d \in Closer \ {c} : Returned(d)' = Returned(d)
    BY <1>4, CloserFacts DEF Returned
  <2>2. (Returned(c)' => ToldOk(c)) /\ (Returned(c) => Returned(c)')
    BY <1>4, Outcomes DEF ToldOk
  <2>3. CASE Returned(c)' = Returned(c)
    BY <2>1, <2>3, <1>1 DEF SomebodyReturned
  <2>4. CASE Returned(c)' # Returned(c)
    <3>1. SomebodyReturned' /\ ToldOk(c)
      BY <2>2, <2>4 DEF SomebodyReturned, Returned
    <3>2. Len(fate) = accepted
      BY <3>1, DoneIsSettled DEF StopsInOrder
    <3> QED  BY <3>1, <3>2, <2>1 DEF Queue!Next, Queue!Close, SomebodyReturned
  <2> QED  BY <2>3, <2>4
<1>5. ASSUME ThreadStep  PROVE [Queue!Next]_Queue!vars
  <2>1. ThreadKind /\ UNCHANGED closer
    BY <1>5, ThreadFacts
  <2>2. SomebodyReturned' = SomebodyReturned
    BY <2>1 DEF SomebodyReturned, Returned
  <2>3. CASE ThreadSettles
    <3>1. PICK how : fate' = Append(fate, how) /\ accepted' = accepted /\ thread.at \in Busy
      BY <2>3 DEF ThreadSettles, Busy
    <3>2. Len(fate') = Len(fate) + 1
      BY <3>1, TypesOfOrder
    <3>3. Len(fate) < accepted
      BY <3>1, <1>0 DEF InOrder, Holds, Taken
    <3> QED
      BY <3>1, <3>2, <3>3, <2>2 DEF Queue!Next, Queue!Settle, SomebodyReturned
  <2>4. CASE ThreadLogs
    <3>1. fate' = fate /\ (PutMessage \/ accepted' = accepted)
      BY <2>4 DEF ThreadLogs, SameQueues
    <3> QED  BY <3>1, <2>1, <2>2, <1>1, <1>2, <1>5
  <2>5. CASE ThreadWalks \/ ThreadGets \/ ThreadFails \/ ThreadConnects \/ ThreadEnds
    <3>1. UNCHANGED <<accepted, fate>>
      BY <2>5 DEF ThreadWalks, ThreadGets, ThreadFails, ThreadConnects, ThreadEnds, SameQueues
    <3> QED  BY <3>1, <2>2, <1>1
  <2> QED  BY <2>1, <2>3, <2>4, <2>5 DEF ThreadKind
<1>6. CASE LoseLink \/ UNCHANGED vars
  BY <1>1, <1>6 DEF LoseLink, vars, history, SomebodyReturned, Returned
<1> QED
  BY <1>3, <1>4, <1>5, <1>6 DEF PusherNext, CloserStep, ThreadStep

(* AMQPThreadedPusher keeps its promise to those who push: nothing accepted is
   lost without a word, nothing overtakes, and after a shutdown() that has
   returned normally nothing is undone or accepted. *)
THEOREM QueueImplemented == PusherSpec => ImplementsQueue
<1>1. PusherInit => Queue!Init
  BY QueueInitially
<1>2. PusherInvariant /\ [PusherNext]_vars => [Queue!Next]_Queue!vars
  BY QueueSteps
<1> QED
  BY <1>1, <1>2, PusherInvariantHolds, PTL DEF PusherSpec, ImplementsQueue, Queue!Spec

=============================================================================
