--------------------------- MODULE ThreadedPusher ---------------------------
(***************************************************************************)
(* The AMQP pusher with a publishing thread                                *)
(* (N6Lib/n6lib/amqp_getters_pushers.py: AMQPThreadedPusher over           *)
(* AMQPSimplePusher and BaseAMQPTool), as the AMQP logging handler uses it *)
(* (N6Lib/n6lib/log_helpers.py: AMQPHandler).                              *)
(*                                                                         *)
(* Any number of threads push() messages into a bounded fifo; one          *)
(* publishing thread takes them out, serializes and publishes them,        *)
(* reconnecting when the AMQP connection is lost; shutdown() stops the     *)
(* thread after it has emptied the fifo, and closes the connection.        *)
(*                                                                         *)
(* Messages are known by their numbers, in the order of their acceptance.  *)
(***************************************************************************)
EXTENDS Naturals, Sequences, Functions

CONSTANTS
  Pusher,       (* The threads that push messages.                          *)
  Closer,       (* The threads that call shutdown()...                      *)
  MaxCalls,     (* ...and how many times each of them does it at most.      *)
  FifoMax,      (* output_fifo_max_size.                                    *)
  Attempts,     (* CONNECTION_ATTEMPTS.                                     *)
  MaxItems,     (* When so many messages have been accepted, no push() starts
                   until the pusher is inactive.  Bounds the model.         *)
  Events        (* Which of the events in EventKind happen.                 *)

(* "timeout"  a timeout of shutdown() is reached
   "fatal"    an exception that is not an Exception stops the thread
   "logging"  the AMQP library logs in the publishing thread, and the record
              comes to the same pusher                                      *)
EventKind == {"timeout", "fatal", "logging"}

ASSUME PusherAssumption ==
  /\ FifoMax \in Nat \ {0} /\ Attempts \in Nat \ {0} /\ MaxItems \in Nat
  /\ MaxCalls \in Nat
  /\ Events \subseteq EventKind

VARIABLES
  publishing,         (* The _publishing flag.                              *)
  shutdownInitiated,  (* The _shutdown_initiated flag.                      *)
  connectionClosed,   (* The _connection_closed flag.                       *)
  indicator,          (* The _publishing_thread_liveliness_indicator flag.  *)
  fifo,               (* _output_fifo: message numbers and WakeUp sentinels. *)
  lock,               (* lock[l]: whether the lock l is "free" or "held".   *)
  link,               (* The AMQP connection, "up" or "down".               *)
  thread,             (* The publishing thread: where it is, the message in
                         its hand (0: none), failed connection attempts.    *)
  pusher,             (* pusher[p]: where p is in push().                   *)
  closer,             (* closer[c]: where c is in shutdown(), how its check of
                         the state after the stop has ended, and how its
                         earlier calls have ended (for the properties).     *)
  accepted,           (* The number of messages put into the fifo.          *)
  fate,               (* What the thread has done with messages 1, 2, ...
                         A history variable.                                *)
  sent                (* What has been handed to the AMQP library, or may
                         have been.  A history variable.                    *)

flags == <<publishing, shutdownInitiated, connectionClosed, indicator>>
history == <<fate, sent>>
vars == <<flags, fifo, lock, link, thread, pusher, closer, accepted, history>>

WakeUp == 0

Lock == {"push", "shutdown", "connection"}
LockState == {"free", "held"}

(* "unpublished": the serializer has returned DoNotPublish, or an error has
   been handled.  *)
Fate == {"published", "unpublished", "crashed"}

PusherPoint == {"out", "lock", "check", "put"}

CloserPoint == {"out", "lock_shutdown", "lock_push", "stop", "wake", "clear",
                "join", "check", "lock_connection", "close", "flag"}

ThreadPoint == {"check_flag", "check_empty", "mark", "get", "serialize",
                "publish", "log_lock", "log_check", "log_put", "send",
                "decide", "setup", "connect", "republish", "resend", "error",
                "ending", "dead"}

Alive == thread.at # "dead"

Take(l) ==
  /\ lock[l] = "free"
  /\ lock' = [lock EXCEPT ![l] = "held"]

Release(l) == lock' = [lock EXCEPT ![l] = "free"]

Full == Len(fifo) >= FifoMax

PusherInit ==
  /\ publishing = TRUE /\ shutdownInitiated = FALSE
  /\ connectionClosed = FALSE /\ indicator = FALSE
  /\ fifo = <<>>
  /\ lock = [l \in Lock |-> "free"]
  /\ link = "up"
  /\ thread = [at |-> "check_flag", hand |-> 0, failures |-> 0]
  /\ pusher = [p \in Pusher |-> "out"]
  /\ closer = [c \in Closer |-> [at |-> "out", result |-> "none", past |-> <<>>]]
  /\ accepted = 0
  /\ fate = <<>>
  /\ sent = <<>>

-----------------------------------------------------------------------------
(* push(). *)

PusherGoes(p, from, to) ==
  /\ pusher[p] = from
  /\ pusher' = [pusher EXCEPT ![p] = to]
  /\ UNCHANGED <<flags, link, thread, closer, history>>

PushBegin(p) ==
  /\ accepted < MaxItems \/ ~publishing
  /\ PusherGoes(p, "out", "lock")
  /\ UNCHANGED <<fifo, lock, accepted>>

PushLock(p) ==
  /\ PusherGoes(p, "lock", "check")
  /\ Take("push")
  /\ UNCHANGED <<fifo, accepted>>

(* ValueError when the pusher is inactive. *)
PushCheck(p) ==
  \/ /\ publishing
     /\ PusherGoes(p, "check", "put")
     /\ UNCHANGED <<fifo, lock, accepted>>
  \/ /\ ~publishing
     /\ PusherGoes(p, "check", "out")
     /\ Release("push")
     /\ UNCHANGED <<fifo, accepted>>

(* put_nowait(), which raises queue.Full rather than block. *)
PutMessage ==
  IF Full THEN UNCHANGED <<fifo, accepted>>
          ELSE /\ fifo' = Append(fifo, accepted + 1)
               /\ accepted' = accepted + 1

PushPut(p) ==
  /\ PusherGoes(p, "put", "out")
  /\ PutMessage
  /\ Release("push")

Push(p) == PushBegin(p) \/ PushLock(p) \/ PushCheck(p) \/ PushPut(p)

-----------------------------------------------------------------------------
(* shutdown(). *)

CloserGoes(c, from, to) ==
  /\ closer[c].at = from
  /\ closer' = [closer EXCEPT ![c].at = to]
  /\ UNCHANGED <<thread, pusher, accepted, history>>

CloserReturns(c, from, result) ==
  /\ closer[c].at = from
  /\ closer' = [closer EXCEPT ![c] = [at |-> "out", result |-> "none",
                                     past |-> Append(@.past, result)]]
  /\ Release("shutdown")
  /\ UNCHANGED <<thread, pusher, accepted, history>>

CloseBegin(c) ==
  /\ Len(closer[c].past) < MaxCalls
  /\ CloserGoes(c, "out", "lock_shutdown")
  /\ shutdownInitiated' = TRUE
  /\ UNCHANGED <<publishing, connectionClosed, indicator, fifo, lock, link>>

CloseLockShutdown(c) ==
  /\ CloserGoes(c, "lock_shutdown", "lock_push")
  /\ Take("shutdown")
  /\ UNCHANGED <<flags, fifo, link>>

CloseWithoutPushLock(c) ==
  /\ CloserGoes(c, "lock_push", "stop")
  /\ UNCHANGED <<flags, fifo, link, lock>>

CloseLockPush(c) ==
  /\ CloserGoes(c, "lock_push", "stop")
  /\ Take("push")
  /\ UNCHANGED <<flags, fifo, link>>

StopPublishing(c) ==
  /\ CloserGoes(c, "stop", "wake")
  /\ publishing' = FALSE
  /\ UNCHANGED <<shutdownInitiated, connectionClosed, indicator, fifo, lock, link>>

WakeNobody(c) ==
  /\ CloserGoes(c, "wake", "clear")
  /\ UNCHANGED <<flags, fifo, lock, link>>

WakeThread(c) ==
  /\ CloserGoes(c, "wake", "clear")
  /\ fifo' = IF Alive /\ ~Full THEN Append(fifo, WakeUp) ELSE fifo
  /\ UNCHANGED <<flags, lock, link>>

ClearIndicator(c) ==
  /\ CloserGoes(c, "clear", "join")
  /\ indicator' = FALSE
  /\ UNCHANGED <<publishing, shutdownInitiated, connectionClosed, fifo, lock, link>>

JoinThread(c) ==
  /\ ~Alive
  /\ CloserGoes(c, "join", "check")
  /\ UNCHANGED <<flags, fifo, lock, link>>

(* Another join() as long as the thread shows a sign of life. *)
JoinTimesOut(c) ==
  /\ "timeout" \in Events
  /\ Alive
  /\ CloserGoes(c, "join", IF indicator THEN "clear" ELSE "check")
  /\ UNCHANGED <<flags, fifo, lock, link>>

Pending == {i \in 1 .. Len(fifo) : fifo[i] # WakeUp}

(* RuntimeError if the thread is still alive, ValueError if messages have
   been left in the fifo. *)
CheckStateAfterStop(c) ==
  /\ closer[c].at = "check"
  /\ closer' = [closer EXCEPT ![c].at = "lock_connection",
                              ![c].result = IF Alive \/ Pending # {} THEN "error" ELSE "ok"]
  /\ Release("push")
  /\ UNCHANGED <<flags, fifo, link, thread, pusher, accepted, history>>

SkipClosing(c) ==
  /\ connectionClosed
  /\ CloserReturns(c, "lock_connection", closer[c].result)
  /\ UNCHANGED <<flags, fifo, link>>

FlagThenCloseConnection(c) ==
  /\ ~connectionClosed
  /\ CloserGoes(c, "lock_connection", "close")
  /\ Take("connection")
  /\ connectionClosed' = TRUE
  /\ UNCHANGED <<publishing, shutdownInitiated, indicator, fifo, link>>

CloseLockConnection(c) ==
  /\ ~connectionClosed
  /\ CloserGoes(c, "lock_connection", "close")
  /\ Take("connection")
  /\ UNCHANGED <<flags, fifo, link>>

(* RuntimeError: "the connection cannot be closed gracefully". *)
ConnectionLockTimesOut(c) ==
  /\ "timeout" \in Events
  /\ ~connectionClosed
  /\ lock["connection"] = "held"
  /\ CloserReturns(c, "lock_connection", "error")
  /\ UNCHANGED <<flags, fifo, link>>

CloseConnection(c) ==
  /\ CloserGoes(c, "close", "flag")
  /\ link' = "down"
  /\ Release("connection")
  /\ UNCHANGED <<flags, fifo>>

CloseEnd(c) ==
  /\ CloserReturns(c, "flag", closer[c].result)
  /\ connectionClosed' = TRUE
  /\ UNCHANGED <<publishing, shutdownInitiated, indicator, fifo, link>>

(* The blocking operations of shutdown() are apart: they wait for locks. *)
CloserTakes(c) == CloseLockShutdown(c) \/ CloseLockPush(c) \/ CloseLockConnection(c)

CloserRuns(c) ==
  \/ StopPublishing(c) \/ WakeThread(c) \/ ClearIndicator(c)
  \/ JoinThread(c) \/ JoinTimesOut(c) \/ CheckStateAfterStop(c)
  \/ SkipClosing(c) \/ ConnectionLockTimesOut(c) \/ CloseConnection(c) \/ CloseEnd(c)

-----------------------------------------------------------------------------
(* _publishing_loop(). *)

ThreadGoes(from, to) ==
  /\ thread.at = from
  /\ thread' = [thread EXCEPT !.at = to]
  /\ UNCHANGED <<pusher, closer>>

(* The message in hand is dealt with. *)
Settle(from, to, how) ==
  /\ thread.at = from
  /\ thread' = [at |-> to, hand |-> 0, failures |-> 0]
  /\ fate' = Append(fate, how)
  /\ UNCHANGED <<pusher, closer>>

(* "whether the output fifo has some data", then the `_publishing` flag. *)
LoopConditionSwapped ==
  /\ \/ ThreadGoes("check_flag", IF fifo = <<>> THEN "check_empty" ELSE "mark")
     \/ ThreadGoes("check_empty", IF publishing THEN "mark" ELSE "ending")
  /\ UNCHANGED <<flags, fifo, lock, link, accepted, history>>

(* "first the `_publishing` flag, then whether the output fifo has some
   data" *)
LoopCondition ==
  /\ \/ ThreadGoes("check_flag", IF publishing THEN "mark" ELSE "check_empty")
     \/ ThreadGoes("check_empty", IF fifo = <<>> THEN "ending" ELSE "mark")
  /\ UNCHANGED <<flags, fifo, lock, link, accepted, history>>

MarkAlive ==
  /\ ThreadGoes("mark", "get")
  /\ indicator' = TRUE
  /\ UNCHANGED <<publishing, shutdownInitiated, connectionClosed, fifo, lock, link, accepted, history>>

(* Blocks while the fifo is empty. *)
GetItem ==
  /\ fifo # <<>>
  /\ fifo' = Tail(fifo)
  /\ thread.at = "get"
  /\ thread' = IF Head(fifo) = WakeUp
                 THEN [thread EXCEPT !.at = "check_flag"]
                 ELSE [thread EXCEPT !.at = "serialize", !.hand = Head(fifo)]
  /\ UNCHANGED <<flags, lock, link, pusher, closer, accepted, history>>

Serialize ==
  /\ \/ ThreadGoes("serialize", "publish") /\ UNCHANGED fate
     \/ ThreadGoes("serialize", "error") /\ UNCHANGED fate
     \/ Settle("serialize", "check_flag", "unpublished")
  /\ UNCHANGED <<flags, fifo, lock, link, accepted, sent>>

(* Where the connection lock is free, and where it is busy: RuntimeError. *)
TakeConnection(from, to) ==
  /\ \/ /\ ThreadGoes(from, to)
        /\ Take("connection")
     \/ /\ ThreadGoes(from, "error")
        /\ lock["connection"] = "held"
        /\ UNCHANGED lock
  /\ UNCHANGED <<flags, fifo, link, accepted, history>>

(* The library may log something before it sends the message: the record
   comes to the logging handler, which pushes it. *)
PublishLock ==
  \/ TakeConnection("publish", "send")
  \/ /\ "logging" \in Events
     /\ accepted < MaxItems
     /\ TakeConnection("publish", "log_lock")

LogLock ==
  /\ ThreadGoes("log_lock", "log_check")
  /\ Take("push")
  /\ UNCHANGED <<flags, fifo, link, accepted, history>>

LogCheck ==
  /\ \/ /\ publishing
        /\ ThreadGoes("log_check", "log_put")
        /\ UNCHANGED lock
     \/ /\ ~publishing
        /\ ThreadGoes("log_check", "send")
        /\ Release("push")
  /\ UNCHANGED <<flags, fifo, link, accepted, history>>

LogPut ==
  /\ ThreadGoes("log_put", "send")
  /\ PutMessage
  /\ Release("push")
  /\ UNCHANGED <<flags, link, history>>

(* basic_publish(), the lock being held.  When it raises an exception the
   message may have been sent or not; ConnectionClosed is told apart from the
   others. *)
SendSucceeds(from) ==
  /\ link = "up"
  /\ Settle(from, "check_flag", "published")
  /\ sent' = Append(sent, thread.hand)
  /\ Release("connection")
  /\ UNCHANGED <<flags, fifo, link, accepted>>

SendFails(from, to) ==
  /\ ThreadGoes(from, to)
  /\ sent' \in {sent} \cup IF link = "up" THEN {Append(sent, thread.hand)} ELSE {}
  /\ link' \in {"down"} \cup IF to = "error" THEN {link} ELSE {}
  /\ Release("connection")
  /\ UNCHANGED <<flags, fifo, accepted, fate>>

Send ==
  SendSucceeds("send") \/ SendFails("send", "decide") \/ SendFails("send", "error")

(* On ConnectionClosed. *)
DecideToReconnect ==
  /\ ThreadGoes("decide", IF shutdownInitiated \/ ~publishing THEN "error" ELSE "setup")
  /\ UNCHANGED <<flags, fifo, lock, link, accepted, history>>

SetUp == TakeConnection("setup", "connect")

(* _setup_communication(), the lock being held: an attempt to connect
   succeeds, fails with AMQPConnectionError and is repeated or not, or
   fails otherwise (in the declarations, say). *)
Connect ==
  /\ thread.at = "connect"
  /\ \/ /\ link' = "up"
        /\ thread' = [thread EXCEPT !.at = "republish", !.failures = 0]
        /\ Release("connection")
     \/ /\ ~shutdownInitiated
        /\ thread.failures + 1 < Attempts
        /\ thread' = [thread EXCEPT !.failures = @ + 1]
        /\ link' = "down"
        /\ UNCHANGED lock
     \/ /\ link' \in {"up", "down"}
        /\ link' = "down" => shutdownInitiated \/ thread.failures + 1 >= Attempts
        /\ thread' = [thread EXCEPT !.at = "error", !.failures = 0]
        /\ Release("connection")
  /\ UNCHANGED <<flags, fifo, pusher, closer, accepted, history>>

RepublishLock == TakeConnection("republish", "resend")

Resend == SendSucceeds("resend") \/ SendFails("resend", "error")

(* The error callback, or a traceback on stderr. *)
HandleError ==
  /\ Settle("error", "check_flag", "unpublished")
  /\ UNCHANGED <<flags, fifo, lock, link, accepted, sent>>

(* An exception that is not an Exception, from the serializer, from the
   library (the lock being released on the way) or from the callback. *)
CrashThread ==
  /\ "fatal" \in Events
  /\ \E point \in {"serialize", "send", "resend", "error"} :
       /\ Settle(point, "ending", "crashed")
       /\ IF point \in {"send", "resend"} THEN Release("connection") ELSE UNCHANGED lock
  /\ UNCHANGED <<flags, fifo, link, accepted, sent>>

EndThread ==
  /\ ThreadGoes("ending", "dead")
  /\ publishing' = FALSE
  /\ UNCHANGED <<shutdownInitiated, connectionClosed, indicator, fifo, lock, link, accepted, history>>

ThreadRuns ==
  \/ LoopCondition \/ MarkAlive \/ GetItem \/ Serialize
  \/ PublishLock \/ LogCheck \/ LogPut \/ Send
  \/ DecideToReconnect \/ SetUp \/ Connect \/ RepublishLock \/ Resend
  \/ HandleError \/ CrashThread \/ EndThread

-----------------------------------------------------------------------------
(* The connection is lost while nobody uses it. *)
LoseLink ==
  /\ link = "up"
  /\ link' = "down"
  /\ UNCHANGED <<flags, fifo, lock, thread, pusher, closer, accepted, history>>

PusherNext ==
  \/ \E p \in Pusher : Push(p)
  \/ \E c \in Closer : CloseBegin(c) \/ CloserTakes(c) \/ CloserRuns(c)
  \/ ThreadRuns \/ LogLock
  \/ LoseLink

PusherSpec == PusherInit /\ [][PusherNext]_vars

(***************************************************************************)
(* Threads go on executing their code; calls of the AMQP library return,   *)
(* and so do timed waits.  Those who wait for a lock are not passed over   *)
(* each time it is released.  Nothing makes anyone call push() or          *)
(* shutdown().                                                             *)
(***************************************************************************)
Fairness ==
  /\ WF_vars(ThreadRuns)
  /\ SF_vars(LogLock)
  /\ \A p \in Pusher : WF_vars(PushCheck(p) \/ PushPut(p)) /\ SF_vars(PushLock(p))
  /\ \A c \in Closer : WF_vars(CloserRuns(c)) /\ SF_vars(CloserTakes(c))

FairPusherSpec == PusherSpec /\ Fairness

-----------------------------------------------------------------------------
Crashed == \E i \in 1 .. Len(fate) : fate[i] = "crashed"

GaveUp == \E c \in Closer : "error" \in {closer[c].result} \cup Range(closer[c].past)

(* "...to avoid silent omissions of data `push()`-ed by other threads just
   before switching the flag": a thread that ends in the normal way leaves
   no message in the fifo.  Messages are published in the order of acceptance;
   only a message that was being sent when the connection broke may be sent
   twice, and then at once; and whatever counts as published has been sent. *)
SentAsAccepted ==
  /\ ~Alive /\ ~Crashed => Pending = {}
  /\ \A i, j \in 1 .. Len(sent) : i < j => sent[i] <= sent[j]
  /\ \A i \in 1 .. Len(sent) - 2 : sent[i] < sent[i + 2]
  /\ \A n \in 1 .. Len(fate) :
       fate[n] = "published" => \E i \in 1 .. Len(sent) : sent[i] = n

(* A connection that shutdown() has closed is opened again only by a thread
   on which some shutdown() has given up, and has said so. *)
ReopenedOnlyAfterGivingUp == connectionClosed /\ link = "up" => GaveUp

Returned(c) == "ok" \in Range(closer[c].past)

Queue == INSTANCE PublishingQueue WITH
  settled <- Len(fate),
  closed <- \E c \in Closer : Returned(c)

(* Nothing that was accepted is lost without a word, nothing overtakes, and
   a shutdown() that returns normally leaves nothing undone. *)
ImplementsQueue == Queue!Spec

(* shutdown() always returns, even if the publishing thread is itself waiting
   for the lock that shutdown() holds; and the thread ends, however late. *)
ShutdownEnds ==
  \A c \in Closer : closer[c].at = "lock_shutdown" ~> closer[c].at = "out" /\ ~Alive

=============================================================================
