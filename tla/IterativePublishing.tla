------------------------- MODULE IterativePublishing -------------------------
(***************************************************************************)
(* Iterative publishing                                                    *)
(* (N6DataPipeline/n6datapipeline/base.py: LegacyQueuedBase without an     *)
(* input queue).                                                           *)
(*                                                                         *)
(* A subclass publishes in publish_iteratively(), a coroutine that gives   *)
(* the control back at its own yields: to let pika's IO loop go on, or     *)
(* until the outbound buffer has been flushed.  This module has the        *)
(* machinery around it; the subclass, which EXTENDS it, says what the      *)
(* coroutine does while the generator is "running".                        *)
(***************************************************************************)
EXTENDS Naturals, Sequences

CONSTANT MaxTroubles  (* How many kills, interrupts and losses of the
                         connection there are at most.                     *)

ASSUME PublishingAssumption == MaxTroubles \in Nat

VARIABLES
  gen,      (* _publishing_generator, and the process that has it:
               "down"      the program does not run
               "setup"     it runs; start_publishing() is still to come
               "scheduled" _next_publishing_iteration() is to continue it
               "running"   the coroutine has the control
               "flushing"  it waits until the buffer is empty...
               "pausing"   ...and for one iteration more
               "over"      it has ended; inner_stop() is scheduled, or stop()
                           has been called                                  *)
  outcome,  (* How the coroutine has ended: "returned", "raised" (an
               exception), "interrupted" (KeyboardInterrupt), or "none".    *)
  buffer,   (* The outbound buffer, a sequence of sets of things.           *)
  sent,     (* The things that have left it.  A history variable.           *)
  troubles  (* How many troubles there have been.                           *)

publishing == <<gen, outcome, buffer>>

PublishingInit ==
  /\ gen = "down" /\ outcome = "none" /\ buffer = <<>>
  /\ sent = {}
  /\ troubles = 0

(* The process ends: what it has not sent is lost. *)
ProcessEnds == gen' = "down" /\ outcome' = "none" /\ buffer' = <<>>

(* run() connects. *)
SetUp == gen' = "setup" /\ UNCHANGED <<outcome, buffer>>

-----------------------------------------------------------------------------
(* The coroutine may publish_output(), *)
Put(things) == buffer' = Append(buffer, things)

(* await PubIter: the control is given back if the last time is long ago,
   and a buffer that is too long is flushed, *)
MayPause ==
  /\ \/ gen' \in {"running", "scheduled"}
     \/ buffer' # <<>> /\ gen' = "flushing"
  /\ UNCHANGED outcome

(* A variant of the next one. *)
PauseOnly == gen' = "scheduled" /\ UNCHANGED outcome

(* await PubIterFlushOut, *)
FlushOut == gen' = "flushing" /\ UNCHANGED outcome

(* or end, even by an exception: what it has published is flushed before
   anybody learns about it. *)
Ends(how) == gen' = "flushing" /\ outcome' = how

-----------------------------------------------------------------------------
(* When the output exchanges have been declared. *)
StartIterativePublishing ==
  /\ gen = "setup"
  /\ gen' = "scheduled"
  /\ UNCHANGED <<outcome, buffer>>

NextPublishingIteration ==
  /\ gen = "scheduled"
  /\ gen' = "running"
  /\ UNCHANGED <<outcome, buffer>>

BufferIsFlushed ==
  /\ gen = "flushing" /\ buffer = <<>>
  /\ gen' = "pausing"
  /\ UNCHANGED <<outcome, buffer>>

(* A variant of the next one: the end of the coroutine goes unnoticed. *)
AfterFlushAgain ==
  /\ gen = "pausing"
  /\ gen' = IF outcome = "none" THEN "running" ELSE "flushing"
  /\ UNCHANGED <<outcome, buffer>>

(* The coroutine goes on, or the generator ends as the coroutine has ended:
   on StopIteration inner_stop() is scheduled; an Exception becomes a
   SystemExit; on KeyboardInterrupt the program calls stop(). *)
AfterFlush ==
  /\ gen = "pausing"
  /\ \/ /\ outcome = "none"
        /\ gen' = "running"
        /\ UNCHANGED <<outcome, buffer>>
     \/ /\ outcome \in {"returned", "interrupted"}
        /\ gen' = "over"
        /\ UNCHANGED <<outcome, buffer>>
     \/ /\ outcome = "raised"
        /\ ProcessEnds

(* The IO loop, also that of stop(). *)
Transmit ==
  /\ gen # "down" /\ buffer # <<>>
  /\ buffer' = Tail(buffer)
  /\ sent' = sent \cup Head(buffer)
  /\ UNCHANGED <<gen, outcome, troubles>>

(* Pika sends what is in the buffer before it closes the connection. *)
CloseConnection ==
  /\ gen = "over" /\ buffer = <<>>
  /\ ProcessEnds

-----------------------------------------------------------------------------
Trouble ==
  /\ troubles < MaxTroubles
  /\ troubles' = troubles + 1

(* KeyboardInterrupt in the coroutine ends it like any other exception.  In
   the IO loop, run() closes the generator wherever it is, and stop() starts
   the loop again.  (QueuedComponent has what an interrupt before the
   channels are open leads to.) *)
InterruptPublishing ==
  /\ outcome # "interrupted"
  /\ \/ gen = "running" /\ Ends("interrupted")
     \/ /\ gen \in {"scheduled", "flushing", "pausing", "over"}
        /\ gen' = "over" /\ outcome' = "interrupted"
  /\ UNCHANGED buffer

(* The process is killed, or the IO loop finds that the connection has been
   lost; a stop() that takes too long, or a second interrupt, has the same
   effect. *)
Breakdown == gen # "down" /\ ProcessEnds
=============================================================================
