--------------------------- MODULE QueuedComponent ---------------------------
(***************************************************************************)
(* A pipeline component and the broker                                     *)
(* (N6DataPipeline/n6datapipeline/base.py: LegacyQueuedBase).              *)
(*                                                                         *)
(* The component takes messages from its input queue, publishes output for *)
(* each of them, and acknowledges it.  Everything it tells the broker goes *)
(* through one connection (wire); deliveries and responses come back       *)
(* through inbox.  The component is a single thread: the callbacks of      *)
(* pika's IO loop, one at a time, but it may be killed inside any of them. *)
(* Its process is started again whenever it has ended.                     *)
(***************************************************************************)
EXTENDS Naturals, Sequences, FiniteSets

CONSTANTS
  Msg,        (* The messages, all of them in the queue at first.           *)
  NoMsg,      (* Stands where there is no message.                          *)
  Bad,        (* Those for which input_callback() raises an exception.      *)
  Parts,      (* How many publish_output() calls a message takes.           *)
  Bindings,   (* The binding keys of the input queue.                       *)
  Exchanges,  (* The output exchanges.                                      *)
  Prefetch,   (* prefetch_count.                                            *)
  MaxEvents,  (* How many of the events happen at most.                     *)
  Events      (* Which of the events in EventKind happen.                   *)

(* "loss"      the connection is lost
   "kill"      the process is killed
   "fatal"     input_callback() raises SystemExit
   "interrupt" KeyboardInterrupt, once the input channel has been opened
   "early interrupt"  KeyboardInterrupt before that
   "remote cancel"    the broker cancels the consumer
   "graceful"  the component calls
               trigger_inner_stop_trying_gracefully_...()
   "slow output"  the input may be ready before the output                  *)
EventKind == {"loss", "kill", "fatal", "interrupt", "early interrupt",
              "remote cancel", "graceful", "slow output"}

ASSUME QueuedAssumption ==
  /\ NoMsg \notin Msg /\ Bad \subseteq Msg
  /\ Events \subseteq EventKind
  /\ {Parts, Bindings, Exchanges, Prefetch} \subseteq Nat \ {0}
  /\ MaxEvents \in Nat

VARIABLES
  comp,        (* The component: see Fresh.                                 *)
  link,        (* The connection: "up", or "down".                          *)
  wire,        (* Frames on their way to the broker.                        *)
  inbox,       (* Frames on their way to the component.                     *)
  queue,       (* Messages in the input queue, ready to be delivered.       *)
  unacked,     (* Messages delivered and not acknowledged.                  *)
  consuming,   (* Whether the broker knows the consumer.                    *)
  dead,        (* Messages in the dead-letter queue.                        *)
  copies,      (* How many times each part has been published.              *)
  events,      (* The events so far.                                        *)
  breakdowns   (* Those other than graceful shutdowns.                      *)

broker == <<queue, unacked, consuming, dead, copies>>
vars == <<comp, link, wire, inbox, broker, events, breakdowns>>

Part == 1 .. Parts

(* at        where the thread is: out of callbacks ("loop"), in
             input_callback() after `part` publications, or nowhere ("down")
   hand      the message that on_message() deals with
   phase     _graceful_shutdown_phase
   closing   _closing
   chanIn    _channel_in, and likewise chanOut: None or in a pika's state
   bound     _num_queues_bound: the consumer exists when all are bound
   declared  the number of _declared_output_exchanges
   cancelled the consumer has been cancelled by the component
   polling   whether the timer that waits for the input channel is set
   stopping  stop() has been called                                         *)
Fresh == [at |-> "loop", hand |-> NoMsg, part |-> 0, phase |-> 0,
          closing |-> FALSE, chanIn |-> "none", chanOut |-> "none",
          bound |-> 0, declared |-> 0, cancelled |-> FALSE,
          polling |-> FALSE, stopping |-> FALSE]

Down == [Fresh EXCEPT !.at = "down"]

Consumer(c) == c.bound = Bindings + 1
OutputReady(c) == c.declared = Exchanges

QueuedInit ==
  /\ comp = Down /\ link = "down"
  /\ wire = <<>> /\ inbox = <<>>
  /\ queue = Msg /\ unacked = {} /\ consuming = FALSE
  /\ dead = {}
  /\ copies = [x \in Msg \X Part |-> 0]
  /\ events = 0 /\ breakdowns = 0

Frame(kind) == [kind |-> kind, msg |-> NoMsg, part |-> 0]
FrameIf(condition, kind) == IF condition THEN <<Frame(kind)>> ELSE <<>>
About(kind, m) == [kind |-> kind, msg |-> m, part |-> 0]

(* What is sent over a broken connection is lost. *)
Send(frames) == wire' = IF link = "up" THEN wire \o frames ELSE <<>>

Goes(c, frames) ==
  /\ comp' = c
  /\ Send(frames)
  /\ UNCHANGED <<link, broker>>

(* The broker loses the component: it puts what has not been acknowledged
   back into the queue. *)
Disconnect ==
  /\ link' = "down"
  /\ wire' = <<>>
  /\ queue' = queue \cup unacked /\ unacked' = {}
  /\ consuming' = FALSE
  /\ UNCHANGED <<dead, copies>>

(* The process ends, and its connection with it. *)
Collapse == comp' = Down /\ Disconnect

Happens(event) ==
  /\ event \in Events
  /\ events < MaxEvents
  /\ events' = events + 1
  /\ breakdowns' = breakdowns + (IF event = "graceful" THEN 0 ELSE 1)

Counts == <<events, breakdowns>>

-----------------------------------------------------------------------------
(* Setting up the input and the output, each at its pace. *)

OpenInput ==
  /\ comp.at = "loop" /\ link = "up" /\ comp.chanIn = "none"
  /\ Goes([comp EXCEPT !.chanIn = "open"], <<>>)
  /\ UNCHANGED <<inbox, Counts>>

(* The last on_bindok() starts consuming. *)
OnBindOk ==
  /\ comp.at = "loop" /\ link = "up" /\ comp.chanIn = "open"
  /\ ~Consumer(comp)
  /\ comp.bound = Bindings => OutputReady(comp) \/ "slow output" \in Events
  /\ LET c == [comp EXCEPT !.bound = @ + 1]
     IN  Goes(c, IF Consumer(c) THEN <<Frame("consume")>> ELSE <<>>)
  /\ UNCHANGED <<inbox, Counts>>

OpenOutput ==
  /\ comp.at = "loop" /\ link = "up" /\ comp.chanOut = "none"
  /\ Goes([comp EXCEPT !.chanOut = "open"], <<>>)
  /\ UNCHANGED <<inbox, Counts>>

OnOutputExchangeDeclared ==
  /\ comp.at = "loop" /\ link = "up" /\ comp.chanOut = "open"
  /\ ~OutputReady(comp)
  /\ Goes([comp EXCEPT !.declared = @ + 1], <<>>)
  /\ UNCHANGED <<inbox, Counts>>

-----------------------------------------------------------------------------
(* Stopping. *)

(* close_channels() and stop_consuming(), of a channel that can be closed. *)
Closed(chan) == IF chan = "open" THEN "closing" ELSE chan
Cancels(c) == c.phase <= 2 /\ c.chanIn = "open" /\ Consumer(c)

(* inner_stop(), after `frames` have been sent.  basic_cancel() raises an
   exception on a channel that is not open, and nobody catches it. *)
InnerStop(c, frames) ==
  IF c.phase <= 2 /\ c.chanIn \in {"closing", "closed"}
    THEN Collapse
    ELSE Goes([c EXCEPT !.phase = 0, !.closing = TRUE,
                        !.cancelled = @ \/ Cancels(c),
                        !.chanIn = Closed(@), !.chanOut = Closed(@)],
              frames
              \o FrameIf(Cancels(c), "cancel")
              \o FrameIf(c.chanIn = "open", "close in")
              \o FrameIf(c.chanOut = "open", "close out"))

(* _handle_graceful_shutdown_phase_if_any(), after `frames`. *)
Proceed(c, frames) ==
  \/ /\ c.phase # 1
     /\ Goes(c, frames)
  \/ /\ c.phase = 1 /\ c.chanIn = "open"
     /\ Goes([c EXCEPT !.phase = 3, !.cancelled = TRUE, !.polling = TRUE],
             Append(frames, Frame("cancel")))
  \/ /\ c.phase = 1 /\ c.chanIn # "open"
     /\ InnerStop(c, frames)

(* trigger_inner_stop_trying_gracefully_...(): at once from a timer, or from
   input_callback(), to be handled when the message has been dealt with. *)
TriggerGracefulStop ==
  /\ Happens("graceful")
  /\ comp.phase = 0 /\ ~comp.closing
  /\ LET c == [comp EXCEPT !.phase = 1]
     IN  \/ comp.at = "loop" /\ Consumer(comp) /\ Proceed(c, <<>>)
         \/ comp.at = "callback" /\ Goes(c, <<>>)
  /\ UNCHANGED inbox

(* The timer set in phase 3 does not look at what has happened since. *)
InputHasShutDown ==
  /\ comp.at = "loop" /\ comp.polling
  /\ comp.chanIn # "open"
  /\ Goes([comp EXCEPT !.phase = 4, !.polling = FALSE], <<>>)
  /\ UNCHANGED <<inbox, Counts>>

(* The outbound buffer is empty: the publishing generator stops, and
   inner_stop() is scheduled, unless the component is already closing. *)
OutputIsFlushed ==
  /\ comp.at = "loop" /\ comp.phase = 4 /\ ~comp.closing
  /\ InnerStop(comp, <<>>)
  /\ UNCHANGED <<inbox, Counts>>

(* The program catches KeyboardInterrupt outside of run() and calls stop(). *)
Interrupt ==
  /\ Happens(IF comp.chanIn = "none" THEN "early interrupt" ELSE "interrupt")
  /\ comp.at = "loop" /\ ~comp.stopping
  /\ InnerStop([comp EXCEPT !.stopping = TRUE], <<>>)
  /\ UNCHANGED inbox

-----------------------------------------------------------------------------
(* on_message(). *)

BeginMessage(c, m) == [c EXCEPT !.at = "callback", !.hand = m, !.part = 0]
EndMessage(c) == [c EXCEPT !.at = "loop", !.hand = NoMsg, !.part = 0]

InCallback == comp.at = "callback"

(* publish_output() needs an output that is ready and not being closed. *)
CanPublish == OutputReady(comp) /\ ~comp.closing

Publish ==
  /\ InCallback /\ CanPublish
  /\ comp.part < Parts
  /\ Goes([comp EXCEPT !.part = @ + 1],
          <<[kind |-> "output", msg |-> comp.hand, part |-> comp.part + 1]>>)
  /\ UNCHANGED <<inbox, Counts>>

(* A variant: before the last publication. *)
AcknowledgeEarly ==
  /\ InCallback
  /\ comp.part + 1 >= Parts
  /\ comp.hand \notin Bad
  /\ Proceed(EndMessage(comp), <<About("ack", comp.hand)>>)
  /\ UNCHANGED <<inbox, Counts>>

Acknowledge ==
  /\ InCallback
  /\ comp.part = Parts
  /\ comp.hand \notin Bad
  /\ Proceed(EndMessage(comp), <<About("ack", comp.hand)>>)
  /\ UNCHANGED <<inbox, Counts>>

(* An Exception: that of input_callback(), at any point of it, or the
   RuntimeError of publish_output(). *)
Raises == comp.hand \in Bad \/ (comp.part < Parts /\ ~CanPublish)

(* Puts the message back into the queue. *)
RejectAndRequeue ==
  /\ InCallback /\ Raises
  /\ Proceed(EndMessage(comp), <<About("requeue", comp.hand)>>)
  /\ UNCHANGED <<inbox, Counts>>

Reject ==
  /\ InCallback /\ Raises
  /\ Proceed(EndMessage(comp), <<About("nack", comp.hand)>>)
  /\ UNCHANGED <<inbox, Counts>>

(* A BaseException: requeue, and raise it again.  SystemExit ends the
   process; KeyboardInterrupt leads to stop(). *)
ExitInCallback ==
  /\ InCallback
  /\ Happens("fatal")
  /\ Collapse
  /\ UNCHANGED inbox

InterruptInCallback ==
  /\ InCallback /\ ~comp.stopping
  /\ Happens("interrupt")
  /\ InnerStop([EndMessage(comp) EXCEPT !.stopping = TRUE],
               IF comp.chanIn = "open" THEN <<About("requeue", comp.hand)>> ELSE <<>>)
  /\ UNCHANGED inbox

-----------------------------------------------------------------------------
(* Frames from the broker. *)

Receives(kind) ==
  /\ comp.at = "loop" /\ link = "up"
  /\ inbox # <<>>
  /\ Head(inbox).kind = kind
  /\ inbox' = Tail(inbox)
  /\ UNCHANGED Counts

(* Pika itself rejects what comes after the cancellation. *)
OnDeliver ==
  /\ Receives("deliver")
  /\ LET m == Head(inbox).msg
     IN  IF ~comp.cancelled /\ comp.chanIn = "open"
           THEN Goes(BeginMessage(comp, m), <<>>)
           ELSE Goes(comp, IF comp.chanIn = "open" THEN <<About("requeue", m)>> ELSE <<>>)

(* Leaves the input channel open. *)
OnCancelOkIgnored ==
  /\ Receives("cancel ok")
  /\ Goes(comp, <<>>)

OnCancelOk ==
  /\ Receives("cancel ok")
  /\ IF comp.chanIn = "open"
       THEN Goes([comp EXCEPT !.chanIn = "closing"], <<Frame("close in")>>)
       ELSE Goes(comp, <<>>)

OnConsumerCancelled ==
  /\ Receives("cancelled")
  /\ IF comp.chanIn = "open"
       THEN Goes([comp EXCEPT !.chanIn = "closing"], <<Frame("close in")>>)
       ELSE Collapse

(* The closing of a channel leads to that of the connection, except for the
   input channel in a graceful shutdown. *)
OnInputChannelClosed ==
  /\ Receives("closed in")
  /\ Goes([comp EXCEPT !.chanIn = "closed"],
          IF comp.phase = 0 THEN <<Frame("close")>> ELSE <<>>)

OnOutputChannelClosed ==
  /\ Receives("closed out")
  /\ Goes([comp EXCEPT !.chanOut = "closed"], <<Frame("close")>>)

(* The IO loop ends, and the program with it. *)
OnConnectionClosed ==
  /\ Receives("closed")
  /\ Collapse

-----------------------------------------------------------------------------
(* The broker. *)

Reply(frames) == inbox' = inbox \o frames

BrokerTakes(kind) ==
  /\ link = "up"
  /\ wire # <<>>
  /\ Head(wire).kind = kind
  /\ wire' = Tail(wire)
  /\ UNCHANGED <<comp, link, Counts>>

BrokerTakesOutput ==
  /\ BrokerTakes("output")
  /\ copies' = [copies EXCEPT ![<<Head(wire).msg, Head(wire).part>>] = @ + 1]
  /\ UNCHANGED <<inbox, queue, unacked, consuming, dead>>

(* Of a message that was delivered, and is not any more after the input
   channel was closed, nothing is heard. *)
BrokerTakesAnswer ==
  /\ \E kind \in {"ack", "nack", "requeue"} :
       /\ BrokerTakes(kind)
       /\ LET m == {Head(wire).msg} \cap unacked
          IN  /\ unacked' = unacked \ m
              /\ queue' = IF kind = "requeue" THEN queue \cup m ELSE queue
              /\ dead' = IF kind = "nack" THEN dead \cup m ELSE dead
  /\ UNCHANGED <<inbox, consuming, copies>>

BrokerTakesConsume ==
  /\ BrokerTakes("consume")
  /\ consuming' = TRUE
  /\ UNCHANGED <<inbox, queue, unacked, dead, copies>>

BrokerTakesCancel ==
  /\ BrokerTakes("cancel")
  /\ consuming' = FALSE
  /\ Reply(<<Frame("cancel ok")>>)
  /\ UNCHANGED <<queue, unacked, dead, copies>>

BrokerTakesClose ==
  /\ \/ BrokerTakes("close in") /\ Reply(<<Frame("closed in")>>)
     \/ BrokerTakes("close") /\ Reply(<<Frame("closed")>>)
  /\ consuming' = FALSE
  /\ queue' = queue \cup unacked /\ unacked' = {}
  /\ UNCHANGED <<dead, copies>>

BrokerTakesCloseOutput ==
  /\ BrokerTakes("close out")
  /\ Reply(<<Frame("closed out")>>)
  /\ UNCHANGED broker

Deliver(m) ==
  /\ link = "up" /\ consuming
  /\ m \in queue
  /\ Cardinality(unacked) < Prefetch
  /\ queue' = queue \ {m} /\ unacked' = unacked \cup {m}
  /\ Reply(<<About("deliver", m)>>)
  /\ UNCHANGED <<comp, link, wire, consuming, dead, copies, Counts>>

CancelConsumer ==
  /\ link = "up" /\ consuming
  /\ Happens("remote cancel")
  /\ consuming' = FALSE
  /\ Reply(<<Frame("cancelled")>>)
  /\ UNCHANGED <<comp, link, wire, queue, unacked, dead, copies>>

-----------------------------------------------------------------------------
(* The component goes on until it notices: in the IO loop, or in
   basic_publish(). *)
LoseConnection ==
  /\ link = "up"
  /\ Happens("loss")
  /\ Disconnect
  /\ UNCHANGED <<comp, inbox>>

NoticeLoss ==
  /\ link = "down" /\ comp.at # "down"
  /\ comp' = Down
  /\ UNCHANGED <<link, wire, inbox, broker, Counts>>

Kill ==
  /\ comp.at # "down"
  /\ Happens("kill")
  /\ Collapse
  /\ UNCHANGED inbox

Restart ==
  /\ comp.at = "down"
  /\ comp' = Fresh
  /\ link' = "up"
  /\ inbox' = <<>>
  /\ UNCHANGED <<wire, broker, Counts>>

(* Setting up, and reacting to the broker. *)
ComponentSteps ==
  \/ OpenInput \/ OnBindOk \/ OpenOutput \/ OnOutputExchangeDeclared
  \/ Publish \/ Acknowledge \/ Reject
  \/ OnDeliver \/ OnCancelOk \/ OnConsumerCancelled
  \/ OnInputChannelClosed \/ OnOutputChannelClosed \/ OnConnectionClosed
  \/ Restart

ComponentTimers == InputHasShutDown \/ OutputIsFlushed \/ NoticeLoss

BrokerSteps ==
  \/ BrokerTakesOutput \/ BrokerTakesAnswer \/ BrokerTakesConsume
  \/ BrokerTakesCancel \/ BrokerTakesClose \/ BrokerTakesCloseOutput

Disturbance ==
  \/ TriggerGracefulStop \/ Interrupt \/ InterruptInCallback \/ ExitInCallback
  \/ CancelConsumer \/ LoseConnection \/ Kill

QueuedNext ==
  \/ ComponentSteps \/ ComponentTimers
  \/ BrokerSteps \/ \E m \in Msg : Deliver(m)
  \/ Disturbance

QueuedSpec == QueuedInit /\ [][QueuedNext]_vars

(***************************************************************************)
(* The component and the broker go on with what they have to do, the       *)
(* timers fire, and a lost connection is noticed.  Disturbances never have *)
(* to happen.                                                              *)
(***************************************************************************)
QueuedFairness ==
  /\ WF_vars(ComponentSteps)
  /\ WF_vars(ComponentTimers)
  /\ WF_vars(BrokerSteps)
  /\ \A m \in Msg : WF_vars(Deliver(m))

FairQueuedSpec == QueuedSpec /\ QueuedFairness

-----------------------------------------------------------------------------
Promise == INSTANCE AtLeastOnce WITH
  waiting <- queue \cup unacked,
  produced <- {x \in Msg \X Part : copies[x] > 0}

(* No message leaves the input queue before its whole output has reached the
   broker, whatever breaks; and only those that cannot be processed are
   buried. *)
KeepsPromise == Promise!Spec

(* Only a broken connection, an ended process or an exit in the middle of a
   message makes the component publish something again; a graceful shutdown
   does not. *)
DuplicatesOnlyAfterBreakdown ==
  \A x \in Msg \X Part : copies[x] <= 1 + breakdowns

(* Once the component runs, every message is dealt with in the end; and a
   graceful shutdown, once triggered, ends the program, and so does stop(). *)
NothingHangs ==
  /\ \A m \in Msg : comp.at = "loop" ~> m \notin queue \cup unacked
  /\ comp.stopping \/ comp.phase # 0 ~> comp.at = "down"
=============================================================================
