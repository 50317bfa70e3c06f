-------------------------- MODULE SourceAggregation --------------------------
(***************************************************************************)
(* The aggregation of the events of one source                             *)
(* (N6DataPipeline/n6datapipeline/aggregator.py: SourceData, and           *)
(* Aggregator.process_event() and .on_timeout(), which publish what it     *)
(* yields).                                                                *)
(*                                                                         *)
(* The first event of a group is published; those that follow are only     *)
(* counted, and reported in one "suppressed" event when the group is       *)
(* finished.  Finished groups wait in a buffer for late events.            *)
(***************************************************************************)
EXTENDS Integers, Sequences, SequencesExt

CONSTANTS
  Group,      (* The groups.                                                *)
  NoMessage,  (* No message in input_callback().                            *)
  Day,        (* The length of a day...                                     *)
  Wait,       (* ...AGGREGATE_WAIT...                                       *)
  Tolerances, (* ...and the values of time_tolerance, in the same unit.     *)
  Times,      (* The times that events have.                                *)
  MaxEvents,  (* How many messages come at most.                            *)
  MaxFailedOutputs
              (* How many publications fail at most.                        *)

ASSUME AggregationAssumption ==
  /\ Day \in Nat \ {0} /\ Wait \in Nat /\ Tolerances \subseteq Nat
  /\ Times \subseteq Nat /\ MaxEvents \in Nat /\ MaxFailedOutputs \in Nat

VARIABLES
  tolerance, (* The time_tolerance of the source; it never changes.         *)
  time,      (* The latest event time so far, 0 at first.                   *)
  groups,    (* An ordered dict of the groups being aggregated...           *)
  buffer,    (* ...and one of those finished.                               *)
  msg,       (* The message in input_callback(), [group, time], if any.      *)
  step,      (* Where input_callback() or on_timeout() is.                  *)
  done,      (* How many entries the current loop has been through: of the
                groups, of the buffer, or of the buffer and then the groups. *)
  failedOutputs,
             (* How many publications have failed.                          *)
  accepted,  (* accepted[g]: the messages of g that have been taken into
                account.  A history variable, like                          *)
  reported   (* reported[g]: those counted in the groups already finished.  *)

aggregationVars ==
  <<tolerance, time, groups, buffer, msg, step, done, failedOutputs, accepted, reported>>
dicts == <<groups, buffer>>
history == <<failedOutputs, accepted, reported>>

Date(t) == t \div Day

(* HiFreqEventData.  `last` (the time of the last event counted), `announced`
   (whether the first one has been published) and `outOfOrder` (whether an event
   out of order has been counted since the group got its place in the dict) are
   there for the properties only. *)
HiFreqEventData(g, t) ==
  [group |-> g, first |-> t, until |-> t, count |-> 1, last |-> t,
   announced |-> FALSE, outOfOrder |-> FALSE]

Counted(e, t) == [e EXCEPT !.count = @ + 1, !.last = IF t > @ THEN t ELSE @]
Extended(e, t) == [e EXCEPT !.until = IF t > @ THEN t ELSE @]

(* Ordered dicts, as sequences of entries. *)
HasGroup(dict, g) == \E i \in DOMAIN dict : dict[i].group = g
Position(dict, g) == CHOOSE i \in DOMAIN dict : dict[i].group = g
Entry(dict, g) == dict[Position(dict, g)]
Assigned(dict, e) ==
  IF HasGroup(dict, e.group)
    THEN [dict EXCEPT ![Position(dict, e.group)] = e]
    ELSE Append(dict, e)
MovedToEnd(dict, e) == Append(RemoveAt(dict, Position(dict, e.group)), e)
From(dict, n) == SubSeq(dict, n + 1, Len(dict))

AggregationInit ==
  /\ tolerance \in Tolerances
  /\ time = 0
  /\ groups = <<>> /\ buffer = <<>>
  /\ msg = NoMessage
  /\ step = "idle" /\ done = 0 /\ failedOutputs = 0
  /\ accepted = [g \in Group |-> 0] /\ reported = [g \in Group |-> 0]

-----------------------------------------------------------------------------
(* process_event() of SourceData: the outcomes that exclude each other. *)

Receive(g, t) ==
  /\ step = "idle"
  /\ FoldFunction(LAMBDA x, y : x + y, 0, accepted) < MaxEvents
  /\ step' = "process"
  /\ msg' = [group |-> g, time |-> t]
  /\ UNCHANGED <<time, dicts, done, history>>

(* A message whose processing has failed is delivered once more. *)
Account ==
  accepted' = IF step = "process" THEN [accepted EXCEPT ![msg.group] = @ + 1] ELSE accepted

Processing == step \in {"process", "again"}
OutOfOrder == msg.time + tolerance < time
Late == msg.time < time
InGroups == HasGroup(groups, msg.group)
InBuffer == HasGroup(buffer, msg.group)
Current == Entry(groups, msg.group)

UpdateTime == time' = IF msg.time > time THEN msg.time ELSE time

(* n6QueueProcessingException: the message is rejected. *)
RejectOutOfOrder ==
  /\ Processing /\ OutOfOrder
  /\ InGroups => Current.first > msg.time
  /\ step' = "idle" /\ msg' = NoMessage
  /\ UNCHANGED <<time, dicts, done, history>>

CountOutOfOrder ==
  /\ Processing /\ OutOfOrder
  /\ InGroups /\ Current.first <= msg.time
  /\ groups' = Assigned(groups,
                [Counted(Extended(Current, msg.time), msg.time) EXCEPT !.outOfOrder = TRUE])
  /\ step' = "generate"
  /\ Account
  /\ UNCHANGED <<time, buffer, msg, done, failedOutputs, reported>>

CountInBuffer ==
  /\ Processing /\ ~OutOfOrder
  /\ ~InGroups /\ Late /\ InBuffer
  /\ buffer' = Assigned(buffer, Counted(Entry(buffer, msg.group), msg.time))
  /\ step' = "generate"
  /\ Account
  /\ UNCHANGED <<time, groups, msg, done, failedOutputs, reported>>

(* Without looking into the buffer. *)
BeginGroupAnyway ==
  /\ Processing /\ ~OutOfOrder
  /\ ~InGroups
  /\ groups' = Append(groups, HiFreqEventData(msg.group, msg.time))
  /\ step' = "announce"
  /\ UpdateTime /\ Account
  /\ UNCHANGED <<buffer, msg, done, failedOutputs, reported>>

BeginGroup ==
  /\ Processing /\ ~OutOfOrder
  /\ ~InGroups /\ ~(Late /\ InBuffer)
  /\ groups' = Append(groups, HiFreqEventData(msg.group, msg.time))
  /\ step' = "announce"
  /\ UpdateTime /\ Account
  /\ UNCHANGED <<buffer, msg, done, failedOutputs, reported>>

Finished == msg.time > Current.until + Wait \/ Date(msg.time) > Date(time)

FinishGroup ==
  /\ Processing /\ ~OutOfOrder
  /\ InGroups /\ Finished
  /\ groups' = MovedToEnd(groups, HiFreqEventData(msg.group, msg.time))
  /\ buffer' = Assigned(buffer, Current)
  /\ step' = "announce"
  /\ UpdateTime /\ Account
  /\ UNCHANGED <<msg, done, failedOutputs, reported>>

CountInGroup ==
  /\ Processing /\ ~OutOfOrder
  /\ InGroups /\ ~Finished
  /\ groups' = MovedToEnd(groups,
                [Counted(Extended(Current, msg.time), msg.time) EXCEPT !.outOfOrder = FALSE])
  /\ step' = "generate"
  /\ UpdateTime /\ Account
  /\ UNCHANGED <<buffer, msg, done, failedOutputs, reported>>

ProcessEvent ==
  \/ RejectOutOfOrder \/ CountOutOfOrder \/ CountInBuffer
  \/ BeginGroup \/ FinishGroup \/ CountInGroup

-----------------------------------------------------------------------------
(* Publishing. *)

(* publish_event() of an "event". *)
PublishFirst ==
  /\ step = "announce"
  /\ groups' = Assigned(groups, [Current EXCEPT !.announced = TRUE])
  /\ step' = "generate"
  /\ UNCHANGED <<time, buffer, msg, done, history>>

(* generate_suppressed_events(): the loop over the groups ends at the first
   group of today at or after one that is still waited for. *)
StillWaited(e) == e.until + Wait >= time
Stop(i) ==
  /\ \E j \in 1 .. i : StillWaited(groups[j])
  /\ Date(groups[i].until) = Date(time)

MoveFinishedGroup ==
  /\ step = "generate"
  /\ done < Len(groups) /\ ~Stop(done + 1)
  /\ buffer' = Assigned(buffer, groups[done + 1])
  /\ done' = done + 1
  /\ UNCHANGED <<time, groups, msg, step, history>>

DropFinishedGroups ==
  /\ step = "generate"
  /\ done < Len(groups) => Stop(done + 1)
  /\ groups' = From(groups, done)
  /\ step' = "flush" /\ done' = 0
  /\ UNCHANGED <<time, buffer, msg, history>>

Report(e) == reported' = [reported EXCEPT ![e.group] = @ + e.count]

(* _generate_suppressed_events_from_buffer(). *)
Flushable(i) == i <= Len(buffer) /\ buffer[i].until + tolerance < time

ReportBuffered ==
  /\ step = "flush"
  /\ Flushable(done + 1)
  /\ Report(buffer[done + 1])
  /\ done' = done + 1
  /\ UNCHANGED <<time, dicts, msg, step, failedOutputs, accepted>>

CleanBuffer ==
  /\ step = "flush"
  /\ ~Flushable(done + 1)
  /\ buffer' = From(buffer, done)
  /\ step' = "idle" /\ done' = 0 /\ msg' = NoMessage
  /\ UNCHANGED <<time, groups, history>>

(* on_timeout() finds the source inactive:
   generate_suppressed_events_after_inactive(). *)
All == buffer \o groups

TickFindsInactive ==
  /\ step = "idle"
  /\ step' = "inactive" /\ done' = 0
  /\ UNCHANGED <<time, dicts, msg, history>>

ReportInactive ==
  /\ step = "inactive"
  /\ done < Len(All)
  /\ Report(All[done + 1])
  /\ done' = done + 1
  /\ UNCHANGED <<time, dicts, msg, step, failedOutputs, accepted>>

ClearInactive ==
  /\ step = "inactive"
  /\ done = Len(All)
  /\ groups' = <<>> /\ buffer' = <<>>
  /\ step' = "idle" /\ done' = 0
  /\ UNCHANGED <<time, msg, history>>

(* publish_event() fails because of an AMQP problem: the program ends, its
   state is stored as it is, and a message in input_callback() is delivered
   again. *)
PublicationFails ==
  /\ failedOutputs < MaxFailedOutputs
  /\ failedOutputs' = failedOutputs + 1
  /\ \/ step = "announce"
     \/ step = "flush" /\ Flushable(done + 1) /\ buffer[done + 1].count > 1
     \/ step = "inactive" /\ done < Len(All) /\ All[done + 1].count > 1
  /\ step' = IF step = "inactive" THEN "idle" ELSE "again"
  /\ done' = 0
  /\ UNCHANGED <<time, dicts, msg, accepted, reported>>

AggregationNext ==
  /\ \/ \E g \in Group, t \in Times : Receive(g, t)
     \/ ProcessEvent
     \/ PublishFirst \/ MoveFinishedGroup \/ DropFinishedGroups
     \/ ReportBuffered \/ CleanBuffer
     \/ TickFindsInactive \/ ReportInactive \/ ClearInactive
     \/ PublicationFails
  /\ UNCHANGED tolerance

AggregationSpec == AggregationInit /\ [][AggregationNext]_aggregationVars

-----------------------------------------------------------------------------
Idle == step = "idle"

(* How many entries of the groups are in the buffer by now, and how many of the
   buffer and of the groups have been reported. *)
Moved == IF step = "generate" THEN done ELSE 0
BufferReported == IF step \in {"flush", "inactive"} THEN done ELSE 0
GroupsReported == IF step = "inactive" THEN done - Len(buffer) ELSE 0

(* What has been counted and not yet reported. *)
CountAfter(dict, n, g) ==
  IF HasGroup(dict, g) /\ Position(dict, g) > n THEN Entry(dict, g).count ELSE 0
Pending(g) ==
  CountAfter(buffer, BufferReported, g) + CountAfter(groups, Moved + GroupsReported, g)

(* "...counts how many we got up to this point": as long as no publication
   fails, no event is counted in two groups; and if no late events are waited
   for, every one is counted in one. *)
EverythingCounted ==
  failedOutputs = 0 => \A g \in Group :
    /\ reported[g] + Pending(g) <= accepted[g]
    /\ tolerance = 0 => reported[g] + Pending(g) = accepted[g]

(* The finished part of a group ends before its current part begins; no part
   lasts longer than the "24 hour aggregation" allows, late events aside.  If
   no late events are waited for, `until` is "the time of the last event"; and
   no group is kept longer than the "time to wait for the next event before
   suppressed event is generated", unless an event out of order has been counted
   in the first group: then those behind it have to wait with it. *)
PartsOfGroups ==
  /\ \A b \in Range(buffer) : \A i \in DOMAIN groups :
       i > Moved /\ b.group = groups[i].group => b.until <= groups[i].first
  /\ \A e \in Range(buffer) \cup Range(groups) :
       /\ e.until - e.first < Day + tolerance
       /\ tolerance = 0 => e.until = e.last
  /\ Idle /\ tolerance = 0 =>
       \/ \A e \in Range(groups) : StillWaited(e)
       \/ groups # <<>> /\ Head(groups).outOfOrder

(* The groups are right: each event is in one, and in the proper part of it. *)
GroupsAreRight == EverythingCounted /\ PartsOfGroups

(* "...if the first event in the group has been received (so it should not be
   suppressed)": the first event of every group has been published. *)
FirstIsPublished == Idle => \A e \in Range(All) : e.announced

=============================================================================
