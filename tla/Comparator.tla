----------------------------- MODULE Comparator -----------------------------
(***************************************************************************)
(* The comparator, for one source of blacklists                            *)
(* (N6DataPipeline/n6datapipeline/comparator.py).                          *)
(*                                                                         *)
(* A blacklist comes as a series of messages, one per entry, in any order  *)
(* and with duplicates.  The comparator tells the consumers how its        *)
(* entries differ from what it knows (bl-new, bl-change, bl-update), and   *)
(* when the series is complete, which entries are not there any more       *)
(* (bl-delist, bl-expire).  What it knows is kept in a file; which series  *)
(* are open is not.                                                        *)
(***************************************************************************)
EXTENDS Naturals, Sequences, FiniteSets

CONSTANTS
  Lists,         (* Lists[s]: the time and the entries of the s-th list.    *)
  NoUrl,         (* The `url` of an entry with neither a url nor a fqdn.    *)
  MaxDeliveries, (* How many messages are delivered at most.                *)
  MaxExits,      (* How many times the process ends without storing its
                    state (an AMQP problem, a kill) at most...              *)
  MaxInterrupts  (* ...and how many times it gets KeyboardInterrupt.        *)

Series == DOMAIN Lists
Numbers(s) == DOMAIN Lists[s].entries
Total(s) == Len(Lists[s].entries)
Message == UNION {{s} \X Numbers(s) : s \in Series}
Data(m) == Lists[m[1]].entries[m[2]]
Time(m) == Lists[m[1]].time

(* Lists are numbered from 1, and so are the entries of each, of which there is
   at least one.  Every list has a time of its own. *)
ASSUME ComparatorAssumption ==
  /\ Series \subseteq Nat \ {0}
  /\ \A s \in Series :
       /\ Lists[s].time \in Nat \ {0}
       /\ Total(s) \in Nat \ {0} /\ Numbers(s) = 1 .. Total(s)
  /\ \A s, r \in Series : Lists[s].time = Lists[r].time => s = r
  /\ MaxDeliveries \in Nat /\ MaxExits \in Nat /\ MaxInterrupts \in Nat

VARIABLES
  time,       (* The time of the latest list, 0 at first.                   *)
  blacklist,  (* The entries known, a set.                                  *)
  open,       (* open[s]: the numbers seen of an open series...             *)
  count,      (* ...and how many they are.                                  *)
  armed,      (* The series with a timeout pending.                         *)
  file,       (* The state file.                                            *)
  step,       (* Where the process is...                                    *)
  current,    (* ...with which message, or, if <<s, 0>>, timeout.           *)
  pending,    (* The events yet to be published.                            *)
  listed,     (* The entries that the consumers have been told of...        *)
  emitted,    (* ...and the ids of all those ever told of.                  *)
  applied,    (* The messages of the open series that process_event() has
                 accepted.  A history variable.                             *)
  deliveries, exits, interrupts

memory == <<time, blacklist>>
series == <<open, count, armed, applied>>
consumers == <<listed, emitted>>
bounds == <<deliveries, exits, interrupts>>
vars == <<memory, series, file, step, current, pending, consumers, bounds>>

None == 0
Nothing == <<0, 0>>
NoFile == [time |-> 0, blacklist |-> {}, readable |-> TRUE]
Torn == [time |-> 0, blacklist |-> {}, readable |-> FALSE]

ComparatorInit ==
  /\ time = 0 /\ blacklist = {}
  /\ open = [s \in Series |-> {}] /\ count = [s \in Series |-> 0]
  /\ armed = {} /\ applied = {}
  /\ file = NoFile
  /\ step = "down" /\ current = Nothing /\ pending = {}
  /\ listed = {} /\ emitted = {}
  /\ deliveries = 0 /\ exits = 0 /\ interrupts = 0

-----------------------------------------------------------------------------
(* Starting: ComparatorDataWrapper.restore_state(). *)

RestoreState ==
  /\ step = "down"
  /\ IF file.readable
       THEN step' = "idle" /\ time' = file.time /\ blacklist' = file.blacklist
       ELSE step' = "broken" /\ UNCHANGED memory
  /\ UNCHANGED <<series, file, current, pending, consumers, bounds>>

-----------------------------------------------------------------------------
(* A message: input_callback(). *)

Open(s) == count[s] > 0

(* Without looking for duplicates. *)
IsMessageNotTooMany(m) == Open(m[1]) => count[m[1]] < Total(m[1])

IsMessageValid(m) ==
  Open(m[1]) => m[2] \notin open[m[1]] /\ count[m[1]] + 1 <= Total(m[1])

UpdateSeries(m) ==
  /\ open' = [open EXCEPT ![m[1]] = @ \cup {m[2]}]
  /\ count' = [count EXCEPT ![m[1]] = @ + 1]

SetTimeout(m) == armed' = armed \cup {m[1]}

Receive(m) ==
  /\ step = "idle"
  /\ deliveries < MaxDeliveries
  /\ deliveries' = deliveries + 1
  /\ UNCHANGED <<exits, interrupts>>

RejectInvalid(m) ==
  /\ Receive(m)
  /\ ~IsMessageValid(m)
  /\ UNCHANGED <<memory, series, file, step, current, pending, consumers>>

(* n6QueueProcessingException, when the series has been updated already: by a list
   that is older than the latest one... *)
RejectOutOfOrder(m) ==
  /\ Receive(m)
  /\ IsMessageValid(m)
  /\ Time(m) < time
  /\ UpdateSeries(m) /\ SetTimeout(m)
  /\ UNCHANGED <<memory, applied, file, step, current, pending, consumers>>

(* get_event_key(): `url` stands for the url and, if there is none, for the fqdn. *)
EventKey(m) ==
  IF Data(m).url # NoUrl THEN <<"url", Data(m).url>> ELSE <<"address", Data(m).ips>>

HasEventKey(m) == Data(m).url # NoUrl \/ Data(m).ips # {}

(* ...or, if the time is all right, by a single message that has no key, such as one
   whose only address has been excluded by the enricher. *)
RejectKeyless(m) ==
  /\ Receive(m)
  /\ IsMessageValid(m)
  /\ Time(m) >= time
  /\ ~HasEventKey(m)
  /\ UpdateSeries(m) /\ SetTimeout(m)
  /\ time' = IF time = 0 THEN Time(m) ELSE time
  /\ UNCHANGED <<blacklist, applied, file, step, current, pending, consumers>>

Known(m) == {e \in blacklist : e.key = EventKey(m)}

BlackListData(m) ==
  [id |-> m, key |-> EventKey(m), ips |-> Data(m).ips, name |-> Data(m).name,
   expires |-> Data(m).expires, flag |-> m[1]]

Event(type, e, replaces) == [type |-> type, entry |-> e, replaces |-> replaces]

(* SourceData.process_event(): the entry, and the event published, if any. *)
Compared(m) ==
  IF Known(m) = {}
    THEN [entry |-> BlackListData(m),
          events |-> {Event("bl-new", BlackListData(m), Nothing)}]
    ELSE LET old == CHOOSE e \in Known(m) : TRUE
             updated == [old EXCEPT !.expires = Data(m).expires, !.flag = m[1]]
         IN  CASE old.ips # Data(m).ips ->
                    [entry |-> BlackListData(m),
                     events |-> {Event("bl-change", BlackListData(m), old.id)}]
               [] old.ips = Data(m).ips /\ old.expires # Data(m).expires ->
                    [entry |-> updated, events |-> {Event("bl-update", updated, Nothing)}]
               [] OTHER -> [entry |-> updated, events |-> {}]

ProcessEvent(m) ==
  /\ Receive(m)
  /\ IsMessageValid(m)
  /\ Time(m) >= time
  /\ HasEventKey(m)
  /\ UpdateSeries(m) /\ SetTimeout(m)
  /\ blacklist' = (blacklist \ Known(m)) \cup {Compared(m).entry}
  /\ pending' = Compared(m).events
  /\ time' = Time(m)
  /\ applied' = applied \cup {m}
  /\ step' = "event" /\ current' = m
  /\ UNCHANGED <<file, consumers>>

-----------------------------------------------------------------------------
(* What the consumers are told. *)

Told(told, event) ==
  LET e == event.entry
  IN  CASE event.type = "bl-new"    -> told \cup {e}
        [] event.type = "bl-change" -> {x \in told : x.id # event.replaces} \cup {e}
        [] event.type = "bl-update" ->
             {IF x.id = e.id THEN [x EXCEPT !.expires = e.expires] ELSE x : x \in told}
        [] OTHER                    -> {x \in told : x.id # e.id}

(* Flags are not published. *)
AfterEvent(event) == Told(listed, [event EXCEPT !.entry.flag = None])

PublishEvent ==
  /\ step \in {"event", "deleted"}
  /\ \E event \in pending :
       /\ listed' = AfterEvent(event)
       /\ emitted' = IF event.type \in {"bl-new", "bl-change"}
                       THEN emitted \cup {event.entry.id} ELSE emitted
       /\ pending' = pending \ {event}
  /\ UNCHANGED <<memory, series, file, step, current, bounds>>

-----------------------------------------------------------------------------
(* The end of a series. *)

IsSeriesComplete(s) == count[s] = Total(s)

GoOn ==
  /\ step = "event" /\ pending = {}
  /\ ~IsSeriesComplete(current[1])
  /\ step' = "idle"
  /\ UNCHANGED <<memory, series, file, current, pending, consumers, bounds>>

Delisted == {e \in blacklist : e.flag = None}
Expired == {e \in blacklist : e.flag # None /\ e.expires < time}
Unflagged(entries) == {[e EXCEPT !.flag = None] : e \in entries}

(* The expired entries stay. *)
ProcessDeletedOnly ==
  /\ blacklist' = Unflagged(blacklist \ Delisted)
  /\ pending' = {Event("bl-delist", e, Nothing) : e \in Delisted}
                \cup {Event("bl-expire", e, Nothing) : e \in Expired}

(* SourceData.process_deleted(). *)
ProcessDeleted ==
  /\ blacklist' = Unflagged(blacklist \ (Delisted \cup Expired))
  /\ pending' = {Event("bl-delist", e, Nothing) : e \in Delisted}
                \cup {Event("bl-expire", e, Nothing) : e \in Expired}

FinalizeSeries ==
  /\ step = "event" /\ pending = {}
  /\ IsSeriesComplete(current[1])
  /\ armed' = armed \ {current[1]}
  /\ ProcessDeleted
  /\ step' = "deleted"
  /\ UNCHANGED <<time, open, count, applied, file, current, consumers, bounds>>

(* on_series_timeout(). *)
OnSeriesTimeout(s) ==
  /\ step = "idle"
  /\ s \in armed
  /\ armed' = armed \ {s}
  /\ blacklist' = {IF e.flag = s THEN [e EXCEPT !.flag = None] ELSE e : e \in blacklist}
  /\ step' = "deleted" /\ current' = <<s, 0>>
  /\ UNCHANGED <<time, open, count, applied, file, pending, consumers, bounds>>

(* store_state(): the file is truncated first. *)
Truncate(from, to) ==
  /\ step = from
  /\ step' = to
  /\ file' = Torn
  /\ UNCHANGED <<memory, series, current, pending, consumers, bounds>>

Stored == [time |-> time, blacklist |-> blacklist, readable |-> TRUE]

OpenFile == pending = {} /\ Truncate("deleted", "writing")

(* ...then close_series().  An OSError is only logged: the old file stays,
   or a truncated one. *)
CloseSeries ==
  /\ \/ step = "writing" /\ file' \in {Stored, Torn}
     \/ step = "deleted" /\ pending = {} /\ file' = file
  /\ open' = [open EXCEPT ![current[1]] = {}]
  /\ count' = [count EXCEPT ![current[1]] = 0]
  /\ applied' = {m \in applied : m[1] # current[1]}
  /\ step' = "idle"
  /\ UNCHANGED <<memory, armed, current, pending, consumers, bounds>>

-----------------------------------------------------------------------------
(* The end of the process. *)

Up == step \notin {"down", "broken"}

LoseMemory ==
  /\ time' = 0 /\ blacklist' = {}
  /\ open' = [s \in Series |-> {}] /\ count' = [s \in Series |-> 0]
  /\ armed' = {} /\ applied' = {}
  /\ pending' = {}
  /\ step' = "down"
  /\ UNCHANGED <<current, consumers>>

(* An AMQP problem (SystemExit), or a kill. *)
Exit ==
  /\ Up
  /\ exits < MaxExits
  /\ exits' = exits + 1
  /\ LoseMemory
  /\ UNCHANGED <<file, deliveries, interrupts>>

(* KeyboardInterrupt: main() calls stop(), which stores the state. *)
Interrupt ==
  /\ Up /\ step \notin {"stop", "stop_writing"}
  /\ interrupts < MaxInterrupts
  /\ interrupts' = interrupts + 1
  /\ step' = "stop"
  /\ UNCHANGED <<memory, series, file, current, pending, consumers, deliveries, exits>>

OpenFileToStop == Truncate("stop", "stop_writing")

Stop ==
  /\ \/ step = "stop_writing" /\ file' \in {Stored, Torn}
     \/ step = "stop" /\ file' = file
  /\ LoseMemory
  /\ UNCHANGED bounds

ComparatorNext ==
  \/ RestoreState
  \/ \E m \in Message :
       RejectInvalid(m) \/ RejectOutOfOrder(m) \/ RejectKeyless(m) \/ ProcessEvent(m)
  \/ PublishEvent \/ GoOn \/ FinalizeSeries
  \/ \E s \in Series : OnSeriesTimeout(s)
  \/ OpenFile \/ CloseSeries
  \/ Exit \/ Interrupt \/ OpenFileToStop \/ Stop

ComparatorSpec == ComparatorInit /\ [][ComparatorNext]_vars

-----------------------------------------------------------------------------
(* finalize_series(), "if all the messages for a series have arrived": each of
   them has, since the series was opened, and those that have a key have all been
   taken into account; one without a key counts, though it has been refused.  No
   series is left waiting whose messages have all been taken into account.  And a
   series has a timeout exactly as long as it is open, even if the message that
   has opened it is refused. *)
SeriesEndProperly ==
  /\ (step \in {"deleted", "writing"} /\ current[2] # 0)
       => \A n \in Numbers(current[1]) :
            /\ n \in open[current[1]]
            /\ HasEventKey(<<current[1], n>>) => <<current[1], n>> \in applied
  /\ step = "idle" =>
       /\ \A s \in Series : \E n \in Numbers(s) : <<s, n>> \notin applied
       /\ armed = {s \in Series : Open(s)}

IsDeletion(event) == event.type \in {"bl-delist", "bl-expire"}

(* When all is published that is pending (one event that is not a deletion, or
   deletions in any order), the consumers know what the comparator knows. *)
ConsumersAreUpToDate ==
  LET Kept == {e \in listed : \A event \in pending : e.id # event.entry.id}
  IN  \/ (\A event \in pending : IsDeletion(event)) /\ Kept = Unflagged(blacklist)
      \/ \E event \in pending :
           pending = {event} /\ ~IsDeletion(event) /\ AfterEvent(event) = Unflagged(blacklist)

(* An entry of the list just completed is never told to be delisted, unless its
   message in that list has no key.  As long as the process does not end, the
   consumers know, or are going to be told of, exactly the entries that the
   comparator knows.  Once a message has been processed, they know the addresses
   and the expiry time of its entry. *)
SameBlacklist ==
  /\ \A event \in pending :
       event.type = "bl-delist" =>
         \A n \in Numbers(current[1]) :
           HasEventKey(<<current[1], n>>) => EventKey(<<current[1], n>>) # event.entry.key
  /\ exits + interrupts = 0 /\ Up =>
    /\ ConsumersAreUpToDate
    /\ (step = "event" /\ pending = {})
         => \E e \in listed : /\ e.key = EventKey(current)
                              /\ e.ips = Data(current).ips /\ e.expires = Data(current).expires

(* "...of a blacklist entry that was emitted earlier; the event's `id` is the
   `id` of that earlier one" (and likewise `replaces`): even if the process has
   ended without storing its state and has been started again, as long as it
   has not been interrupted. *)
EmittedEarlier ==
  interrupts = 0 => \A event \in pending :
    /\ event.type \in {"bl-update", "bl-delist", "bl-expire"} => event.entry.id \in emitted
    /\ event.type = "bl-change" => event.replaces \in emitted

(* Whatever ends the process, and in whatever order the lists come: what the
   consumers are told agrees with the blacklist, and with what they have been
   told before. *)
ConsumersAgree == SameBlacklist /\ EmittedEarlier

=============================================================================
