------------------------------ MODULE Recorder ------------------------------
(***************************************************************************)
(* The recorder (N6DataPipeline/n6datapipeline/recorder.py): it stores the *)
(* events that it takes from its queue in the Event DB, and publishes as   *)
(* "recorded" those that were not there before.                            *)
(*                                                                         *)
(* Messages come in the order of the queue.  What the recorder tells the   *)
(* broker waits in the outbound buffer of its connection, as in            *)
(* QueuedComponent; if the process is killed, that is lost, and the broker *)
(* delivers again, in the same order, whatever has not been acknowledged.  *)
(***************************************************************************)
EXTENDS Integers, Sequences, FiniteSets

CONSTANT Scenarios   \* what is considered, and the bounds: see below

(* A scenario: the messages that come into the queue, and how often the    *)
(* recorder is killed and has an error of the database, at most.           *)
(* A message has a type, the id of its event, the id that the event        *)
(* replaces, a value (`expires`, or `until` and `count`), the event's time *)
(* and its clients.                                                        *)

NoId == "no id"

AllMessages == UNION {{s.messages[n] : n \in DOMAIN s.messages} : s \in Scenarios}

ASSUME RecorderAssumption == \A s \in Scenarios : s.messages \in Seq(AllMessages)

VARIABLES scenario,  \* one of Scenarios
          acked,     \* how many of them have been acknowledged
          current,   \* the number of the message that is being handled
          step,      \* how far its handling is
          fresh,     \* whether it has inserted its event
          db,        \* status and value of the stored events, by id
          outbox,    \* publications and acknowledgements not yet sent
          recorded,  \* the messages published as recorded
          buried,    \* the messages that are in the dead-letter queue
          kills,     \* how often the recorder has been killed
          fails      \* how many database errors there have been

recorderVars == <<scenario, acked, current, step, fresh, db, outbox, recorded, buried, kills, fails>>

-----------------------------------------------------------------------------
(* The Event DB                                                            *)

Stored(id) == id \in DOMAIN db

With(id, row) == [i \in DOMAIN db \cup {id} |-> IF i = id THEN row ELSE db[i]]

IsBlacklist(m) == m.type \in {"bl-new", "bl-change", "bl-update"}

RowOf(m) == [status |-> IF IsBlacklist(m) THEN "active" ELSE "none", value |-> m.value]

\* A variant: rows that exist are overwritten.
InsertOrUpdate(m) ==
  /\ db' = With(m.id, RowOf(m))
  /\ fresh' = ~Stored(m.id)

\* insert_new_event_db_records(): all the rows of an event or, after an
\* IntegrityError, which is put down in integrity_error_occurred, none.
Insert(m) ==
  /\ db' = IF Stored(m.id) THEN db ELSE With(m.id, RowOf(m))
  /\ fresh' = ~Stored(m.id)

SetStatus(id, status) ==
  /\ db' = IF Stored(id) THEN [db EXCEPT ![id].status = status] ELSE db
  /\ fresh' = FALSE

SetValueOrInsert(m) ==
  IF Stored(m.id) THEN db' = [db EXCEPT ![m.id].value = m.value] /\ fresh' = FALSE
  ELSE Insert(m)

-----------------------------------------------------------------------------
(* Handling a message                                                      *)

input == scenario.messages

Message == input[current]

Begin ==
  /\ step = "idle" /\ current < Len(input)
  /\ current' = current + 1
  /\ step' = "begun"
  /\ UNCHANGED <<scenario, acked, fresh, db, outbox, recorded, buried, kills, fails>>

\* The transaction of a handler, to "stored"; of blacklist_change() the
\* second one.
Commits(from, types) ==
  /\ step = from /\ Message.type \in types
  /\ step' = "stored"
  /\ UNCHANGED <<scenario, acked, current, outbox, recorded, buried, kills, fails>>

\* new_event(), blacklist_new()
NewEvent == Commits("begun", {"event", "bl-new"}) /\ Insert(Message)

\* The first transaction of blacklist_change(); an event that replaces one
\* unknown is stored all the same.
MarkReplaced ==
  /\ step = "begun" /\ Message.type = "bl-change"
  /\ step' = "marked"
  /\ SetStatus(Message.replaces, "replaced")
  /\ UNCHANGED <<scenario, acked, current, outbox, recorded, buried, kills, fails>>

InsertReplacing == Commits("marked", {"bl-change"}) /\ Insert(Message)

BlacklistDelist == Commits("begun", {"bl-delist"}) /\ SetStatus(Message.id, "delisted")

BlacklistExpire == Commits("begun", {"bl-expire"}) /\ SetStatus(Message.id, "expired")

\* blacklist_update(), suppressed_update()
UpdateOrInsert == Commits("begun", {"bl-update", "suppressed"}) /\ SetValueOrInsert(Message)

\* The end of the handlers that insert: if not self.integrity_error_occurred.
ShouldPublish == fresh

\* publish_as_recorded(), if due, and the acknowledgement of the message
Finish ==
  /\ step = "stored"
  /\ outbox' = outbox \o (IF ShouldPublish THEN <<[what |-> "recorded", number |-> current]>> ELSE <<>>)
                      \o <<[what |-> "ack", number |-> current]>>
  /\ step' = "idle" /\ fresh' = FALSE
  /\ UNCHANGED <<scenario, acked, current, db, recorded, buried, kills, fails>>

\* An exception rolls the transaction back; the message goes to the dead-letter
\* queue.  (With a fatal error code it is SystemExit, as good as a kill.)
DatabaseError ==
  /\ fails < scenario.fails /\ step \in {"begun", "marked"}
  /\ fails' = fails + 1
  /\ outbox' = Append(outbox, [what |-> "nack", number |-> current])
  /\ step' = "idle" /\ fresh' = FALSE
  /\ UNCHANGED <<scenario, acked, current, db, recorded, buried, kills>>

Flush ==
  /\ outbox # <<>>
  /\ LET frame == Head(outbox)
     IN /\ outbox' = Tail(outbox)
        /\ recorded' = IF frame.what = "recorded" THEN Append(recorded, input[frame.number]) ELSE recorded
        /\ acked' = IF frame.what = "recorded" THEN acked ELSE frame.number
        /\ buried' = IF frame.what = "nack" THEN buried \cup {frame.number} ELSE buried
  /\ UNCHANGED <<scenario, current, step, fresh, db, kills, fails>>

\* Killed, or out of the database's reach for good (ping_connection()), and
\* started again.
Kill ==
  /\ kills < scenario.kills
  /\ kills' = kills + 1
  /\ current' = acked /\ step' = "idle" /\ fresh' = FALSE /\ outbox' = <<>>
  /\ UNCHANGED <<scenario, acked, db, recorded, buried, fails>>

RecorderInit ==
  /\ scenario \in Scenarios
  /\ acked = 0 /\ current = 0 /\ step = "idle" /\ fresh = FALSE
  /\ db = [i \in {} |-> [status |-> "none", value |-> 0]]
  /\ outbox = <<>> /\ recorded = <<>> /\ buried = {}
  /\ kills = 0 /\ fails = 0

Handle == \/ Begin \/ NewEvent \/ MarkReplaced \/ InsertReplacing \/ BlacklistDelist
          \/ BlacklistExpire \/ UpdateOrInsert \/ Finish \/ Flush

RecorderNext == Handle \/ DatabaseError \/ Kill

-----------------------------------------------------------------------------
(* Properties                                                              *)

Closed == {"replaced", "delisted", "expired"}

\* Message n is being handled, or will be, for the first time or again.
IsPending(n) == n > acked

\* A change of an entry is two transactions.  If the old entry has been marked,
\* then the new one is there, or the change will be handled (again), or it has
\* been buried.  Both are never active, unless the old one could not be stored
\* at first and is stored when all is handled again; then so is the change.
ChangesAreWhole ==
  \A n \in 1..Len(input) :
    LET m    == input[n]
        both == Stored(m.id) /\ db[m.id].status = "active" /\ db[m.replaces].status = "active"
    IN (m.type = "bl-change" /\ Stored(m.replaces)) =>
         /\ db[m.replaces].status = "replaced" => Stored(m.id) \/ IsPending(n) \/ n \in buried
         /\ both => IsPending(n) /\ kills > 0 /\ fails > 0

\* What has been closed stays so: a blacklist entry that has been replaced or
\* delisted, or has expired, is never active again, though the messages that made
\* it active may all be handled once more after a kill; and changes are whole.
EntriesAreRight ==
  /\ []ChangesAreWhole
  /\ [][\A id \in DOMAIN db :
          db[id].status \in Closed => db'[id].status = db[id].status]_recorderVars

Published(id) == {k \in 1..Len(recorded) : recorded[k].id = id}

OnItsWay(id) ==
  \/ \E k \in 1..Len(outbox) : outbox[k].what = "recorded" /\ input[outbox[k].number].id = id
  \/ step = "stored" /\ fresh /\ Message.id = id

\* However often messages are delivered, an event is published as recorded at
\* most once, and only after it has been stored; a stored event is not published
\* at all only if the recorder has been killed meanwhile.
PublishedOnce ==
  /\ \A k \in 1..Len(recorded) : Stored(recorded[k].id) /\ Cardinality(Published(recorded[k].id)) = 1
  /\ kills = 0 => \A id \in DOMAIN db : Published(id) # {} \/ OnItsWay(id)
=============================================================================
