------------------------------- MODULE Notices -------------------------------
(***************************************************************************)
(* E-mail notifications.  The counter (N6DataPipeline/n6datapipeline/      *)
(* counter.py) counts the events that the recorder has published, by       *)
(* organization, in Redis; the notifier (notifier.py), run from time to    *)
(* time, mails each organization the number of events since its last mail, *)
(* with a link by which they can be downloaded.  The two share nothing but *)
(* Redis, each of whose commands is atomic.                                *)
(*                                                                         *)
(* One category of events stands for all: the numbers of different         *)
(* categories are kept side by side.  "modified", which the recorder       *)
(* stamps on an event, is the place of the event in `recorded`.            *)
(***************************************************************************)
EXTENDS Recorder

CONSTANT Clients         \* organizations to be notified, 1..n: in this order

ASSUME NoticesAssumption ==
  /\ Clients \in Nat \ {0}
  /\ \A m \in AllMessages : m.time \in Nat \ {0} /\ m.clients \subseteq 1..Clients

(* A scenario also says how many notification times there are, how often   *)
(* the counter is killed (cuts) and the notifier breaks off (breaks).      *)

VARIABLES
  hash,      \* the hash of each client: the events that the number counts,
             \* _tmin, _tmax, _time (0: no such field)
  lastSent,  \* the number in <client>_last_send_counter
  lastTime,  \* <client>_last_send_dt: a notification time, or 0
  consumed,  \* how many of the recorded events the counter has acknowledged
  counter,   \* what it is doing: see Idle
  notifier,  \* what the notifier is doing: see Resting
  now,       \* the notification times so far
  mails,     \* the mails sent to each client
  raced,     \* the events counted after the snapshot for a mail and before the
             \* end of what is done for that mail
  cuts,      \* how often the counter has been killed
  breaks     \* how often a run of the notifier has broken off

redisVars    == <<hash, lastSent, lastTime>>
noticesVars  == <<redisVars, consumed, counter, notifier, now, mails, raced, cuts, breaks>>
vars         == <<recorderVars, noticesVars>>

NoFields == [events |-> <<>>, tmin |-> 0, tmax |-> 0, time |-> 0]

IsEmpty(h) == h = NoFields

-----------------------------------------------------------------------------
(* The counter                                                             *)

\* at: in save_to_redis(); client: the one being dealt with; dirty: whether the
\* watched hash has been changed; late: whether set_time() is to write.
Idle == [at |-> "idle", client |-> 0, dirty |-> FALSE, late |-> FALSE]

Event == recorded[consumed + 1]

\* The next of the clients (sorted) after client c; 0 if there is none.
NextClient(c) ==
  LET later == {d \in Event.clients : d > c}
  IN IF later = {} THEN 0 ELSE CHOOSE d \in later : \A e \in later : d <= e

\* A command of anyone changes the hash of c: whoever watches it will know.
Touch(h, c) == IF counter.at # "idle" /\ counter.client = c THEN [h EXCEPT !.dirty = TRUE] ELSE h

CounterOnly == UNCHANGED <<recorderVars, lastSent, lastTime, notifier, now, mails, cuts, breaks>>

\* input_callback() begins with the first client, or has none.
Receive ==
  /\ counter.at = "idle" /\ consumed < Len(recorded)
  /\ IF NextClient(0) = 0
     THEN consumed' = consumed + 1 /\ UNCHANGED counter
     ELSE counter' = [Idle EXCEPT !.at = "watch", !.client = NextClient(0)] /\ UNCHANGED consumed
  /\ UNCHANGED <<hash, raced>> /\ CounterOnly

Watch ==
  /\ counter.at = "watch"
  /\ counter' = [counter EXCEPT !.at = "read time", !.dirty = FALSE]
  /\ UNCHANGED <<hash, consumed, raced>> /\ CounterOnly

\* A variant: the time is written even if it is the same.
EarlierOrSame(h) == h.time = 0 \/ Event.time <= h.time

\* if (not time_in_db) or _time < time_in_db
Earlier(h) == h.time = 0 \/ Event.time < h.time

ReadTime ==
  /\ counter.at = "read time"
  /\ counter' = [counter EXCEPT !.at = IF Earlier(hash[counter.client]) THEN "set time" ELSE "exec"]
  /\ UNCHANGED <<hash, consumed, raced>> /\ CounterOnly

\* The write of set_time() is not part of the MULTI, and so dirties the watch
\* of the counter itself.
SetTime ==
  /\ counter.at = "set time"
  /\ hash' = [hash EXCEPT ![counter.client].time = Event.time]
  /\ counter' = [counter EXCEPT !.at = "exec", !.dirty = TRUE]
  /\ UNCHANGED <<consumed, raced>> /\ CounterOnly

\* A variant: the increment is not a part of the MULTI.
RetryCounted ==
  /\ counter.at = "exec" /\ counter.dirty
  /\ counter' = [counter EXCEPT !.at = "watch"]
  /\ hash' = [hash EXCEPT ![counter.client].events = Append(@, consumed + 1)]
  /\ UNCHANGED <<consumed, raced>> /\ CounterOnly

\* EXEC fails with a WatchError, and everything is done again.
Retry ==
  /\ counter.at = "exec" /\ counter.dirty
  /\ counter' = [counter EXCEPT !.at = "watch"]
  /\ UNCHANGED <<hash, consumed, raced>> /\ CounterOnly

\* The notifier has its snapshot of the hash of c, and may delete _time.
IsBeingMailed(c) == notifier.client = c /\ notifier.at \in {"decide", "compare", "send", "save counter",
                                                         "save tmin", "save time", "delete time"}

MayExec == counter.at = "exec" /\ ~counter.dirty

\* hincrby, hset _tmax, hsetnx _tmin; then the next client or, after the last
\* one, the acknowledgement.
Exec ==
  /\ MayExec
  /\ LET c    == counter.client
         here == consumed + 1
     IN /\ hash' = [hash EXCEPT ![c].events = Append(@, here), ![c].tmax = here,
                                ![c].tmin = IF @ = 0 THEN here ELSE @]
        /\ raced' = IF IsBeingMailed(c) THEN raced \cup {<<c, here>>} ELSE raced
        /\ IF NextClient(c) # 0
           THEN counter' = [Idle EXCEPT !.at = "watch", !.client = NextClient(c)] /\ UNCHANGED consumed
           ELSE counter' = [Idle EXCEPT !.at = "ack"] /\ UNCHANGED consumed
  /\ CounterOnly

Acknowledge ==
  /\ counter.at = "ack"
  /\ counter' = Idle /\ consumed' = consumed + 1
  /\ UNCHANGED <<hash, raced>> /\ CounterOnly

\* The counter is killed and started again; the event comes back.
Cut ==
  /\ cuts < scenario.cuts /\ counter.at # "idle"
  /\ cuts' = cuts + 1
  /\ counter' = Idle
  /\ UNCHANGED <<recorderVars, redisVars, consumed, notifier, now, mails, raced, breaks>>

Count == Receive \/ Watch \/ ReadTime \/ SetTime \/ Retry \/ Exec \/ Acknowledge

-----------------------------------------------------------------------------
(* The notifier                                                            *)

\* snap: current_state_db; stamp: now_dt
Resting == [at |-> "resting", client |-> 0, snap |-> NoFields, stamp |-> 0]

NotifierOnly == UNCHANGED <<recorderVars, consumed, raced, cuts, breaks>>

\* After client c: the next one, or the end of the run.
After(c) ==
  IF c = Clients THEN Resting ELSE [Resting EXCEPT !.at = "snapshot", !.client = c + 1]

Tick ==
  /\ now < scenario.ticks
  /\ now' = now + 1
  /\ UNCHANGED <<redisVars, counter, notifier, mails>> /\ NotifierOnly

StartRun ==
  /\ notifier.at = "resting" /\ \E c \in 1..Clients : lastTime[c] < now
  /\ notifier' = [Resting EXCEPT !.at = "snapshot", !.client = 1]
  /\ UNCHANGED <<redisVars, counter, now, mails>> /\ NotifierOnly

Goto(at) == notifier' = [notifier EXCEPT !.at = at]

\* get_raw_counter(); without any data there is nothing to do.
Snapshot ==
  /\ notifier.at = "snapshot"
  /\ LET h == hash[notifier.client]
     IN notifier' = IF IsEmpty(h) THEN After(notifier.client)
                    ELSE [notifier EXCEPT !.at = "decide", !.snap = h, !.stamp = now]
  /\ UNCHANGED <<redisVars, counter, now, mails>> /\ NotifierOnly

\* The first run only notes the time; notify_client() says whether there has
\* been a notification time since the last mail.
Decide ==
  /\ notifier.at = "decide"
  /\ LET c == notifier.client
     IN IF lastTime[c] = 0
        THEN notifier' = After(c) /\ lastTime' = [lastTime EXCEPT ![c] = notifier.stamp]
        ELSE /\ IF lastTime[c] < notifier.stamp THEN Goto("compare") ELSE notifier' = After(c)
             /\ UNCHANGED lastTime
  /\ UNCHANGED <<hash, lastSent, counter, now, mails>> /\ NotifierOnly

\* get_counter_to_send(): only what is more than at the last mail.
Compare ==
  /\ notifier.at = "compare"
  /\ IF Len(notifier.snap.events) > lastSent[notifier.client] THEN Goto("send")
     ELSE notifier' = After(notifier.client)
  /\ UNCHANGED <<redisVars, counter, now, mails>> /\ NotifierOnly

\* get_template() and send_message().  Without _time, get_template() raises
\* KeyError, and no other client is dealt with.
Send ==
  /\ notifier.at = "send"
  /\ LET c == notifier.client
         s == notifier.snap
     IN IF s.time = 0 THEN notifier' = Resting /\ UNCHANGED mails
        ELSE /\ Goto("save counter")
             /\ mails' = [mails EXCEPT ![c] = Append(@,
                  [from |-> lastSent[c] + 1, to |-> Len(s.events), afterBreak |-> breaks > 0,
                   tmin |-> s.tmin, tmax |-> s.tmax, time |-> s.time, events |-> s.events])]
  /\ UNCHANGED <<redisVars, counter, now>> /\ NotifierOnly

SaveCounter ==
  /\ notifier.at = "save counter"
  /\ lastSent' = [lastSent EXCEPT ![notifier.client] = Len(notifier.snap.events)]
  /\ Goto("save tmin")
  /\ UNCHANGED <<hash, lastTime, counter, now, mails>> /\ NotifierOnly

\* set_time_min()
SaveTMin ==
  /\ notifier.at = "save tmin"
  /\ hash' = [hash EXCEPT ![notifier.client].tmin = notifier.snap.tmax]
  /\ counter' = Touch(counter, notifier.client)
  /\ Goto("save time")
  /\ UNCHANGED <<lastSent, lastTime, now, mails>> /\ NotifierOnly

SaveTime ==
  /\ notifier.at = "save time"
  /\ lastTime' = [lastTime EXCEPT ![notifier.client] = notifier.stamp]
  /\ Goto("delete time")
  /\ UNCHANGED <<hash, lastSent, counter, now, mails>> /\ NotifierOnly

DeleteTime ==
  /\ notifier.at = "delete time"
  /\ hash' = [hash EXCEPT ![notifier.client].time = 0]
  /\ counter' = Touch(counter, notifier.client)
  /\ notifier' = After(notifier.client)
  /\ UNCHANGED <<lastSent, lastTime, now, mails>> /\ NotifierOnly

\* The run is killed, or the mail server refuses the mail or the next one.
BreakOff ==
  /\ breaks < scenario.breaks /\ notifier.at # "resting"
  /\ breaks' = breaks + 1
  /\ notifier' = Resting
  /\ UNCHANGED <<recorderVars, redisVars, consumed, counter, now, mails, raced, cuts>>

Notify == \/ StartRun \/ Snapshot \/ Decide \/ Compare \/ Send \/ SaveCounter
          \/ SaveTMin \/ SaveTime \/ DeleteTime

-----------------------------------------------------------------------------
Init ==
  /\ RecorderInit
  /\ hash = [c \in 1..Clients |-> NoFields]
  /\ lastSent = [c \in 1..Clients |-> 0] /\ lastTime = [c \in 1..Clients |-> 0]
  /\ consumed = 0 /\ counter = Idle /\ notifier = Resting /\ now = 0
  /\ mails = [c \in 1..Clients |-> <<>>] /\ raced = {}
  /\ cuts = 0 /\ breaks = 0

Next == \/ RecorderNext /\ UNCHANGED noticesVars
        \/ Count \/ Cut \/ Tick \/ Notify \/ BreakOff

\* Each process goes on as long as it can.
Spec == /\ Init /\ [][Next]_vars
        /\ WF_vars(Handle /\ UNCHANGED noticesVars)
        /\ WF_vars(Count)
        /\ WF_vars(Notify)

-----------------------------------------------------------------------------
(* Properties                                                              *)

Times(c, n) == Cardinality({k \in 1..Len(hash[c].events) : hash[c].events[k] = n})

\* Every event that the counter has dealt with is counted for each of its
\* clients, and for nobody else: more than once only if the counter has been
\* killed, however the notifier interferes.
CountedAsRecorded ==
  \A c \in 1..Clients, n \in 1..Len(recorded) :
    /\ Times(c, n) > 0 => c \in recorded[n].clients
    /\ (n <= consumed /\ c \in recorded[n].clients) => Times(c, n) > 0
    /\ Times(c, n) <= 1 + cuts

\* No event is left out of the mails, and none is in two of them unless a run
\* has broken off: each mail goes on where one before it has ended.  The mail
\* template says: detailed information about the events can be downloaded under
\* the link.  It covers the times of all those that the mail counts, except those
\* that were counted while an earlier mail was being made.
MailsFollowOn ==
  \A c \in 1..Clients : \A k \in 1..Len(mails[c]) :
    LET m == mails[c][k]
        next == IF k = 1 THEN 1 ELSE mails[c][k - 1].to + 1
    IN /\ m.from <= next /\ m.from <= m.to
       /\ ~m.afterBreak => m.from = next
       /\ \A i \in m.from..m.to :
            LET n == m.events[i]
            IN /\ m.tmin <= n /\ n <= m.tmax
               /\ recorded[n].time >= m.time \/ <<c, n>> \in raced

\* From the database to the mails: each event is published once, counted once,
\* mailed once.
PublishedCountedMailed == PublishedOnce /\ CountedAsRecorded /\ MailsFollowOn

\* Whatever the notifier does, every recorded event is dealt with in the end: a
\* watch is broken only so often, also by the counter itself.
MaxRecorded == 3

EveryEventIsCounted == \A n \in 1..MaxRecorded : Len(recorded) >= n ~> consumed >= n
=============================================================================
