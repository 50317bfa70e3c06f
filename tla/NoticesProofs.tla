---------------------------- MODULE NoticesProofs ----------------------------
(***************************************************************************)
(* Proofs about the recorder, the counter and the notifier, for any        *)
(* messages, any number of clients, of kills and other mishaps: from the   *)
(* database to the mails, each event is published once, counted once and   *)
(* mailed once.                                                            *)
(*                                                                         *)
(* That what a mail says is true rests on the watch of the counter: when   *)
(* an event is counted, either the time in the hash is not later than the  *)
(* event's, or a mail is being made, which has its own copy of the hash.   *)
(***************************************************************************)
EXTENDS Notices, FiniteSetTheorems, WellFoundedInduction, TLAPS

RecorderStep == {"idle", "begun", "marked", "stored"}

Frame == [what : {"recorded", "ack", "nack"}, number : 1..Len(input)]

RecorderTypes ==
  /\ scenario \in Scenarios
  /\ acked \in 0..Len(input) /\ current \in 0..Len(input)
  /\ step \in RecorderStep
  /\ step # "idle" => current > 0
  /\ fresh \in BOOLEAN
  /\ outbox \in Seq(Frame)
  /\ recorded \in Seq(AllMessages)
  /\ kills \in Nat

-----------------------------------------------------------------------------
(* An event is published only by whoever has inserted it. *)

IsRecorded(i) == outbox[i].what = "recorded"

IdOf(i) == input[outbox[i].number].id

EachOnce ==
  /\ \A k \in 1..Len(recorded) :
       /\ Stored(recorded[k].id)
       /\ \A j \in 1..Len(recorded) : recorded[j].id = recorded[k].id => j = k
  /\ \A i \in 1..Len(outbox) : IsRecorded(i) =>
       /\ Stored(IdOf(i))
       /\ \A k \in 1..Len(recorded) : recorded[k].id # IdOf(i)
       /\ \A j \in 1..Len(outbox) : (IsRecorded(j) /\ IdOf(j) = IdOf(i)) => j = i
  /\ fresh =>
       /\ step = "stored" /\ Stored(Message.id)
       /\ \A k \in 1..Len(recorded) : recorded[k].id # Message.id
       /\ \A i \in 1..Len(outbox) : IsRecorded(i) => IdOf(i) # Message.id

IsToBePublished(id) ==
  \/ \E k \in 1..Len(recorded) : recorded[k].id = id
  \/ \E i \in 1..Len(outbox) : IsRecorded(i) /\ IdOf(i) = id
  \/ fresh /\ Message.id = id

NoneMissing == kills = 0 => \A id \in DOMAIN db : IsToBePublished(id)

RecorderInvariant == RecorderTypes /\ EachOnce /\ NoneMissing

-----------------------------------------------------------------------------
(* The counter. *)

HashType == [events : Seq(Nat), tmin : Nat, tmax : Nat, time : Nat]

CounterStep == {"idle", "watch", "read time", "set time", "exec", "ack"}
Working == {"watch", "read time", "set time", "exec"}

NotifierStep == {"resting", "snapshot", "decide", "compare", "send", "save counter", "save tmin",
                 "save time", "delete time"}

MailType == [from : Nat, to : Nat, afterBreak : BOOLEAN, tmin : Nat, tmax : Nat, time : Nat,
             events : Seq(Nat)]

NoticesTypes ==
  /\ hash \in [1..Clients -> HashType]
  /\ lastSent \in [1..Clients -> Nat]
  /\ consumed \in 0..Len(recorded)
  /\ counter \in [at : CounterStep, client : 0..Clients, dirty : BOOLEAN, late : BOOLEAN]
  /\ notifier \in [at : NotifierStep, client : 0..Clients, snap : HashType, stamp : Nat]
  /\ now \in Nat
  /\ mails \in [1..Clients -> Seq(MailType)]
  /\ cuts \in Nat /\ breaks \in Nat
  /\ counter.at # "idle" => consumed < Len(recorded)
  /\ counter.at \in Working => counter.client \in Event.clients
  /\ notifier.at # "resting" => notifier.client # 0

(* Whether the event being handled has been counted for client c. *)
CountedNow(c) == counter.at = "ack" \/ (counter.at \in Working /\ c < counter.client)

HasCounted(c, n) == \E k \in 1..Len(hash[c].events) : hash[c].events[k] = n

Counted ==
  \A c \in 1..Clients :
    /\ \A k \in 1..Len(hash[c].events) :
         LET n == hash[c].events[k]
         IN  n \in 1..Len(recorded) /\ n <= consumed + 1 /\ c \in recorded[n].clients
    /\ \A n \in 1..consumed : c \in recorded[n].clients => HasCounted(c, n)
    /\ (CountedNow(c) /\ c \in Event.clients) => HasCounted(c, consumed + 1)

CountedOnce ==
  \A c \in 1..Clients :
    /\ \A n \in 1..consumed : Times(c, n) <= 1 + cuts
    /\ Times(c, consumed + 1) <= IF CountedNow(c) THEN 1 + cuts ELSE cuts

-----------------------------------------------------------------------------
(* The hashes. *)

InOrder(events) ==
  \A i \in 1..Len(events) : \A j \in i..Len(events) : events[i] <= events[j]

IsHash(h) ==
  /\ InOrder(h.events)
  /\ IF h.events = <<>> THEN h.tmin = 0 /\ h.tmax = 0
     ELSE h.tmin \in 1..h.tmax /\ h.tmax = h.events[Len(h.events)]

(* The times in h cover the events counted in h from the i-th one on. *)
Covering(c, h, i, messages, races) ==
  \A k \in i..Len(h.events) :
    LET n == h.events[k]
    IN  /\ h.tmin <= n
        /\ <<c, n>> \in races \/ (h.time # 0 /\ h.time <= messages[n].time)

Covers(c, h, i) == Covering(c, h, i, recorded, raced)

HashIsRight(c) ==
  /\ IsHash(hash[c]) /\ Covers(c, hash[c], lastSent[c] + 1)
  /\ lastSent[c] <= Len(hash[c].events)

HashesAreRight == \A c \in 1..Clients : HashIsRight(c)

(* Because of the watch. *)
WatchHolds ==
  LET time == hash[counter.client].time
  IN  /\ counter.at = "set time" => time = 0 \/ Event.time <= time
      /\ MayExec => time # 0 /\ time <= Event.time

-----------------------------------------------------------------------------
(* The mails. *)

Mailing == {"decide", "compare", "send", "save counter", "save tmin", "save time", "delete time"}

IsPrefix(d, e) == Len(d) <= Len(e) /\ \A i \in 1..Len(d) : d[i] = e[i]

SnapshotIsRight ==
  LET c == notifier.client
      s == notifier.snap
  IN  notifier.at \in Mailing =>
        /\ IsHash(s) /\ IsPrefix(s.events, hash[c].events)
        /\ \A k \in Len(s.events) + 1 .. Len(hash[c].events) : <<c, hash[c].events[k]>> \in raced
        /\ notifier.at \in {"decide", "compare", "send"} => Covers(c, s, lastSent[c] + 1)
        /\ notifier.at \in {"send", "save counter"} => lastSent[c] < Len(s.events)
        /\ notifier.at \in {"save tmin", "save time", "delete time"} =>
             lastSent[c] = Len(s.events) /\ Len(s.events) > 0

LastMailed(c) == IF mails[c] = <<>> THEN 0 ELSE mails[c][Len(mails[c])].to

MailIsRight(c, m, messages, races) ==
  /\ m.from \in 1..m.to /\ m.to <= Len(m.events)
  /\ \A i \in m.from..m.to :
       LET n == m.events[i]
       IN  /\ n \in 1..Len(messages) /\ m.tmin <= n /\ n <= m.tmax
           /\ messages[n].time >= m.time \/ <<c, n>> \in races

MailsGoOn(c) ==
  \A k \in 1..Len(mails[c]) :
    LET next == IF k = 1 THEN 1 ELSE mails[c][k - 1].to + 1
    IN  /\ mails[c][k].from <= next
        /\ ~mails[c][k].afterBreak => mails[c][k].from = next

IsSaving(c) == notifier.at = "save counter" /\ notifier.client = c

MailsFit(c) ==
  /\ \A k \in 1..Len(mails[c]) : MailIsRight(c, mails[c][k], recorded, raced)
  /\ MailsGoOn(c)
  /\ lastSent[c] <= LastMailed(c)
  /\ IF IsSaving(c) THEN LastMailed(c) = Len(notifier.snap.events)
     ELSE breaks = 0 => lastSent[c] = LastMailed(c)

MailsAreRight == \A c \in 1..Clients : MailsFit(c)

NoticesInvariant ==
  /\ RecorderInvariant /\ NoticesTypes
  /\ Counted /\ CountedOnce
  /\ HashesAreRight /\ WatchHolds
  /\ SnapshotIsRight /\ MailsAreRight

-----------------------------------------------------------------------------
(* Sequences: what SMT needs to be told about a longer or a shorter one. *)

LEMMA Appending ==
  ASSUME NEW S, NEW s \in Seq(S), NEW e \in S
  PROVE  /\ Append(s, e) \in Seq(S) /\ Len(Append(s, e)) = Len(s) + 1
         /\ \A i \in 1..Len(s) : Append(s, e)[i] = s[i]
         /\ Append(s, e)[Len(s) + 1] = e
  OBVIOUS

LEMMA AppendingIsJoining ==
  ASSUME NEW S, NEW s \in Seq(S), NEW e \in S
  PROVE  s \o <<e>> = Append(s, e) /\ s \o <<>> = s
  OBVIOUS

LEMMA TakingTheFirst ==
  ASSUME NEW S, NEW s \in Seq(S), s # <<>>
  PROVE  /\ Head(s) = s[1] /\ Head(s) \in S
         /\ Tail(s) \in Seq(S) /\ Len(Tail(s)) = Len(s) - 1 /\ Len(s) \in Nat \ {0}
         /\ \A i \in 1..Len(Tail(s)) : Tail(s)[i] = s[i + 1]
  OBVIOUS

-----------------------------------------------------------------------------
(* The recorder                                                            *)

LEMMA MessagesAreMessages ==
  ASSUME scenario \in Scenarios
  PROVE  /\ input \in Seq(AllMessages)
         /\ \A n \in 1..Len(input) : input[n] \in AllMessages
  BY RecorderAssumption DEF input

Handling == \/ NewEvent \/ MarkReplaced \/ InsertReplacing \/ BlacklistDelist
            \/ BlacklistExpire \/ UpdateOrInsert

(* A transaction stores the event of its message, as a new one, or none. *)
StoresOrNot ==
  /\ UNCHANGED <<scenario, acked, current, outbox, recorded, buried, kills>>
  /\ step \in {"begun", "marked"} /\ step' \in {"marked", "stored"}
  /\ \/ fresh' = FALSE /\ DOMAIN db' = DOMAIN db
     \/ /\ fresh' = TRUE /\ step' = "stored" /\ ~Stored(Message.id)
        /\ DOMAIN db' = DOMAIN db \cup {Message.id}

LEMMA HandlingStoresOrNot ==
  ASSUME Handling
  PROVE  StoresOrNot
<1>1. ASSUME Insert(Message), step' = "stored"
      PROVE  \/ fresh' = FALSE /\ DOMAIN db' = DOMAIN db
             \/ /\ fresh' = TRUE /\ step' = "stored" /\ ~Stored(Message.id)
                /\ DOMAIN db' = DOMAIN db \cup {Message.id}
  BY <1>1 DEF Insert, With, Stored
<1>2. ASSUME NEW id, NEW status, SetStatus(id, status)
      PROVE  fresh' = FALSE /\ DOMAIN db' = DOMAIN db
  BY <1>2 DEF SetStatus
<1>3. CASE NewEvent
  BY <1>1, <1>3 DEF NewEvent, Commits, StoresOrNot
<1>4. CASE MarkReplaced
  BY <1>2, <1>4 DEF MarkReplaced, StoresOrNot
<1>5. CASE InsertReplacing
  BY <1>1, <1>5 DEF InsertReplacing, Commits, StoresOrNot
<1>6. CASE BlacklistDelist
  BY <1>2, <1>6 DEF BlacklistDelist, Commits, StoresOrNot
<1>7. CASE BlacklistExpire
  BY <1>2, <1>7 DEF BlacklistExpire, Commits, StoresOrNot
<1>8. CASE UpdateOrInsert
  <2>1. CASE Stored(Message.id)
    <3>1. fresh' = FALSE /\ DOMAIN db' = DOMAIN db
      BY <1>8, <2>1 DEF UpdateOrInsert, SetValueOrInsert
    <3> QED  BY <1>8, <3>1 DEF UpdateOrInsert, Commits, StoresOrNot
  <2>2. CASE ~Stored(Message.id)
    <3>1. Insert(Message) /\ step' = "stored"
      BY <1>8, <2>2 DEF UpdateOrInsert, SetValueOrInsert, Commits
    <3> QED  BY <1>8, <1>1, <3>1 DEF UpdateOrInsert, Commits, StoresOrNot
  <2> QED  BY <2>1, <2>2
<1> QED  BY <1>3, <1>4, <1>5, <1>6, <1>7, <1>8 DEF Handling

(* What the end of a handling adds to the outbox. *)
LEMMA FinishAdds ==
  ASSUME RecorderTypes, Finish
  PROVE  /\ outbox' \in Seq(Frame)
         /\ Len(outbox') = Len(outbox) + IF fresh THEN 2 ELSE 1
         /\ \A i \in 1..Len(outbox) : outbox'[i] = outbox[i]
         /\ fresh => outbox'[Len(outbox) + 1] = [what |-> "recorded", number |-> current]
         /\ outbox'[Len(outbox')] = [what |-> "ack", number |-> current]
<1> DEFINE said  == [what |-> "recorded", number |-> current]
           acknowledged == [what |-> "ack", number |-> current]
<1>1. said \in Frame /\ acknowledged \in Frame /\ outbox \in Seq(Frame)
  BY DEF RecorderTypes, Frame, Finish
<1> HIDE DEF said, acknowledged
<1>2. outbox' = outbox \o (IF fresh THEN <<said>> ELSE <<>>) \o <<acknowledged>>
  BY DEF Finish, ShouldPublish, said, acknowledged
<1>3. CASE fresh
  <2>1. outbox' = outbox \o <<said>> \o <<acknowledged>>
    BY <1>2, <1>3
  <2>2. outbox' = Append(Append(outbox, said), acknowledged)
    <3>1. outbox \o <<said>> = Append(outbox, said) /\ Append(outbox, said) \in Seq(Frame)
      BY <1>1, AppendingIsJoining, Appending
    <3>2. Append(outbox, said) \o <<acknowledged>> = Append(Append(outbox, said), acknowledged)
      BY <1>1, <3>1, AppendingIsJoining
    <3> QED  BY <2>1, <3>1, <3>2
  <2>3. /\ Append(outbox, said) \in Seq(Frame) /\ Len(Append(outbox, said)) = Len(outbox) + 1
        /\ \A i \in 1..Len(outbox) : Append(outbox, said)[i] = outbox[i]
        /\ Append(outbox, said)[Len(outbox) + 1] = said
    BY <1>1, Appending
  <2> DEFINE half == Append(outbox, said)
  <2> HIDE DEF half
  <2>4. /\ Append(half, acknowledged) \in Seq(Frame) /\ Len(Append(half, acknowledged)) = Len(half) + 1
        /\ \A i \in 1..Len(half) : Append(half, acknowledged)[i] = half[i]
        /\ Append(half, acknowledged)[Len(half) + 1] = acknowledged
    BY <1>1, <2>3, Appending DEF half
  <2>5. Len(outbox) \in Nat /\ Len(half) = Len(outbox) + 1 /\ Len(outbox') = Len(outbox) + 2
    BY <1>1, <2>2, <2>3, <2>4 DEF half
  <2>6. \A i \in 1..Len(half) : outbox'[i] = half[i]
    BY <2>2, <2>4 DEF half
  <2>7. \A i \in 1..Len(outbox) : outbox'[i] = outbox[i]
    BY <2>3, <2>5, <2>6 DEF half
  <2> QED  BY <1>3, <2>2, <2>3, <2>4, <2>5, <2>6, <2>7 DEF half, said, acknowledged
<1>4. CASE ~fresh
  <2>1. outbox' = outbox \o <<>> \o <<acknowledged>>
    BY <1>2, <1>4
  <2>2. outbox' = Append(outbox, acknowledged)
    BY <1>1, <2>1, AppendingIsJoining
  <2> QED  BY <1>1, <1>4, <2>2, Appending DEF acknowledged
<1> QED  BY <1>3, <1>4

LEMMA RecorderTypesInitially ==
  ASSUME RecorderInit
  PROVE  RecorderInvariant
<1>1. RecorderTypes
  <2>1. scenario \in Scenarios
    BY DEF RecorderInit
  <2>2. Len(input) \in Nat
    BY <2>1, MessagesAreMessages
  <2>3. outbox \in Seq(Frame) /\ recorded \in Seq(AllMessages)
    BY DEF RecorderInit
  <2>4. acked = 0 /\ current = 0 /\ step = "idle" /\ fresh = FALSE /\ kills = 0
    BY DEF RecorderInit
  <2>5. step \in RecorderStep /\ fresh \in BOOLEAN
    BY <2>4 DEF RecorderStep
  <2>6. acked \in 0..Len(input) /\ current \in 0..Len(input)
    BY <2>2, <2>4
  <2> QED  BY <2>1, <2>3, <2>4, <2>5, <2>6 DEF RecorderTypes
<1>2. EachOnce
  BY DEF RecorderInit, EachOnce
<1>3. NoneMissing
  BY DEF RecorderInit, NoneMissing
<1> QED  BY <1>1, <1>2, <1>3 DEF RecorderInvariant

LEMMA RecordedGrows ==
  ASSUME RecorderTypes, RecorderNext
  PROVE  /\ RecorderTypes' /\ scenario' = scenario
         /\ Len(recorded) <= Len(recorded') /\ Len(recorded) \in Nat /\ Len(recorded') \in Nat
         /\ \A n \in 1..Len(recorded) : recorded'[n] = recorded[n]
<1> USE DEF RecorderStep
<1>1. /\ input \in Seq(AllMessages) /\ Len(input) \in Nat
      /\ \A n \in 1..Len(input) : input[n] \in AllMessages
      /\ recorded \in Seq(AllMessages) /\ Len(recorded) \in Nat /\ outbox \in Seq(Frame)
  BY MessagesAreMessages DEF RecorderTypes
<1>2. ASSUME UNCHANGED <<scenario, recorded>>, RecorderTypes' PROVE RecorderTypes' /\ scenario' = scenario
         /\ Len(recorded) <= Len(recorded') /\ Len(recorded) \in Nat /\ Len(recorded') \in Nat
         /\ \A n \in 1..Len(recorded) : recorded'[n] = recorded[n]
  BY <1>1, <1>2
<1>3. CASE Begin
  <2>1. RecorderTypes'
    BY <1>1, <1>3 DEF Begin, RecorderTypes, Frame, input
  <2> QED  BY <1>2, <1>3, <2>1 DEF Begin
<1>4. CASE Handling
  <2>1. StoresOrNot
    BY <1>4, HandlingStoresOrNot
  <2>2. RecorderTypes'
    BY <1>1, <2>1 DEF StoresOrNot, RecorderTypes, Frame, input
  <2> QED  BY <1>2, <2>1, <2>2 DEF StoresOrNot
<1>5. CASE Finish
  <2>1. outbox' \in Seq(Frame)
    BY <1>5, FinishAdds
  <2>2. Frame' = Frame
    BY <1>5 DEF Finish, Frame, input
  <2>3. RecorderTypes'
    BY <1>1, <1>5, <2>1, <2>2 DEF Finish, RecorderTypes, input
  <2> QED  BY <1>2, <1>5, <2>3 DEF Finish
<1>6. CASE Flush
  <2>1. /\ Head(outbox) \in Frame /\ Tail(outbox) \in Seq(Frame)
    BY <1>1, <1>6, TakingTheFirst DEF Flush
  <2>2. Head(outbox).number \in 1..Len(input)
    BY <2>1 DEF Frame
  <2>3. input[Head(outbox).number] \in AllMessages
    BY <1>1, <2>2
  <2>4. \/ recorded' = recorded
        \/ recorded' = Append(recorded, input[Head(outbox).number])
    BY <1>6 DEF Flush
  <2>5. /\ recorded' \in Seq(AllMessages)
        /\ Len(recorded) <= Len(recorded') /\ Len(recorded) \in Nat /\ Len(recorded') \in Nat
        /\ \A n \in 1..Len(recorded) : recorded'[n] = recorded[n]
    <3>1. CASE recorded' = recorded
      BY <1>1, <3>1
    <3>2. CASE recorded' = Append(recorded, input[Head(outbox).number])
      BY <1>1, <2>3, <3>2, Appending
    <3> QED  BY <2>4, <3>1, <3>2
  <2>6. Frame' = Frame
    BY <1>6 DEF Flush, Frame, input
  <2>7. acked' \in 0..Len(input)
    BY <1>6, <2>2 DEF Flush, RecorderTypes
  <2>8. RecorderTypes'
    BY <1>1, <1>6, <2>1, <2>5, <2>6, <2>7 DEF Flush, RecorderTypes, input
  <2> QED  BY <1>6, <2>5, <2>8 DEF Flush
<1>7. CASE DatabaseError
  <2>1. [what |-> "nack", number |-> current] \in Frame
    BY <1>7 DEF DatabaseError, RecorderTypes, Frame
  <2>2. outbox' \in Seq(Frame)
    BY <1>1, <1>7, <2>1, Appending DEF DatabaseError
  <2>3. Frame' = Frame
    BY <1>7 DEF DatabaseError, Frame, input
  <2>4. RecorderTypes'
    BY <1>1, <1>7, <2>2, <2>3 DEF DatabaseError, RecorderTypes, input
  <2> QED  BY <1>2, <1>7, <2>4 DEF DatabaseError
<1>8. CASE Kill
  <2>1. Frame' = Frame
    BY <1>8 DEF Kill, Frame, input
  <2>2. outbox' \in Seq(Frame)
    BY <1>8 DEF Kill
  <2>3. input' = input /\ current' \in 0..Len(input) /\ kills' \in Nat
    BY <1>8 DEF Kill, RecorderTypes, input
  <2>4. RecorderTypes'
    BY <1>1, <1>8, <2>1, <2>2, <2>3 DEF Kill, RecorderTypes
  <2> QED  BY <1>2, <1>8, <2>4 DEF Kill
<1> QED  BY <1>3, <1>4, <1>5, <1>6, <1>7, <1>8 DEF RecorderNext, Handle, Handling

LEMMA EachIsPublishedOnce ==
  ASSUME RecorderTypes, EachOnce, RecorderNext
  PROVE  EachOnce'
<1> USE DEF IsRecorded, IdOf, Stored
<1>1. /\ input \in Seq(AllMessages) /\ Len(input) \in Nat
      /\ recorded \in Seq(AllMessages) /\ Len(recorded) \in Nat
      /\ outbox \in Seq(Frame) /\ Len(outbox) \in Nat
  BY MessagesAreMessages DEF RecorderTypes
<1>2. CASE Begin
  <2>1. fresh = FALSE /\ fresh' = FALSE
    BY <1>2 DEF Begin, EachOnce, RecorderTypes
  <2> QED  BY <1>2, <2>1 DEF Begin, EachOnce, input
<1>3. CASE Handling
  <2>1. StoresOrNot
    BY <1>3, HandlingStoresOrNot
  <2>2. fresh = FALSE
    BY <2>1 DEF StoresOrNot, EachOnce, RecorderTypes
  <2>3. CASE fresh' = FALSE
    BY <2>1, <2>2, <2>3 DEF StoresOrNot, EachOnce, input
  <2>4. CASE fresh' = TRUE
    <3>1. /\ step' = "stored" /\ Message.id \notin DOMAIN db /\ Message' = Message
          /\ DOMAIN db' = DOMAIN db \cup {Message.id}
          /\ input' = input /\ outbox' = outbox /\ recorded' = recorded
      BY <2>1, <2>4 DEF StoresOrNot, Message, input
    <3>2. \A k \in 1..Len(recorded) : recorded[k].id \in DOMAIN db
      BY DEF EachOnce
    <3>3. \A i \in 1..Len(outbox) : IsRecorded(i) => IdOf(i) \in DOMAIN db
      BY DEF EachOnce
    <3> QED  BY <3>1, <3>2, <3>3 DEF EachOnce
  <2> QED  BY <2>1, <2>3, <2>4 DEF StoresOrNot
<1>4. CASE Finish
  <2>1. /\ outbox' \in Seq(Frame)
        /\ Len(outbox') = Len(outbox) + IF fresh THEN 2 ELSE 1
        /\ \A i \in 1..Len(outbox) : outbox'[i] = outbox[i]
        /\ fresh => outbox'[Len(outbox) + 1] = [what |-> "recorded", number |-> current]
        /\ outbox'[Len(outbox')] = [what |-> "ack", number |-> current]
    BY <1>4, FinishAdds
  <2>2. input' = input /\ db' = db /\ recorded' = recorded /\ fresh' = FALSE
    BY <1>4 DEF Finish, input
  <2>3. \A i \in 1..Len(outbox') :
          \/ i \in 1..Len(outbox) /\ IsRecorded(i)' = IsRecorded(i) /\ IdOf(i)' = IdOf(i)
          \/ fresh /\ i = Len(outbox) + 1 /\ IdOf(i)' = Message.id
          \/ i = Len(outbox') /\ ~IsRecorded(i)'
    <3>1. CASE fresh
      <4>1. \A i \in 1..Len(outbox') : i \in 1..Len(outbox) \/ i = Len(outbox) + 1 \/ i = Len(outbox')
        BY <1>1, <2>1, <3>1
      <4> QED  BY <2>1, <2>2, <3>1, <4>1 DEF Message
    <3>2. CASE ~fresh
      <4>1. \A i \in 1..Len(outbox') : i \in 1..Len(outbox) \/ i = Len(outbox')
        BY <1>1, <2>1, <3>2
      <4> QED  BY <2>1, <2>2, <4>1
    <3> QED  BY <3>1, <3>2
  <2>4. (\A i \in 1..Len(outbox) : IsRecorded(i) =>
           /\ Stored(IdOf(i))
           /\ \A k \in 1..Len(recorded) : recorded[k].id # IdOf(i)
           /\ \A j \in 1..Len(outbox) : (IsRecorded(j) /\ IdOf(j) = IdOf(i)) => j = i)'
    <3> HIDE DEF IsRecorded, IdOf
    <3> QED  BY <2>2, <2>3 DEF EachOnce
  <2> QED  BY <2>2, <2>4 DEF EachOnce
<1>5. CASE Flush
  <2> DEFINE frame == Head(outbox)
  <2>1. /\ frame = outbox[1] /\ Len(outbox) \in Nat \ {0} /\ Len(outbox') = Len(outbox) - 1
        /\ \A i \in 1..Len(outbox') : outbox'[i] = outbox[i + 1]
        /\ frame \in Frame
    BY <1>1, <1>5, TakingTheFirst DEF Flush
  <2>2. input' = input /\ db' = db /\ fresh' = fresh /\ step' = step /\ Message' = Message
    BY <1>5 DEF Flush, input, Message
  <2>3. \A i \in 1..Len(outbox') :
          /\ i + 1 \in 1..Len(outbox) /\ i + 1 # 1
          /\ IsRecorded(i)' = IsRecorded(i + 1) /\ IdOf(i)' = IdOf(i + 1)
    <3>1. \A i \in 1..Len(outbox') : i + 1 \in 1..Len(outbox) /\ i + 1 # 1
      BY <2>1
    <3> QED  BY <2>1, <2>2, <3>1
  <2>4. \A i, j \in 1..Len(outbox') : i + 1 = j + 1 => i = j
    BY <2>1
  <2>5. CASE frame.what # "recorded"
    <3>1. recorded' = recorded
      BY <1>5, <2>5 DEF Flush
    <3> HIDE DEF IsRecorded, IdOf
    <3> QED  BY <2>2, <2>3, <2>4, <3>1 DEF EachOnce
  <2>6. CASE frame.what = "recorded"
    <3>1. recorded' = Append(recorded, input[frame.number]) /\ input[frame.number] \in AllMessages
      BY <1>1, <1>5, <2>1, <2>6, MessagesAreMessages DEF Flush, Frame, RecorderTypes
    <3>2. /\ Len(recorded') = Len(recorded) + 1
          /\ \A k \in 1..Len(recorded) : recorded'[k] = recorded[k]
          /\ recorded'[Len(recorded) + 1] = input[frame.number]
      BY <1>1, <3>1, Appending
    <3>3. 1 \in 1..Len(outbox) /\ IsRecorded(1) /\ IdOf(1) = input[frame.number].id
      BY <2>1, <2>6
    <3>4. \A k \in 1..Len(recorded') :
            \/ k \in 1..Len(recorded) /\ recorded'[k].id = recorded[k].id
            \/ k = Len(recorded) + 1 /\ recorded'[k].id = IdOf(1)
      <4>1. \A k \in 1..Len(recorded') : k \in 1..Len(recorded) \/ k = Len(recorded) + 1
        BY <1>1, <3>2
      <4> QED  BY <3>2, <3>3, <4>1
    <3> HIDE DEF IsRecorded, IdOf
    <3>5. (\A k \in 1..Len(recorded) :
             /\ Stored(recorded[k].id)
             /\ \A j \in 1..Len(recorded) : recorded[j].id = recorded[k].id => j = k)'
      BY <2>2, <3>3, <3>4 DEF EachOnce
    <3>6. (\A i \in 1..Len(outbox) : IsRecorded(i) =>
             /\ Stored(IdOf(i))
             /\ \A k \in 1..Len(recorded) : recorded[k].id # IdOf(i)
             /\ \A j \in 1..Len(outbox) : (IsRecorded(j) /\ IdOf(j) = IdOf(i)) => j = i)'
      <4> SUFFICES ASSUME NEW i \in 1..Len(outbox'), IsRecorded(i)'
                   PROVE  /\ IdOf(i)' \in DOMAIN db'
                          /\ \A k \in 1..Len(recorded') : recorded'[k].id # IdOf(i)'
                          /\ \A j \in 1..Len(outbox') : (IsRecorded(j)' /\ IdOf(j)' = IdOf(i)') => j = i
        OBVIOUS
      <4>1. i + 1 \in 1..Len(outbox) /\ i + 1 # 1 /\ IsRecorded(i + 1) /\ IdOf(i)' = IdOf(i + 1)
        BY <2>3
      <4>2. IdOf(i)' \in DOMAIN db'
        BY <2>2, <4>1 DEF EachOnce
      <4>3. IdOf(1) # IdOf(i + 1)
        BY <3>3, <4>1 DEF EachOnce
      <4>4. \A k \in 1..Len(recorded) : recorded[k].id # IdOf(i + 1)
        BY <4>1 DEF EachOnce
      <4>5. ASSUME NEW j \in 1..Len(outbox'), IsRecorded(j)', IdOf(j)' = IdOf(i)'
            PROVE  j = i
        <5>1. j + 1 \in 1..Len(outbox) /\ IsRecorded(j + 1) /\ IdOf(j + 1) = IdOf(i + 1)
          BY <2>3, <4>1, <4>5
        <5>2. j + 1 = i + 1
          BY <4>1, <5>1 DEF EachOnce
        <5> QED  BY <2>4, <5>2
      <4> QED  BY <3>4, <4>1, <4>2, <4>3, <4>4, <4>5
    <3>7. fresh' =>
             /\ step' = "stored" /\ Stored(Message.id)'
             /\ \A k \in 1..Len(recorded') : recorded'[k].id # Message.id
             /\ \A i \in 1..Len(outbox') : IsRecorded(i)' => IdOf(i)' # Message.id
      BY <2>2, <2>3, <3>3, <3>4 DEF EachOnce
    <3> QED  BY <2>2, <3>5, <3>6, <3>7 DEF EachOnce
  <2> QED  BY <2>5, <2>6
<1>6. CASE DatabaseError
  <2>1. /\ input' = input /\ db' = db /\ recorded' = recorded /\ fresh' = FALSE
        /\ outbox' = Append(outbox, [what |-> "nack", number |-> current])
    BY <1>6 DEF DatabaseError, input
  <2>2. [what |-> "nack", number |-> current] \in Frame
    BY <1>6 DEF DatabaseError, RecorderTypes, Frame
  <2>3. /\ Len(outbox') = Len(outbox) + 1
        /\ \A i \in 1..Len(outbox) : outbox'[i] = outbox[i]
        /\ outbox'[Len(outbox) + 1] = [what |-> "nack", number |-> current]
    BY <1>1, <2>1, <2>2, Appending
  <2>4. \A i \in 1..Len(outbox') :
          \/ i \in 1..Len(outbox) /\ IsRecorded(i)' = IsRecorded(i) /\ IdOf(i)' = IdOf(i)
          \/ ~IsRecorded(i)'
    <3>1. \A i \in 1..Len(outbox') : i \in 1..Len(outbox) \/ i = Len(outbox) + 1
      BY <1>1, <2>3
    <3> QED  BY <2>1, <2>3, <3>1
  <2> HIDE DEF IsRecorded, IdOf
  <2> QED  BY <2>1, <2>4 DEF EachOnce
<1>7. CASE Kill
  <2>1. /\ input' = input /\ db' = db /\ recorded' = recorded /\ fresh' = FALSE
        /\ outbox' = <<>>
    BY <1>7 DEF Kill, input
  <2> QED  BY <2>1 DEF EachOnce
<1> QED  BY <1>2, <1>3, <1>4, <1>5, <1>6, <1>7 DEF RecorderNext, Handle, Handling

LEMMA NoneIsMissing ==
  ASSUME RecorderTypes, EachOnce, NoneMissing, RecorderNext
  PROVE  NoneMissing'
<1> USE DEF IsRecorded, IdOf
<1>1. /\ input \in Seq(AllMessages) /\ Len(input) \in Nat
      /\ recorded \in Seq(AllMessages) /\ Len(recorded) \in Nat
      /\ outbox \in Seq(Frame) /\ Len(outbox) \in Nat
  BY MessagesAreMessages DEF RecorderTypes
<1>2. CASE Kill
  BY <1>2 DEF Kill, RecorderTypes, NoneMissing
<1> SUFFICES ASSUME kills' = 0, NEW id \in DOMAIN db', ~Kill
             PROVE  IsToBePublished(id)'
  BY <1>2 DEF NoneMissing
<1>3. kills = 0 /\ input' = input
  BY DEF RecorderNext, Handle, Begin, NewEvent, MarkReplaced, InsertReplacing, BlacklistDelist, BlacklistExpire,
         UpdateOrInsert, Commits, Finish, Flush, DatabaseError, input
<1>4. CASE Begin
  <2>1. fresh = FALSE /\ db' = db /\ outbox' = outbox /\ recorded' = recorded
    BY <1>4 DEF Begin, EachOnce, RecorderTypes
  <2> QED  BY <1>3, <2>1 DEF NoneMissing, IsToBePublished
<1>5. CASE Handling
  <2>1. StoresOrNot
    BY <1>5, HandlingStoresOrNot
  <2>2. fresh = FALSE /\ outbox' = outbox /\ recorded' = recorded /\ Message' = Message
    BY <2>1 DEF StoresOrNot, EachOnce, RecorderTypes, Message, input
  <2>3. CASE id \in DOMAIN db
    BY <1>3, <2>2, <2>3 DEF NoneMissing, IsToBePublished
  <2>4. CASE id \notin DOMAIN db
    <3>1. fresh' /\ id = Message.id
      BY <2>1, <2>4 DEF StoresOrNot
    <3> QED  BY <2>2, <3>1 DEF IsToBePublished
  <2> QED  BY <2>3, <2>4
<1>6. CASE Finish
  <2>1. /\ Len(outbox') = Len(outbox) + IF fresh THEN 2 ELSE 1
        /\ \A i \in 1..Len(outbox) : outbox'[i] = outbox[i]
        /\ fresh => outbox'[Len(outbox) + 1] = [what |-> "recorded", number |-> current]
    BY <1>6, FinishAdds
  <2>2. db' = db /\ recorded' = recorded
    BY <1>6 DEF Finish
  <2>3. IsToBePublished(id)
    BY <1>3, <2>2 DEF NoneMissing
  <2>4. CASE \E k \in 1..Len(recorded) : recorded[k].id = id
    BY <2>2, <2>4 DEF IsToBePublished
  <2>5. CASE \E i \in 1..Len(outbox) : IsRecorded(i) /\ IdOf(i) = id
    <3>1. PICK i \in 1..Len(outbox) : IsRecorded(i) /\ IdOf(i) = id
      BY <2>5
    <3>2. i \in 1..Len(outbox') /\ IsRecorded(i)' /\ IdOf(i)' = id
      BY <1>1, <1>3, <2>1, <3>1
    <3> QED  BY <3>2 DEF IsToBePublished
  <2>6. CASE fresh /\ Message.id = id
    <3> DEFINE i == Len(outbox) + 1
    <3>1. i \in 1..Len(outbox')
      BY <1>1, <2>1, <2>6
    <3>2. outbox'[i] = [what |-> "recorded", number |-> current]
      BY <2>1, <2>6
    <3> HIDE DEF i
    <3>3. outbox'[i].what = "recorded" /\ input'[outbox'[i].number].id = id
      BY <1>3, <2>6, <3>2 DEF Message
    <3> QED  BY <3>1, <3>3 DEF IsToBePublished
  <2> QED  BY <2>3, <2>4, <2>5, <2>6 DEF IsToBePublished
<1>7. CASE Flush
  <2> DEFINE frame == Head(outbox)
  <2>1. /\ frame = outbox[1] /\ Len(outbox) \in Nat \ {0} /\ Len(outbox') = Len(outbox) - 1
        /\ \A i \in 1..Len(outbox') : outbox'[i] = outbox[i + 1]
        /\ frame \in Frame
    BY <1>1, <1>7, TakingTheFirst DEF Flush
  <2>2. db' = db /\ fresh' = fresh /\ Message' = Message
    BY <1>7 DEF Flush, input, Message
  <2>3. /\ Len(recorded') \in Nat /\ Len(recorded) <= Len(recorded')
        /\ \A n \in 1..Len(recorded) : recorded'[n] = recorded[n]
    BY <1>7, RecordedGrows DEF RecorderNext, Handle
  <2>4. IsToBePublished(id)
    BY <1>3, <2>2 DEF NoneMissing
  <2>5. CASE \E k \in 1..Len(recorded) : recorded[k].id = id
    <3>1. PICK k \in 1..Len(recorded) : recorded[k].id = id
      BY <2>5
    <3>2. k \in 1..Len(recorded') /\ recorded'[k].id = id
      BY <1>1, <2>3, <3>1
    <3> QED  BY <3>2 DEF IsToBePublished
  <2>6. CASE \E i \in 1..Len(outbox) : IsRecorded(i) /\ IdOf(i) = id
    <3>1. PICK i \in 1..Len(outbox) : IsRecorded(i) /\ IdOf(i) = id
      BY <2>6
    <3>2. CASE i = 1
      <4>1. recorded' = Append(recorded, input[frame.number]) /\ input[frame.number] \in AllMessages
        BY <1>1, <1>7, <2>1, <3>1, <3>2, MessagesAreMessages DEF Flush, Frame, RecorderTypes
      <4>2. /\ Len(recorded') = Len(recorded) + 1
            /\ recorded'[Len(recorded) + 1] = input[frame.number]
        BY <1>1, <4>1, Appending
      <4>3. Len(recorded') \in 1..Len(recorded') /\ recorded'[Len(recorded')].id = id
        BY <1>1, <2>1, <3>1, <3>2, <4>2
      <4> QED  BY <4>3 DEF IsToBePublished
    <3>3. CASE i # 1
      <4> DEFINE j == i - 1
      <4>1. j \in 1..Len(outbox') /\ j + 1 = i
        BY <2>1, <3>1, <3>3
      <4>2. IsRecorded(j)' /\ IdOf(j)' = id
        BY <1>3, <2>1, <3>1, <4>1
      <4> QED  BY <4>1, <4>2 DEF IsToBePublished
    <3> QED  BY <3>2, <3>3
  <2>7. CASE fresh /\ Message.id = id
    BY <2>2, <2>7 DEF IsToBePublished
  <2> QED  BY <2>4, <2>5, <2>6, <2>7 DEF IsToBePublished
<1>8. CASE DatabaseError
  <2>1. db' = db /\ recorded' = recorded /\ fresh = FALSE
    BY <1>8 DEF DatabaseError, EachOnce, RecorderTypes
  <2>2. [what |-> "nack", number |-> current] \in Frame
    BY <1>8 DEF DatabaseError, RecorderTypes, Frame
  <2>3. Len(outbox') = Len(outbox) + 1 /\ \A i \in 1..Len(outbox) : outbox'[i] = outbox[i]
    BY <1>1, <1>8, <2>2, Appending DEF DatabaseError
  <2>4. IsToBePublished(id)
    BY <1>3, <2>1 DEF NoneMissing
  <2>5. CASE \E k \in 1..Len(recorded) : recorded[k].id = id
    BY <2>1, <2>5 DEF IsToBePublished
  <2>6. CASE \E i \in 1..Len(outbox) : IsRecorded(i) /\ IdOf(i) = id
    <3>1. PICK i \in 1..Len(outbox) : IsRecorded(i) /\ IdOf(i) = id
      BY <2>6
    <3>2. i \in 1..Len(outbox') /\ IsRecorded(i)' /\ IdOf(i)' = id
      BY <1>1, <1>3, <2>3, <3>1
    <3> QED  BY <3>2 DEF IsToBePublished
  <2> QED  BY <2>1, <2>4, <2>5, <2>6 DEF IsToBePublished
<1> QED  BY <1>4, <1>5, <1>6, <1>7, <1>8 DEF RecorderNext, Handle, Handling

LEMMA RecorderStepKeeps ==
  ASSUME RecorderInvariant, RecorderNext
  PROVE  RecorderInvariant'
BY RecordedGrows, EachIsPublishedOnce, NoneIsMissing DEF RecorderInvariant

(* The invariant says what the property does. *)
LEMMA InvariantOfTheRecorder ==
  ASSUME RecorderInvariant
  PROVE  PublishedOnce
<1>1. RecorderTypes /\ EachOnce /\ NoneMissing
  BY DEF RecorderInvariant
<1>2. ASSUME NEW k \in 1..Len(recorded)
      PROVE  Stored(recorded[k].id) /\ Cardinality(Published(recorded[k].id)) = 1
  <2>1. Published(recorded[k].id) = {k}
    BY <1>1, <1>2 DEF Published, EachOnce
  <2> QED  BY <1>1, <1>2, <2>1, FS_Singleton DEF EachOnce
<1>3. ASSUME kills = 0, NEW id \in DOMAIN db
      PROVE  Published(id) # {} \/ OnItsWay(id)
  <2>1. IsToBePublished(id)
    BY <1>1, <1>3 DEF NoneMissing
  <2>2. fresh => step = "stored"
    BY <1>1 DEF EachOnce
  <2> QED  BY <2>1, <2>2 DEF IsToBePublished, Published, OnItsWay, IsRecorded, IdOf
<1> QED  BY <1>2, <1>3 DEF PublishedOnce

-----------------------------------------------------------------------------
(* Helpers of the counter and of the notifier                              *)

LEMMA ClientsAreNumbers == Clients \in Nat \ {0}
  BY NoticesAssumption

LEMMA RecordedMessages ==
  ASSUME RecorderTypes, NEW n \in 1..Len(recorded)
  PROVE  /\ recorded[n].time \in Nat \ {0}
         /\ recorded[n].clients \subseteq 1..Clients
<1>1. recorded[n] \in AllMessages
  BY DEF RecorderTypes
<1> QED  BY <1>1, NoticesAssumption

LEMMA EventIsRecorded ==
  ASSUME RecorderTypes, NoticesTypes, consumed < Len(recorded)
  PROVE  /\ consumed + 1 \in 1..Len(recorded) /\ consumed \in Nat /\ Len(recorded) \in Nat
         /\ Event = recorded[consumed + 1]
         /\ Event.time \in Nat \ {0} /\ Event.clients \subseteq 1..Clients
<1>1. consumed + 1 \in 1..Len(recorded) /\ consumed \in Nat /\ Len(recorded) \in Nat
  BY DEF RecorderTypes, NoticesTypes
<1> QED  BY <1>1, RecordedMessages DEF Event

LEMMA NextClientIsTheNext ==
  ASSUME Event.clients \subseteq 1..Clients, NEW c \in 0..Clients
  PROVE  /\ NextClient(c) \in 0..Clients
         /\ NextClient(c) = 0 => \A d \in Event.clients : d <= c
         /\ NextClient(c) # 0 =>
              /\ NextClient(c) \in Event.clients /\ NextClient(c) > c
              /\ \A d \in Event.clients : d > c => NextClient(c) <= d
<1> DEFINE later == {d \in Event.clients : d > c}
<1>1. CASE later = {}
  <2>1. NextClient(c) = 0
    BY <1>1 DEF NextClient
  <2>2. \A d \in Event.clients : d <= c
    BY <1>1, ClientsAreNumbers
  <2> QED  BY <2>1, <2>2, ClientsAreNumbers
<1>2. CASE later # {}
  <2>1. later \subseteq Nat /\ later \subseteq 1..Clients
    BY ClientsAreNumbers
  <2>2. \E d \in later : \A e \in later : d <= e
    <3>1. PICK d \in later : \A e \in later : <<e, d>> \notin OpToRel(<, Nat)
      BY <1>2, <2>1, NatLessThanWellFounded, WFMin
    <3>2. \A e \in later : e < d => <<e, d>> \in OpToRel(<, Nat)
      BY <2>1 DEF OpToRel
    <3>3. \A e \in later : ~(e < d)
      BY <3>1, <3>2
    <3> QED  BY <2>1, <3>3
  <2> DEFINE next == CHOOSE d \in later : \A e \in later : d <= e
  <2>3. next \in later /\ \A e \in later : next <= e
    BY <2>2
  <2>4. NextClient(c) = next
    BY <1>2 DEF NextClient
  <2> HIDE DEF next
  <2> QED  BY <2>1, <2>3, <2>4, ClientsAreNumbers
<1> QED  BY <1>1, <1>2

Occurrences(s, n) == {k \in 1..Len(s) : s[k] = n}

LEMMA OccurrencesAreCounted ==
  ASSUME NEW s \in Seq(Nat), NEW n
  PROVE  /\ IsFiniteSet(Occurrences(s, n)) /\ Cardinality(Occurrences(s, n)) \in Nat
         /\ Cardinality(Occurrences(s, n)) > 0 <=> \E k \in 1..Len(s) : s[k] = n
<1>1. IsFiniteSet(1..Len(s))
  BY FS_Interval
<1>2. IsFiniteSet(Occurrences(s, n)) /\ Cardinality(Occurrences(s, n)) \in Nat
  BY <1>1, FS_Subset, FS_CardinalityType DEF Occurrences
<1>3. Cardinality(Occurrences(s, n)) = 0 <=> Occurrences(s, n) = {}
  BY <1>2, FS_EmptySet
<1> QED  BY <1>2, <1>3 DEF Occurrences

LEMMA OccurrencesGrow ==
  ASSUME NEW s \in Seq(Nat), NEW e \in Nat, NEW n
  PROVE  Cardinality(Occurrences(Append(s, e), n)) = Cardinality(Occurrences(s, n)) + IF e = n THEN 1 ELSE 0
<1>1. /\ Append(s, e) \in Seq(Nat) /\ Len(Append(s, e)) = Len(s) + 1 /\ Len(s) \in Nat
      /\ \A i \in 1..Len(s) : Append(s, e)[i] = s[i]
      /\ Append(s, e)[Len(s) + 1] = e
  BY Appending
<1>2. 1..Len(s) + 1 = 1..Len(s) \cup {Len(s) + 1}
  BY <1>1
<1>3. IsFiniteSet(Occurrences(s, n)) /\ Cardinality(Occurrences(s, n)) \in Nat
  BY OccurrencesAreCounted
<1>4. CASE e = n
  <2>1. Occurrences(Append(s, e), n) = Occurrences(s, n) \cup {Len(s) + 1}
    BY <1>1, <1>2, <1>4 DEF Occurrences
  <2>2. Len(s) + 1 \notin Occurrences(s, n)
    BY <1>1 DEF Occurrences
  <2> QED  BY <1>3, <1>4, <2>1, <2>2, FS_AddElement
<1>5. CASE e # n
  <2>1. Occurrences(Append(s, e), n) = Occurrences(s, n)
    BY <1>1, <1>2, <1>5 DEF Occurrences
  <2> QED  BY <1>3, <1>5, <2>1
<1> QED  BY <1>4, <1>5

LEMMA TimesIsNatural ==
  ASSUME NoticesTypes, NEW c \in 1..Clients, NEW n
  PROVE  /\ hash[c] \in HashType /\ hash[c].events \in Seq(Nat)
         /\ Times(c, n) = Cardinality(Occurrences(hash[c].events, n)) /\ Times(c, n) \in Nat
         /\ Times(c, n) > 0 <=> HasCounted(c, n)
<1>1. hash[c] \in HashType
  BY DEF NoticesTypes
<1>2. hash[c].events \in Seq(Nat)
  BY <1>1 DEF HashType
<1>3. Times(c, n) = Cardinality(Occurrences(hash[c].events, n))
  BY DEF Times, Occurrences
<1> QED  BY <1>1, <1>2, <1>3, OccurrencesAreCounted DEF HasCounted

-----------------------------------------------------------------------------
(* Types                                                                   *)

LEMMA NoticesInitially ==
  ASSUME Init
  PROVE  NoticesInvariant
<1>1. RecorderInvariant
  BY RecorderTypesInitially DEF Init
<1>2. NoFields \in HashType
  BY DEF NoFields, HashType
<1>3. NoticesTypes
  <2>1. counter \in [at : CounterStep, client : 0..Clients, dirty : BOOLEAN, late : BOOLEAN]
    BY ClientsAreNumbers DEF Init, Idle, CounterStep
  <2>2. notifier \in [at : NotifierStep, client : 0..Clients, snap : HashType, stamp : Nat]
    BY <1>2, ClientsAreNumbers DEF Init, Resting, NotifierStep
  <2>3. consumed \in 0..Len(recorded) /\ counter.at = "idle" /\ notifier.at = "resting"
    BY DEF Init, RecorderInit, Idle, Resting
  <2>4. /\ hash \in [1..Clients -> HashType] /\ lastSent \in [1..Clients -> Nat]
        /\ mails \in [1..Clients -> Seq(MailType)]
    BY <1>2 DEF Init
  <2>5. now \in Nat /\ cuts \in Nat /\ breaks \in Nat
    BY DEF Init
  <2> QED  BY <2>1, <2>2, <2>3, <2>4, <2>5 DEF NoticesTypes, Working
<1>4. ASSUME NEW c \in 1..Clients
      PROVE  hash[c] = NoFields /\ Len(hash[c].events) = 0 /\ lastSent[c] = 0 /\ mails[c] = <<>>
  BY DEF Init, NoFields
<1>5. Counted
  BY <1>4 DEF Init, Idle, Counted, CountedNow, Working
<1>6. CountedOnce
  <2>1. ASSUME NEW c \in 1..Clients, NEW n
        PROVE  Times(c, n) = 0
    BY <1>3, <1>4, <2>1, TimesIsNatural DEF HasCounted
  <2> QED  BY <2>1 DEF CountedOnce, Init
<1>7. HashesAreRight
  BY <1>4 DEF HashesAreRight, HashIsRight, IsHash, Covers, Covering, InOrder, NoFields
<1>8. WatchHolds
  BY DEF Init, Idle, WatchHolds, MayExec
<1>9. SnapshotIsRight
  BY DEF Init, Resting, SnapshotIsRight, Mailing
<1>10. MailsAreRight
  BY <1>4 DEF Init, Resting, MailsAreRight, MailsFit, MailsGoOn, IsSaving, LastMailed
<1> QED  BY <1>1, <1>3, <1>5, <1>6, <1>7, <1>8, <1>9, <1>10 DEF NoticesInvariant

RecordedKept ==
  /\ Len(recorded) <= Len(recorded') /\ Len(recorded) \in Nat /\ Len(recorded') \in Nat
  /\ \A n \in 1..Len(recorded) : recorded'[n] = recorded[n]

LEMMA RecorderKeepsTypes ==
  ASSUME NoticesTypes, RecordedKept, UNCHANGED noticesVars
  PROVE  NoticesTypes'
<1> USE DEF noticesVars, redisVars
<1>1. consumed' \in 0..Len(recorded') /\ (counter'.at # "idle" => consumed' < Len(recorded'))
  BY DEF NoticesTypes, RecordedKept
<1>2. counter.at \in Working => Event' = Event
  <2>1. /\ consumed \in 0..Len(recorded) /\ Len(recorded) \in Nat
        /\ counter.at \in Working => consumed < Len(recorded)
    BY DEF NoticesTypes, RecordedKept, Working
  <2>2. counter.at \in Working => consumed + 1 \in 1..Len(recorded)
    BY <2>1
  <2> QED  BY <2>2 DEF RecordedKept, Event
<1> QED  BY <1>1, <1>2 DEF NoticesTypes

LEMMA CountingKeepsTypes ==
  ASSUME RecorderTypes, NoticesTypes, Count
  PROVE  NoticesTypes'
<1>0. consumed < Len(recorded) =>
        /\ consumed + 1 \in 1..Len(recorded) /\ consumed \in Nat /\ Len(recorded) \in Nat
        /\ Event.time \in Nat /\ Event.clients \subseteq 1..Clients
  BY EventIsRecorded
<1>a. ASSUME NEW c \in 0..Clients, consumed < Len(recorded)
      PROVE  NextClient(c) \in 0..Clients /\ (NextClient(c) # 0 => NextClient(c) \in Event.clients)
  BY <1>0, <1>a, NextClientIsTheNext
<1> USE ClientsAreNumbers DEF NoticesTypes, CounterOnly, Working, CounterStep
<1>1. recorded' = recorded /\ (consumed' = consumed => Event' = Event)
  BY DEF Count, Receive, Watch, ReadTime, SetTime, Retry, Exec, Acknowledge, recorderVars, Event
<1>2. counter.at # "idle" => consumed < Len(recorded)
  OBVIOUS
<1> DEFINE CounterType == [at : CounterStep, client : 0..Clients, dirty : BOOLEAN, late : BOOLEAN]
<1>b. ASSUME hash' \in [1..Clients -> HashType], consumed' \in 0..Len(recorded'),
             counter' \in CounterType,
             counter'.at # "idle" => consumed' < Len(recorded'),
             counter'.at \in Working => counter'.client \in Event'.clients
      PROVE  NoticesTypes'
  BY <1>b DEF Count, Receive, Watch, ReadTime, SetTime, Retry, Exec, Acknowledge
<1>3. CASE Receive
  <2> HIDE DEF NoticesTypes
  <2>1. /\ consumed + 1 \in 0..Len(recorded) /\ Event.clients \subseteq 1..Clients
        /\ consumed \in 0..Len(recorded) /\ consumed < Len(recorded) /\ counter.at = "idle"
    BY <1>0, <1>3 DEF Receive
  <2>2. NextClient(0) \in 0..Clients /\ (NextClient(0) # 0 => NextClient(0) \in Event.clients)
    BY <1>a, <2>1
  <2>3. hash' \in [1..Clients -> HashType] /\ counter \in CounterType
    BY <1>3 DEF Receive, NoticesTypes
  <2>4. CASE NextClient(0) = 0
    <3>1. consumed' = consumed + 1 /\ counter' = counter
      BY <1>3, <2>4 DEF Receive
    <3> QED  BY <1>1, <1>b, <2>1, <2>3, <3>1
  <2>5. CASE NextClient(0) # 0
    <3>1. counter' = [at |-> "watch", client |-> NextClient(0), dirty |-> FALSE, late |-> FALSE] /\ consumed' = consumed
      BY <1>3, <2>5 DEF Receive, Idle
    <3>2. counter' \in CounterType /\ counter'.at = "watch" /\ counter'.client = NextClient(0)
      BY <2>2, <3>1
    <3> QED  BY <1>1, <1>b, <2>1, <2>2, <2>3, <2>5, <3>1, <3>2
  <2> QED  BY <2>4, <2>5
<1>4. CASE Watch
  BY <1>1, <1>2, <1>4 DEF Watch
<1>5. CASE ReadTime
  BY <1>1, <1>2, <1>5 DEF ReadTime
<1>6. CASE Retry
  BY <1>1, <1>2, <1>6 DEF Retry
<1>7. CASE SetTime
  <2>1. Event.time \in Nat /\ counter.client \in 1..Clients
    BY <1>0, <1>7 DEF SetTime
  <2>2. hash' \in [1..Clients -> HashType]
    BY <1>7, <2>1 DEF SetTime, HashType
  <2> QED  BY <1>1, <1>2, <1>7, <2>2 DEF SetTime
<1>8. CASE Exec
  <2>0. counter.at = "exec" /\ consumed < Len(recorded) /\ counter.client \in Event.clients
    BY <1>8 DEF Exec, MayExec
  <2>1. /\ counter.client \in 1..Clients /\ counter.client \in 0..Clients
        /\ Event.clients \subseteq 1..Clients /\ consumed + 1 \in Nat /\ consumed < Len(recorded)
        /\ consumed \in 0..Len(recorded)
    <3> HIDE DEF NoticesTypes
    <3> QED  BY <1>0, <2>0
  <2>2. /\ NextClient(counter.client) \in 0..Clients
        /\ NextClient(counter.client) # 0 => NextClient(counter.client) \in Event.clients
    BY <1>a, <2>1
  <2>3. Append(hash[counter.client].events, consumed + 1) \in Seq(Nat)
    BY <2>1, Appending DEF HashType
  <2> HIDE DEF NoticesTypes
  <2>4. hash' \in [1..Clients -> HashType]
    <3>1. hash \in [1..Clients -> HashType] /\ counter.client \in 1..Clients /\ consumed + 1 \in Nat
      BY <2>1 DEF NoticesTypes
    <3> DEFINE here == consumed + 1
               old == hash[counter.client]
               new == [old EXCEPT !.events = Append(@, here), !.tmax = here,
                                  !.tmin = IF @ = 0 THEN here ELSE @]
    <3>2. hash' = [hash EXCEPT ![counter.client] = new]
      BY <1>8 DEF Exec
    <3>3. old \in HashType
      BY <3>1
    <3>4. new \in HashType
      BY <2>3, <3>1, <3>3 DEF HashType
    <3> HIDE DEF new
    <3> QED  BY <3>1, <3>2, <3>4
  <2>5. consumed' = consumed
    BY <1>8 DEF Exec
  <2>6. CASE NextClient(counter.client) # 0
    <3>1. counter' = [at |-> "watch", client |-> NextClient(counter.client), dirty |-> FALSE, late |-> FALSE]
      BY <1>8, <2>6 DEF Exec, Idle
    <3>2. counter' \in CounterType /\ counter'.at = "watch" /\ counter'.client = NextClient(counter.client)
      BY <2>2, <3>1
    <3> QED  BY <1>1, <1>b, <2>1, <2>2, <2>4, <2>5, <2>6, <3>2
  <2>7. CASE NextClient(counter.client) = 0
    <3>1. counter' = [at |-> "ack", client |-> 0, dirty |-> FALSE, late |-> FALSE]
      BY <1>8, <2>7 DEF Exec, Idle
    <3>2. counter' \in CounterType /\ counter'.at = "ack"
      BY <3>1
    <3> QED  BY <1>1, <1>b, <2>1, <2>4, <2>5, <3>2
  <2> QED  BY <2>6, <2>7
<1>9. CASE Acknowledge
  <2> HIDE DEF NoticesTypes
  <2>1. consumed + 1 \in 0..Len(recorded)
    BY <1>0, <1>2, <1>9 DEF Acknowledge
  <2>2. counter' = [at |-> "idle", client |-> 0, dirty |-> FALSE, late |-> FALSE]
    BY <1>9 DEF Acknowledge, Idle
  <2>3. counter' \in CounterType /\ counter'.at = "idle"
    BY <2>2
  <2>4. hash' \in [1..Clients -> HashType]
    BY <1>9 DEF Acknowledge, NoticesTypes
  <2> QED  BY <1>1, <1>9, <1>b, <2>1, <2>3, <2>4 DEF Acknowledge
<1> QED  BY <1>3, <1>4, <1>5, <1>6, <1>7, <1>8, <1>9 DEF Count

LEMMA NotifyingKeepsTypes ==
  ASSUME RecorderTypes, NoticesTypes, Tick \/ Notify \/ BreakOff
  PROVE  NoticesTypes'
<1>1. /\ consumed' = consumed /\ recorded' = recorded /\ cuts' = cuts
      /\ counter' = counter \/ counter' = [counter EXCEPT !.dirty = TRUE]
  BY DEF Tick, Notify, StartRun, Snapshot, Decide, Compare, Send, SaveCounter, SaveTMin, SaveTime, DeleteTime,
         BreakOff, NotifierOnly, recorderVars, Touch
<1>2. /\ counter' \in [at : CounterStep, client : 0..Clients, dirty : BOOLEAN, late : BOOLEAN]
      /\ counter'.at = counter.at /\ counter'.client = counter.client /\ Event' = Event
  BY <1>1 DEF NoticesTypes, Event
<1>3. NoFields \in HashType
  BY DEF NoFields, HashType
<1> USE ClientsAreNumbers DEF NotifierStep
<1> DEFINE NotifierType == [at : NotifierStep, client : 0..Clients, snap : HashType, stamp : Nat]
<1>4. Resting \in NotifierType /\ Resting.at = "resting"
  BY <1>3 DEF Resting
<1>5. ASSUME NEW c \in 1..Clients
      PROVE  After(c) \in NotifierType /\ (After(c).at # "resting" => After(c).client # 0)
  <2>1. CASE c = Clients
    BY <1>4, <2>1 DEF After
  <2>2. CASE c # Clients
    <3>1. After(c) = [at |-> "snapshot", client |-> c + 1, snap |-> NoFields, stamp |-> 0]
      BY <2>2 DEF After, Resting
    <3>2. c + 1 \in 0..Clients /\ c + 1 # 0
      BY <2>2
    <3> QED  BY <1>3, <3>1, <3>2
  <2> QED  BY <2>1, <2>2
<1>6. ASSUME NEW at \in NotifierStep, Goto(at), notifier.at # "resting"
      PROVE  notifier' \in NotifierType /\ (notifier'.at # "resting" => notifier'.client # 0)
  BY <1>6 DEF Goto, NoticesTypes
<1>7. /\ notifier \in NotifierType /\ hash \in [1..Clients -> HashType] /\ lastSent \in [1..Clients -> Nat]
      /\ mails \in [1..Clients -> Seq(MailType)] /\ now \in Nat /\ breaks \in Nat
      /\ notifier.at # "resting" => notifier.client \in 1..Clients
  <2>1. notifier \in NotifierType /\ (notifier.at # "resting" => notifier.client # 0)
    BY DEF NoticesTypes
  <2>2. notifier.client \in 0..Clients
    BY <2>1
  <2> HIDE DEF NotifierType
  <2>3. notifier.at # "resting" => notifier.client \in 1..Clients
    BY <2>1, <2>2
  <2> QED  BY <2>1, <2>3 DEF NoticesTypes
<1>8. ASSUME notifier' \in NotifierType, notifier'.at # "resting" => notifier'.client # 0,
             hash' \in [1..Clients -> HashType], lastSent' \in [1..Clients -> Nat],
             mails' \in [1..Clients -> Seq(MailType)], now' \in Nat, breaks' \in Nat
      PROVE  NoticesTypes'
  BY <1>1, <1>2, <1>8 DEF NoticesTypes
<1> HIDE DEF NotifierType
<1>9. CASE Tick
  BY <1>7, <1>8, <1>9 DEF Tick, NotifierOnly, redisVars
<1>10. CASE StartRun
  <2>1. notifier' = [at |-> "snapshot", client |-> 1, snap |-> NoFields, stamp |-> 0]
    BY <1>10 DEF StartRun, Resting
  <2>2. notifier' \in NotifierType /\ notifier'.client # 0
    BY <1>3, <2>1 DEF NotifierType
  <2> QED  BY <1>7, <1>8, <1>10, <2>2 DEF StartRun, NotifierOnly, redisVars
<1>11. CASE Snapshot
  <2>1. notifier' \in NotifierType /\ (notifier'.at # "resting" => notifier'.client # 0)
    <3>1. notifier.client \in 1..Clients
      BY <1>7, <1>11 DEF Snapshot
    <3>2. CASE IsEmpty(hash[notifier.client])
      BY <1>5, <1>11, <3>1, <3>2 DEF Snapshot
    <3>3. CASE ~IsEmpty(hash[notifier.client])
      <4>1. hash[notifier.client] \in HashType
        BY <1>7, <3>1
      <4>2. notifier' = [notifier EXCEPT !.at = "decide", !.snap = hash[notifier.client], !.stamp = now]
        BY <1>11, <3>3 DEF Snapshot
      <4>3. notifier' \in NotifierType
        BY <1>7, <4>1, <4>2 DEF NotifierType
      <4>4. notifier'.client = notifier.client
        BY <1>7, <4>2 DEF NotifierType
      <4> QED  BY <3>1, <4>3, <4>4
    <3> QED  BY <3>2, <3>3
  <2> QED  BY <1>7, <1>8, <1>11, <2>1 DEF Snapshot, NotifierOnly, redisVars
<1>12. CASE Decide
  <2>1. notifier.client \in 1..Clients
    BY <1>7, <1>12 DEF Decide
  <2>2. notifier' = After(notifier.client) \/ Goto("compare")
    BY <1>12 DEF Decide
  <2>3. notifier' \in NotifierType /\ (notifier'.at # "resting" => notifier'.client # 0)
    BY <1>5, <1>6, <1>12, <2>1, <2>2 DEF Decide
  <2> QED  BY <1>7, <1>8, <1>12, <2>3 DEF Decide, NotifierOnly
<1>13. CASE Compare
  <2>1. notifier.client \in 1..Clients
    BY <1>7, <1>13 DEF Compare
  <2>2. notifier' = After(notifier.client) \/ Goto("send")
    BY <1>13 DEF Compare
  <2>3. notifier' \in NotifierType /\ (notifier'.at # "resting" => notifier'.client # 0)
    BY <1>5, <1>6, <1>13, <2>1, <2>2 DEF Compare
  <2> QED  BY <1>7, <1>8, <1>13, <2>3 DEF Compare, NotifierOnly, redisVars
<1>14. CASE Send
  <2> DEFINE c == notifier.client
             s == notifier.snap
             mail == [from |-> lastSent[c] + 1, to |-> Len(s.events), afterBreak |-> breaks > 0,
                      tmin |-> s.tmin, tmax |-> s.tmax, time |-> s.time, events |-> s.events]
  <2>1. c \in 1..Clients /\ s \in HashType
    BY <1>7, <1>14 DEF Send, NotifierType
  <2>2. CASE s.time = 0
    BY <1>4, <1>7, <1>8, <1>14, <2>2 DEF Send, NotifierOnly, redisVars
  <2>3. CASE s.time # 0
    <3>1. mail \in MailType
      <4>1. s.events \in Seq(Nat) /\ s.tmin \in Nat /\ s.tmax \in Nat /\ s.time \in Nat
        BY <2>1 DEF HashType
      <4>2. lastSent[c] + 1 \in Nat
        BY <1>7, <2>1
      <4>3. Len(s.events) \in Nat
        BY <4>1
      <4>4. (breaks > 0) \in BOOLEAN
        OBVIOUS
      <4> QED  BY <4>1, <4>2, <4>3, <4>4 DEF MailType
    <3>2. Append(mails[c], mail) \in Seq(MailType)
      BY <1>7, <2>1, <3>1, Appending
    <3>3. mails' = [mails EXCEPT ![c] = Append(mails[c], mail)] /\ Goto("save counter")
      BY <1>14, <2>3 DEF Send
    <3> HIDE DEF mail
    <3>4. mails' \in [1..Clients -> Seq(MailType)]
      BY <1>7, <3>2, <3>3
    <3>5. notifier' \in NotifierType /\ (notifier'.at # "resting" => notifier'.client # 0)
      BY <1>6, <1>14, <3>3 DEF Send
    <3> QED  BY <1>7, <1>8, <1>14, <3>4, <3>5 DEF Send, NotifierOnly, redisVars
  <2> QED  BY <2>2, <2>3
<1>15. CASE SaveCounter
  <2>1. Len(notifier.snap.events) \in Nat
    <3>1. notifier.snap \in HashType
      BY <1>7 DEF NotifierType
    <3>2. notifier.snap.events \in Seq(Nat)
      BY <3>1 DEF HashType
    <3> QED  BY <3>2
  <2>2. notifier' \in NotifierType /\ (notifier'.at # "resting" => notifier'.client # 0)
    BY <1>6, <1>15 DEF SaveCounter
  <2> QED  BY <1>7, <1>8, <1>15, <2>1, <2>2 DEF SaveCounter, NotifierOnly
<1>16. CASE SaveTMin
  <2>1. notifier.snap.tmax \in Nat
    BY <1>7 DEF NotifierType, HashType
  <2>2. notifier' \in NotifierType /\ (notifier'.at # "resting" => notifier'.client # 0)
    BY <1>6, <1>16 DEF SaveTMin
  <2>3. hash' \in [1..Clients -> HashType]
    BY <1>7, <1>16, <2>1 DEF SaveTMin, HashType
  <2> QED  BY <1>7, <1>8, <1>16, <2>2, <2>3 DEF SaveTMin, NotifierOnly
<1>17. CASE SaveTime
  <2>1. notifier' \in NotifierType /\ (notifier'.at # "resting" => notifier'.client # 0)
    BY <1>6, <1>17 DEF SaveTime
  <2> QED  BY <1>7, <1>8, <1>17, <2>1 DEF SaveTime, NotifierOnly
<1>18. CASE DeleteTime
  <2>1. notifier.client \in 1..Clients /\ notifier' = After(notifier.client)
    BY <1>7, <1>18 DEF DeleteTime
  <2>2. notifier' \in NotifierType /\ (notifier'.at # "resting" => notifier'.client # 0)
    BY <1>5, <2>1
  <2>3. hash' \in [1..Clients -> HashType]
    BY <1>7, <1>18 DEF DeleteTime, HashType
  <2> QED  BY <1>7, <1>8, <1>18, <2>2, <2>3 DEF DeleteTime, NotifierOnly
<1>19. CASE BreakOff
  BY <1>4, <1>7, <1>8, <1>19 DEF BreakOff, redisVars
<1> QED  BY <1>9, <1>10, <1>11, <1>12, <1>13, <1>14, <1>15, <1>16, <1>17, <1>18, <1>19 DEF Notify

LEMMA CutKeepsTypes ==
  ASSUME RecorderTypes, NoticesTypes, Cut
  PROVE  NoticesTypes'
<1>1. counter' = [at |-> "idle", client |-> 0, dirty |-> FALSE, late |-> FALSE] /\ recorded' = recorded
  BY DEF Cut, Idle, recorderVars
<1>2. /\ counter' \in [at : CounterStep, client : 0..Clients, dirty : BOOLEAN, late : BOOLEAN]
      /\ counter'.at = "idle"
  BY <1>1, ClientsAreNumbers DEF CounterStep
<1>3. /\ hash' = hash /\ lastSent' = lastSent /\ consumed' = consumed /\ notifier' = notifier /\ now' = now
      /\ mails' = mails /\ cuts' = cuts + 1 /\ breaks' = breaks /\ counter'.at \notin Working
  BY <1>2 DEF Cut, redisVars, Working
<1> QED  BY <1>1, <1>2, <1>3 DEF NoticesTypes

-----------------------------------------------------------------------------
(* The counter counts each event of each client                            *)

EventsKept == \A c \in 1..Clients : hash'[c].events = hash[c].events

LEMMA TimesAreKept ==
  ASSUME EventsKept, NEW c \in 1..Clients, NEW n
  PROVE  Times(c, n)' = Times(c, n) /\ HasCounted(c, n)' = HasCounted(c, n)
BY DEF EventsKept, Times, HasCounted

LEMMA CountedStays ==
  ASSUME NoticesTypes, Counted, CountedOnce, EventsKept, RecordedKept, consumed' = consumed, cuts' = cuts,
         counter.at # "idle" => Event' = Event,
         \A c \in 1..Clients : CountedNow(c)' = CountedNow(c)
  PROVE  Counted' /\ CountedOnce'
<1>1. consumed \in 0..Len(recorded)
  BY DEF NoticesTypes
<1>2. \A c \in 1..Clients : CountedNow(c) => counter.at # "idle"
  BY DEF CountedNow, Working
<1>3. ASSUME NEW c \in 1..Clients
      PROVE  /\ \A k \in 1..Len(hash'[c].events) :
                  LET n == hash'[c].events[k]
                  IN  n \in 1..Len(recorded') /\ n <= consumed' + 1 /\ c \in recorded'[n].clients
             /\ \A n \in 1..consumed' : c \in recorded'[n].clients => HasCounted(c, n)'
             /\ (CountedNow(c)' /\ c \in Event'.clients) => HasCounted(c, consumed + 1)'
  <2>1. hash'[c].events = hash[c].events
    BY DEF EventsKept
  <2>2. \A k \in 1..Len(hash[c].events) :
          LET n == hash[c].events[k]
          IN  n \in 1..Len(recorded) /\ n <= consumed + 1 /\ c \in recorded[n].clients
    BY DEF Counted
  <2>3. \A n \in 1..Len(recorded) : n \in 1..Len(recorded') /\ recorded'[n] = recorded[n]
    BY DEF RecordedKept
  <2>4. \A n \in 1..consumed : n \in 1..Len(recorded) /\ (c \in recorded[n].clients => HasCounted(c, n))
    BY <1>1 DEF Counted, RecordedKept
  <2>5. (CountedNow(c) /\ c \in Event.clients) => HasCounted(c, consumed + 1)
    BY DEF Counted
  <2>6. \A n : HasCounted(c, n)' = HasCounted(c, n)
    BY TimesAreKept
  <2>7. (CountedNow(c)' /\ c \in Event'.clients) => HasCounted(c, consumed + 1)'
    BY <1>2, <2>5, <2>6
  <2>8. \A n \in 1..consumed' : c \in recorded'[n].clients => HasCounted(c, n)'
    BY <2>3, <2>4, <2>6
  <2> QED  BY <2>1, <2>2, <2>3, <2>7, <2>8
<1>4. Counted'
  BY <1>3 DEF Counted
<1>5. CountedOnce'
  BY TimesAreKept DEF CountedOnce
<1> QED  BY <1>4, <1>5

LEMMA RecorderKeepsCounted ==
  ASSUME NoticesTypes, Counted, CountedOnce, RecordedKept, UNCHANGED noticesVars
  PROVE  Counted' /\ CountedOnce'
<1>1. counter.at # "idle" => Event' = Event
  <2>1. consumed \in 0..Len(recorded) /\ Len(recorded) \in Nat /\ (counter.at # "idle" => consumed < Len(recorded))
    BY DEF NoticesTypes, RecordedKept
  <2>2. counter.at # "idle" => consumed + 1 \in 1..Len(recorded)
    BY <2>1
  <2> QED  BY <2>2 DEF RecordedKept, Event, noticesVars
<1>2. \A c \in 1..Clients : CountedNow(c)' = CountedNow(c)
  <2>1. counter.at \in Working => Event' = Event
    BY <1>1 DEF Working
  <2> QED  BY <2>1 DEF CountedNow, noticesVars
<1> QED  BY <1>1, <1>2, CountedStays DEF EventsKept, noticesVars, redisVars

LEMMA NotifierKeepsCounted ==
  ASSUME RecorderTypes, NoticesTypes, Counted, CountedOnce, Tick \/ Notify \/ BreakOff
  PROVE  Counted' /\ CountedOnce'
<1>1. /\ consumed' = consumed /\ recorded' = recorded /\ cuts' = cuts
      /\ counter' = counter \/ counter' = [counter EXCEPT !.dirty = TRUE]
  BY DEF Tick, Notify, StartRun, Snapshot, Decide, Compare, Send, SaveCounter, SaveTMin, SaveTime, DeleteTime,
         BreakOff, NotifierOnly, recorderVars, Touch
<1>2. /\ counter'.at = counter.at /\ counter'.client = counter.client /\ Event' = Event
  BY <1>1 DEF NoticesTypes, Event
<1>3. \A c \in 1..Clients : CountedNow(c)' = CountedNow(c)
  BY <1>2 DEF CountedNow
<1>4. EventsKept
  <2>1. hash \in [1..Clients -> HashType]
    BY DEF NoticesTypes
  <2>2. CASE hash' = hash
    BY <2>2 DEF EventsKept
  <2>3. CASE SaveTMin
    BY <2>1, <2>3 DEF EventsKept, SaveTMin, HashType
  <2>4. CASE DeleteTime
    BY <2>1, <2>4 DEF EventsKept, DeleteTime, HashType
  <2> QED
    BY <2>2, <2>3, <2>4 DEF Tick, Notify, StartRun, Snapshot, Decide, Compare, Send, SaveCounter, SaveTime,
                            BreakOff, NotifierOnly, redisVars
<1>5. RecordedKept
  BY <1>1 DEF RecordedKept, RecorderTypes
<1> QED  BY <1>1, <1>2, <1>3, <1>4, <1>5, CountedStays

LEMMA NothingCountedAhead ==
  ASSUME NoticesTypes, Counted, NEW c \in 1..Clients, NEW n \in Nat, n > consumed + 1
  PROVE  Times(c, n) = 0
<1>1. consumed \in Nat
  BY DEF NoticesTypes
<1>2. ~HasCounted(c, n)
  BY <1>1 DEF HasCounted, Counted
<1> QED  BY <1>2, TimesIsNatural

(* The end of an event: for all of its clients it has been counted. *)
LEMMA CountedAtTheEnd ==
  ASSUME NoticesTypes, Counted, CountedOnce, EventsKept, UNCHANGED <<recorded, cuts>>,
         consumed < Len(recorded), consumed' = consumed + 1, counter'.at = "idle",
         \A c \in 1..Clients : c \in Event.clients => HasCounted(c, consumed + 1)
  PROVE  Counted' /\ CountedOnce'
<1>1. consumed \in Nat /\ cuts \in Nat
  BY DEF NoticesTypes
<1>2. \A c \in 1..Clients : ~CountedNow(c)'
  BY DEF CountedNow, Working
<1>3. 1..consumed' = 1..consumed \cup {consumed + 1}
  BY <1>1
<1>4. Counted'
  <2>1. ASSUME NEW c \in 1..Clients
        PROVE  /\ \A k \in 1..Len(hash'[c].events) :
                    LET n == hash'[c].events[k]
                    IN  n \in 1..Len(recorded') /\ n <= consumed' + 1 /\ c \in recorded'[n].clients
               /\ \A n \in 1..consumed' : c \in recorded'[n].clients => HasCounted(c, n)'
    <3>1. hash'[c].events = hash[c].events
      BY DEF EventsKept
    <3>2. \A n : HasCounted(c, n)' = HasCounted(c, n)
      BY TimesAreKept
    <3>3. \A k \in 1..Len(hash[c].events) :
            LET n == hash[c].events[k]
            IN  n \in 1..Len(recorded) /\ n <= consumed + 1 /\ c \in recorded[n].clients
      BY DEF Counted
    <3>4. \A k \in 1..Len(hash[c].events) : hash[c].events[k] <= consumed' + 1
      BY <1>1, <3>3
    <3>5. \A n \in 1..consumed : c \in recorded[n].clients => HasCounted(c, n)
      BY DEF Counted
    <3> QED  BY <1>3, <3>1, <3>2, <3>3, <3>4, <3>5 DEF Event
  <2> QED  BY <1>2, <2>1 DEF Counted
<1>5. CountedOnce'
  <2>1. ASSUME NEW c \in 1..Clients
        PROVE  /\ \A n \in 1..consumed' : Times(c, n)' <= 1 + cuts
               /\ \A n \in Nat : n = consumed + 2 => Times(c, n)' <= cuts
    <3>1. \A n : Times(c, n)' = Times(c, n)
      BY TimesAreKept
    <3>2. Times(c, consumed + 1) <= 1 + cuts
      <4>1. Times(c, consumed + 1) <= (IF CountedNow(c) THEN 1 + cuts ELSE cuts)
        BY DEF CountedOnce
      <4>2. Times(c, consumed + 1) \in Nat
        BY TimesIsNatural
      <4> QED  BY <1>1, <4>1, <4>2
    <3>3. \A n \in 1..consumed : Times(c, n) <= 1 + cuts
      BY DEF CountedOnce
    <3>4. \A n \in Nat : n = consumed + 2 => Times(c, n) = 0
      BY <1>1, NothingCountedAhead
    <3> QED  BY <1>1, <1>3, <3>1, <3>2, <3>3, <3>4
  <2>2. \A c \in 1..Clients : Times(c, consumed + 1)' <= cuts
    <3>1. consumed' + 1 \in Nat /\ consumed' + 1 = consumed + 2
      BY <1>1
    <3> QED  BY <2>1, <3>1
  <2> QED  BY <1>2, <2>1, <2>2 DEF CountedOnce
<1> QED  BY <1>4, <1>5

LEMMA CuttingKeepsCounted ==
  ASSUME NoticesTypes, Counted, CountedOnce, Cut
  PROVE  Counted' /\ CountedOnce'
<1>1. /\ EventsKept /\ recorded' = recorded /\ consumed' = consumed /\ cuts' = cuts + 1
      /\ \A c \in 1..Clients : ~CountedNow(c)'
  BY DEF Cut, Idle, EventsKept, redisVars, recorderVars, CountedNow, Working
<1>2. cuts \in Nat /\ consumed \in Nat
  BY DEF NoticesTypes
<1>3. Counted'
  BY <1>1, TimesAreKept DEF Counted, EventsKept
<1>4. CountedOnce'
  <2>1. ASSUME NEW c \in 1..Clients
        PROVE  (\A n \in 1..consumed : Times(c, n)' <= 1 + cuts') /\ Times(c, consumed + 1)' <= cuts'
    <3>1. \A n : Times(c, n)' = Times(c, n) /\ Times(c, n) \in Nat
      BY <1>1, TimesAreKept, TimesIsNatural
    <3>2. Times(c, consumed + 1) <= (IF CountedNow(c) THEN 1 + cuts ELSE cuts)
      BY DEF CountedOnce
    <3>3. \A n \in 1..consumed : Times(c, n) <= 1 + cuts
      BY DEF CountedOnce
    <3>4. Times(c, consumed + 1)' <= cuts'
      BY <1>1, <1>2, <3>1, <3>2
    <3>5. ASSUME NEW n \in 1..consumed
          PROVE  Times(c, n)' <= 1 + cuts'
      BY <1>1, <1>2, <3>1, <3>3
    <3> QED  BY <3>4, <3>5
  <2> QED  BY <1>1, <2>1 DEF CountedOnce
<1> QED  BY <1>3, <1>4

(* What Exec does to the hashes. *)
ExecChanges ==
  LET c    == counter.client
      here == consumed + 1
  IN  /\ hash'[c].events = Append(hash[c].events, here)
      /\ hash'[c].tmax = here
      /\ hash'[c].tmin = IF hash[c].tmin = 0 THEN here ELSE hash[c].tmin
      /\ hash'[c].time = hash[c].time
      /\ \A d \in 1..Clients : d # c => hash'[d] = hash[d]

LEMMA ExecEffect ==
  ASSUME RecorderTypes, NoticesTypes, Exec
  PROVE  /\ ExecChanges
         /\ counter.at = "exec" /\ counter.client \in 1..Clients /\ counter.client \in Event.clients
         /\ consumed + 1 \in 1..Len(recorded) /\ consumed \in Nat /\ Event = recorded[consumed + 1]
         /\ Event.time \in Nat \ {0} /\ Event.clients \subseteq 1..Clients
         /\ consumed' = consumed /\ recorded' = recorded /\ cuts' = cuts /\ Event' = Event
<1>1. counter.at = "exec" /\ consumed < Len(recorded) /\ counter.client \in Event.clients
  BY DEF Exec, MayExec, NoticesTypes, Working
<1>2. /\ consumed + 1 \in 1..Len(recorded) /\ consumed \in Nat /\ Event = recorded[consumed + 1]
      /\ Event.time \in Nat \ {0} /\ Event.clients \subseteq 1..Clients
  BY <1>1, EventIsRecorded
<1>3. counter.client \in 1..Clients /\ hash \in [1..Clients -> HashType]
  BY <1>1, <1>2 DEF NoticesTypes
<1>4. ExecChanges
  BY <1>3 DEF Exec, ExecChanges, HashType
<1>5. consumed' = consumed /\ recorded' = recorded /\ cuts' = cuts
  BY DEF Exec, CounterOnly, recorderVars
<1> QED  BY <1>1, <1>2, <1>3, <1>4, <1>5 DEF Event

LEMMA ExecCounts ==
  ASSUME RecorderTypes, NoticesTypes, Counted, CountedOnce, Exec
  PROVE  Counted' /\ CountedOnce'
<1>a. PICK c, here : c = counter.client /\ here = consumed + 1
  OBVIOUS
<1> DEFINE next == NextClient(c)
<1>1. /\ ExecChanges
      /\ counter.at = "exec" /\ c \in 1..Clients /\ c \in Event.clients
      /\ here \in 1..Len(recorded) /\ consumed \in Nat /\ Event = recorded[here]
      /\ Event.clients \subseteq 1..Clients
      /\ consumed' = consumed /\ recorded' = recorded /\ cuts' = cuts /\ Event' = Event
  BY <1>a, ExecEffect
<1>2. cuts \in Nat
  BY DEF NoticesTypes
<1>3. /\ next \in 0..Clients
      /\ next = 0 => \A d \in Event.clients : d <= c
      /\ next # 0 => next > c /\ \A d \in Event.clients : d > c => next <= d
  BY <1>1, NextClientIsTheNext
<1>4. ASSUME NEW d \in 1..Clients
      PROVE  /\ d < c => CountedNow(d)' /\ CountedNow(d)
             /\ d = c => CountedNow(d)' /\ ~CountedNow(d)
             /\ d > c => ~CountedNow(d)
             /\ (d > c /\ d \in Event.clients) => ~CountedNow(d)'
  <2>1. CountedNow(d) <=> d < c
    BY <1>1, <1>a DEF CountedNow, Working
  <2>2. CASE next = 0
    <3>1. counter'.at = "ack"
      BY <1>a, <2>2 DEF Exec, Idle
    <3>2. CountedNow(d)'
      BY <3>1 DEF CountedNow
    <3> QED  BY <1>1, <1>3, <2>1, <2>2, <3>2
  <2>3. CASE next # 0
    <3>1. counter'.at = "watch" /\ counter'.client = next
      BY <1>a, <2>3 DEF Exec, Idle
    <3>2. CountedNow(d)' <=> d < next
      BY <3>1 DEF CountedNow, Working
    <3> HIDE DEF next
    <3> QED  BY <1>1, <1>3, <2>1, <2>3, <3>2
  <2> QED  BY <2>2, <2>3
<1>5. ASSUME NEW d \in 1..Clients, d # c
      PROVE  /\ hash'[d].events = hash[d].events
             /\ \A n : Times(d, n)' = Times(d, n) /\ HasCounted(d, n)' = HasCounted(d, n)
  BY <1>1, <1>5, <1>a DEF ExecChanges, Times, HasCounted
<1> DEFINE s == hash[c].events
<1>6. /\ s \in Seq(Nat) /\ hash'[c].events = Append(s, here) /\ here \in Nat
      /\ Len(Append(s, here)) = Len(s) + 1 /\ Len(s) \in Nat
      /\ \A i \in 1..Len(s) : Append(s, here)[i] = s[i]
      /\ Append(s, here)[Len(s) + 1] = here
  <2>1. s \in Seq(Nat) /\ hash'[c].events = Append(s, here) /\ here \in Nat
    <3>1. s \in Seq(Nat)
      BY <1>1, TimesIsNatural
    <3>2. hash'[c].events = Append(s, here)
      BY <1>1, <1>a DEF ExecChanges
    <3> QED  BY <1>1, <1>a, <3>1, <3>2
  <2> QED  BY <2>1, Appending
<1>7. \A n : /\ Times(c, n)' = Times(c, n) + IF here = n THEN 1 ELSE 0
             /\ Times(c, n) \in Nat
  <2>1. ASSUME NEW n
        PROVE  Times(c, n)' = Times(c, n) + IF here = n THEN 1 ELSE 0
    <3>1. Times(c, n) = Cardinality(Occurrences(s, n))
      BY DEF Times, Occurrences
    <3>2. Times(c, n)' = Cardinality(Occurrences(Append(s, here), n))
      <4>1. Cardinality({k \in 1..Len(hash'[c].events) : hash'[c].events[k] = n})
              = Cardinality(Occurrences(Append(s, here), n))
        BY <1>6 DEF Occurrences
      <4>2. ASSUME NEW e \in 1..Clients
            PROVE  Times(e, n)' = Cardinality({k \in 1..Len(hash'[e].events) : hash'[e].events[k] = n})
        BY DEF Times
      <4> QED  BY <1>1, <4>1, <4>2
    <3> QED  BY <1>6, <3>1, <3>2, OccurrencesGrow
  <2> QED  BY <1>1, <2>1, TimesIsNatural
<1>8. \A n : HasCounted(c, n)' <=> HasCounted(c, n) \/ n = here
  <2>1. \A n : HasCounted(c, n) <=> \E k \in 1..Len(s) : s[k] = n
    BY DEF HasCounted
  <2>2. \A n : HasCounted(c, n)' <=> \E k \in 1..Len(Append(s, here)) : Append(s, here)[k] = n
    <3>1. \A e \in 1..Clients : \A n : HasCounted(e, n)' <=> \E k \in 1..Len(hash'[e].events) : hash'[e].events[k] = n
      BY DEF HasCounted
    <3> HIDE DEF s
    <3>2. hash'[c].events = Append(s, here)
      BY <1>6
    <3> QED  BY <1>1, <3>1, <3>2
  <2>3. 1..Len(Append(s, here)) = 1..Len(s) \cup {Len(s) + 1}
    BY <1>6
  <2> QED  BY <1>6, <2>1, <2>2, <2>3
<1> HIDE DEF next, s
<1>9. Counted'
  <2>1. ASSUME NEW d \in 1..Clients, NEW k \in 1..Len(hash'[d].events)
        PROVE  LET n == hash'[d].events[k]
               IN  n \in 1..Len(recorded) /\ n <= here /\ d \in recorded[n].clients
    <3>1. \A j \in 1..Len(hash[d].events) :
            LET n == hash[d].events[j]
            IN  n \in 1..Len(recorded) /\ n <= here /\ d \in recorded[n].clients
      BY <1>a DEF Counted
    <3>2. CASE d # c
      BY <1>5, <2>1, <3>1, <3>2
    <3>3. CASE d = c
      <4>1. k \in 1..Len(s) \/ k = Len(s) + 1
        BY <1>6, <2>1, <3>3
      <4>2. CASE k \in 1..Len(s)
        BY <1>6, <3>1, <3>3, <4>2 DEF s
      <4>3. CASE k = Len(s) + 1
        <5>1. hash'[d].events[k] = here
          BY <1>6, <3>3, <4>3
        <5>2. here \in 1..Len(recorded) /\ here <= here /\ d \in recorded[here].clients
          BY <1>1, <3>3
        <5> QED  BY <5>1, <5>2
      <4> QED  BY <4>1, <4>2, <4>3
    <3> QED  BY <3>2, <3>3
  <2>2. ASSUME NEW d \in 1..Clients, NEW n \in 1..consumed, d \in recorded[n].clients
        PROVE  HasCounted(d, n)'
    <3>1. HasCounted(d, n)
      BY <2>2 DEF Counted
    <3> QED  BY <1>5, <1>8, <3>1
  <2>3. ASSUME NEW d \in 1..Clients, CountedNow(d)', d \in Event.clients
        PROVE  HasCounted(d, here)'
    <3>1. CASE d = c
      BY <1>8, <3>1
    <3>2. CASE d # c
      <4>1. d < c
        BY <1>1, <1>4, <2>3, <3>2
      <4>2. HasCounted(d, here)
        BY <1>4, <1>a, <2>3, <4>1 DEF Counted
      <4> QED  BY <1>5, <3>2, <4>2
    <3> QED  BY <3>1, <3>2
  <2>4. here = consumed' + 1 /\ consumed' = consumed /\ recorded' = recorded /\ Event' = Event
    BY <1>1, <1>a
  <2> QED  BY <2>1, <2>2, <2>3, <2>4 DEF Counted
<1>10. CountedOnce'
  <2>1. ASSUME NEW d \in 1..Clients
        PROVE  /\ \A n \in 1..consumed : Times(d, n) <= 1 + cuts
               /\ Times(d, here) <= IF CountedNow(d) THEN 1 + cuts ELSE cuts
    BY <1>a DEF CountedOnce
  <2>2. ASSUME NEW d \in 1..Clients, NEW n \in 1..consumed
        PROVE  Times(d, n)' <= 1 + cuts
    <3>1. here # n
      BY <1>1, <1>a
    <3>2. CASE d = c
      BY <1>7, <2>1, <3>1, <3>2
    <3>3. CASE d # c
      BY <1>5, <2>1, <3>3
    <3> QED  BY <3>2, <3>3
  <2>3. ASSUME NEW d \in 1..Clients
        PROVE  Times(d, here)' <= IF CountedNow(d)' THEN 1 + cuts ELSE cuts
    <3>1. CASE d = c
      <4>1. ~CountedNow(d) /\ CountedNow(d)'
        BY <1>1, <1>4, <3>1
      <4>2. Times(d, here) <= cuts /\ Times(d, here) \in Nat /\ Times(d, here)' = Times(d, here) + 1
        BY <1>7, <2>1, <3>1, <4>1
      <4> QED  BY <1>2, <4>1, <4>2
    <3>2. CASE d # c
      <4>1. CountedNow(d) => CountedNow(d)'
        BY <1>1, <1>4, <3>2
      <4>2. Times(d, here)' = Times(d, here) /\ Times(d, here) \in Nat
        BY <1>5, <3>2, TimesIsNatural
      <4> QED  BY <1>2, <2>1, <4>1, <4>2
    <3> QED  BY <3>1, <3>2
  <2>4. here = consumed' + 1 /\ consumed' = consumed /\ cuts' = cuts
    BY <1>1, <1>a
  <2> QED  BY <2>2, <2>3, <2>4 DEF CountedOnce
<1> QED  BY <1>9, <1>10

LEMMA CountingCounts ==
  ASSUME RecorderTypes, NoticesTypes, Counted, CountedOnce, Count
  PROVE  Counted' /\ CountedOnce'
<1>1. recorded' = recorded /\ cuts' = cuts /\ RecordedKept
  <2>1. recorded' = recorded /\ cuts' = cuts
    BY DEF Count, Receive, Watch, ReadTime, SetTime, Retry, Exec, Acknowledge, CounterOnly, recorderVars
  <2> QED  BY <2>1 DEF RecordedKept, RecorderTypes
<1>2. ASSUME NEW c \in 1..Clients, counter.at = "watch" \/ counter.at = "read time" \/ counter.at = "set time"
                                   \/ counter.at = "exec",
             counter'.at \in Working, counter'.client = counter.client
      PROVE  CountedNow(c)' = CountedNow(c)
  BY <1>2 DEF CountedNow, Working
<1>3. CASE Receive
  <2>1. /\ consumed < Len(recorded) /\ counter.at = "idle" /\ EventsKept
        /\ Event.clients \subseteq 1..Clients
    BY <1>3, EventIsRecorded DEF Receive, EventsKept
  <2>2. /\ NextClient(0) = 0 => \A d \in Event.clients : d <= 0
        /\ NextClient(0) # 0 => \A d \in Event.clients : d > 0 => NextClient(0) <= d
    BY <2>1, ClientsAreNumbers, NextClientIsTheNext
  <2>3. CASE NextClient(0) = 0
    <3>1. consumed' = consumed + 1 /\ counter'.at = "idle"
      BY <1>3, <2>1, <2>3 DEF Receive
    <3>2. \A c \in 1..Clients : c \notin Event.clients
      BY <2>2, <2>3, ClientsAreNumbers
    <3> QED  BY <1>1, <2>1, <3>1, <3>2, CountedAtTheEnd
  <2>4. CASE NextClient(0) # 0
    <3>1. consumed' = consumed /\ counter'.at = "watch" /\ counter'.client = NextClient(0) /\ Event' = Event
      BY <1>1, <1>3, <2>4 DEF Receive, Idle, Event
    <3>2. ASSUME NEW c \in 1..Clients
          PROVE  ~CountedNow(c) /\ (CountedNow(c)' => c \notin Event.clients)
      <4>1. ~CountedNow(c)
        BY <2>1 DEF CountedNow, Working
      <4>2. CountedNow(c)' => c < NextClient(0)
        BY <3>1 DEF CountedNow
      <4>3. c \in Event.clients => NextClient(0) <= c
        BY <2>2, <2>4, ClientsAreNumbers
      <4>4. NextClient(0) \in Nat
        BY <2>1, ClientsAreNumbers, NextClientIsTheNext
      <4> QED  BY <4>1, <4>2, <4>3, <4>4, ClientsAreNumbers
    <3>3. ASSUME NEW c \in 1..Clients, NEW n
          PROVE  Times(c, n)' = Times(c, n) /\ HasCounted(c, n)' = HasCounted(c, n)
      BY <2>1, TimesAreKept
    <3>4. Counted'
      BY <1>1, <2>1, <3>1, <3>2, <3>3 DEF Counted, EventsKept
    <3>5. CountedOnce'
      <4>1. ASSUME NEW c \in 1..Clients
            PROVE  Times(c, consumed + 1)' <= IF CountedNow(c)' THEN 1 + cuts ELSE cuts
        <5>1. Times(c, consumed + 1) <= cuts /\ Times(c, consumed + 1) \in Nat /\ cuts \in Nat
          BY <3>2, TimesIsNatural DEF CountedOnce, NoticesTypes
        <5> QED  BY <3>1, <3>3, <5>1
      <4>2. ASSUME NEW c \in 1..Clients, NEW n \in 1..consumed
            PROVE  Times(c, n)' <= 1 + cuts
        BY <3>3 DEF CountedOnce
      <4> QED  BY <1>1, <3>1, <4>1, <4>2 DEF CountedOnce
    <3> QED  BY <3>4, <3>5
  <2> QED  BY <2>3, <2>4
<1>4. CASE Watch
  <2>1. /\ counter.at = "watch" /\ counter'.at = "read time" /\ counter'.client = counter.client
        /\ consumed' = consumed /\ Event' = Event /\ EventsKept
    BY <1>1, <1>4 DEF Watch, Event, EventsKept, NoticesTypes
  <2> QED  BY <1>1, <1>2, <2>1, CountedStays DEF Working
<1>5. CASE ReadTime
  <2>1. /\ counter.at = "read time" /\ counter'.at \in {"set time", "exec"} /\ counter'.client = counter.client
        /\ consumed' = consumed /\ Event' = Event /\ EventsKept
    BY <1>1, <1>5 DEF ReadTime, Event, EventsKept, NoticesTypes
  <2> QED  BY <1>1, <1>2, <2>1, CountedStays DEF Working
<1>6. CASE SetTime
  <2>1. /\ counter.at = "set time" /\ counter'.at = "exec" /\ counter'.client = counter.client
        /\ consumed' = consumed /\ Event' = Event
    BY <1>1, <1>6 DEF SetTime, Event, NoticesTypes
  <2>2. EventsKept
    BY <1>6 DEF SetTime, EventsKept, NoticesTypes, HashType
  <2> QED  BY <1>1, <1>2, <2>1, <2>2, CountedStays DEF Working
<1>7. CASE Retry
  <2>1. /\ counter.at = "exec" /\ counter'.at = "watch" /\ counter'.client = counter.client
        /\ consumed' = consumed /\ Event' = Event /\ EventsKept
    BY <1>1, <1>7 DEF Retry, Event, EventsKept, NoticesTypes
  <2> QED  BY <1>1, <1>2, <2>1, CountedStays DEF Working
<1>8. CASE Exec
  BY <1>8, ExecCounts
<1>9. CASE Acknowledge
  <2>1. /\ counter.at = "ack" /\ counter'.at = "idle" /\ consumed' = consumed + 1 /\ EventsKept
        /\ consumed < Len(recorded)
    BY <1>9 DEF Acknowledge, Idle, EventsKept, NoticesTypes
  <2>2. \A c \in 1..Clients : c \in Event.clients => HasCounted(c, consumed + 1)
    BY <2>1 DEF Counted, CountedNow
  <2> QED  BY <1>1, <2>1, <2>2, CountedAtTheEnd
<1> QED  BY <1>3, <1>4, <1>5, <1>6, <1>7, <1>8, <1>9 DEF Count

-----------------------------------------------------------------------------
(* The hashes                                                              *)

LEMMA HashFields ==
  ASSUME NEW h \in HashType
  PROVE  /\ h.events \in Seq(Nat) /\ Len(h.events) \in Nat
         /\ \A k \in 1..Len(h.events) : h.events[k] \in Nat
         /\ h.tmin \in Nat /\ h.tmax \in Nat /\ h.time \in Nat
BY DEF HashType

LEMMA TypesOfOne ==
  ASSUME NoticesTypes, NEW c \in 1..Clients
  PROVE  /\ hash[c] \in HashType /\ lastSent[c] \in Nat /\ mails[c] \in Seq(MailType)
         /\ notifier.snap \in HashType /\ notifier.client \in 0..Clients
BY DEF NoticesTypes

LEMMA CountedAreRecorded ==
  ASSUME Counted, NEW c \in 1..Clients, NEW k \in 1..Len(hash[c].events)
  PROVE  /\ hash[c].events[k] \in 1..Len(recorded) /\ hash[c].events[k] <= consumed + 1
         /\ c \in recorded[hash[c].events[k]].clients
BY DEF Counted

LEMMA CoveringStays ==
  ASSUME NEW c, NEW h \in HashType, NEW i \in Nat \ {0}, NEW j \in Nat, i <= j, NEW messages, NEW races,
         NEW moreMessages, NEW moreRaces, races \subseteq moreRaces,
         \A n \in 1..Len(messages) : moreMessages[n] = messages[n],
         \A k \in 1..Len(h.events) : h.events[k] \in 1..Len(messages),
         Covering(c, h, i, messages, races)
  PROVE  Covering(c, h, j, moreMessages, moreRaces)
<1>1. Len(h.events) \in Nat
  BY HashFields
<1>2. \A k \in j..Len(h.events) : k \in 1..Len(h.events) /\ k \in i..Len(h.events)
  BY <1>1
<1> QED  BY <1>2 DEF Covering

LEMMA HashStaysRight ==
  ASSUME NoticesTypes, Counted, NEW c \in 1..Clients, HashIsRight(c), RecordedKept, raced \subseteq raced',
         hash'[c] = hash[c], lastSent'[c] = lastSent[c]
  PROVE  HashIsRight(c)'
<1>1. hash[c] \in HashType /\ lastSent[c] + 1 \in Nat \ {0}
  BY TypesOfOne
<1>2. \A k \in 1..Len(hash[c].events) : hash[c].events[k] \in 1..Len(recorded)
  BY CountedAreRecorded
<1>3. Covering(c, hash[c], lastSent[c] + 1, recorded, raced)
  BY DEF HashIsRight, Covers
<1>4. \A n \in 1..Len(recorded) : recorded'[n] = recorded[n]
  BY DEF RecordedKept
<1>5. Covering(c, hash[c], lastSent[c] + 1, recorded', raced')
  BY <1>1, <1>2, <1>3, <1>4, CoveringStays
<1> QED  BY <1>5 DEF HashIsRight, Covers, IsHash

LEMMA HashesStayRight ==
  ASSUME NoticesTypes, Counted, HashesAreRight, RecordedKept, UNCHANGED <<hash, lastSent, raced>>
  PROVE  HashesAreRight'
BY HashStaysRight DEF HashesAreRight

LEMMA SetTimeKeepsHashes ==
  ASSUME RecorderTypes, NoticesTypes, Counted, HashesAreRight, WatchHolds, SetTime
  PROVE  HashesAreRight' /\ WatchHolds'
<1>1. PICK c : c = counter.client
  OBVIOUS
<1>2. /\ counter.at = "set time" /\ consumed < Len(recorded) /\ c \in Event.clients
      /\ counter'.at = "exec" /\ counter'.dirty = TRUE
  BY <1>1 DEF SetTime, NoticesTypes, Working
<1>3. Event.time \in Nat \ {0} /\ Event.clients \subseteq 1..Clients
  BY <1>2, EventIsRecorded
<1>4. c \in 1..Clients
  BY <1>2, <1>3
<1>5. /\ hash[c] \in HashType /\ recorded' = recorded /\ raced' = raced /\ lastSent' = lastSent
      /\ hash'[c] = [hash[c] EXCEPT !.time = Event.time]
      /\ \A d \in 1..Clients : d # c => hash'[d] = hash[d]
  BY <1>1, <1>4 DEF SetTime, CounterOnly, recorderVars, NoticesTypes
<1>6. RecordedKept
  BY <1>5 DEF RecordedKept, RecorderTypes
<1>7. hash[c].time = 0 \/ Event.time <= hash[c].time
  BY <1>1, <1>2 DEF WatchHolds
<1>8. /\ hash'[c].events = hash[c].events /\ hash'[c].tmin = hash[c].tmin /\ hash'[c].tmax = hash[c].tmax
      /\ hash'[c].time = Event.time
  BY <1>5 DEF HashType
<1>9. HashIsRight(c)'
  <2>1. HashIsRight(c)
    BY <1>4 DEF HashesAreRight
  <2>2. Covering(c, hash[c], lastSent[c] + 1, recorded, raced)
    BY <2>1 DEF HashIsRight, Covers
  <2>3. ASSUME NEW k \in lastSent[c] + 1..Len(hash[c].events),
               <<c, hash[c].events[k]>> \notin raced
        PROVE  Event.time <= recorded[hash[c].events[k]].time
    <3>1. hash[c].time # 0 /\ hash[c].time <= recorded[hash[c].events[k]].time
      BY <2>2, <2>3 DEF Covering
    <3>2. k \in 1..Len(hash[c].events)
      BY <1>4, <1>5, TypesOfOne, HashFields
    <3>3. recorded[hash[c].events[k]].time \in Nat
      BY <1>4, <3>2, CountedAreRecorded, RecordedMessages
    <3> QED  BY <1>3, <1>5, <1>7, <3>1, <3>3, HashFields
  <2>4. Covering(c, hash'[c], lastSent[c] + 1, recorded, raced)
    BY <1>3, <1>8, <2>2, <2>3 DEF Covering
  <2> QED  BY <1>5, <1>8, <2>1, <2>4 DEF HashIsRight, Covers, IsHash
<1>10. ASSUME NEW d \in 1..Clients, d # c
       PROVE  HashIsRight(d)'
  BY <1>5, <1>6, <1>10, HashStaysRight DEF HashesAreRight
<1>11. WatchHolds'
  BY <1>2 DEF WatchHolds, MayExec
<1> QED  BY <1>9, <1>10, <1>11 DEF HashesAreRight

LEMMA ReadTimeWatches ==
  ASSUME RecorderTypes, NoticesTypes, ReadTime
  PROVE  WatchHolds'
<1>1. consumed < Len(recorded) /\ counter.client \in Event.clients
  BY DEF ReadTime, NoticesTypes, Working
<1>2. Event.time \in Nat /\ counter.client \in 1..Clients
  BY <1>1, EventIsRecorded
<1>3. hash[counter.client].time \in Nat
  BY <1>2, TypesOfOne, HashFields
<1>4. hash' = hash /\ Event' = Event
  BY DEF ReadTime, CounterOnly, recorderVars, Event
<1>5. counter' = [counter EXCEPT !.at = IF Earlier(hash[counter.client]) THEN "set time" ELSE "exec"]
  BY DEF ReadTime
<1>6. counter'.client = counter.client /\ counter'.at = IF Earlier(hash[counter.client]) THEN "set time" ELSE "exec"
  BY <1>5 DEF NoticesTypes
<1> DEFINE h == hash[counter.client]
<1>7. hash'[counter'.client] = h /\ h.time \in Nat
  BY <1>3, <1>4, <1>6
<1> HIDE DEF h
<1>8. CASE Earlier(h)
  <2>1. counter'.at = "set time" /\ (h.time = 0 \/ Event.time <= h.time)
    <3>1. counter'.at = "set time"
      BY <1>6, <1>8 DEF h
    <3>2. h.time = 0 \/ Event.time <= h.time
      BY <1>2, <1>7, <1>8 DEF Earlier
    <3> QED  BY <3>1, <3>2
  <2> QED  BY <1>4, <1>7, <2>1 DEF WatchHolds, MayExec
<1>9. CASE ~Earlier(h)
  <2>1. counter'.at = "exec" /\ h.time # 0 /\ h.time <= Event.time
    <3>1. counter'.at = "exec"
      BY <1>6, <1>9 DEF h
    <3>2. h.time # 0 /\ h.time <= Event.time
      BY <1>2, <1>7, <1>9 DEF Earlier
    <3> QED  BY <3>1, <3>2
  <2> QED  BY <1>4, <1>7, <2>1 DEF WatchHolds, MayExec
<1> QED  BY <1>8, <1>9

LEMMA InOrderGrows ==
  ASSUME NEW s \in Seq(Nat), NEW e \in Nat, InOrder(s), \A i \in 1..Len(s) : s[i] <= e
  PROVE  InOrder(Append(s, e))
<1>1. /\ Len(Append(s, e)) = Len(s) + 1 /\ Len(s) \in Nat
      /\ \A i \in 1..Len(s) : Append(s, e)[i] = s[i]
      /\ Append(s, e)[Len(s) + 1] = e
  BY Appending
<1>2. ASSUME NEW i \in 1..Len(s) + 1, NEW j \in i..Len(s) + 1
      PROVE  Append(s, e)[i] <= Append(s, e)[j]
  <2>1. CASE j = Len(s) + 1
    <3>1. i \in 1..Len(s) \/ i = Len(s) + 1
      BY <1>1
    <3> QED  BY <1>1, <2>1, <3>1
  <2>2. CASE j # Len(s) + 1
    <3>1. i \in 1..Len(s) /\ j \in i..Len(s) /\ j \in 1..Len(s)
      BY <1>1, <2>2
    <3> QED  BY <1>1, <3>1 DEF InOrder
  <2> QED  BY <2>1, <2>2
<1> QED  BY <1>1, <1>2 DEF InOrder

LEMMA ExecKeepsHashes ==
  ASSUME RecorderTypes, NoticesTypes, Counted, HashesAreRight, WatchHolds, Exec
  PROVE  HashesAreRight'
<1>a. PICK c, here : c = counter.client /\ here = consumed + 1
  OBVIOUS
<1>1. /\ ExecChanges /\ c \in 1..Clients
      /\ here \in 1..Len(recorded) /\ consumed \in Nat /\ Event = recorded[here]
      /\ recorded' = recorded
  BY <1>a, ExecEffect
<1>2. raced \subseteq raced' /\ lastSent' = lastSent
  BY DEF Exec, CounterOnly
<1>3. RecordedKept
  BY <1>1 DEF RecordedKept, RecorderTypes
<1>4. ASSUME NEW d \in 1..Clients, d # c
      PROVE  HashIsRight(d)'
  <2>1. hash'[d] = hash[d]
    BY <1>1, <1>4, <1>a DEF ExecChanges
  <2> QED  BY <1>2, <1>3, <2>1, HashStaysRight DEF HashesAreRight
<1> DEFINE h == hash[c]
           s == h.events
           new == hash'[c]
<1>5. /\ h \in HashType /\ s \in Seq(Nat) /\ Len(s) \in Nat /\ lastSent[c] \in Nat /\ here \in Nat
      /\ h.tmin \in Nat /\ h.tmax \in Nat /\ h.time \in Nat
  BY <1>1, TypesOfOne, HashFields
<1>6. /\ new.events = Append(s, here) /\ new.tmax = here /\ new.time = h.time
      /\ new.tmin = IF h.tmin = 0 THEN here ELSE h.tmin
  BY <1>1, <1>a DEF ExecChanges
<1>7. /\ Len(Append(s, here)) = Len(s) + 1
      /\ \A i \in 1..Len(s) : Append(s, here)[i] = s[i]
      /\ Append(s, here)[Len(s) + 1] = here
  BY <1>5, Appending
<1>8. h.time # 0 /\ h.time <= recorded[here].time
  BY <1>1, <1>a DEF WatchHolds, Exec
<1>9. /\ \A k \in 1..Len(s) : s[k] \in 1..Len(recorded) /\ s[k] <= here
      /\ HashIsRight(c)
  BY <1>1, <1>a, CountedAreRecorded DEF HashesAreRight
<1>10. IsHash(h) /\ Covering(c, h, lastSent[c] + 1, recorded, raced) /\ lastSent[c] <= Len(s)
  BY <1>9 DEF HashIsRight, Covers
<1> HIDE DEF h, s, new
<1>11. InOrder(new.events)
  BY <1>5, <1>6, <1>9, <1>10, InOrderGrows DEF IsHash, s
<1>12. IsHash(new)
  <2>1. new.events # <<>> /\ new.events[Len(new.events)] = here
    BY <1>5, <1>6, <1>7
  <2>2. new.tmin \in 1..here
    <3>1. CASE s = <<>>
      <4>1. h.tmin = 0
        BY <1>10, <3>1 DEF IsHash, s
      <4> QED  BY <1>1, <1>6, <4>1
    <3>2. CASE s # <<>>
      <4>1. h.tmin \in 1..h.tmax /\ h.tmax = s[Len(s)]
        BY <1>10, <3>2 DEF IsHash, s
      <4>2. Len(s) \in 1..Len(s)
        BY <1>5, <3>2
      <4>3. h.tmax <= here
        BY <1>9, <4>1, <4>2
      <4> QED  BY <1>5, <1>6, <4>1, <4>3
    <3> QED  BY <3>1, <3>2
  <2> QED  BY <1>6, <1>11, <2>1, <2>2 DEF IsHash
<1>13. Covering(c, new, lastSent[c] + 1, recorded, raced')
  <2> SUFFICES ASSUME NEW k \in lastSent[c] + 1..Len(s) + 1
               PROVE  LET n == new.events[k]
                      IN  /\ new.tmin <= n
                          /\ <<c, n>> \in raced' \/ (new.time # 0 /\ new.time <= recorded[n].time)
    BY <1>6, <1>7 DEF Covering
  <2>1. CASE k = Len(s) + 1
    <3>1. new.events[k] = here
      BY <1>6, <1>7, <2>1
    <3>2. new.tmin <= here
      BY <1>6, <1>11, <1>12, <3>1, <1>5, <1>7 DEF IsHash
    <3> QED  BY <1>6, <1>8, <3>1, <3>2
  <2>2. CASE k # Len(s) + 1
    <3>1. k \in lastSent[c] + 1..Len(s) /\ k \in 1..Len(s)
      BY <1>5, <2>2
    <3>2. new.events[k] = s[k]
      BY <1>6, <1>7, <3>1
    <3>3. /\ h.tmin <= s[k]
          /\ <<c, s[k]>> \in raced \/ (h.time # 0 /\ h.time <= recorded[s[k]].time)
      BY <1>10, <3>1 DEF Covering, s
    <3>4. h.tmin # 0
      <4>1. s # <<>>
        BY <1>5, <3>1
      <4>2. h.tmin \in 1..h.tmax
        BY <1>10, <4>1 DEF IsHash, s
      <4> QED  BY <1>5, <4>2
    <3> QED  BY <1>2, <1>6, <3>2, <3>3, <3>4
  <2> QED  BY <2>1, <2>2
<1>14. lastSent[c] <= Len(new.events)
  BY <1>5, <1>6, <1>7, <1>10
<1>15. HashIsRight(c)'
  BY <1>1, <1>2, <1>12, <1>13, <1>14 DEF HashIsRight, Covers, new
<1> QED  BY <1>4, <1>15 DEF HashesAreRight

LEMMA CountingKeepsHashes ==
  ASSUME RecorderTypes, NoticesTypes, Counted, HashesAreRight, WatchHolds, Count
  PROVE  HashesAreRight' /\ WatchHolds'
<1>1. RecordedKept
  <2>1. recorded' = recorded
    BY DEF Count, Receive, Watch, ReadTime, SetTime, Retry, Exec, Acknowledge, CounterOnly, recorderVars
  <2> QED  BY <2>1 DEF RecordedKept, RecorderTypes
<1>2. ASSUME UNCHANGED <<hash, lastSent, raced>>
      PROVE  HashesAreRight'
  BY <1>1, <1>2, HashesStayRight
<1>3. CASE Receive
  <2>1. counter'.at \in {"idle", "watch"}
    BY <1>3 DEF Receive, Idle
  <2>2. WatchHolds'
    BY <2>1 DEF WatchHolds, MayExec
  <2>3. UNCHANGED <<hash, lastSent, raced>>
    BY <1>3 DEF Receive, CounterOnly
  <2> QED  BY <1>2, <2>2, <2>3
<1>4. CASE Watch
  <2>1. counter'.at = "read time"
    BY <1>4 DEF Watch, NoticesTypes
  <2> QED  BY <1>2, <1>4, <2>1 DEF Watch, CounterOnly, WatchHolds, MayExec
<1>5. CASE ReadTime
  BY <1>2, <1>5, ReadTimeWatches DEF ReadTime, CounterOnly
<1>6. CASE SetTime
  BY <1>6, SetTimeKeepsHashes
<1>7. CASE Retry
  <2>1. counter'.at = "watch"
    BY <1>7 DEF Retry, NoticesTypes
  <2> QED  BY <1>2, <1>7, <2>1 DEF Retry, CounterOnly, WatchHolds, MayExec
<1>8. CASE Exec
  <2>1. counter'.at \in {"watch", "ack"}
    BY <1>8 DEF Exec, Idle
  <2> QED  BY <1>8, <2>1, ExecKeepsHashes DEF WatchHolds, MayExec
<1>9. CASE Acknowledge
  BY <1>2, <1>9 DEF Acknowledge, CounterOnly, Idle, WatchHolds, MayExec
<1> QED  BY <1>3, <1>4, <1>5, <1>6, <1>7, <1>8, <1>9 DEF Count

(* While neither the hashes nor the counter change. *)
LEMMA WatchGoesOn ==
  ASSUME NoticesTypes, WatchHolds, RecordedKept, UNCHANGED <<hash, counter, consumed>>
  PROVE  WatchHolds'
<1>1. CASE counter.at \in Working
  <2>1. consumed \in 0..Len(recorded) /\ Len(recorded) \in Nat /\ consumed < Len(recorded)
    BY <1>1 DEF NoticesTypes, RecordedKept, Working
  <2>2. consumed + 1 \in 1..Len(recorded)
    BY <2>1
  <2>3. Event' = Event
    BY <2>2 DEF RecordedKept, Event
  <2> QED  BY <2>3 DEF WatchHolds, MayExec
<1>2. CASE counter.at \notin Working
  BY <1>2 DEF WatchHolds, MayExec, Working
<1> QED  BY <1>1, <1>2

-----------------------------------------------------------------------------
(* What has been read for a mail                                           *)

(* SnapshotIsRight, for one client. *)
SnapshotFits(c) ==
  LET s == notifier.snap
  IN  /\ IsHash(s) /\ IsPrefix(s.events, hash[c].events)
      /\ \A k \in Len(s.events) + 1 .. Len(hash[c].events) : <<c, hash[c].events[k]>> \in raced
      /\ notifier.at \in {"decide", "compare", "send"} => Covers(c, s, lastSent[c] + 1)
      /\ notifier.at \in {"send", "save counter"} => lastSent[c] < Len(s.events)
      /\ notifier.at \in {"save tmin", "save time", "delete time"} =>
           lastSent[c] = Len(s.events) /\ Len(s.events) > 0

LEMMA SnapshotOfOne ==
  ASSUME NoticesTypes, SnapshotIsRight, NEW c \in 1..Clients, c = notifier.client, notifier.at \in Mailing
  PROVE  /\ SnapshotFits(c)
         /\ Len(notifier.snap.events) \in Nat /\ Len(hash[c].events) \in Nat
         /\ Len(notifier.snap.events) <= Len(hash[c].events)
         /\ \A i \in 1..Len(notifier.snap.events) : notifier.snap.events[i] = hash[c].events[i]
<1>1. SnapshotFits(c)
  BY DEF SnapshotIsRight, SnapshotFits
<1>2. Len(notifier.snap.events) \in Nat /\ Len(hash[c].events) \in Nat
  BY TypesOfOne, HashFields
<1> QED  BY <1>1, <1>2 DEF SnapshotFits, IsPrefix

LEMMA MailingIsForSomeone ==
  ASSUME NoticesTypes, notifier.at \in Mailing
  PROVE  notifier.client \in 1..Clients
<1>1. notifier.client # 0
  BY DEF NoticesTypes, Mailing
<1>2. notifier.client \in 0..Clients
  BY DEF NoticesTypes
<1> QED  BY <1>1, <1>2, ClientsAreNumbers

LEMMA SnapshotWasCounted ==
  ASSUME NoticesTypes, Counted, SnapshotIsRight, NEW c \in 1..Clients, c = notifier.client,
         notifier.at \in Mailing, NEW k \in 1..Len(notifier.snap.events)
  PROVE  /\ notifier.snap.events[k] \in 1..Len(recorded)
         /\ k \in 1..Len(hash[c].events) /\ notifier.snap.events[k] = hash[c].events[k]
<1>1. k \in 1..Len(hash[c].events) /\ notifier.snap.events[k] = hash[c].events[k]
  BY SnapshotOfOne
<1> QED  BY <1>1, CountedAreRecorded

LEMMA SnapshotAfterwards ==
  ASSUME notifier'.at \in Mailing => notifier'.client \in 1..Clients,
         \A c \in 1..Clients : (c = notifier'.client /\ notifier'.at \in Mailing) => SnapshotFits(c)'
  PROVE  SnapshotIsRight'
<1>1. CASE notifier'.at \in Mailing
  <2>1. PICK c \in 1..Clients : c = notifier'.client
    BY <1>1
  <2>2. SnapshotFits(c)'
    BY <1>1, <2>1
  <2> QED  BY <2>1, <2>2 DEF SnapshotFits, SnapshotIsRight
<1>2. CASE notifier'.at \notin Mailing
  BY <1>2 DEF SnapshotIsRight, Mailing
<1> QED  BY <1>1, <1>2

(* Whatever the recorder and the counter do meanwhile: what is counted in  *)
(* the hash that is being mailed is noted as raced.                        *)
LEMMA SnapshotStaysRight ==
  ASSUME NoticesTypes, Counted, SnapshotIsRight, RecordedKept, raced \subseteq raced',
         UNCHANGED <<notifier, lastSent>>, EventsKept
  PROVE  SnapshotIsRight'
<1> SUFFICES ASSUME NEW c \in 1..Clients, c = notifier.client, notifier.at \in Mailing
             PROVE  SnapshotFits(c)'
  BY MailingIsForSomeone, SnapshotAfterwards
<1>1. SnapshotFits(c)
  BY SnapshotOfOne
<1>2. hash'[c].events = hash[c].events
  BY DEF EventsKept
<1>3. ASSUME Covers(c, notifier.snap, lastSent[c] + 1)
      PROVE  Covers(c, notifier.snap, lastSent[c] + 1)'
  <2>1. notifier.snap \in HashType /\ lastSent[c] + 1 \in Nat \ {0}
    BY TypesOfOne
  <2>2. \A k \in 1..Len(notifier.snap.events) : notifier.snap.events[k] \in 1..Len(recorded)
    BY SnapshotWasCounted
  <2>3. \A n \in 1..Len(recorded) : recorded'[n] = recorded[n]
    BY DEF RecordedKept
  <2>4. Covering(c, notifier.snap, lastSent[c] + 1, recorded, raced)
    BY <1>3 DEF Covers
  <2>5. Covering(c, notifier.snap, lastSent[c] + 1, recorded', raced')
    BY <2>1, <2>2, <2>3, <2>4, CoveringStays
  <2> QED  BY <2>5 DEF Covers
<1> QED  BY <1>1, <1>2, <1>3 DEF SnapshotFits

LEMMA ExecKeepsSnapshot ==
  ASSUME RecorderTypes, NoticesTypes, Counted, SnapshotIsRight, Exec
  PROVE  SnapshotIsRight'
<1>a. PICK d, here : d = counter.client /\ here = consumed + 1
  OBVIOUS
<1>1. /\ ExecChanges /\ d \in 1..Clients /\ here \in 1..Len(recorded) /\ here \in Nat
      /\ recorded' = recorded
  BY <1>a, ExecEffect
<1>2. /\ notifier' = notifier /\ lastSent' = lastSent /\ raced \subseteq raced'
      /\ raced' = IF IsBeingMailed(d) THEN raced \cup {<<d, here>>} ELSE raced
  BY <1>a DEF Exec, CounterOnly
<1> SUFFICES ASSUME NEW c \in 1..Clients, c = notifier.client, notifier.at \in Mailing
             PROVE  SnapshotFits(c)'
  BY <1>2, MailingIsForSomeone, SnapshotAfterwards
<1> DEFINE s == notifier.snap
<1>3. /\ SnapshotFits(c) /\ Len(s.events) \in Nat /\ Len(hash[c].events) \in Nat
      /\ Len(s.events) <= Len(hash[c].events)
      /\ \A i \in 1..Len(s.events) : s.events[i] = hash[c].events[i]
  BY SnapshotOfOne
<1>4. ASSUME Covers(c, s, lastSent[c] + 1)
      PROVE  Covers(c, s, lastSent[c] + 1)'
  <2>1. s \in HashType /\ lastSent[c] + 1 \in Nat \ {0}
    BY TypesOfOne
  <2>2. \A k \in 1..Len(s.events) : s.events[k] \in 1..Len(recorded)
    BY SnapshotWasCounted
  <2>3. Covering(c, s, lastSent[c] + 1, recorded, raced)
    BY <1>4 DEF Covers
  <2>4. Covering(c, s, lastSent[c] + 1, recorded', raced')
    BY <1>1, <1>2, <2>1, <2>2, <2>3, CoveringStays
  <2> QED  BY <1>2, <2>4 DEF Covers
<1>5. CASE c # d
  <2>1. hash'[c] = hash[c]
    BY <1>1, <1>5, <1>a DEF ExecChanges
  <2> QED  BY <1>2, <1>3, <1>4, <2>1 DEF SnapshotFits
<1>6. CASE c = d
  <2> DEFINE e == hash[c].events
  <2>1. e \in Seq(Nat) /\ hash'[c].events = Append(e, here)
    <3>1. e \in Seq(Nat)
      BY TypesOfOne, HashFields
    <3>2. hash'[c].events = Append(e, here)
      BY <1>1, <1>6, <1>a DEF ExecChanges
    <3> QED  BY <3>1, <3>2
  <2>2. /\ Len(hash'[c].events) = Len(e) + 1
        /\ \A i \in 1..Len(e) : hash'[c].events[i] = e[i]
        /\ hash'[c].events[Len(e) + 1] = here
    BY <1>1, <2>1, Appending
  <2>3. IsPrefix(s.events, hash'[c].events)
    BY <1>3, <2>2 DEF IsPrefix
  <2>4. ASSUME NEW k \in Len(s.events) + 1..Len(e) + 1
        PROVE  <<c, hash'[c].events[k]>> \in raced'
    <3>1. CASE k = Len(e) + 1
      <4>1. IsBeingMailed(d)
        BY <1>6 DEF IsBeingMailed, Mailing
      <4> QED  BY <1>2, <1>6, <2>2, <3>1, <4>1
    <3>2. CASE k # Len(e) + 1
      <4>1. k \in Len(s.events) + 1..Len(e) /\ k \in 1..Len(e)
        BY <1>3, <3>2
      <4>2. <<c, e[k]>> \in raced
        BY <1>3, <4>1 DEF SnapshotFits
      <4> QED  BY <1>2, <2>2, <4>1, <4>2
    <3> QED  BY <3>1, <3>2
  <2> HIDE DEF e
  <2>5. IsPrefix(s.events, hash[c].events)' /\ IsHash(s)'
    BY <1>2, <1>3, <2>3 DEF IsPrefix, SnapshotFits, IsHash, InOrder
  <2> QED  BY <1>2, <1>3, <1>4, <2>2, <2>4, <2>5 DEF SnapshotFits
<1> QED  BY <1>5, <1>6

LEMMA CountingKeepsSnapshot ==
  ASSUME RecorderTypes, NoticesTypes, Counted, SnapshotIsRight, Count
  PROVE  SnapshotIsRight'
<1>1. CASE Exec
  BY <1>1, ExecKeepsSnapshot
<1>2. CASE ~Exec
  <2>1. /\ recorded' = recorded /\ raced' = raced /\ UNCHANGED <<notifier, lastSent>>
        /\ SetTime \/ hash' = hash
    BY <1>2 DEF Count, Receive, Watch, ReadTime, SetTime, Retry, Acknowledge, CounterOnly, recorderVars
  <2>2. EventsKept
    <3>1. CASE SetTime
      BY <3>1 DEF SetTime, EventsKept, NoticesTypes, HashType
    <3> QED  BY <2>1, <3>1 DEF EventsKept
  <2>3. RecordedKept
    BY <2>1 DEF RecordedKept, RecorderTypes
  <2> QED  BY <2>1, <2>2, <2>3, SnapshotStaysRight
<1> QED  BY <1>1, <1>2

-----------------------------------------------------------------------------
(* What the notifier does, but for the mails                               *)

Notifies == Tick \/ Notify \/ BreakOff

(* What SaveTMin and DeleteTime change, for the client of the notifier. *)
LEMMA NotifierEffect ==
  ASSUME RecorderTypes, NoticesTypes, Notifies
  PROVE  /\ recorded' = recorded /\ raced' = raced /\ consumed' = consumed /\ Event' = Event /\ RecordedKept
         /\ SaveTMin \/ DeleteTime \/ (hash' = hash /\ counter' = counter)
         /\ SaveCounter \/ lastSent' = lastSent
<1>1. /\ recorded' = recorded /\ raced' = raced /\ consumed' = consumed
      /\ SaveTMin \/ DeleteTime \/ (hash' = hash /\ counter' = counter)
      /\ SaveCounter \/ lastSent' = lastSent
  BY DEF Notifies, Tick, Notify, StartRun, Snapshot, Decide, Compare, Send, SaveCounter, SaveTMin, SaveTime,
         DeleteTime, BreakOff, NotifierOnly, recorderVars, redisVars
<1>2. RecordedKept /\ Event' = Event
  BY <1>1 DEF RecordedKept, RecorderTypes, Event
<1> QED  BY <1>1, <1>2

LEMMA OrderAndLast ==
  ASSUME NEW s \in Seq(Nat), InOrder(s), NEW i \in 1..Len(s), NEW j \in i..Len(s)
  PROVE  s[i] <= s[j]
BY DEF InOrder

LEMMA NotifierKeepsHashes ==
  ASSUME RecorderTypes, NoticesTypes, Counted, HashesAreRight, SnapshotIsRight, Notifies
  PROVE  HashesAreRight'
<1>1. /\ recorded' = recorded /\ raced' = raced /\ RecordedKept
      /\ SaveTMin \/ DeleteTime \/ hash' = hash
      /\ SaveCounter \/ lastSent' = lastSent
  BY NotifierEffect
<1>2. ASSUME hash' = hash, lastSent' = lastSent
      PROVE  HashesAreRight'
  BY <1>1, <1>2, HashesStayRight
<1>3. ASSUME NEW d \in 1..Clients, hash'[d] = hash[d], lastSent'[d] = lastSent[d]
      PROVE  HashIsRight(d)'
  BY <1>1, <1>3, HashStaysRight DEF HashesAreRight
<1>4. ASSUME NEW c \in 1..Clients, c = notifier.client, notifier.at \in Mailing
      PROVE  /\ hash[c] \in HashType /\ HashIsRight(c) /\ SnapshotFits(c)
             /\ Len(notifier.snap.events) \in Nat /\ Len(hash[c].events) \in Nat
             /\ Len(notifier.snap.events) <= Len(hash[c].events)
             /\ \A i \in 1..Len(notifier.snap.events) : notifier.snap.events[i] = hash[c].events[i]
  BY <1>4, SnapshotOfOne, TypesOfOne DEF HashesAreRight
<1>5. CASE SaveCounter
  <2>1. notifier.at \in Mailing /\ notifier.at = "save counter"
    BY <1>5 DEF SaveCounter, Mailing
  <2>2. PICK c \in 1..Clients : c = notifier.client
    BY <2>1, MailingIsForSomeone
  <2>3. /\ hash' = hash /\ lastSent'[c] = Len(notifier.snap.events)
        /\ \A d \in 1..Clients : d # c => lastSent'[d] = lastSent[d]
    BY <1>5, <2>2 DEF SaveCounter, NoticesTypes
  <2>4. lastSent[c] < Len(notifier.snap.events) /\ lastSent[c] \in Nat
    BY <1>4, <2>1, <2>2, TypesOfOne DEF SnapshotFits
  <2>5. Covering(c, hash[c], lastSent[c] + 1, recorded, raced)
    BY <1>4, <2>1, <2>2 DEF HashIsRight, Covers
  <2>6. \A k \in 1..Len(hash[c].events) : hash[c].events[k] \in 1..Len(recorded)
    BY CountedAreRecorded
  <2>7. Covering(c, hash[c], lastSent'[c] + 1, recorded, raced)
    <3>1. /\ lastSent[c] + 1 \in Nat \ {0} /\ lastSent'[c] + 1 \in Nat /\ lastSent[c] + 1 <= lastSent'[c] + 1
          /\ hash[c] \in HashType
      <4>1. Len(notifier.snap.events) \in Nat /\ hash[c] \in HashType
        BY <1>4, <2>1, <2>2
      <4> QED  BY <2>3, <2>4, <4>1
    <3> QED  BY <2>5, <2>6, <3>1, CoveringStays
  <2>8. lastSent'[c] <= Len(hash[c].events)
    BY <1>4, <2>1, <2>2, <2>3
  <2>9. HashIsRight(c)'
    BY <1>1, <1>4, <2>1, <2>2, <2>3, <2>7, <2>8 DEF HashIsRight, Covers
  <2> QED  BY <1>3, <2>3, <2>9 DEF HashesAreRight
<1>6. CASE SaveTMin
  <2>1. notifier.at \in Mailing /\ notifier.at = "save tmin" /\ lastSent' = lastSent
    BY <1>6 DEF SaveTMin, Mailing
  <2>2. PICK c \in 1..Clients : c = notifier.client
    BY <2>1, MailingIsForSomeone
  <2> DEFINE s == notifier.snap
             h == hash[c]
             n == Len(s.events)
  <2>3. /\ h \in HashType /\ HashIsRight(c) /\ SnapshotFits(c)
        /\ n \in Nat /\ Len(h.events) \in Nat /\ n <= Len(h.events)
        /\ \A i \in 1..n : s.events[i] = h.events[i]
        /\ lastSent[c] = n /\ n > 0
    BY <1>4, <2>1, <2>2 DEF SnapshotFits
  <2>4. hash' = [hash EXCEPT ![notifier.client].tmin = s.tmax] /\ hash \in [1..Clients -> HashType]
    BY <1>6 DEF SaveTMin, NoticesTypes
  <2>5. /\ \A d \in 1..Clients : d # c => hash'[d] = hash[d]
        /\ hash'[c].events = h.events /\ hash'[c].tmax = h.tmax /\ hash'[c].time = h.time
        /\ hash'[c].tmin = s.tmax
    BY <2>2, <2>4 DEF HashType
  <2> HIDE DEF s, h, n
  <2>6. IsHash(s) /\ s \in HashType
    BY <2>2, <2>3, TypesOfOne DEF SnapshotFits, s
  <2>7. s.tmin \in 1..s.tmax /\ s.tmax = s.events[n] /\ s.tmin \in Nat /\ s.tmax \in Nat
    <3>1. s.events # <<>>
      BY <2>3 DEF n
    <3> QED  BY <2>6, <3>1, HashFields DEF IsHash, n
  <2>8. s.tmax = h.events[n] /\ n \in 1..Len(h.events) /\ s.tmax # 0
    BY <2>3, <2>7
  <2>9. IsHash(h) /\ h.events # <<>> /\ h.events \in Seq(Nat) /\ h.tmax \in Nat
    BY <2>2, <2>3, <2>8, HashFields DEF HashIsRight, h
  <2>10. \A k \in n..Len(h.events) : s.tmax <= h.events[k]
    BY <2>8, <2>9 DEF IsHash, InOrder
  <2>11. h.tmax = h.events[Len(h.events)]
    BY <2>9 DEF IsHash
  <2>12. s.tmax \in 1..h.tmax
    <3>1. Len(h.events) \in n..Len(h.events)
      BY <2>3
    <3>2. s.tmax <= h.tmax
      BY <2>10, <2>11, <3>1
    <3> QED  BY <2>7, <2>8, <2>9, <3>2
  <2>13. IsHash(hash'[c])
    BY <2>5, <2>9, <2>12 DEF IsHash
  <2>14. Covering(c, h, n + 1, recorded, raced)
    BY <2>2, <2>3 DEF HashIsRight, Covers, h
  <2>15. Covering(c, hash'[c], n + 1, recorded, raced)
    <3>1. \A k \in n + 1..Len(h.events) : k \in n..Len(h.events)
      BY <2>3
    <3> QED  BY <2>5, <2>10, <2>14, <3>1 DEF Covering
  <2>16. HashIsRight(c)'
    BY <1>1, <2>1, <2>2, <2>3, <2>5, <2>13, <2>15 DEF HashIsRight, Covers
  <2> QED  BY <1>3, <2>1, <2>5, <2>16 DEF HashesAreRight
<1>7. CASE DeleteTime
  <2>1. notifier.at \in Mailing /\ notifier.at = "delete time" /\ lastSent' = lastSent
    BY <1>7 DEF DeleteTime, Mailing
  <2>2. PICK c \in 1..Clients : c = notifier.client
    BY <2>1, MailingIsForSomeone
  <2> DEFINE s == notifier.snap
             h == hash[c]
             n == Len(s.events)
  <2>3. /\ h \in HashType /\ HashIsRight(c) /\ SnapshotFits(c)
        /\ n \in Nat /\ Len(h.events) \in Nat /\ n <= Len(h.events)
        /\ lastSent[c] = n /\ n > 0
    BY <1>4, <2>1, <2>2 DEF SnapshotFits
  <2>4. hash' = [hash EXCEPT ![notifier.client].time = 0] /\ hash \in [1..Clients -> HashType]
    BY <1>7 DEF DeleteTime, NoticesTypes
  <2>5. /\ \A d \in 1..Clients : d # c => hash'[d] = hash[d]
        /\ hash'[c].events = h.events /\ hash'[c].tmax = h.tmax /\ hash'[c].tmin = h.tmin
    BY <2>2, <2>4 DEF HashType
  <2>6. \A k \in n + 1..Len(h.events) : <<c, h.events[k]>> \in raced
    BY <2>2, <2>3 DEF SnapshotFits
  <2> HIDE DEF s, h, n
  <2>7. IsHash(h) /\ Covering(c, h, n + 1, recorded, raced)
    BY <2>2, <2>3 DEF HashIsRight, Covers, h
  <2>8. IsHash(hash'[c]) /\ Covering(c, hash'[c], n + 1, recorded, raced)
    BY <2>5, <2>6, <2>7 DEF IsHash, Covering
  <2>9. HashIsRight(c)'
    BY <1>1, <2>1, <2>2, <2>3, <2>5, <2>8 DEF HashIsRight, Covers
  <2> QED  BY <1>3, <2>1, <2>5, <2>9 DEF HashesAreRight
<1> QED  BY <1>1, <1>2, <1>5, <1>6, <1>7

LEMMA NotifierKeepsWatch ==
  ASSUME RecorderTypes, NoticesTypes, WatchHolds, Notifies
  PROVE  WatchHolds'
<1>1. /\ Event' = Event /\ consumed' = consumed /\ RecordedKept
      /\ SaveTMin \/ DeleteTime \/ (hash' = hash /\ counter' = counter)
  BY NotifierEffect
<1>2. CASE hash' = hash /\ counter' = counter
  BY <1>1, <1>2, WatchGoesOn
<1>3. CASE SaveTMin \/ DeleteTime
  <2>1. PICK c : c = notifier.client
    OBVIOUS
  <2>2. counter' = Touch(counter, c) /\ c \in 1..Clients
    <3>1. notifier.at \in Mailing
      BY <1>3 DEF SaveTMin, DeleteTime, Mailing
    <3> QED  BY <1>3, <2>1, <3>1, MailingIsForSomeone DEF SaveTMin, DeleteTime
  <2>3. \A d \in 1..Clients : /\ d # c => hash'[d] = hash[d]
                              /\ hash'[d].time = hash[d].time \/ hash'[d].time = 0
    <3>1. hash \in [1..Clients -> HashType]
      BY DEF NoticesTypes
    <3>2. CASE SaveTMin
      <4>1. hash' = [hash EXCEPT ![c].tmin = notifier.snap.tmax]
        BY <2>1, <3>2 DEF SaveTMin
      <4> QED  BY <2>2, <3>1, <4>1 DEF HashType
    <3>3. CASE DeleteTime
      <4>1. hash' = [hash EXCEPT ![c].time = 0]
        BY <2>1, <3>3 DEF DeleteTime
      <4> QED  BY <2>2, <3>1, <4>1 DEF HashType
    <3> QED  BY <1>3, <3>2, <3>3
  <2>4. CASE counter.at \notin Working
    <3>1. counter'.at = counter.at
      BY <2>2 DEF Touch, NoticesTypes
    <3> QED  BY <2>4, <3>1 DEF WatchHolds, MayExec, Working
  <2>5. CASE counter.at \in Working
    <3>1. counter.at # "idle" /\ consumed < Len(recorded) /\ counter.client \in Event.clients
      BY <2>5 DEF NoticesTypes, Working
    <3>2. counter.client \in 1..Clients
      BY <3>1, EventIsRecorded
    <3>3. CASE counter.client = c
      <4>1. counter'.at = counter.at /\ counter'.client = c /\ counter'.dirty = TRUE
        BY <2>2, <3>1, <3>3 DEF Touch, NoticesTypes
      <4>2. hash'[c].time = hash[c].time \/ hash'[c].time = 0
        BY <2>2, <2>3
      <4> QED  BY <1>1, <3>3, <4>1, <4>2 DEF WatchHolds, MayExec
    <3>4. CASE counter.client # c
      <4>1. counter' = counter /\ hash'[counter.client] = hash[counter.client]
        BY <2>2, <2>3, <3>2, <3>4 DEF Touch
      <4> QED  BY <1>1, <4>1 DEF WatchHolds, MayExec
    <3> QED  BY <3>3, <3>4
  <2> QED  BY <2>4, <2>5
<1> QED  BY <1>1, <1>2, <1>3

LEMMA AfterIsNotMailing == \A c : After(c).at \notin Mailing
BY DEF After, Resting, Mailing

(* From one step of what is done for a mail to the next one. *)
LEMMA GoesTo ==
  ASSUME NoticesTypes, NEW at, notifier' = [notifier EXCEPT !.at = at]
  PROVE  notifier'.at = at /\ notifier'.client = notifier.client /\ notifier'.snap = notifier.snap
BY DEF NoticesTypes

LEMMA GoingOn ==
  ASSUME RecorderTypes, NoticesTypes, Counted, SnapshotIsRight, notifier.at \in Mailing,
         EventsKept, UNCHANGED <<recorded, raced>>,
         notifier'.client = notifier.client, notifier'.snap = notifier.snap,
         NEW c \in 1..Clients, c = notifier.client,
         notifier'.at \in {"decide", "compare", "send"} =>
           /\ notifier.at \in {"decide", "compare"}
           /\ lastSent'[c] = lastSent[c],
         notifier'.at \in {"send", "save counter"} => lastSent'[c] < Len(notifier.snap.events),
         notifier'.at \in {"save tmin", "save time", "delete time"} =>
            lastSent'[c] = Len(notifier.snap.events) /\ Len(notifier.snap.events) > 0
  PROVE  SnapshotIsRight'
<1>1. SnapshotFits(c) /\ hash'[c].events = hash[c].events
  BY SnapshotOfOne DEF EventsKept
<1>2. notifier'.at \in {"decide", "compare", "send"} => Covers(c, notifier.snap, lastSent[c] + 1)'
  BY <1>1 DEF SnapshotFits, Covers
<1>3. SnapshotFits(c)'
  BY <1>1, <1>2 DEF SnapshotFits
<1> QED  BY <1>3, SnapshotAfterwards

LEMMA NotifierKeepsSnapshot ==
  ASSUME RecorderTypes, NoticesTypes, Counted, HashesAreRight, SnapshotIsRight, Notifies
  PROVE  SnapshotIsRight'
<1>1. /\ recorded' = recorded /\ raced' = raced /\ RecordedKept
      /\ SaveTMin \/ DeleteTime \/ hash' = hash
      /\ SaveCounter \/ lastSent' = lastSent
  BY NotifierEffect
<1>2. EventsKept
  <2>1. hash \in [1..Clients -> HashType]
    BY DEF NoticesTypes
  <2>2. CASE SaveTMin
    BY <2>1, <2>2 DEF EventsKept, SaveTMin, HashType
  <2>3. CASE DeleteTime
    BY <2>1, <2>3 DEF EventsKept, DeleteTime, HashType
  <2> QED  BY <1>1, <2>2, <2>3 DEF EventsKept
<1>3. ASSUME notifier'.at \notin Mailing
      PROVE  SnapshotIsRight'
  BY <1>3, SnapshotAfterwards
<1>4. ASSUME NEW c, notifier' = After(c)
      PROVE  SnapshotIsRight'
  BY <1>3, <1>4, AfterIsNotMailing
<1>5. CASE Tick
  BY <1>1, <1>2, <1>5, SnapshotStaysRight DEF Tick, redisVars
<1>6. CASE StartRun
  BY <1>3, <1>6 DEF StartRun, Resting, Mailing
<1>7. CASE Snapshot
  <2>1. notifier.client \in 1..Clients
    <3>1. notifier.client # 0 /\ notifier.client \in 0..Clients
      BY <1>7 DEF Snapshot, NoticesTypes
    <3> QED  BY <3>1, ClientsAreNumbers
  <2>2. PICK c \in 1..Clients : c = notifier.client
    BY <2>1
  <2>3. CASE IsEmpty(hash[c])
    BY <1>4, <1>7, <2>2, <2>3 DEF Snapshot
  <2>4. CASE ~IsEmpty(hash[c])
    <3>1. notifier' = [notifier EXCEPT !.at = "decide", !.snap = hash[c], !.stamp = now]
      BY <1>7, <2>2, <2>4 DEF Snapshot
    <3>2. notifier'.at = "decide" /\ notifier'.snap = hash[c] /\ notifier'.client = c
      BY <2>2, <3>1 DEF NoticesTypes
    <3>3. hash' = hash /\ lastSent' = lastSent
      BY <1>7 DEF Snapshot, redisVars
    <3>4. HashIsRight(c) /\ Len(hash[c].events) \in Nat
      BY TypesOfOne, HashFields DEF HashesAreRight
    <3>5. IsHash(hash[c]) /\ Covers(c, hash[c], lastSent[c] + 1)
      BY <3>4 DEF HashIsRight
    <3>6. IsPrefix(hash[c].events, hash[c].events) /\ Len(hash[c].events) + 1..Len(hash[c].events) = {}
      BY <3>4 DEF IsPrefix
    <3>7. /\ IsHash(notifier'.snap) /\ IsPrefix(notifier'.snap.events, hash'[c].events)
          /\ Len(notifier'.snap.events) + 1..Len(hash'[c].events) = {}
      BY <3>2, <3>3, <3>5, <3>6
    <3>8. Covers(c, notifier.snap, lastSent[c] + 1)'
      BY <1>1, <3>2, <3>3, <3>5 DEF Covers
    <3>9. SnapshotFits(c)'
      BY <3>2, <3>7, <3>8 DEF SnapshotFits
    <3> QED  BY <3>2, <3>9, SnapshotAfterwards
  <2> QED  BY <2>3, <2>4
<1>8. ASSUME notifier.at \in Mailing
      PROVE  \E c \in 1..Clients : c = notifier.client
  BY <1>8, MailingIsForSomeone
<1>9. CASE Decide
  <2>1. notifier.at = "decide" /\ notifier.at \in Mailing /\ lastSent' = lastSent
    BY <1>9 DEF Decide, Mailing
  <2>2. PICK c \in 1..Clients : c = notifier.client
    BY <1>8, <2>1
  <2>3. notifier' = After(c) \/ Goto("compare")
    BY <1>9, <2>2 DEF Decide
  <2>4. CASE Goto("compare")
    <3>1. notifier'.at = "compare" /\ notifier'.client = c /\ notifier'.snap = notifier.snap
      BY <2>2, <2>4, GoesTo DEF Goto
    <3> QED  BY <1>1, <1>2, <2>1, <2>2, <3>1, GoingOn
  <2> QED  BY <1>4, <2>3, <2>4
<1>10. CASE Compare
  <2>1. notifier.at = "compare" /\ notifier.at \in Mailing /\ lastSent' = lastSent
    BY <1>10 DEF Compare, Mailing, redisVars
  <2>2. PICK c \in 1..Clients : c = notifier.client
    BY <1>8, <2>1
  <2>3. CASE Len(notifier.snap.events) > lastSent[c]
    <3>1. notifier'.at = "send" /\ notifier'.client = c /\ notifier'.snap = notifier.snap
      BY <1>10, <2>2, <2>3, GoesTo DEF Compare, Goto
    <3>2. lastSent'[c] < Len(notifier.snap.events)
      BY <2>1, <2>2, <2>3, SnapshotOfOne, TypesOfOne
    <3> QED  BY <1>1, <1>2, <2>1, <2>2, <3>1, <3>2, GoingOn
  <2>4. CASE ~(Len(notifier.snap.events) > lastSent[c])
    <3>1. notifier' = After(c)
      BY <1>10, <2>2, <2>4 DEF Compare
    <3> QED  BY <1>4, <3>1
  <2> QED  BY <2>3, <2>4
<1>11. CASE Send
  <2>1. notifier.at = "send" /\ notifier.at \in Mailing /\ lastSent' = lastSent
    BY <1>11 DEF Send, Mailing, redisVars
  <2>2. PICK c \in 1..Clients : c = notifier.client
    BY <1>8, <2>1
  <2>3. CASE notifier.snap.time = 0
    <3>1. notifier' = Resting
      BY <1>11, <2>3 DEF Send
    <3>2. notifier'.at = "resting"
      BY <3>1 DEF Resting
    <3> QED  BY <1>3, <3>2 DEF Mailing
  <2>4. CASE notifier.snap.time # 0
    <3>1. notifier'.at = "save counter" /\ notifier'.client = c /\ notifier'.snap = notifier.snap
      BY <1>11, <2>2, <2>4, GoesTo DEF Send, Goto
    <3>2. lastSent'[c] < Len(notifier.snap.events)
      BY <2>1, <2>2, SnapshotOfOne DEF SnapshotFits
    <3> QED  BY <1>1, <1>2, <2>1, <2>2, <3>1, <3>2, GoingOn
  <2> QED  BY <2>3, <2>4
<1>12. CASE SaveCounter
  <2>1. /\ notifier.at = "save counter" /\ notifier.at \in Mailing
        /\ notifier'.at = "save tmin" /\ notifier'.client = notifier.client /\ notifier'.snap = notifier.snap
    BY <1>12, GoesTo DEF SaveCounter, Goto, Mailing
  <2>2. PICK c \in 1..Clients : c = notifier.client
    BY <1>8, <2>1
  <2>3. lastSent'[c] = Len(notifier.snap.events)
    BY <1>12, <2>2 DEF SaveCounter, NoticesTypes
  <2>4. Len(notifier.snap.events) > 0
    <3>1. lastSent[c] < Len(notifier.snap.events) /\ lastSent[c] \in Nat /\ Len(notifier.snap.events) \in Nat
      BY <2>1, <2>2, SnapshotOfOne, TypesOfOne DEF SnapshotFits
    <3> QED  BY <3>1
  <2> QED  BY <1>1, <1>2, <2>1, <2>2, <2>3, <2>4, GoingOn
<1>13. CASE SaveTMin \/ SaveTime
  <2>1. /\ notifier.at \in {"save tmin", "save time"} /\ notifier.at \in Mailing /\ lastSent' = lastSent
        /\ notifier'.at \in {"save time", "delete time"}
        /\ notifier'.client = notifier.client /\ notifier'.snap = notifier.snap
    BY <1>13, GoesTo DEF SaveTMin, SaveTime, Goto, Mailing
  <2>2. PICK c \in 1..Clients : c = notifier.client
    BY <1>8, <2>1
  <2>3. lastSent'[c] = Len(notifier.snap.events) /\ Len(notifier.snap.events) > 0
    BY <2>1, <2>2, SnapshotOfOne DEF SnapshotFits
  <2> QED  BY <1>1, <1>2, <2>1, <2>2, <2>3, GoingOn
<1>14. CASE DeleteTime
  <2>1. notifier' = After(notifier.client)
    BY <1>14 DEF DeleteTime
  <2>2. notifier'.at \notin Mailing
    BY <2>1, AfterIsNotMailing
  <2> QED  BY <1>3, <2>2
<1>15. CASE BreakOff
  BY <1>3, <1>15 DEF BreakOff, Resting, Mailing
<1> QED  BY <1>5, <1>6, <1>7, <1>9, <1>10, <1>11, <1>12, <1>13, <1>14, <1>15 DEF Notifies, Notify

-----------------------------------------------------------------------------
(* The mails                                                               *)

LEMMA MailFields ==
  ASSUME NEW m \in MailType
  PROVE  /\ m.from \in Nat /\ m.to \in Nat /\ m.afterBreak \in BOOLEAN
         /\ m.events \in Seq(Nat) /\ Len(m.events) \in Nat
BY DEF MailType

LEMMA LastMailedIsNatural ==
  ASSUME NoticesTypes, NEW c \in 1..Clients
  PROVE  LastMailed(c) \in Nat
<1>1. mails[c] \in Seq(MailType)
  BY TypesOfOne
<1>2. CASE mails[c] = <<>>
  BY <1>2 DEF LastMailed
<1>3. CASE mails[c] # <<>>
  <2>1. mails[c][Len(mails[c])] \in MailType
    BY <1>1, <1>3
  <2> QED  BY <1>3, <2>1, MailFields DEF LastMailed
<1> QED  BY <1>2, <1>3

LEMMA MailStaysRight ==
  ASSUME NEW c, NEW m, NEW messages, NEW races, NEW moreMessages, NEW moreRaces,
         Len(messages) \in Nat, Len(moreMessages) \in Nat, Len(messages) <= Len(moreMessages),
         \A n \in 1..Len(messages) : moreMessages[n] = messages[n],
         races \subseteq moreRaces,
         MailIsRight(c, m, messages, races)
  PROVE  MailIsRight(c, m, moreMessages, moreRaces)
<1>1. \A n \in 1..Len(messages) : n \in 1..Len(moreMessages)
  OBVIOUS
<1> QED  BY <1>1 DEF MailIsRight

LEMMA MailsStayRight ==
  ASSUME RecordedKept, raced \subseteq raced', NEW c \in 1..Clients, MailsFit(c), mails'[c] = mails[c]
  PROVE  /\ \A k \in 1..Len(mails'[c]) : MailIsRight(c, mails'[c][k], recorded', raced')
         /\ MailsGoOn(c)' /\ LastMailed(c)' = LastMailed(c)
<1>1. /\ Len(recorded) \in Nat /\ Len(recorded') \in Nat /\ Len(recorded) <= Len(recorded')
      /\ \A n \in 1..Len(recorded) : recorded'[n] = recorded[n]
  BY DEF RecordedKept
<1>2. ASSUME NEW k \in 1..Len(mails[c])
      PROVE  MailIsRight(c, mails[c][k], recorded', raced')
  <2>1. MailIsRight(c, mails[c][k], recorded, raced)
    BY DEF MailsFit
  <2> QED  BY <1>1, <2>1, MailStaysRight
<1>3. MailsGoOn(c)' /\ LastMailed(c)' = LastMailed(c)
  BY DEF MailsFit, MailsGoOn, LastMailed
<1> QED  BY <1>2, <1>3

LEMMA MailsStayFit ==
  ASSUME RecordedKept, raced \subseteq raced', NEW c \in 1..Clients, MailsFit(c),
         mails'[c] = mails[c], lastSent'[c] = lastSent[c], breaks' = breaks,
         IsSaving(c)' <=> IsSaving(c), IsSaving(c) => notifier'.snap = notifier.snap
  PROVE  MailsFit(c)'
<1>1. /\ \A k \in 1..Len(mails'[c]) : MailIsRight(c, mails'[c][k], recorded', raced')
      /\ MailsGoOn(c)' /\ LastMailed(c)' = LastMailed(c)
  BY MailsStayRight
<1>2. /\ lastSent[c] <= LastMailed(c)
      /\ IF IsSaving(c) THEN LastMailed(c) = Len(notifier.snap.events)
         ELSE breaks = 0 => lastSent[c] = LastMailed(c)
  BY DEF MailsFit
<1> QED  BY <1>1, <1>2 DEF MailsFit

LEMMA OthersKeepMails ==
  ASSUME RecordedKept, raced \subseteq raced', MailsAreRight, UNCHANGED <<mails, lastSent, breaks, notifier>>
  PROVE  MailsAreRight'
BY MailsStayFit DEF MailsAreRight, IsSaving

LEMMA NewMail ==
  ASSUME RecorderTypes, NoticesTypes, Counted, SnapshotIsRight, NEW c \in 1..Clients, c = notifier.client,
         notifier.at = "send", notifier.snap.time # 0, NEW m \in MailType,
         m.from = lastSent[c] + 1, m.to = Len(notifier.snap.events), m.events = notifier.snap.events,
         m.tmin = notifier.snap.tmin, m.tmax = notifier.snap.tmax, m.time = notifier.snap.time
  PROVE  MailIsRight(c, m, recorded, raced)
<1> DEFINE s == notifier.snap
<1>1. notifier.at \in Mailing
  BY DEF Mailing
<1>2. /\ s \in HashType /\ IsHash(s) /\ Covering(c, s, lastSent[c] + 1, recorded, raced)
      /\ lastSent[c] < Len(s.events) /\ lastSent[c] \in Nat /\ Len(s.events) \in Nat
      /\ s.time \in Nat /\ s.events \in Seq(Nat)
  <2>1. SnapshotFits(c)
    BY <1>1, SnapshotOfOne
  <2> QED  BY <2>1, TypesOfOne, HashFields DEF SnapshotFits, Covers
<1>3. \A k \in 1..Len(s.events) : s.events[k] \in 1..Len(recorded)
  BY <1>1, SnapshotWasCounted
<1> HIDE DEF s
<1>4. m.from \in 1..m.to /\ m.to <= Len(m.events)
  BY <1>2 DEF s
<1>5. ASSUME NEW i \in m.from..m.to
      PROVE  LET n == m.events[i]
             IN  /\ n \in 1..Len(recorded) /\ m.tmin <= n /\ n <= m.tmax
                 /\ recorded[n].time >= m.time \/ <<c, n>> \in raced
  <2>1. i \in lastSent[c] + 1..Len(s.events) /\ i \in 1..Len(s.events) /\ m.events[i] = s.events[i]
    BY <1>2, <1>5 DEF s
  <2>2. /\ s.tmin <= s.events[i]
        /\ <<c, s.events[i]>> \in raced \/ s.time <= recorded[s.events[i]].time
    BY <1>2, <2>1 DEF Covering
  <2>3. s.events[i] <= s.tmax
    <3>1. s.events # <<>> /\ Len(s.events) \in i..Len(s.events)
      BY <1>2, <2>1
    <3>2. s.tmax = s.events[Len(s.events)] /\ InOrder(s.events)
      BY <1>2, <3>1 DEF IsHash
    <3> QED  BY <2>1, <3>1, <3>2 DEF InOrder
  <2>4. s.events[i] \in 1..Len(recorded) /\ recorded[s.events[i]].time \in Nat
    BY <1>3, <2>1, RecordedMessages
  <2>5. recorded[s.events[i]].time >= s.time \/ <<c, s.events[i]>> \in raced
    BY <1>2, <2>2, <2>4
  <2> QED  BY <2>1, <2>2, <2>3, <2>4, <2>5 DEF s
<1> QED  BY <1>4, <1>5 DEF MailIsRight

LEMMA SendKeepsMails ==
  ASSUME RecorderTypes, NoticesTypes, Counted, SnapshotIsRight, MailsAreRight, Send
  PROVE  MailsAreRight'
<1>1. /\ recorded' = recorded /\ raced' = raced /\ RecordedKept /\ lastSent' = lastSent /\ breaks' = breaks
      /\ notifier.at = "send" /\ notifier.at \in Mailing
  <2>1. recorded' = recorded /\ raced' = raced /\ lastSent' = lastSent /\ breaks' = breaks /\ notifier.at = "send"
    BY DEF Send, NotifierOnly, recorderVars, redisVars
  <2> QED  BY <2>1 DEF RecordedKept, RecorderTypes, Mailing
<1>2. PICK c \in 1..Clients : c = notifier.client
  BY <1>1, MailingIsForSomeone
<1>3. \A d \in 1..Clients : ~IsSaving(d)
  BY <1>1 DEF IsSaving
<1>4. CASE notifier.snap.time = 0
  <2>1. mails' = mails /\ \A d \in 1..Clients : ~IsSaving(d)'
    <3>1. mails' = mails /\ notifier' = Resting
      BY <1>4 DEF Send
    <3>2. notifier'.at = "resting"
      BY <3>1 DEF Resting
    <3> QED  BY <3>1, <3>2 DEF IsSaving
  <2> QED  BY <1>1, <1>3, <2>1, MailsStayFit DEF MailsAreRight
<1>5. CASE notifier.snap.time # 0
  <2>1. notifier'.at = "save counter" /\ notifier'.client = c /\ notifier'.snap = notifier.snap
    BY <1>2, <1>5, GoesTo DEF Send, Goto
  <2> DEFINE s == notifier.snap
             m == [from |-> lastSent[c] + 1, to |-> Len(s.events), afterBreak |-> breaks > 0,
                   tmin |-> s.tmin, tmax |-> s.tmax, time |-> s.time, events |-> s.events]
  <2>2. mails' = [mails EXCEPT ![c] = Append(mails[c], m)] /\ mails \in [1..Clients -> Seq(MailType)]
    BY <1>2, <1>5 DEF Send, NoticesTypes
  <2>3. m \in MailType
    <3>1. s \in HashType /\ lastSent[c] \in Nat /\ breaks \in Nat
      BY <1>2, TypesOfOne DEF NoticesTypes
    <3>2. /\ s.events \in Seq(Nat) /\ Len(s.events) \in Nat /\ s.tmin \in Nat /\ s.tmax \in Nat /\ s.time \in Nat
          /\ lastSent[c] + 1 \in Nat /\ (breaks > 0) \in BOOLEAN
      BY <3>1, HashFields
    <3> QED  BY <3>2 DEF MailType
  <2>4. /\ m.from = lastSent[c] + 1 /\ m.to = Len(s.events) /\ m.events = s.events
        /\ m.tmin = s.tmin /\ m.tmax = s.tmax /\ m.time = s.time /\ (m.afterBreak <=> breaks > 0)
    OBVIOUS
  <2> HIDE DEF m
  <2>5. MailIsRight(c, m, recorded, raced)
    BY <1>1, <1>2, <1>5, <2>3, <2>4, NewMail
  <2> DEFINE old == mails[c]
             new == mails'[c]
  <2>6. old \in Seq(MailType) /\ Len(old) \in Nat /\ new = Append(old, m)
    BY <1>2, <2>2
  <2>7. /\ Len(new) = Len(old) + 1 /\ new[Len(old) + 1] = m
        /\ \A k \in 1..Len(old) : new[k] = old[k]
    BY <2>3, <2>6, Appending
  <2>8. MailsFit(c) /\ \A d \in 1..Clients : d # c => mails'[d] = mails[d]
    BY <2>2 DEF MailsAreRight
  <2> HIDE DEF old, new
  <2>9. LastMailed(c) = IF Len(old) = 0 THEN 0 ELSE old[Len(old)].to
    BY <2>6 DEF LastMailed, old
  <2>10. LastMailed(c)' = Len(s.events)
    <3>1. mails'[c] # <<>> /\ mails'[c][Len(mails'[c])] = m
      BY <2>6, <2>7 DEF new
    <3>2. LastMailed(c)' = mails'[c][Len(mails'[c])].to
      BY <3>1 DEF LastMailed
    <3> QED  BY <2>4, <3>1, <3>2
  <2>11. /\ lastSent[c] \in Nat /\ LastMailed(c) \in Nat /\ lastSent[c] <= LastMailed(c)
         /\ breaks = 0 => lastSent[c] = LastMailed(c)
         /\ breaks \in Nat /\ lastSent[c] < Len(s.events) /\ Len(s.events) \in Nat
    <3>1. /\ lastSent[c] \in Nat /\ LastMailed(c) \in Nat /\ breaks \in Nat
      BY <1>2, LastMailedIsNatural, TypesOfOne DEF NoticesTypes
    <3>2. lastSent[c] < Len(s.events) /\ Len(s.events) \in Nat
      BY <1>1, <1>2, SnapshotOfOne DEF SnapshotFits
    <3> QED  BY <1>2, <1>3, <2>8, <3>1, <3>2 DEF MailsFit
  <2>12. \A k \in 1..Len(new) : k \in 1..Len(old) \/ k = Len(old) + 1
    BY <2>6, <2>7
  <2>13. \A k \in 1..Len(new) : MailIsRight(c, new[k], recorded, raced)
    BY <2>5, <2>7, <2>8, <2>12 DEF MailsFit, old
  <2>14. ASSUME NEW k \in 1..Len(new)
         PROVE  LET next == IF k = 1 THEN 1 ELSE new[k - 1].to + 1
                IN  /\ new[k].from <= next
                    /\ ~new[k].afterBreak => new[k].from = next
    <3>1. CASE k \in 1..Len(old)
      <4>1. k # 1 => k - 1 \in 1..Len(old)
        BY <2>6, <3>1
      <4>2. new[k] = old[k] /\ (k # 1 => new[k - 1] = old[k - 1])
        BY <2>7, <3>1, <4>1
      <4>3. LET next == IF k = 1 THEN 1 ELSE old[k - 1].to + 1
            IN  /\ old[k].from <= next
                /\ ~old[k].afterBreak => old[k].from = next
        BY <2>8, <3>1 DEF MailsFit, MailsGoOn, old
      <4> QED  BY <4>2, <4>3
    <3>2. CASE k = Len(old) + 1
      <4>1. new[k] = m /\ k - 1 = Len(old) /\ (k = 1 <=> Len(old) = 0)
        BY <2>6, <2>7, <3>2
      <4>2. k # 1 => new[k - 1] = old[Len(old)] /\ LastMailed(c) = old[Len(old)].to
        BY <2>6, <2>7, <2>9, <4>1
      <4>3. (IF k = 1 THEN 1 ELSE new[k - 1].to + 1) = LastMailed(c) + 1
        BY <2>9, <4>1, <4>2
      <4>4. lastSent[c] + 1 <= LastMailed(c) + 1 /\ (breaks = 0 => lastSent[c] + 1 = LastMailed(c) + 1)
        BY <2>11
      <4>5. ~m.afterBreak => breaks = 0
        BY <2>4, <2>11
      <4> QED  BY <2>4, <4>1, <4>3, <4>4, <4>5
    <3> QED  BY <2>12, <3>1, <3>2
  <2>15. IsSaving(c)'
    BY <2>1 DEF IsSaving
  <2>16. MailsGoOn(c)'
    BY <2>14 DEF MailsGoOn, new
  <2>17. lastSent'[c] <= LastMailed(c)' /\ LastMailed(c)' = Len(notifier'.snap.events)
    <3>1. lastSent'[c] = lastSent[c] /\ notifier'.snap = s
      BY <1>1, <2>1
    <3>2. lastSent[c] <= Len(s.events)
      BY <2>11
    <3> QED  BY <2>10, <3>1, <3>2
  <2>18. MailsFit(c)'
    BY <1>1, <2>13, <2>15, <2>16, <2>17 DEF MailsFit, new
  <2>19. ASSUME NEW d \in 1..Clients, d # c
         PROVE  MailsFit(d)'
    <3>1. ~IsSaving(d)'
      BY <2>1, <2>19 DEF IsSaving
    <3> QED  BY <1>1, <1>3, <2>8, <2>19, <3>1, MailsStayFit DEF MailsAreRight
  <2> QED  BY <2>18, <2>19 DEF MailsAreRight
<1> QED  BY <1>4, <1>5

LEMMA NotifierKeepsMails ==
  ASSUME RecorderTypes, NoticesTypes, Counted, SnapshotIsRight, MailsAreRight, Notifies
  PROVE  MailsAreRight'
<1>1. /\ recorded' = recorded /\ raced' = raced /\ RecordedKept
      /\ SaveCounter \/ lastSent' = lastSent
  BY NotifierEffect
<1>2. CASE Tick
  BY <1>1, <1>2, OthersKeepMails DEF Tick, NotifierOnly, redisVars
<1>3. CASE Send
  BY <1>3, SendKeepsMails
<1>4. ASSUME UNCHANGED <<mails, lastSent, breaks>>,
             notifier.at # "save counter", notifier'.at # "save counter"
      PROVE  MailsAreRight'
  <2>1. \A d \in 1..Clients : ~IsSaving(d) /\ ~IsSaving(d)'
    BY <1>4 DEF IsSaving
  <2> QED  BY <1>1, <1>4, <2>1, MailsStayFit DEF MailsAreRight
<1>5. \A c : After(c).at # "save counter"
  BY DEF After, Resting
<1>6. CASE StartRun
  <2>1. notifier'.at # "save counter"
    BY <1>6 DEF StartRun, Resting
  <2> QED  BY <1>4, <1>6, <2>1 DEF StartRun, NotifierOnly, redisVars
<1>7. CASE Snapshot
  <2>1. notifier'.at # "save counter"
    BY <1>5, <1>7 DEF Snapshot, NoticesTypes
  <2> QED  BY <1>4, <1>7, <2>1 DEF Snapshot, NotifierOnly, redisVars
<1>8. CASE Decide
  <2>1. notifier'.at # "save counter"
    BY <1>5, <1>8 DEF Decide, Goto, NoticesTypes
  <2> QED  BY <1>4, <1>8, <2>1 DEF Decide, NotifierOnly
<1>9. CASE Compare
  <2>1. notifier'.at # "save counter"
    BY <1>5, <1>9 DEF Compare, Goto, NoticesTypes
  <2> QED  BY <1>4, <1>9, <2>1 DEF Compare, NotifierOnly, redisVars
<1>10. CASE SaveTMin \/ SaveTime
  <2>1. notifier'.at # "save counter" /\ notifier.at # "save counter"
    BY <1>10 DEF SaveTMin, SaveTime, Goto, NoticesTypes
  <2> QED  BY <1>4, <1>10, <2>1 DEF SaveTMin, SaveTime, NotifierOnly
<1>11. CASE DeleteTime
  <2>1. notifier'.at # "save counter" /\ notifier.at # "save counter"
    BY <1>5, <1>11 DEF DeleteTime
  <2> QED  BY <1>4, <1>11, <2>1 DEF DeleteTime, NotifierOnly
<1>12. CASE SaveCounter
  <2>1. notifier.at = "save counter" /\ notifier.at \in Mailing
    BY <1>12 DEF SaveCounter, Mailing
  <2>2. PICK c \in 1..Clients : c = notifier.client
    BY <2>1, MailingIsForSomeone
  <2>3. /\ mails' = mails /\ breaks' = breaks /\ notifier'.at = "save tmin"
        /\ lastSent' = [lastSent EXCEPT ![c] = Len(notifier.snap.events)]
        /\ lastSent \in [1..Clients -> Nat]
    BY <1>12, <2>2, GoesTo DEF SaveCounter, Goto, NotifierOnly, NoticesTypes
  <2>4. \A d \in 1..Clients : ~IsSaving(d)' /\ (d # c => ~IsSaving(d))
    BY <2>2, <2>3 DEF IsSaving
  <2>5. LastMailed(c) = Len(notifier.snap.events) /\ LastMailed(c) \in Nat
    BY <2>1, <2>2, LastMailedIsNatural DEF MailsAreRight, MailsFit, IsSaving
  <2>6. MailsFit(c)'
    <3>1. MailsFit(c)
      BY DEF MailsAreRight
    <3>2. /\ \A k \in 1..Len(mails'[c]) : MailIsRight(c, mails'[c][k], recorded', raced')
          /\ MailsGoOn(c)' /\ LastMailed(c)' = LastMailed(c)
      BY <1>1, <2>3, <3>1, MailsStayRight
    <3>3. lastSent'[c] = LastMailed(c)'
      BY <2>3, <2>5, <3>2
    <3>4. lastSent'[c] <= LastMailed(c)'
      BY <2>5, <3>2, <3>3
    <3> QED  BY <2>4, <3>2, <3>3, <3>4 DEF MailsFit
  <2>7. ASSUME NEW d \in 1..Clients, d # c
        PROVE  MailsFit(d)'
    <3>1. lastSent'[d] = lastSent[d]
      BY <2>3, <2>7
    <3>2. MailsFit(d)
      BY DEF MailsAreRight
    <3> QED  BY <1>1, <2>3, <2>4, <2>7, <3>1, <3>2, MailsStayFit
  <2> QED  BY <2>6, <2>7 DEF MailsAreRight
<1>13. CASE BreakOff
  <2>1. /\ mails' = mails /\ breaks' = breaks + 1 /\ lastSent' = lastSent /\ notifier'.at = "resting"
    BY <1>13 DEF BreakOff, Resting, redisVars
  <2>2. breaks' # 0
    BY <2>1 DEF NoticesTypes
  <2>3. ASSUME NEW c \in 1..Clients
        PROVE  MailsFit(c)'
    <3>1. MailsFit(c)
      BY DEF MailsAreRight
    <3>2. /\ \A k \in 1..Len(mails'[c]) : MailIsRight(c, mails'[c][k], recorded', raced')
          /\ MailsGoOn(c)' /\ LastMailed(c)' = LastMailed(c)
      BY <1>1, <2>1, <3>1, MailsStayRight
    <3>3. ~IsSaving(c)' /\ lastSent[c] <= LastMailed(c)
      BY <2>1, <3>1 DEF IsSaving, MailsFit
    <3> QED  BY <2>1, <2>2, <3>2, <3>3 DEF MailsFit
  <2> QED  BY <2>3 DEF MailsAreRight
<1> QED  BY <1>2, <1>3, <1>6, <1>7, <1>8, <1>9, <1>10, <1>11, <1>12, <1>13 DEF Notifies, Notify

-----------------------------------------------------------------------------
(* Every step keeps the invariant                                          *)

LEMMA StepKeepsNotices ==
  ASSUME NoticesInvariant, [Next]_vars
  PROVE  NoticesInvariant'
<1>1. /\ RecorderInvariant /\ RecorderTypes /\ NoticesTypes /\ Counted /\ CountedOnce
      /\ HashesAreRight /\ WatchHolds /\ SnapshotIsRight /\ MailsAreRight
  BY DEF NoticesInvariant, RecorderInvariant
<1>2. ASSUME UNCHANGED noticesVars, RecordedKept
      PROVE  /\ NoticesTypes' /\ Counted' /\ CountedOnce' /\ HashesAreRight'
             /\ WatchHolds' /\ SnapshotIsRight' /\ MailsAreRight'
  <2>1. /\ UNCHANGED <<hash, lastSent, consumed, counter, notifier, mails, raced, breaks>> /\ EventsKept
    BY <1>2 DEF noticesVars, redisVars, EventsKept
  <2>2. NoticesTypes' /\ Counted' /\ CountedOnce'
    BY <1>1, <1>2, RecorderKeepsTypes, RecorderKeepsCounted
  <2>3. HashesAreRight' /\ WatchHolds'
    BY <1>1, <1>2, <2>1, HashesStayRight, WatchGoesOn
  <2>4. SnapshotIsRight' /\ MailsAreRight'
    BY <1>1, <1>2, <2>1, SnapshotStaysRight, OthersKeepMails
  <2> QED  BY <2>2, <2>3, <2>4
<1>3. ASSUME UNCHANGED recorderVars
      PROVE  RecorderInvariant' /\ RecordedKept
  <2>1. RecorderInvariant'
    BY <1>1, <1>3 DEF recorderVars, RecorderInvariant, RecorderTypes, Frame, EachOnce, NoneMissing, Stored, Message, input,
                      IsRecorded, IdOf, IsToBePublished
  <2>2. RecordedKept
    BY <1>1, <1>3 DEF recorderVars, RecordedKept, RecorderTypes
  <2> QED  BY <2>1, <2>2
<1>4. CASE RecorderNext /\ UNCHANGED noticesVars
  <2>1. RecorderInvariant' /\ RecordedKept
    BY <1>1, <1>4, RecorderStepKeeps, RecordedGrows DEF RecordedKept
  <2> QED  BY <1>2, <1>4, <2>1 DEF NoticesInvariant
<1>5. CASE Count
  <2>1. UNCHANGED <<recorderVars, notifier, lastSent, mails, breaks>> /\ raced \subseteq raced'
    BY <1>5 DEF Count, Receive, Watch, ReadTime, SetTime, Retry, Exec, Acknowledge, CounterOnly
  <2>2. RecorderInvariant' /\ RecordedKept
    BY <1>3, <2>1
  <2>3. NoticesTypes' /\ Counted' /\ CountedOnce'
    BY <1>1, <1>5, CountingKeepsTypes, CountingCounts
  <2>4. HashesAreRight' /\ WatchHolds' /\ SnapshotIsRight'
    BY <1>1, <1>5, CountingKeepsHashes, CountingKeepsSnapshot
  <2>5. MailsAreRight'
    BY <1>1, <2>1, <2>2, OthersKeepMails
  <2> QED  BY <2>2, <2>3, <2>4, <2>5 DEF NoticesInvariant
<1>6. CASE Cut
  <2>1. /\ UNCHANGED <<recorderVars, hash, lastSent, consumed, notifier, mails, raced, breaks>> /\ EventsKept
        /\ counter'.at = "idle"
    BY <1>6 DEF Cut, Idle, redisVars, EventsKept
  <2>2. RecorderInvariant' /\ RecordedKept
    BY <1>3, <2>1
  <2>3. NoticesTypes' /\ Counted' /\ CountedOnce'
    BY <1>1, <1>6, CutKeepsTypes, CuttingKeepsCounted
  <2>4. HashesAreRight' /\ SnapshotIsRight' /\ MailsAreRight'
    BY <1>1, <2>1, <2>2, HashesStayRight, SnapshotStaysRight, OthersKeepMails
  <2>5. WatchHolds'
    BY <2>1 DEF WatchHolds, MayExec
  <2> QED  BY <2>2, <2>3, <2>4, <2>5 DEF NoticesInvariant
<1>7. CASE Notifies
  <2>1. UNCHANGED recorderVars
    BY <1>7 DEF Notifies, Tick, Notify, StartRun, Snapshot, Decide, Compare, Send, SaveCounter, SaveTMin, SaveTime,
                DeleteTime, BreakOff, NotifierOnly
  <2>2. RecorderInvariant'
    BY <1>3, <2>1
  <2>3. NoticesTypes' /\ Counted' /\ CountedOnce'
    BY <1>1, <1>7, NotifyingKeepsTypes, NotifierKeepsCounted DEF Notifies
  <2>4. HashesAreRight' /\ WatchHolds' /\ SnapshotIsRight' /\ MailsAreRight'
    BY <1>1, <1>7, NotifierKeepsHashes, NotifierKeepsWatch, NotifierKeepsSnapshot, NotifierKeepsMails
  <2> QED  BY <2>2, <2>3, <2>4 DEF NoticesInvariant
<1>8. CASE UNCHANGED vars
  <2>1. UNCHANGED recorderVars /\ UNCHANGED noticesVars
    BY <1>8 DEF vars
  <2> QED  BY <1>2, <1>3, <2>1 DEF NoticesInvariant
<1> QED  BY <1>4, <1>5, <1>6, <1>7, <1>8 DEF Next, Notifies

LEMMA NoticesInvariantHolds == Spec => []NoticesInvariant
<1>1. Init => NoticesInvariant
  BY NoticesInitially
<1>2. NoticesInvariant /\ [Next]_vars => NoticesInvariant'
  BY StepKeepsNotices
<1> QED  BY <1>1, <1>2, PTL DEF Spec

-----------------------------------------------------------------------------
(* What the invariant says                                                 *)

LEMMA InvariantOfTheCounter ==
  ASSUME NoticesInvariant
  PROVE  CountedAsRecorded
<1>1. RecorderTypes /\ NoticesTypes /\ Counted /\ CountedOnce
  BY DEF NoticesInvariant, RecorderInvariant
<1> SUFFICES ASSUME NEW c \in 1..Clients, NEW n \in 1..Len(recorded)
             PROVE  /\ Times(c, n) > 0 => c \in recorded[n].clients
                    /\ (n <= consumed /\ c \in recorded[n].clients) => Times(c, n) > 0
                    /\ Times(c, n) <= 1 + cuts
  BY DEF CountedAsRecorded
<1>2. Times(c, n) \in Nat /\ (Times(c, n) > 0 <=> HasCounted(c, n)) /\ consumed \in Nat /\ cuts \in Nat /\ n \in Nat
  BY <1>1, TimesIsNatural DEF NoticesTypes, RecorderTypes
<1>3. HasCounted(c, n) => c \in recorded[n].clients
  BY <1>1 DEF HasCounted, Counted
<1>4. (n <= consumed /\ c \in recorded[n].clients) => HasCounted(c, n)
  BY <1>1, <1>2 DEF Counted
<1>5. Times(c, n) <= 1 + cuts
  <2>1. CASE n \in 1..consumed
    BY <1>1, <2>1 DEF CountedOnce
  <2>2. CASE n = consumed + 1
    <3>1. Times(c, n) <= IF CountedNow(c) THEN 1 + cuts ELSE cuts
      BY <1>1, <2>2 DEF CountedOnce
    <3> QED  BY <1>2, <3>1
  <2>3. CASE n > consumed + 1
    BY <1>1, <1>2, <2>3, NothingCountedAhead
  <2> QED  BY <1>2, <2>1, <2>2, <2>3
<1> QED  BY <1>2, <1>3, <1>4, <1>5

LEMMA InvariantOfTheMails ==
  ASSUME NoticesInvariant
  PROVE  MailsFollowOn
<1>1. NoticesTypes /\ MailsAreRight
  BY DEF NoticesInvariant
<1> SUFFICES ASSUME NEW c \in 1..Clients, NEW k \in 1..Len(mails[c])
             PROVE  LET m == mails[c][k]
                        next == IF k = 1 THEN 1 ELSE mails[c][k - 1].to + 1
                    IN /\ m.from <= next /\ m.from <= m.to
                       /\ ~m.afterBreak => m.from = next
                       /\ \A i \in m.from..m.to :
                            LET n == m.events[i]
                            IN /\ m.tmin <= n /\ n <= m.tmax
                               /\ recorded[n].time >= m.time \/ <<c, n>> \in raced
  BY DEF MailsFollowOn
<1>2. MailIsRight(c, mails[c][k], recorded, raced) /\ MailsGoOn(c)
  BY <1>1 DEF MailsAreRight, MailsFit
<1>3. mails[c][k].from \in Nat /\ mails[c][k].to \in Nat
  <2>1. mails[c][k] \in MailType
    BY <1>1, TypesOfOne
  <2> QED  BY <2>1, MailFields
<1> QED  BY <1>2, <1>3 DEF MailIsRight, MailsGoOn

(* From the database to the mails: an event is published once, counted for *)
(* each of its clients once, and mailed once; what a mail says covers what *)
(* it counts.  This holds for any messages and clients, and however often  *)
(* the recorder, the counter and the notifier are killed, at any point.    *)
THEOREM AlwaysPublishedCountedMailed == Spec => []PublishedCountedMailed
<1>1. NoticesInvariant => PublishedCountedMailed
  BY InvariantOfTheRecorder, InvariantOfTheCounter, InvariantOfTheMails
     DEF NoticesInvariant, PublishedCountedMailed
<1> QED  BY <1>1, NoticesInvariantHolds, PTL

=============================================================================
