-------------------------- MODULE ComparatorProofs --------------------------
(***************************************************************************)
(* Proofs about the comparator, for any lists, any number of deliveries,   *)
(* exits and interrupts: series end properly, and the consumers are told   *)
(* what agrees with the blacklist.                                         *)
(*                                                                         *)
(* Two arguments make up the invariant.  The time of the comparator only   *)
(* grows, so as long as it is that of a list, no other list has changed    *)
(* the blacklist since the first message of that one: nothing accepted of  *)
(* it has been unflagged, and what has been counted of it but not accepted *)
(* has no key.  And an entry keeps the id of the message that has made it, *)
(* whose key it has; so different entries have different ids, and events   *)
(* pending about different entries do not disturb each other.              *)
(***************************************************************************)
EXTENDS Comparator, FiniteSetTheorems, TLAPS

Step == {"down", "broken", "idle", "event", "deleted", "writing", "stop", "stop_writing"}

EventType == {"bl-new", "bl-change", "bl-update", "bl-delist", "bl-expire"}

Entry == [id : Message,
          key : {EventKey(m) : m \in Message}, ips : {Data(m).ips : m \in Message},
          name : {Data(m).name : m \in Message}, expires : {Data(m).expires : m \in Message},
          flag : Series \cup {None}]

File == [time : Nat, blacklist : SUBSET Entry, readable : BOOLEAN]

ComparatorTypes ==
  /\ time \in Nat /\ blacklist \subseteq Entry
  /\ open \in [Series -> SUBSET Nat] /\ count \in [Series -> Nat]
  /\ armed \subseteq Series /\ applied \subseteq Message
  /\ file \in File
  /\ step \in Step
  /\ current \in Message \cup {<<s, 0>> : s \in Series} \cup {Nothing}
  /\ pending \subseteq [type : EventType, entry : Entry, replaces : Message \cup {Nothing}]
  /\ listed \subseteq Entry /\ emitted \subseteq Message
  /\ exits \in Nat /\ interrupts \in Nat

(* What is open. *)
SeriesAreCounted ==
  \A s \in Series : open[s] \subseteq Numbers(s) /\ count[s] = Cardinality(open[s])

OpenSeries == {s \in Series : Open(s)}

ArmedAgree ==
  /\ step \in {"idle", "event"} => armed = OpenSeries
  /\ step \in {"deleted", "writing"} => armed = OpenSeries \ {current[1]}

(* Of a list that is not older than the latest one, every message counted that has
   a key has been accepted; and nothing accepted is of a newer one. *)
CountedAreApplied ==
  /\ \A s \in Series : Lists[s].time >= time =>
       \A n \in open[s] : HasEventKey(<<s, n>>) => <<s, n>> \in applied
  /\ \A m \in applied : Time(m) <= time

AllApplied ==
  (step \in {"deleted", "writing"} /\ current[2] # 0)
    => \A n \in Numbers(current[1]) :
         /\ n \in open[current[1]]
         /\ HasEventKey(<<current[1], n>>) => <<current[1], n>> \in applied

CurrentIsLatest == step = "event" => current \in Message /\ Time(current) = time

(* At rest. *)
DownIsEmpty ==
  step \in {"down", "broken"} =>
    /\ time = 0 /\ blacklist = {} /\ applied = {} /\ armed = {}
    /\ \A s \in Series : open[s] = {} /\ count[s] = 0

NothingPending ==
  step \in {"down", "broken", "idle", "writing"} => pending = {}

SeriesInvariant ==
  /\ SeriesAreCounted /\ ArmedAgree /\ CountedAreApplied /\ AllApplied /\ CurrentIsLatest
  /\ DownIsEmpty /\ NothingPending

(* What is accepted has been counted; so between two messages no series is
   accepted as a whole, since the end of that one would have followed. *)
AppliedAreOpen == \A m \in applied : m[2] \in open[m[1]]

LacksMessage(s) == \E n \in Numbers(s) : <<s, n>> \notin applied

NoneIsLeftWaiting ==
  step \in {"idle", "event", "deleted", "writing"} =>
    \A s \in Series : (step # "idle" /\ s = current[1]) \/ LacksMessage(s)

WaitingInvariant == AppliedAreOpen /\ NoneIsLeftWaiting

(* What is known. *)
HasKey(e, m) == e.key = EventKey(m)

IdsAreTrue(entries) == \A e \in entries : e.key = EventKey(e.id) /\ e.ips = Data(e.id).ips

KeysDiffer(entries) == \A d, e \in entries : d.key = e.key => d = e

KnownIsSound ==
  /\ IdsAreTrue(blacklist) /\ KeysDiffer(blacklist)
  /\ IdsAreTrue(file.blacklist) /\ KeysDiffer(file.blacklist)

AppliedAreFlagged ==
  step \in {"idle", "event", "deleted", "writing"} =>
    \A m \in applied :
      \/ Time(m) # time
      \/ step \in {"deleted", "writing"} /\ m[1] = current[1]
      \/ \E e \in blacklist : HasKey(e, m) /\ e.flag = m[1]

(* The message that has just been processed. *)
IsKnown(m) ==
  \E e \in blacklist : HasKey(e, m) /\ e.ips = Data(m).ips /\ e.expires = Data(m).expires

CurrentIsKnown == step = "event" => IsKnown(current)

KnowledgeInvariant == KnownIsSound /\ AppliedAreFlagged /\ CurrentIsKnown

(* What is told. *)
DelistedAreNotListed ==
  \A event \in pending : event.type = "bl-delist" =>
    \A n \in Numbers(current[1]) :
      HasEventKey(<<current[1], n>>) => EventKey(<<current[1], n>>) # event.entry.key

ToldAreUnflagged == \A e \in listed : e.flag = None

UpToDate ==
  exits = 0 /\ interrupts = 0 =>
    /\ step = "down" => file = NoFile /\ listed = {}
    /\ Up => ConsumersAreUpToDate

WillBeEmitted(id) ==
  \/ id \in emitted
  \/ \E event \in pending : event.type \in {"bl-new", "bl-change"} /\ event.entry.id = id

Emitted ==
  /\ step \in {"stop", "stop_writing"} => interrupts > 0
  /\ interrupts = 0 =>
       /\ \A e \in blacklist : WillBeEmitted(e.id)
       /\ \A e \in file.blacklist : e.id \in emitted
  /\ EmittedEarlier

ConsumersInvariant == DelistedAreNotListed /\ ToldAreUnflagged /\ UpToDate /\ Emitted

ComparatorInvariant ==
  /\ ComparatorTypes /\ SeriesInvariant /\ WaitingInvariant
  /\ KnowledgeInvariant /\ ConsumersInvariant

-----------------------------------------------------------------------------
(* Messages and entries. *)

LEMMA MessageParts ==
  ASSUME NEW m \in Message
  PROVE  /\ m[1] \in Series /\ m[2] \in Numbers(m[1]) /\ m[2] \in Nat \ {0}
         /\ m = <<m[1], m[2]>> /\ Time(m) \in Nat \ {0} /\ m[1] # None
<1>1. PICK s \in Series : m \in {s} \X Numbers(s)
  BY DEF Message
<1>2. m[1] = s /\ m[2] \in Numbers(s) /\ m = <<m[1], m[2]>>
  BY <1>1
<1> QED  BY <1>2, ComparatorAssumption DEF Time, None

LEMMA MessageOf ==
  ASSUME NEW s \in Series, NEW n \in Numbers(s)
  PROVE  <<s, n>> \in Message
<1>1. <<s, n>> \in {s} \X Numbers(s)
  OBVIOUS
<1> QED  BY <1>1 DEF Message

LEMMA BlackListDataIsEntry ==
  ASSUME NEW m \in Message
  PROVE  /\ BlackListData(m) \in Entry
         /\ BlackListData(m).key = EventKey(m) /\ BlackListData(m).ips = Data(m).ips
         /\ BlackListData(m).expires = Data(m).expires
         /\ BlackListData(m).id = m /\ BlackListData(m).flag = m[1]
BY MessageParts DEF BlackListData, Entry

(* What process_event() makes of the entry known. *)
LEMMA Updated ==
  ASSUME NEW m \in Message, NEW old \in Entry,
         NEW updated, updated = [old EXCEPT !.expires = Data(m).expires, !.flag = m[1]]
  PROVE  /\ updated \in Entry
         /\ updated.id = old.id /\ updated.key = old.key /\ updated.ips = old.ips
         /\ updated.name = old.name
         /\ updated.expires = Data(m).expires /\ updated.flag = m[1]
BY MessageParts DEF Entry

(* The outcomes of the comparison of a message with the entry known, if any. *)
IsNew(m, entry, events) ==
  /\ Known(m) = {}
  /\ entry = BlackListData(m)
  /\ events = {Event("bl-new", BlackListData(m), Nothing)}

IsChanged(m, old, entry, events) ==
  /\ old \in Known(m) /\ old.ips # Data(m).ips
  /\ entry = BlackListData(m)
  /\ events = {Event("bl-change", BlackListData(m), old.id)}

IsUpdated(m, old, entry, events) ==
  /\ old \in Known(m) /\ old.ips = Data(m).ips
  /\ entry = [old EXCEPT !.expires = Data(m).expires, !.flag = m[1]]
  /\ \/ old.expires # Data(m).expires /\ events = {Event("bl-update", entry, Nothing)}
     \/ old.expires = Data(m).expires /\ events = {}

LEMMA ComparedCases ==
  ASSUME NEW m \in Message
  PROVE  \/ IsNew(m, Compared(m).entry, Compared(m).events)
         \/ \E old \in Known(m) :
              \/ IsChanged(m, old, Compared(m).entry, Compared(m).events)
              \/ IsUpdated(m, old, Compared(m).entry, Compared(m).events)
<1>1. CASE Known(m) = {}
  BY <1>1 DEF Compared, IsNew
<1>2. CASE Known(m) # {}
  <2> DEFINE old == CHOOSE e \in Known(m) : TRUE
             updated == [old EXCEPT !.expires = Data(m).expires, !.flag = m[1]]
  <2>1. old \in Known(m)
    BY <1>2
  <2>2. CASE old.ips # Data(m).ips
    <3>1. Compared(m) = [entry |-> BlackListData(m),
                         events |-> {Event("bl-change", BlackListData(m), old.id)}]
      BY <1>2, <2>2 DEF Compared
    <3> QED  BY <2>1, <2>2, <3>1 DEF IsChanged
  <2>3. CASE old.ips = Data(m).ips /\ old.expires # Data(m).expires
    <3>1. Compared(m) = [entry |-> updated, events |-> {Event("bl-update", updated, Nothing)}]
      BY <1>2, <2>3 DEF Compared
    <3>2. \A x, y : [entry |-> x, events |-> y].entry = x /\ [entry |-> x, events |-> y].events = y
      BY SMTT(30)
    <3>3. /\ Compared(m).entry = updated
          /\ Compared(m).events = {Event("bl-update", updated, Nothing)}
      BY <3>1, <3>2, ZenonT(60)
    <3>4. IsUpdated(m, old, Compared(m).entry, Compared(m).events)
      BY <2>1, <2>3, <3>3, Zenon DEF IsUpdated
    <3> QED  BY <2>1, <3>4
  <2>4. CASE old.ips = Data(m).ips /\ old.expires = Data(m).expires
    <3>1. Compared(m) = [entry |-> updated, events |-> {}]
      BY <1>2, <2>4 DEF Compared
    <3>2. Compared(m).entry = updated /\ Compared(m).events = {}
      BY <3>1
    <3>3. IsUpdated(m, old, Compared(m).entry, Compared(m).events)
      BY <2>1, <2>4, <3>2, Zenon DEF IsUpdated
    <3> QED  BY <2>1, <3>3
  <2> QED  BY <2>2, <2>3, <2>4
<1> QED  BY <1>1, <1>2

EventRecord == [type : EventType, entry : Entry, replaces : Message \cup {Nothing}]

LEMMA EventIsRecord ==
  ASSUME NEW type \in EventType, NEW e \in Entry, NEW r \in Message \cup {Nothing}
  PROVE  /\ Event(type, e, r) \in EventRecord
         /\ Event(type, e, r).type = type /\ Event(type, e, r).entry = e
         /\ Event(type, e, r).replaces = r
BY DEF Event, EventRecord

LEMMA ComparedIsSound ==
  ASSUME NEW m \in Message, blacklist \subseteq Entry
  PROVE  Compared(m).entry \in Entry /\ Compared(m).events \subseteq EventRecord
<1>1. CASE IsNew(m, Compared(m).entry, Compared(m).events)
  BY <1>1, BlackListDataIsEntry, EventIsRecord DEF IsNew, EventType
<1>2. ASSUME NEW old \in Known(m), IsChanged(m, old, Compared(m).entry, Compared(m).events)
      PROVE  Compared(m).entry \in Entry /\ Compared(m).events \subseteq EventRecord
  <2>1. old \in Entry /\ old.id \in Message
    BY DEF Known, Entry
  <2>2. Event("bl-change", BlackListData(m), old.id) \in EventRecord
    BY <2>1, BlackListDataIsEntry, EventIsRecord DEF EventType
  <2> QED  BY <1>2, <2>2, BlackListDataIsEntry DEF IsChanged
<1>3. ASSUME NEW old \in Known(m), IsUpdated(m, old, Compared(m).entry, Compared(m).events)
      PROVE  Compared(m).entry \in Entry /\ Compared(m).events \subseteq EventRecord
  <2>1. old \in Entry
    BY DEF Known
  <2>2. Compared(m).entry \in Entry
    BY <1>3, <2>1, Updated DEF IsUpdated
  <2>3. Event("bl-update", Compared(m).entry, Nothing) \in EventRecord
    BY <2>2, EventIsRecord DEF EventType
  <2> QED  BY <1>3, <2>2, <2>3 DEF IsUpdated
<1> QED  BY <1>1, <1>2, <1>3, ComparedCases

LEMMA UnflaggedEntry ==
  ASSUME NEW e \in Entry
  PROVE  /\ [e EXCEPT !.flag = None] \in Entry
         /\ [e EXCEPT !.flag = None].id = e.id /\ [e EXCEPT !.flag = None].key = e.key
         /\ [e EXCEPT !.flag = None].ips = e.ips /\ [e EXCEPT !.flag = None].name = e.name
         /\ [e EXCEPT !.flag = None].expires = e.expires
         /\ [e EXCEPT !.flag = None].flag = None
BY DEF Entry

LEMMA UnflaggedEntries ==
  ASSUME NEW entries \in SUBSET Entry
  PROVE  Unflagged(entries) \subseteq Entry /\ \A e \in Unflagged(entries) : e.flag = None
<1> SUFFICES ASSUME NEW e \in Unflagged(entries)
             PROVE  e \in Entry /\ e.flag = None
  OBVIOUS
<1>1. PICK d \in entries : e = [d EXCEPT !.flag = None]
  BY DEF Unflagged
<1> QED  BY <1>1, UnflaggedEntry

-----------------------------------------------------------------------------
(* Types. *)

(* What the consumers know after an event, by its type. *)
LEMMA AfterEventIs ==
  ASSUME NEW event \in EventRecord
  PROVE  LET e == [event.entry EXCEPT !.flag = None]
         IN  /\ event.type = "bl-new" => AfterEvent(event) = listed \cup {e}
             /\ event.type = "bl-change" =>
                  AfterEvent(event) = {x \in listed : x.id # event.replaces} \cup {e}
             /\ event.type = "bl-update" =>
                  AfterEvent(event) = {IF x.id = event.entry.id
                                         THEN [x EXCEPT !.expires = event.entry.expires]
                                         ELSE x : x \in listed}
             /\ IsDeletion(event) => AfterEvent(event) = {x \in listed : x.id # event.entry.id}
<1> DEFINE e == [event.entry EXCEPT !.flag = None]
           told == [event EXCEPT !.entry.flag = None]
<1>1. /\ told.type = event.type /\ told.entry = e /\ told.replaces = event.replaces
      /\ e.id = event.entry.id /\ e.expires = event.entry.expires
  BY UnflaggedEntry DEF EventRecord, Entry
<1> HIDE DEF told, e
<1>2. AfterEvent(event) = Told(listed, told)
  BY DEF AfterEvent, told
<1>3. CASE event.type = "bl-new"
  BY <1>1, <1>2, <1>3 DEF Told, IsDeletion, e
<1>4. CASE event.type = "bl-change"
  BY <1>1, <1>2, <1>4 DEF Told, IsDeletion, e
<1>5. CASE event.type = "bl-update"
  BY <1>1, <1>2, <1>5 DEF Told, IsDeletion, e
<1>6. CASE IsDeletion(event)
  BY <1>1, <1>2, <1>6 DEF Told, IsDeletion, e
<1>7. event.type \in EventType
  BY DEF EventRecord
<1> QED  BY <1>3, <1>4, <1>5, <1>6, <1>7 DEF EventType, IsDeletion

LEMMA AfterEventTypes ==
  ASSUME NEW event \in EventRecord, listed \subseteq Entry, ToldAreUnflagged
  PROVE  AfterEvent(event) \subseteq Entry /\ \A x \in AfterEvent(event) : x.flag = None
<1> DEFINE e == [event.entry EXCEPT !.flag = None]
<1>1. e \in Entry /\ e.flag = None
  BY UnflaggedEntry DEF EventRecord
<1> HIDE DEF e
<1>2. CASE event.type = "bl-new"
  BY <1>1, <1>2, AfterEventIs DEF ToldAreUnflagged, e
<1>3. CASE event.type = "bl-change"
  BY <1>1, <1>3, AfterEventIs DEF ToldAreUnflagged, e
<1>4. CASE event.type = "bl-update"
  <2> DEFINE Renewed(x) == IF x.id = event.entry.id
                             THEN [x EXCEPT !.expires = event.entry.expires] ELSE x
  <2>1. AfterEvent(event) = {Renewed(x) : x \in listed}
    BY <1>4, AfterEventIs
  <2>2. ASSUME NEW x \in listed
        PROVE  Renewed(x) \in Entry /\ Renewed(x).flag = None
    <3>1. x \in Entry /\ x.flag = None /\ event.entry \in Entry
      BY DEF ToldAreUnflagged, EventRecord
    <3> QED  BY <3>1 DEF Entry
  <2> HIDE DEF Renewed
  <2> QED  BY <2>1, <2>2
<1>5. CASE IsDeletion(event)
  BY <1>5, AfterEventIs DEF ToldAreUnflagged
<1>6. event.type \in EventType
  BY DEF EventRecord
<1> QED  BY <1>2, <1>3, <1>4, <1>5, <1>6 DEF EventType, IsDeletion

(* Deletions are typed. *)
LEMMA DeletionsAreEvents ==
  ASSUME ComparatorTypes, ProcessDeleted
  PROVE  /\ pending' \subseteq EventRecord
         /\ blacklist' \subseteq Entry
         /\ \A event \in pending' : IsDeletion(event)
<1>1. ASSUME NEW e \in Delisted \cup Expired
      PROVE  e \in Entry
  BY DEF Delisted, Expired, ComparatorTypes
<1>2. ASSUME NEW event \in pending'
      PROVE  event \in EventRecord /\ IsDeletion(event)
  <2>1. PICK e \in Delisted \cup Expired :
          event = Event("bl-delist", e, Nothing) \/ event = Event("bl-expire", e, Nothing)
    BY DEF ProcessDeleted
  <2> QED  BY <1>1, <2>1, EventIsRecord DEF EventType, IsDeletion
<1>3. blacklist \ (Delisted \cup Expired) \in SUBSET Entry
  BY DEF ComparatorTypes
<1>4. blacklist' \subseteq Entry
  BY <1>3, UnflaggedEntries DEF ProcessDeleted
<1> QED  BY <1>2, <1>4

LEMMA FilesAreFiles ==
  ASSUME ComparatorTypes
  PROVE  Stored \in File /\ Torn \in File
BY DEF ComparatorTypes, Stored, Torn, File

LEMMA TypesInitially == ComparatorInit => ComparatorTypes
BY DEF ComparatorInit, ComparatorTypes, NoFile, File, Step

LEMMA TypesKept ==
  ASSUME ComparatorTypes, ToldAreUnflagged, [ComparatorNext]_vars
  PROVE  ComparatorTypes'
<1> USE DEF ComparatorTypes
<1>1. CASE RestoreState
  BY <1>1 DEF RestoreState, File, Step, memory, series, consumers, bounds
<1>2. ASSUME NEW m \in Message, RejectInvalid(m)
      PROVE  ComparatorTypes'
  BY <1>2 DEF RejectInvalid, Receive, memory, series, consumers
<1>3. ASSUME NEW m \in Message, RejectOutOfOrder(m)
      PROVE  ComparatorTypes'
  <2>1. open' \in [Series -> SUBSET Nat] /\ count' \in [Series -> Nat] /\ armed' \subseteq Series
    BY <1>3, MessageParts DEF RejectOutOfOrder, UpdateSeries, SetTimeout
  <2> QED  BY <1>3, <2>1 DEF RejectOutOfOrder, Receive, memory, consumers
<1>3a. ASSUME NEW m \in Message, RejectKeyless(m)
       PROVE  ComparatorTypes'
  <2>1. open' \in [Series -> SUBSET Nat] /\ count' \in [Series -> Nat] /\ armed' \subseteq Series
    BY <1>3a, MessageParts DEF RejectKeyless, UpdateSeries, SetTimeout
  <2>2. time' \in Nat
    BY <1>3a, MessageParts DEF RejectKeyless
  <2> QED  BY <1>3a, <2>1, <2>2 DEF RejectKeyless, Receive, consumers
<1>4. ASSUME NEW m \in Message, ProcessEvent(m)
      PROVE  ComparatorTypes'
  <2>1. open' \in [Series -> SUBSET Nat] /\ count' \in [Series -> Nat] /\ armed' \subseteq Series
    BY <1>4, MessageParts DEF ProcessEvent, UpdateSeries, SetTimeout
  <2>2. blacklist' \subseteq Entry /\ pending' \subseteq EventRecord
    BY <1>4, ComparedIsSound DEF ProcessEvent
  <2>3. time' \in Nat /\ applied' \subseteq Message
    BY <1>4, MessageParts DEF ProcessEvent
  <2> QED  BY <1>4, <2>1, <2>2, <2>3 DEF ProcessEvent, Receive, consumers, Step, EventRecord
<1>5. CASE PublishEvent
  <2>1. PICK event \in pending :
          /\ listed' = AfterEvent(event)
          /\ emitted' = IF event.type \in {"bl-new", "bl-change"}
                          THEN emitted \cup {event.entry.id} ELSE emitted
          /\ pending' = pending \ {event}
    BY <1>5 DEF PublishEvent
  <2>2. event \in EventRecord
    BY DEF EventRecord
  <2>3. listed' \subseteq Entry
    BY <2>1, <2>2, AfterEventTypes
  <2>4. emitted' \subseteq Message
    BY <2>1, <2>2 DEF EventRecord, Entry
  <2> QED  BY <1>5, <2>1, <2>3, <2>4 DEF PublishEvent, memory, series, bounds
<1>6. CASE GoOn
  BY <1>6 DEF GoOn, Step, memory, series, consumers, bounds
<1>7. CASE FinalizeSeries
  <2>1. pending' \subseteq EventRecord /\ blacklist' \subseteq Entry
    BY <1>7, DeletionsAreEvents DEF FinalizeSeries
  <2> QED  BY <1>7, <2>1 DEF FinalizeSeries, Step, consumers, bounds, EventRecord
<1>8. ASSUME NEW s \in Series, OnSeriesTimeout(s)
      PROVE  ComparatorTypes'
  <2>1. blacklist' \subseteq Entry
    <3> SUFFICES ASSUME NEW d \in blacklist'
                 PROVE  d \in Entry
      OBVIOUS
    <3>1. PICK e \in blacklist : d = IF e.flag = s THEN [e EXCEPT !.flag = None] ELSE e
      BY <1>8 DEF OnSeriesTimeout
    <3> QED  BY <3>1, UnflaggedEntry
  <2> QED  BY <1>8, <2>1 DEF OnSeriesTimeout, Step, consumers, bounds
<1>9. CASE OpenFile
  BY <1>9 DEF OpenFile, Truncate, Torn, File, Step, memory, series, consumers, bounds
<1>10. CASE CloseSeries
  <2>1. file' \in File
    BY <1>10, FilesAreFiles DEF CloseSeries
  <2>2. open' \in [Series -> SUBSET Nat] /\ count' \in [Series -> Nat]
    BY <1>10 DEF CloseSeries
  <2> QED  BY <1>10, <2>1, <2>2 DEF CloseSeries, Step, memory, consumers, bounds
<1>11. CASE Exit
  BY <1>11 DEF Exit, LoseMemory, Step, consumers
<1>12. CASE Interrupt
  BY <1>12 DEF Interrupt, Step, memory, series, consumers
<1>13. CASE OpenFileToStop
  BY <1>13 DEF OpenFileToStop, Truncate, Torn, File, Step, memory, series, consumers, bounds
<1>14. CASE Stop
  <2>1. file' \in File
    BY <1>14, FilesAreFiles DEF Stop
  <2> QED  BY <1>14, <2>1 DEF Stop, LoseMemory, Step, consumers, bounds
<1>15. CASE UNCHANGED vars
  BY <1>15 DEF vars, memory, series, consumers, bounds
<1> QED  BY <1>1, <1>2, <1>3, <1>3a, <1>4, <1>5, <1>6, <1>7, <1>8, <1>9, <1>10, <1>11, <1>12,
            <1>13, <1>14, <1>15 DEF ComparatorNext

-----------------------------------------------------------------------------
(* Series. *)

LEMMA CountersOfSeries ==
  ASSUME ComparatorTypes, SeriesAreCounted, NEW s \in Series
  PROVE  /\ IsFiniteSet(open[s])
         /\ count[s] = 0 => open[s] = {}
         /\ count[s] = Total(s) <=> open[s] = Numbers(s)
<1>1. IsFiniteSet(Numbers(s)) /\ Cardinality(Numbers(s)) = Total(s)
  BY ComparatorAssumption, FS_Interval
<1>2. open[s] \in SUBSET Numbers(s) /\ count[s] = Cardinality(open[s])
  BY DEF SeriesAreCounted
<1>3. IsFiniteSet(open[s])
  BY <1>1, <1>2, FS_Subset
<1> QED  BY <1>1, <1>2, <1>3, FS_Subset, FS_EmptySet

LEMMA OneMoreIsCounted ==
  ASSUME ComparatorTypes, SeriesAreCounted,
         NEW m \in Message, IsMessageValid(m), UpdateSeries(m)
  PROVE  /\ SeriesAreCounted'
         /\ OpenSeries' = OpenSeries \cup {m[1]}
         /\ open'[m[1]] = open[m[1]] \cup {m[2]}
         /\ \A s \in Series \ {m[1]} : open'[s] = open[s]
<1>1. m[1] \in Series /\ m[2] \in Numbers(m[1])
  BY MessageParts
<1>2. m[2] \notin open[m[1]] /\ IsFiniteSet(open[m[1]])
  <2>1. count[m[1]] \in Nat
    BY <1>1 DEF ComparatorTypes
  <2> QED  BY <1>1, <2>1, CountersOfSeries DEF IsMessageValid, Open
<1>3. /\ open'[m[1]] = open[m[1]] \cup {m[2]} /\ count'[m[1]] = count[m[1]] + 1
      /\ \A s \in Series \ {m[1]} : open'[s] = open[s] /\ count'[s] = count[s]
      /\ \A s \in Series : count[s] \in Nat
  BY <1>1 DEF UpdateSeries, ComparatorTypes
<1>4. Cardinality(open'[m[1]]) = count'[m[1]]
  <2>1. Cardinality(open[m[1]] \cup {m[2]}) = Cardinality(open[m[1]]) + 1
    BY <1>2, FS_AddElement
  <2>2. Cardinality(open[m[1]]) = count[m[1]]
    BY <1>1 DEF SeriesAreCounted
  <2> QED  BY <1>3, <2>1, <2>2
<1>5. SeriesAreCounted'
  <2> SUFFICES ASSUME NEW s \in Series
               PROVE  open'[s] \subseteq Numbers(s) /\ count'[s] = Cardinality(open'[s])
    BY DEF SeriesAreCounted
  <2>1. CASE s = m[1]
    BY <1>1, <1>3, <1>4, <2>1 DEF SeriesAreCounted
  <2>2. CASE s # m[1]
    BY <1>3, <2>2 DEF SeriesAreCounted
  <2> QED  BY <2>1, <2>2
<1>6. OpenSeries' = OpenSeries \cup {m[1]}
  BY <1>1, <1>3 DEF OpenSeries, Open
<1> QED  BY <1>3, <1>5, <1>6

LEMMA SeriesInitially == ComparatorInit => SeriesInvariant
<1> SUFFICES ASSUME ComparatorInit
             PROVE  SeriesInvariant
  OBVIOUS
<1>1. SeriesAreCounted
  BY FS_EmptySet DEF ComparatorInit, SeriesAreCounted
<1> QED  BY <1>1 DEF ComparatorInit, SeriesInvariant, ArmedAgree, CountedAreApplied, AllApplied,
                     CurrentIsLatest, DownIsEmpty, NothingPending

LEMMA MemoryIsLost ==
  ASSUME LoseMemory
  PROVE  SeriesInvariant'
<1>1. SeriesAreCounted'
  BY FS_EmptySet DEF LoseMemory, SeriesAreCounted
<1> QED  BY <1>1 DEF LoseMemory, SeriesInvariant, ArmedAgree, CountedAreApplied, AllApplied,
                     CurrentIsLatest, DownIsEmpty, NothingPending

(* Steps that leave the series alone. *)
LEMMA SeriesUntouched ==
  ASSUME SeriesInvariant, UNCHANGED <<series, time, current>>
  PROVE  SeriesAreCounted' /\ CountedAreApplied' /\ OpenSeries' = OpenSeries
BY DEF SeriesInvariant, SeriesAreCounted, CountedAreApplied, OpenSeries, Open, series

LEMMA SeriesKept ==
  ASSUME ComparatorTypes, SeriesInvariant, [ComparatorNext]_vars
  PROVE  SeriesInvariant'
<1>1. CASE RestoreState
  <2>1. step = "down" /\ step' \in {"idle", "broken"} /\ UNCHANGED <<open, count, armed, applied, pending>>
        /\ (step' = "broken" => UNCHANGED <<time, blacklist>>)
    BY <1>1 DEF RestoreState, memory, series
  <2>2. SeriesAreCounted'
    BY <2>1 DEF SeriesInvariant, SeriesAreCounted
  <2>3. CountedAreApplied'
    BY <2>1 DEF SeriesInvariant, CountedAreApplied, DownIsEmpty
  <2>4. ArmedAgree'
    BY <2>1 DEF SeriesInvariant, ArmedAgree, DownIsEmpty, OpenSeries, Open
  <2>5. DownIsEmpty' /\ NothingPending'
    BY <2>1 DEF SeriesInvariant, DownIsEmpty, NothingPending
  <2> QED  BY <2>1, <2>2, <2>3, <2>4, <2>5 DEF SeriesInvariant, AllApplied, CurrentIsLatest
<1>2. ASSUME NEW m \in Message, RejectInvalid(m)
      PROVE  SeriesInvariant'
  <2>1. UNCHANGED <<time, blacklist, open, count, armed, applied, step, current, pending>>
    BY <1>2 DEF RejectInvalid, memory, series
  <2>2. SeriesAreCounted' /\ CountedAreApplied' /\ OpenSeries' = OpenSeries
    BY <2>1, SeriesUntouched DEF series
  <2> QED  BY <2>1, <2>2 DEF SeriesInvariant, ArmedAgree, AllApplied, CurrentIsLatest,
                             DownIsEmpty, NothingPending
<1>3. ASSUME NEW m \in Message, RejectOutOfOrder(m)
      PROVE  SeriesInvariant'
  <2>1. /\ step = "idle" /\ step' = "idle" /\ Time(m) < time
        /\ IsMessageValid(m) /\ UpdateSeries(m) /\ armed' = armed \cup {m[1]}
        /\ UNCHANGED <<time, applied, current, pending>>
    BY <1>3 DEF RejectOutOfOrder, Receive, SetTimeout, memory
  <2>2. /\ SeriesAreCounted' /\ OpenSeries' = OpenSeries \cup {m[1]}
        /\ \A s \in Series \ {m[1]} : open'[s] = open[s]
    BY <2>1, OneMoreIsCounted DEF SeriesInvariant
  <2>3. CountedAreApplied'
    <3> SUFFICES ASSUME NEW s \in Series, Lists[s].time >= time, NEW n \in open'[s]
                 PROVE  HasEventKey(<<s, n>>) => <<s, n>> \in applied
      BY <2>1 DEF CountedAreApplied, SeriesInvariant
    <3>1. s # m[1]
      BY <2>1, MessageParts, ComparatorAssumption DEF Time, ComparatorTypes
    <3> QED  BY <2>2, <3>1 DEF SeriesInvariant, CountedAreApplied
  <2> QED  BY <2>1, <2>2, <2>3 DEF SeriesInvariant, ArmedAgree, AllApplied, CurrentIsLatest,
                                   DownIsEmpty, NothingPending
<1>3a. ASSUME NEW m \in Message, RejectKeyless(m)
       PROVE  SeriesInvariant'
  <2>1. /\ step = "idle" /\ step' = "idle" /\ ~HasEventKey(m)
        /\ IsMessageValid(m) /\ UpdateSeries(m) /\ armed' = armed \cup {m[1]}
        /\ UNCHANGED <<applied, current, pending>>
        /\ time' = IF time = 0 THEN Time(m) ELSE time
    BY <1>3a DEF RejectKeyless, Receive, SetTimeout
  <2>2. /\ SeriesAreCounted' /\ OpenSeries' = OpenSeries \cup {m[1]}
        /\ open'[m[1]] = open[m[1]] \cup {m[2]}
        /\ \A s \in Series \ {m[1]} : open'[s] = open[s]
    BY <2>1, OneMoreIsCounted DEF SeriesInvariant
  <2>3. CountedAreApplied'
    <3>1. time \in Nat /\ time' \in Nat /\ time <= time'
      BY <2>1, MessageParts DEF ComparatorTypes
    <3>2. ASSUME NEW s \in Series, Lists[s].time >= time', NEW n \in open'[s],
                 HasEventKey(<<s, n>>)
          PROVE  <<s, n>> \in applied
      <4>1. Lists[s].time >= time
        BY <3>1, <3>2, ComparatorAssumption
      <4>2. <<s, n>> # m
        BY <2>1, <3>2
      <4>3. n \in open[s]
        BY <2>2, <4>2, MessageParts
      <4> QED  BY <3>2, <4>1, <4>3 DEF SeriesInvariant, CountedAreApplied
    <3>3. ASSUME NEW a \in applied
          PROVE  Time(a) <= time'
      <4>1. Time(a) <= time /\ Time(a) \in Nat
        BY MessageParts DEF SeriesInvariant, CountedAreApplied, ComparatorTypes
      <4> QED  BY <3>1, <4>1
    <3> QED  BY <2>1, <3>2, <3>3 DEF CountedAreApplied
  <2> QED  BY <2>1, <2>2, <2>3 DEF SeriesInvariant, ArmedAgree, AllApplied, CurrentIsLatest,
                                   DownIsEmpty, NothingPending
<1>4. ASSUME NEW m \in Message, ProcessEvent(m)
      PROVE  SeriesInvariant'
  <2>1. /\ step = "idle" /\ step' = "event" /\ Time(m) >= time /\ time' = Time(m)
        /\ IsMessageValid(m) /\ UpdateSeries(m) /\ armed' = armed \cup {m[1]}
        /\ applied' = applied \cup {m} /\ current' = m
    BY <1>4 DEF ProcessEvent, Receive, SetTimeout
  <2>2. /\ SeriesAreCounted' /\ OpenSeries' = OpenSeries \cup {m[1]}
        /\ open'[m[1]] = open[m[1]] \cup {m[2]}
        /\ \A s \in Series \ {m[1]} : open'[s] = open[s]
    BY <2>1, OneMoreIsCounted DEF SeriesInvariant
  <2>3. CountedAreApplied'
    <3>0. \A a \in applied' : Time(a) <= time'
      <4> SUFFICES ASSUME NEW a \in applied
                   PROVE  Time(a) <= Time(m)
        BY <2>1, MessageParts
      <4>1. Time(a) <= time /\ Time(a) \in Nat /\ Time(m) \in Nat
        BY MessageParts DEF SeriesInvariant, CountedAreApplied, ComparatorTypes
      <4> QED  BY <2>1, <4>1 DEF ComparatorTypes
    <3> SUFFICES ASSUME NEW s \in Series, Lists[s].time >= time', NEW n \in open'[s],
                        HasEventKey(<<s, n>>)
                 PROVE  <<s, n>> \in applied'
      BY <3>0 DEF CountedAreApplied
    <3>1. Lists[s].time >= time
      <4>1. time' = Time(m) /\ Time(m) \in Nat /\ time \in Nat /\ Lists[s].time \in Nat
        BY <2>1, MessageParts, ComparatorAssumption DEF ComparatorTypes
      <4> QED  BY <2>1, <4>1
    <3>2. n \in open[s] \/ <<s, n>> = m
      BY <2>2, MessageParts
    <3> QED  BY <2>1, <3>1, <3>2 DEF SeriesInvariant, CountedAreApplied
  <2> QED  BY <2>1, <2>2, <2>3 DEF SeriesInvariant, ArmedAgree, AllApplied, CurrentIsLatest,
                                   DownIsEmpty, NothingPending
<1>5. CASE PublishEvent
  <2>1. /\ UNCHANGED <<time, blacklist, open, count, armed, applied, step, current>>
        /\ step \in {"event", "deleted"}
    BY <1>5 DEF PublishEvent, memory, series
  <2>2. SeriesAreCounted' /\ CountedAreApplied' /\ OpenSeries' = OpenSeries
    BY <2>1, SeriesUntouched DEF series
  <2> QED  BY <2>1, <2>2 DEF SeriesInvariant, ArmedAgree, AllApplied, CurrentIsLatest,
                             DownIsEmpty, NothingPending
<1>6. CASE GoOn
  <2>1. /\ UNCHANGED <<time, open, count, armed, applied, current, pending>>
        /\ step = "event" /\ step' = "idle" /\ pending = {}
    BY <1>6 DEF GoOn, memory, series
  <2>2. SeriesAreCounted' /\ CountedAreApplied' /\ OpenSeries' = OpenSeries
    BY <2>1, SeriesUntouched DEF series
  <2> QED  BY <2>1, <2>2 DEF SeriesInvariant, ArmedAgree, AllApplied, CurrentIsLatest,
                             DownIsEmpty, NothingPending
<1>7. CASE FinalizeSeries
  <2>1. /\ UNCHANGED <<time, open, count, applied, current>>
        /\ step = "event" /\ step' = "deleted"
        /\ armed' = armed \ {current[1]} /\ count[current[1]] = Total(current[1])
    BY <1>7 DEF FinalizeSeries, IsSeriesComplete
  <2>2. SeriesAreCounted' /\ CountedAreApplied' /\ OpenSeries' = OpenSeries
    BY <2>1 DEF SeriesInvariant, SeriesAreCounted, CountedAreApplied, OpenSeries, Open
  <2>3. AllApplied'
    <3>1. current \in Message /\ Time(current) = time
      BY <2>1 DEF SeriesInvariant, CurrentIsLatest
    <3>2. open[current[1]] = Numbers(current[1])
      BY <2>1, <3>1, MessageParts, CountersOfSeries DEF SeriesInvariant
    <3>3. Lists[current[1]].time >= time
      BY <3>1, MessageParts DEF Time, ComparatorTypes
    <3> QED  BY <2>1, <3>1, <3>2, <3>3, MessageParts
             DEF AllApplied, SeriesInvariant, CountedAreApplied
  <2> QED  BY <2>1, <2>2, <2>3 DEF SeriesInvariant, ArmedAgree, CurrentIsLatest,
                                   DownIsEmpty, NothingPending
<1>8. ASSUME NEW s \in Series, OnSeriesTimeout(s)
      PROVE  SeriesInvariant'
  <2>1. /\ UNCHANGED <<time, open, count, applied>>
        /\ step = "idle" /\ step' = "deleted" /\ armed' = armed \ {s} /\ current' = <<s, 0>>
    BY <1>8 DEF OnSeriesTimeout
  <2>2. SeriesAreCounted' /\ CountedAreApplied' /\ OpenSeries' = OpenSeries
    BY <2>1 DEF SeriesInvariant, SeriesAreCounted, CountedAreApplied, OpenSeries, Open
  <2> QED  BY <2>1, <2>2 DEF SeriesInvariant, ArmedAgree, AllApplied, CurrentIsLatest,
                             DownIsEmpty, NothingPending
<1>9. CASE OpenFile
  <2>1. /\ UNCHANGED <<time, blacklist, open, count, armed, applied, current, pending>>
        /\ step = "deleted" /\ step' = "writing" /\ pending = {}
    BY <1>9 DEF OpenFile, Truncate, memory, series
  <2>2. SeriesAreCounted' /\ CountedAreApplied' /\ OpenSeries' = OpenSeries
    BY <2>1, SeriesUntouched DEF series
  <2> QED  BY <2>1, <2>2 DEF SeriesInvariant, ArmedAgree, AllApplied, CurrentIsLatest,
                             DownIsEmpty, NothingPending
<1>10. CASE CloseSeries
  <2>1. /\ UNCHANGED <<time, armed, current, pending>>
        /\ step \in {"writing", "deleted"} /\ step' = "idle"
        /\ step = "deleted" => pending = {}
        /\ open' = [open EXCEPT ![current[1]] = {}]
        /\ count' = [count EXCEPT ![current[1]] = 0]
        /\ applied' = {m \in applied : m[1] # current[1]}
    BY <1>10 DEF CloseSeries, memory
  <2>2. \A s \in Series :
          IF s = current[1] THEN open'[s] = {} /\ count'[s] = 0
                            ELSE open'[s] = open[s] /\ count'[s] = count[s]
    BY <2>1 DEF ComparatorTypes
  <2>3. SeriesAreCounted'
    BY <2>2, FS_EmptySet DEF SeriesInvariant, SeriesAreCounted
  <2>4. CountedAreApplied'
    BY <2>1, <2>2 DEF SeriesInvariant, CountedAreApplied
  <2>5. OpenSeries' = OpenSeries \ {current[1]}
    BY <2>2 DEF OpenSeries, Open
  <2>6. ArmedAgree'
    BY <2>1, <2>5 DEF SeriesInvariant, ArmedAgree
  <2> QED  BY <2>1, <2>3, <2>4, <2>6 DEF SeriesInvariant, AllApplied, CurrentIsLatest,
                                         DownIsEmpty, NothingPending
<1>11. CASE Exit
  BY <1>11, MemoryIsLost DEF Exit
<1>12. CASE Interrupt
  <2>1. /\ UNCHANGED <<time, blacklist, open, count, armed, applied, current, pending>>
        /\ step' = "stop"
    BY <1>12 DEF Interrupt, memory, series
  <2>2. SeriesAreCounted' /\ CountedAreApplied' /\ OpenSeries' = OpenSeries
    BY <2>1, SeriesUntouched DEF series
  <2> QED  BY <2>1, <2>2 DEF SeriesInvariant, ArmedAgree, AllApplied, CurrentIsLatest,
                             DownIsEmpty, NothingPending
<1>13. CASE OpenFileToStop
  <2>1. /\ UNCHANGED <<time, blacklist, open, count, armed, applied, current, pending>>
        /\ step' = "stop_writing"
    BY <1>13 DEF OpenFileToStop, Truncate, memory, series
  <2>2. SeriesAreCounted' /\ CountedAreApplied' /\ OpenSeries' = OpenSeries
    BY <2>1, SeriesUntouched DEF series
  <2> QED  BY <2>1, <2>2 DEF SeriesInvariant, ArmedAgree, AllApplied, CurrentIsLatest,
                             DownIsEmpty, NothingPending
<1>14. CASE Stop
  BY <1>14, MemoryIsLost DEF Stop
<1>15. CASE UNCHANGED vars
  <2>1. UNCHANGED <<time, blacklist, open, count, armed, applied, step, current, pending>>
    BY <1>15 DEF vars, memory, series
  <2>2. SeriesAreCounted' /\ CountedAreApplied' /\ OpenSeries' = OpenSeries
    BY <2>1, SeriesUntouched DEF series
  <2> QED  BY <2>1, <2>2 DEF SeriesInvariant, ArmedAgree, AllApplied, CurrentIsLatest,
                             DownIsEmpty, NothingPending
<1> QED  BY <1>1, <1>2, <1>3, <1>3a, <1>4, <1>5, <1>6, <1>7, <1>8, <1>9, <1>10, <1>11, <1>12,
            <1>13, <1>14, <1>15 DEF ComparatorNext

LEMMA WaitingInitially == ComparatorInit => WaitingInvariant
BY DEF ComparatorInit, WaitingInvariant, AppliedAreOpen, NoneIsLeftWaiting

(* A message has come, accepted or not. *)
LEMMA CountedStaysOpen ==
  ASSUME ComparatorTypes, NEW m \in Message, UpdateSeries(m)
  PROVE  m[2] \in open'[m[1]] /\ \A s \in Series : open[s] \subseteq open'[s]
BY MessageParts DEF UpdateSeries, ComparatorTypes

LEMMA AppliedStaysOpen ==
  ASSUME ComparatorTypes, AppliedAreOpen, [ComparatorNext]_vars
  PROVE  AppliedAreOpen'
<1>1. CASE applied' = {}
  BY <1>1 DEF AppliedAreOpen
<1>2. CASE UNCHANGED <<open, applied>>
  BY <1>2 DEF AppliedAreOpen
<1>3. ASSUME NEW m \in Message, UpdateSeries(m), applied' \subseteq applied \cup {m}
      PROVE  AppliedAreOpen'
  <2>1. m[2] \in open'[m[1]] /\ \A s \in Series : open[s] \subseteq open'[s]
    BY <1>3, CountedStaysOpen
  <2>2. \A a \in applied : a[1] \in Series /\ a[2] \in open[a[1]]
    BY MessageParts DEF ComparatorTypes, AppliedAreOpen
  <2> QED  BY <1>3, <2>1, <2>2 DEF AppliedAreOpen
<1>4. CASE CloseSeries
  <2>1. /\ applied' = {m \in applied : m[1] # current[1]}
        /\ open' = [open EXCEPT ![current[1]] = {}]
    BY <1>4 DEF CloseSeries
  <2>2. \A a \in applied' : a[1] \in Series /\ a[2] \in open[a[1]] /\ a[1] # current[1]
    BY <2>1, MessageParts DEF ComparatorTypes, AppliedAreOpen
  <2> QED  BY <2>1, <2>2 DEF AppliedAreOpen, ComparatorTypes
<1>5. ASSUME NEW m \in Message, RejectOutOfOrder(m) \/ RejectKeyless(m) \/ ProcessEvent(m)
      PROVE  UpdateSeries(m) /\ applied' \subseteq applied \cup {m}
  BY <1>5 DEF RejectOutOfOrder, RejectKeyless, ProcessEvent
<1>6. \/ RestoreState \/ PublishEvent \/ GoOn \/ FinalizeSeries \/ OpenFile \/ Interrupt
      \/ OpenFileToStop \/ (\E m \in Message : RejectInvalid(m))
      \/ (\E s \in Series : OnSeriesTimeout(s)) \/ UNCHANGED vars
      => UNCHANGED <<open, applied>>
  BY DEF RestoreState, PublishEvent, GoOn, FinalizeSeries, OpenFile, Interrupt, OpenFileToStop,
         Truncate, RejectInvalid, OnSeriesTimeout, vars, series
<1>7. Exit \/ Stop => applied' = {}
  BY DEF Exit, Stop, LoseMemory
<1> QED  BY <1>1, <1>2, <1>3, <1>4, <1>5, <1>6, <1>7 DEF ComparatorNext

LEMMA WaitingKept ==
  ASSUME ComparatorTypes, SeriesInvariant, WaitingInvariant, [ComparatorNext]_vars
  PROVE  WaitingInvariant'
<1>1. AppliedAreOpen'
  BY AppliedStaysOpen DEF WaitingInvariant
<1>2. ASSUME NEW s \in Series
      PROVE  Numbers(s) # {}
  <2>1. Total(s) \in Nat \ {0} /\ Numbers(s) = 1 .. Total(s)
    BY ComparatorAssumption
  <2>2. 1 \in Numbers(s)
    BY <2>1
  <2> QED  BY <2>2
<1>3. CASE RestoreState
  <2>1. applied' = {} /\ step' \in {"idle", "broken"}
    BY <1>3 DEF RestoreState, series, SeriesInvariant, DownIsEmpty
  <2> QED  BY <1>1, <1>2, <2>1 DEF WaitingInvariant, NoneIsLeftWaiting, LacksMessage
<1>4. ASSUME NEW m \in Message, RejectInvalid(m) \/ RejectOutOfOrder(m) \/ RejectKeyless(m)
      PROVE  WaitingInvariant'
  <2>1. UNCHANGED <<applied, step, current>>
    BY <1>4 DEF RejectInvalid, RejectOutOfOrder, RejectKeyless, series
  <2> QED  BY <1>1, <2>1 DEF WaitingInvariant, NoneIsLeftWaiting, LacksMessage
<1>5. ASSUME NEW m \in Message, ProcessEvent(m)
      PROVE  WaitingInvariant'
  <2>1. step = "idle" /\ step' = "event" /\ current' = m /\ applied' = applied \cup {m}
    BY <1>5 DEF ProcessEvent, Receive
  <2>2. ASSUME NEW s \in Series, s # m[1]
        PROVE  LacksMessage(s)'
    <3>1. PICK n \in Numbers(s) : <<s, n>> \notin applied
      BY <2>1 DEF WaitingInvariant, NoneIsLeftWaiting, LacksMessage
    <3>2. <<s, n>> # m
      BY <2>2
    <3> QED  BY <2>1, <3>1, <3>2 DEF LacksMessage
  <2> QED  BY <1>1, <2>1, <2>2 DEF WaitingInvariant, NoneIsLeftWaiting
<1>6. CASE PublishEvent \/ FinalizeSeries \/ OpenFile
  <2>1. /\ UNCHANGED <<applied, current>>
        /\ step \in {"event", "deleted"} /\ step' \in {"event", "deleted", "writing"}
    BY <1>6 DEF PublishEvent, FinalizeSeries, OpenFile, Truncate, series
  <2> QED  BY <1>1, <2>1 DEF WaitingInvariant, NoneIsLeftWaiting, LacksMessage
<1>7. CASE GoOn
  <2>1. /\ UNCHANGED <<applied, current>> /\ step = "event" /\ step' = "idle"
        /\ count[current[1]] # Total(current[1])
    BY <1>7 DEF GoOn, series, IsSeriesComplete
  <2>2. current[1] \in Series
    BY <2>1, MessageParts DEF SeriesInvariant, CurrentIsLatest
  <2>3. LacksMessage(current[1])
    <3>1. PICK n \in Numbers(current[1]) : n \notin open[current[1]]
      BY <2>1, <2>2, CountersOfSeries DEF SeriesInvariant, SeriesAreCounted
    <3>2. <<current[1], n>> \notin applied
      BY <3>1 DEF WaitingInvariant, AppliedAreOpen
    <3> QED  BY <3>1, <3>2 DEF LacksMessage
  <2>4. \A s \in Series : LacksMessage(s)
    BY <2>1, <2>3 DEF WaitingInvariant, NoneIsLeftWaiting
  <2> QED  BY <1>1, <2>1, <2>4 DEF WaitingInvariant, NoneIsLeftWaiting, LacksMessage
<1>8. ASSUME NEW s \in Series, OnSeriesTimeout(s)
      PROVE  WaitingInvariant'
  <2>1. applied' = applied /\ step = "idle" /\ step' = "deleted"
    BY <1>8 DEF OnSeriesTimeout
  <2> QED  BY <1>1, <2>1 DEF WaitingInvariant, NoneIsLeftWaiting, LacksMessage
<1>9. CASE CloseSeries
  <2>1. /\ step \in {"deleted", "writing"} /\ step' = "idle"
        /\ applied' = {m \in applied : m[1] # current[1]}
    BY <1>9 DEF CloseSeries
  <2>2. ASSUME NEW s \in Series
        PROVE  LacksMessage(s)'
    <3>1. CASE s = current[1]
      BY <1>2, <2>1, <3>1 DEF LacksMessage
    <3>2. CASE s # current[1]
      BY <2>1, <3>2 DEF WaitingInvariant, NoneIsLeftWaiting, LacksMessage
    <3> QED  BY <3>1, <3>2
  <2> QED  BY <1>1, <2>1, <2>2 DEF WaitingInvariant, NoneIsLeftWaiting
<1>10. CASE Exit \/ Interrupt \/ OpenFileToStop \/ Stop
  <2>1. step' \in {"down", "stop", "stop_writing"}
    BY <1>10 DEF Exit, Interrupt, OpenFileToStop, Stop, LoseMemory, Truncate
  <2> QED  BY <1>1, <2>1 DEF WaitingInvariant, NoneIsLeftWaiting
<1>11. CASE UNCHANGED vars
  BY <1>1, <1>11 DEF vars, series, WaitingInvariant, NoneIsLeftWaiting, LacksMessage
<1> QED  BY <1>3, <1>4, <1>5, <1>6, <1>7, <1>8, <1>9, <1>10, <1>11 DEF ComparatorNext

-----------------------------------------------------------------------------
(* What the comparator knows. *)

LEMMA UnflaggedIsSound ==
  ASSUME NEW entries \in SUBSET Entry, IdsAreTrue(entries), KeysDiffer(entries)
  PROVE  IdsAreTrue(Unflagged(entries)) /\ KeysDiffer(Unflagged(entries))
<1>1. ASSUME NEW d \in Unflagged(entries)
      PROVE  \E e \in entries : /\ d = [e EXCEPT !.flag = None] /\ d.id = e.id
                                /\ d.key = e.key /\ d.ips = e.ips
  <2>1. PICK e \in entries : d = [e EXCEPT !.flag = None]
    BY DEF Unflagged
  <2> QED  BY <2>1, UnflaggedEntry
<1>2. IdsAreTrue(Unflagged(entries))
  BY <1>1 DEF IdsAreTrue
<1>3. KeysDiffer(Unflagged(entries))
  BY <1>1 DEF KeysDiffer
<1> QED  BY <1>2, <1>3

(* After the timeout of a series. *)
TimedOut(s, e) == IF e.flag = s THEN [e EXCEPT !.flag = None] ELSE e

LEMMA TimedOutIs ==
  ASSUME NEW e \in Entry, NEW s
  PROVE  /\ TimedOut(s, e) \in Entry
         /\ TimedOut(s, e).id = e.id /\ TimedOut(s, e).key = e.key /\ TimedOut(s, e).ips = e.ips
         /\ TimedOut(s, e).name = e.name /\ TimedOut(s, e).expires = e.expires
         /\ e.flag # s => TimedOut(s, e).flag = e.flag
         /\ [TimedOut(s, e) EXCEPT !.flag = None] = [e EXCEPT !.flag = None]
BY UnflaggedEntry DEF TimedOut, Entry

LEMMA TimeoutBlacklist ==
  ASSUME NEW s \in Series, OnSeriesTimeout(s)
  PROVE  blacklist' = {TimedOut(s, e) : e \in blacklist}
BY DEF OnSeriesTimeout, TimedOut

(* The entry made of a message, and those already there. *)
LEMMA ComparedIsKnown ==
  ASSUME NEW m \in Message, blacklist \subseteq Entry, IdsAreTrue(blacklist)
  PROVE  LET e == Compared(m).entry
         IN  /\ e \in Entry
             /\ e.key = EventKey(m) /\ e.ips = Data(m).ips /\ e.expires = Data(m).expires
             /\ e.flag = m[1]
             /\ e.key = EventKey(e.id) /\ e.ips = Data(e.id).ips
<1> DEFINE e == Compared(m).entry
<1>1. CASE IsNew(m, e, Compared(m).events)
  BY <1>1, BlackListDataIsEntry DEF IsNew
<1>2. ASSUME NEW old \in Known(m), IsChanged(m, old, e, Compared(m).events)
      PROVE  /\ e \in Entry
             /\ e.key = EventKey(m) /\ e.ips = Data(m).ips /\ e.expires = Data(m).expires
             /\ e.flag = m[1]
             /\ e.key = EventKey(e.id) /\ e.ips = Data(e.id).ips
  BY <1>2, BlackListDataIsEntry DEF IsChanged
<1>3. ASSUME NEW old \in Known(m), IsUpdated(m, old, e, Compared(m).events)
      PROVE  /\ e \in Entry
             /\ e.key = EventKey(m) /\ e.ips = Data(m).ips /\ e.expires = Data(m).expires
             /\ e.flag = m[1]
             /\ e.key = EventKey(e.id) /\ e.ips = Data(e.id).ips
  <2>1. /\ old \in Entry /\ old.key = EventKey(m) /\ old.ips = Data(m).ips
        /\ old.key = EventKey(old.id) /\ old.ips = Data(old.id).ips
    BY <1>3 DEF Known, IsUpdated, IdsAreTrue
  <2>2. e = [old EXCEPT !.expires = Data(m).expires, !.flag = m[1]]
    BY <1>3 DEF IsUpdated
  <2> HIDE DEF e
  <2>3. /\ e \in Entry /\ e.id = old.id /\ e.key = old.key /\ e.ips = old.ips
        /\ e.expires = Data(m).expires /\ e.flag = m[1]
    BY <2>1, <2>2, Updated, ZenonT(60)
  <2> QED  BY <2>1, <2>3, SMTT(30)
<1> QED  BY <1>1, <1>2, <1>3, ComparedCases

LEMMA KnowledgeInitially == ComparatorInit => KnowledgeInvariant
BY DEF ComparatorInit, KnowledgeInvariant, KnownIsSound, IdsAreTrue, KeysDiffer, AppliedAreFlagged,
       CurrentIsKnown, NoFile

(* Whatever file is stored or left. *)
LEMMA FileStaysSound ==
  ASSUME ComparatorTypes, KnownIsSound, UNCHANGED blacklist \/ blacklist' = {},
         file' \in {file, Stored, Torn}
  PROVE  KnownIsSound'
<1>1. file'.blacklist \in {file.blacklist, blacklist, {}}
  BY DEF Stored, Torn
<1> QED  BY <1>1 DEF KnownIsSound, IdsAreTrue, KeysDiffer

LEMMA KnowledgeKept ==
  ASSUME ComparatorTypes, SeriesInvariant, KnowledgeInvariant, [ComparatorNext]_vars
  PROVE  KnowledgeInvariant'
<1>1. CASE RestoreState
  <2>1. /\ step = "down" /\ step' \in {"idle", "broken"} /\ UNCHANGED <<applied, file>>
        /\ blacklist' \in {blacklist, file.blacklist}
    BY <1>1 DEF RestoreState, memory, series
  <2>2. KnownIsSound'
    BY <2>1 DEF KnowledgeInvariant, KnownIsSound
  <2>3. AppliedAreFlagged'
    BY <2>1 DEF SeriesInvariant, DownIsEmpty, AppliedAreFlagged
  <2> QED  BY <2>1, <2>2, <2>3 DEF KnowledgeInvariant, CurrentIsKnown
<1>2. ASSUME NEW m \in Message, RejectInvalid(m) \/ RejectOutOfOrder(m)
      PROVE  KnowledgeInvariant'
  <2>1. UNCHANGED <<time, blacklist, applied, file, step, current>>
    BY <1>2 DEF RejectInvalid, RejectOutOfOrder, memory, series
  <2> QED  BY <2>1 DEF KnowledgeInvariant, KnownIsSound, AppliedAreFlagged, CurrentIsKnown, IsKnown
<1>2a. ASSUME NEW m \in Message, RejectKeyless(m)
       PROVE  KnowledgeInvariant'
  <2>1. /\ UNCHANGED <<blacklist, applied, file, step, current>>
        /\ time # 0 => time' = time
    BY <1>2a DEF RejectKeyless
  <2>2. time = 0 => applied = {}
    <3> SUFFICES ASSUME NEW a \in applied, time = 0
                 PROVE  FALSE
      OBVIOUS
    <3>1. Time(a) <= 0 /\ Time(a) \in Nat \ {0}
      BY MessageParts DEF SeriesInvariant, CountedAreApplied, ComparatorTypes
    <3> QED  BY <3>1
  <2>3. AppliedAreFlagged'
    BY <2>1, <2>2 DEF KnowledgeInvariant, AppliedAreFlagged
  <2> QED  BY <2>1, <2>3 DEF KnowledgeInvariant, KnownIsSound, CurrentIsKnown, IsKnown
<1>3. ASSUME NEW m \in Message, ProcessEvent(m)
      PROVE  KnowledgeInvariant'
  <2> DEFINE e == Compared(m).entry
  <2>1. /\ step = "idle" /\ step' = "event" /\ Time(m) >= time /\ time' = Time(m)
        /\ blacklist' = (blacklist \ Known(m)) \cup {e}
        /\ applied' = applied \cup {m} /\ current' = m /\ file' = file
    BY <1>3 DEF ProcessEvent, Receive
  <2>2. /\ e \in Entry
        /\ e.key = EventKey(m) /\ e.ips = Data(m).ips /\ e.expires = Data(m).expires
        /\ e.flag = m[1]
        /\ e.key = EventKey(e.id) /\ e.ips = Data(e.id).ips
    BY ComparedIsKnown DEF ComparatorTypes, KnowledgeInvariant, KnownIsSound
  <2> HIDE DEF e
  <2>3. KnownIsSound'
    BY <2>1, <2>2 DEF KnowledgeInvariant, KnownIsSound, IdsAreTrue, KeysDiffer, Known
  <2>4. AppliedAreFlagged'
    <3> SUFFICES ASSUME NEW a \in applied \cup {m}, Time(a) = Time(m)
                 PROVE  \E d \in blacklist' : HasKey(d, a) /\ d.flag = a[1]
      BY <2>1 DEF AppliedAreFlagged
    <3>1. a \in Message /\ Time(a) \in Nat
      BY MessageParts DEF ComparatorTypes
    <3>2. a[1] = m[1]
      BY <3>1, MessageParts, ComparatorAssumption DEF Time
    <3>3. CASE EventKey(a) = EventKey(m)
      BY <2>1, <2>2, <3>2, <3>3 DEF HasKey
    <3>4. CASE EventKey(a) # EventKey(m)
      <4>1. a \in applied
        BY <3>4
      <4>2. Time(a) = time
        <5>1. Time(a) <= time
          BY <4>1 DEF SeriesInvariant, CountedAreApplied
        <5> QED  BY <2>1, <3>1, <5>1 DEF ComparatorTypes
      <4>3. PICK d \in blacklist : HasKey(d, a) /\ d.flag = a[1]
        BY <2>1, <4>1, <4>2 DEF KnowledgeInvariant, AppliedAreFlagged
      <4> QED  BY <2>1, <3>4, <4>3 DEF HasKey, Known
    <3> QED  BY <3>3, <3>4
  <2> QED  BY <2>1, <2>2, <2>3, <2>4 DEF KnowledgeInvariant, CurrentIsKnown, IsKnown, HasKey
<1>4. CASE PublishEvent \/ GoOn
  <2>1. UNCHANGED <<time, blacklist, applied, file, current>>
    BY <1>4 DEF PublishEvent, GoOn, memory, series
  <2>2. step' = step \/ (step = "event" /\ step' = "idle")
    BY <1>4 DEF PublishEvent, GoOn
  <2> QED  BY <2>1, <2>2 DEF KnowledgeInvariant, KnownIsSound, AppliedAreFlagged, CurrentIsKnown,
                             IsKnown
<1>5. CASE FinalizeSeries
  <2>1. /\ file' = file /\ step' = "deleted"
        /\ blacklist' = Unflagged(blacklist \ (Delisted \cup Expired))
    BY <1>5 DEF FinalizeSeries, ProcessDeleted
  <2>2. /\ blacklist \ (Delisted \cup Expired) \in SUBSET Entry
        /\ IdsAreTrue(blacklist \ (Delisted \cup Expired))
        /\ KeysDiffer(blacklist \ (Delisted \cup Expired))
    BY DEF ComparatorTypes, KnowledgeInvariant, KnownIsSound, IdsAreTrue, KeysDiffer
  <2>3. IdsAreTrue(blacklist') /\ KeysDiffer(blacklist')
    BY <2>1, <2>2, UnflaggedIsSound
  <2>4. AppliedAreFlagged'
    <3> SUFFICES ASSUME NEW m \in applied, Time(m) = time
                 PROVE  m[1] = current[1]
      BY <1>5, <2>1 DEF FinalizeSeries, AppliedAreFlagged
    <3>1. current \in Message /\ Time(current) = time
      BY <1>5 DEF FinalizeSeries, SeriesInvariant, CurrentIsLatest
    <3>2. m \in Message
      BY DEF ComparatorTypes
    <3> QED  BY <3>1, <3>2, MessageParts, ComparatorAssumption DEF Time
  <2> QED  BY <2>1, <2>3, <2>4 DEF KnowledgeInvariant, KnownIsSound, CurrentIsKnown
<1>6. ASSUME NEW s \in Series, OnSeriesTimeout(s)
      PROVE  KnowledgeInvariant'
  <2>1. file' = file /\ step' = "deleted" /\ blacklist' = {TimedOut(s, e) : e \in blacklist}
    BY <1>6, TimeoutBlacklist DEF OnSeriesTimeout
  <2>2. ASSUME NEW d \in blacklist'
        PROVE  \E e \in blacklist : /\ d = TimedOut(s, e)
                                    /\ d.id = e.id /\ d.key = e.key /\ d.ips = e.ips
    <3>1. PICK e \in blacklist : d = TimedOut(s, e)
      BY <2>1
    <3>2. e \in Entry
      BY DEF ComparatorTypes
    <3>3. d.id = e.id /\ d.key = e.key /\ d.ips = e.ips
      BY <3>1, <3>2, TimedOutIs
    <3> QED  BY <3>1, <3>3
  <2>3. IdsAreTrue(blacklist')
    BY <2>2 DEF KnowledgeInvariant, KnownIsSound, IdsAreTrue
  <2>4. KeysDiffer(blacklist')
    BY <2>2 DEF KnowledgeInvariant, KnownIsSound, KeysDiffer
  <2>5. AppliedAreFlagged'
    <3>1. UNCHANGED <<time, applied>> /\ step = "idle" /\ current'[1] = s
      BY <1>6 DEF OnSeriesTimeout
    <3> SUFFICES ASSUME NEW m \in applied, Time(m) = time, m[1] # s
                 PROVE  \E d \in blacklist' : HasKey(d, m) /\ d.flag = m[1]
      BY <2>1, <3>1 DEF AppliedAreFlagged
    <3>2. PICK e \in blacklist : HasKey(e, m) /\ e.flag = m[1]
      BY <3>1 DEF KnowledgeInvariant, AppliedAreFlagged
    <3>3. TimedOut(s, e).key = e.key /\ TimedOut(s, e).flag = m[1]
      BY <3>2, TimedOutIs DEF ComparatorTypes
    <3> QED  BY <2>1, <3>2, <3>3 DEF HasKey
  <2> QED  BY <2>1, <2>3, <2>4, <2>5 DEF KnowledgeInvariant, KnownIsSound, CurrentIsKnown
<1>7. CASE OpenFile \/ OpenFileToStop
  <2>1. UNCHANGED blacklist /\ file' = Torn /\ step' \in {"writing", "stop_writing"}
    BY <1>7 DEF OpenFile, OpenFileToStop, Truncate, memory
  <2>2. /\ UNCHANGED <<time, applied, current>>
        /\ step' = "writing" => step = "deleted"
    BY <1>7 DEF OpenFile, OpenFileToStop, Truncate, memory, series
  <2> QED  BY <2>1, <2>2, FileStaysSound DEF KnowledgeInvariant, AppliedAreFlagged, CurrentIsKnown
<1>8. CASE CloseSeries
  <2>1. /\ UNCHANGED <<time, blacklist, current>> /\ file' \in {file, Stored, Torn}
        /\ step \in {"writing", "deleted"} /\ step' = "idle"
        /\ applied' = {m \in applied : m[1] # current[1]}
    BY <1>8 DEF CloseSeries, memory
  <2>2. KnownIsSound'
    BY <2>1, FileStaysSound DEF KnowledgeInvariant
  <2>3. AppliedAreFlagged'
    <3> SUFFICES ASSUME NEW m \in applied, Time(m) = time, m[1] # current[1]
                 PROVE  \E e \in blacklist : HasKey(e, m) /\ e.flag = m[1]
      BY <2>1 DEF AppliedAreFlagged
    <3> QED  BY <2>1 DEF KnowledgeInvariant, AppliedAreFlagged
  <2> QED  BY <2>1, <2>2, <2>3 DEF KnowledgeInvariant, CurrentIsKnown
<1>9. CASE Exit \/ Stop
  <2>1. blacklist' = {} /\ file' \in {file, Stored, Torn} /\ step' = "down"
    BY <1>9 DEF Exit, Stop, LoseMemory
  <2> QED  BY <2>1, FileStaysSound DEF KnowledgeInvariant, AppliedAreFlagged, CurrentIsKnown
<1>10. CASE Interrupt
  BY <1>10 DEF Interrupt, KnowledgeInvariant, KnownIsSound, AppliedAreFlagged, CurrentIsKnown,
               memory, series
<1>11. CASE UNCHANGED vars
  BY <1>11 DEF vars, KnowledgeInvariant, KnownIsSound, AppliedAreFlagged, CurrentIsKnown, IsKnown,
               memory, series
<1> QED  BY <1>1, <1>2, <1>2a, <1>3, <1>4, <1>5, <1>6, <1>7, <1>8, <1>9, <1>10, <1>11
         DEF ComparatorNext

-----------------------------------------------------------------------------
(* What the consumers are told. *)

(* Entries without their flags are told apart by their ids. *)
LEMMA IdsDiffer ==
  ASSUME NEW entries, IdsAreTrue(entries), KeysDiffer(entries), NEW d \in entries, NEW e \in entries,
         d.id = e.id
  PROVE  d = e
BY DEF IdsAreTrue, KeysDiffer

LEMMA UnflaggedWithout ==
  ASSUME NEW entries \in SUBSET Entry, IdsAreTrue(entries), KeysDiffer(entries),
         NEW gone \in SUBSET entries
  PROVE  Unflagged(entries \ gone) = {x \in Unflagged(entries) : \A g \in gone : x.id # g.id}
<1>1. ASSUME NEW x \in Unflagged(entries \ gone)
      PROVE  x \in Unflagged(entries) /\ \A g \in gone : x.id # g.id
  <2>1. PICK e \in entries \ gone : x = [e EXCEPT !.flag = None]
    BY DEF Unflagged
  <2>2. x.id = e.id
    BY <2>1, UnflaggedEntry
  <2>3. \A g \in gone : g.id # e.id
    BY <2>1, IdsDiffer
  <2> QED  BY <2>1, <2>2, <2>3 DEF Unflagged
<1>2. ASSUME NEW x \in Unflagged(entries), \A g \in gone : x.id # g.id
      PROVE  x \in Unflagged(entries \ gone)
  <2>1. PICK e \in entries : x = [e EXCEPT !.flag = None]
    BY DEF Unflagged
  <2>2. x.id = e.id
    BY <2>1, UnflaggedEntry
  <2>3. e \notin gone
    BY <1>2, <2>2
  <2> QED  BY <2>1, <2>3 DEF Unflagged
<1> QED  BY <1>1, <1>2

LEMMA UnflaggedWith ==
  ASSUME NEW entries, NEW e
  PROVE  Unflagged(entries \cup {e}) = Unflagged(entries) \cup {[e EXCEPT !.flag = None]}
BY DEF Unflagged

LEMMA UnflaggedTimedOut ==
  ASSUME NEW entries \in SUBSET Entry, NEW s
  PROVE  Unflagged({TimedOut(s, e) : e \in entries}) = Unflagged(entries)
<1> DEFINE Plain(e) == [e EXCEPT !.flag = None]
           timedOut == {TimedOut(s, e) : e \in entries}
<1>1. \A e \in entries : Plain(TimedOut(s, e)) = Plain(e)
  BY TimedOutIs
<1>2. Unflagged(timedOut) = {Plain(d) : d \in timedOut} /\ Unflagged(entries) = {Plain(e) : e \in entries}
  BY DEF Unflagged
<1> HIDE DEF Plain
<1>3. {Plain(d) : d \in timedOut} = {Plain(TimedOut(s, e)) : e \in entries}
  OBVIOUS
<1> QED  BY <1>1, <1>2, <1>3

(* As long as nothing is pending. *)
LEMMA UpToDateAtRest ==
  ASSUME pending = {}
  PROVE  ConsumersAreUpToDate <=> listed = Unflagged(blacklist)
BY DEF ConsumersAreUpToDate

LEMMA UpToDateAtRestNext ==
  ASSUME pending' = {}
  PROVE  ConsumersAreUpToDate' <=> listed' = Unflagged(blacklist)'
BY DEF ConsumersAreUpToDate

LEMMA StaysUpToDate ==
  ASSUME ConsumersAreUpToDate, UNCHANGED <<blacklist, listed, pending>>
  PROVE  ConsumersAreUpToDate'
BY DEF ConsumersAreUpToDate, AfterEvent, Unflagged

(* The event that process_event() publishes says how the blacklist changes. *)
LEMMA EventIsUpToDate ==
  ASSUME ComparatorTypes, KnownIsSound, ToldAreUnflagged, NEW m \in Message,
         ProcessEvent(m), listed = Unflagged(blacklist)
  PROVE  ConsumersAreUpToDate'
<1> DEFINE e == Compared(m).entry
           plain == [e EXCEPT !.flag = None]
<1>1. /\ blacklist' = (blacklist \ Known(m)) \cup {e}
      /\ pending' = Compared(m).events /\ listed' = listed
  BY DEF ProcessEvent, consumers
<1>2. /\ Unflagged(blacklist)' = Unflagged(blacklist \ Known(m)) \cup {plain}
      /\ \A event : AfterEvent(event)' = AfterEvent(event)
  BY <1>1, UnflaggedWith DEF Unflagged, AfterEvent
<1>3. Known(m) \in SUBSET blacklist /\ blacklist \in SUBSET Entry /\ e \in Entry
  BY ComparedIsSound DEF Known, ComparatorTypes
<1>4. IdsAreTrue(blacklist) /\ KeysDiffer(blacklist)
  BY DEF KnownIsSound
<1>5. Unflagged(blacklist \ Known(m)) = {x \in listed : \A g \in Known(m) : x.id # g.id}
  BY <1>3, <1>4, UnflaggedWithout
<1>6. \A old \in Known(m) : Known(m) = {old}
  BY <1>3, <1>4 DEF Known, KeysDiffer
<1>7. ASSUME NEW event \in EventRecord, pending' = {event}, ~IsDeletion(event),
             AfterEvent(event) = Unflagged(blacklist \ Known(m)) \cup {plain}
      PROVE  ConsumersAreUpToDate'
  BY <1>2, <1>7 DEF ConsumersAreUpToDate, IsDeletion
<1>8. CASE IsNew(m, e, Compared(m).events)
  <2> DEFINE event == Event("bl-new", e, Nothing)
  <2>1. Known(m) = {} /\ pending' = {event}
    BY <1>1, <1>8 DEF IsNew
  <2>2. event \in EventRecord /\ event.type = "bl-new" /\ event.entry = e
    BY <1>3, EventIsRecord DEF EventType
  <2>3. AfterEvent(event) = listed \cup {plain}
    BY <2>2, AfterEventIs
  <2>4. Unflagged(blacklist \ Known(m)) = listed
    BY <1>5, <2>1
  <2> QED  BY <1>7, <2>1, <2>2, <2>3, <2>4 DEF IsDeletion
<1>9. ASSUME NEW old \in Known(m), IsChanged(m, old, e, Compared(m).events)
      PROVE  ConsumersAreUpToDate'
  <2> DEFINE event == Event("bl-change", e, old.id)
  <2>1. Known(m) = {old} /\ pending' = {event}
    BY <1>1, <1>6, <1>9 DEF IsChanged
  <2>2. old.id \in Message
    BY <1>3 DEF Entry
  <2>3. /\ event \in EventRecord /\ event.type = "bl-change" /\ event.entry = e
        /\ event.replaces = old.id
    BY <1>3, <2>2, EventIsRecord DEF EventType
  <2>4. AfterEvent(event) = {x \in listed : x.id # old.id} \cup {plain}
    BY <2>3, AfterEventIs
  <2>5. Unflagged(blacklist \ Known(m)) = {x \in listed : x.id # old.id}
    BY <1>5, <2>1
  <2> QED  BY <1>7, <2>1, <2>3, <2>4, <2>5 DEF IsDeletion
<1>10. ASSUME NEW old \in Known(m), IsUpdated(m, old, e, Compared(m).events)
       PROVE  ConsumersAreUpToDate'
  <2> DEFINE known == [old EXCEPT !.flag = None]
             renewed == [known EXCEPT !.expires = Data(m).expires]
  <2>1. /\ Known(m) = {old} /\ old \in Entry /\ old \in blacklist
        /\ e = [old EXCEPT !.expires = Data(m).expires, !.flag = m[1]]
    BY <1>3, <1>6, <1>10 DEF IsUpdated
  <2>2. e.id = old.id /\ e.expires = Data(m).expires
    <3> HIDE DEF e
    <3> QED  BY <2>1, Updated
  <2>3. plain = renewed
    BY <2>1 DEF Entry
  <2>4. known \in listed /\ known.id = old.id
    BY <2>1, UnflaggedEntry DEF Unflagged
  <2>5. Unflagged(blacklist \ Known(m)) = {x \in listed : x.id # old.id}
    BY <1>5, <2>1
  <2>6. ASSUME NEW x \in listed, x.id = old.id
        PROVE  x = known
    <3>1. PICK d \in blacklist : x = [d EXCEPT !.flag = None]
      BY DEF Unflagged
    <3>2. d.id = old.id
      BY <1>3, <2>6, <3>1, UnflaggedEntry
    <3>3. d = old
      BY <1>4, <2>1, <3>2, IdsDiffer
    <3> QED  BY <3>1, <3>3
  <2>7. CASE old.expires = Data(m).expires
    <3>1. pending' = {}
      BY <1>1, <1>10, <2>7 DEF IsUpdated
    <3>2. plain = known
      BY <2>1, <2>3, <2>7 DEF Entry
    <3>3. listed = {x \in listed : x.id # old.id} \cup {known}
      BY <2>4, <2>6
    <3> QED  BY <1>1, <1>2, <2>5, <3>1, <3>2, <3>3, UpToDateAtRestNext
  <2>8. CASE old.expires # Data(m).expires
    <3> DEFINE event == Event("bl-update", e, Nothing)
               Renewed(x) == IF x.id = old.id THEN [x EXCEPT !.expires = Data(m).expires] ELSE x
    <3>1. pending' = {event}
      BY <1>1, <1>10, <2>8 DEF IsUpdated
    <3>2. event \in EventRecord /\ event.type = "bl-update" /\ event.entry = e
      BY <1>3, EventIsRecord DEF EventType
    <3>3. AfterEvent(event) = {Renewed(x) : x \in listed}
      <4>1. AfterEvent(event) = {IF x.id = e.id THEN [x EXCEPT !.expires = e.expires] ELSE x
                                   : x \in listed}
        BY <3>2, AfterEventIs
      <4> QED  BY <2>2, <4>1
    <3>4. Renewed(known) = renewed
      BY <2>4
    <3>5. \A x \in listed : x.id # old.id => Renewed(x) = x
      OBVIOUS
    <3> HIDE DEF Renewed, renewed, known, event
    <3>6. {Renewed(x) : x \in listed} = {x \in listed : x.id # old.id} \cup {renewed}
      BY <2>4, <2>6, <3>4, <3>5
    <3> QED  BY <1>7, <2>3, <2>5, <3>1, <3>2, <3>3, <3>6 DEF IsDeletion
  <2> QED  BY <2>7, <2>8
<1> QED  BY <1>8, <1>9, <1>10, ComparedCases

(* ...and so do the deletions at the end of a series. *)
LEMMA DeletionsAreUpToDate ==
  ASSUME ComparatorTypes, KnownIsSound, ProcessDeleted, listed = Unflagged(blacklist),
         listed' = listed
  PROVE  ConsumersAreUpToDate'
<1> DEFINE gone == Delisted \cup Expired
<1>1. gone \in SUBSET blacklist
  BY DEF Delisted, Expired
<1>2. Unflagged(blacklist \ gone) = {x \in listed : \A g \in gone : x.id # g.id}
  <2>1. blacklist \in SUBSET Entry /\ IdsAreTrue(blacklist) /\ KeysDiffer(blacklist)
    BY DEF ComparatorTypes, KnownIsSound
  <2> HIDE DEF gone
  <2> QED  BY <1>1, <2>1, UnflaggedWithout
<1>3. blacklist' = Unflagged(blacklist \ gone)
  BY DEF ProcessDeleted
<1>4. Unflagged(blacklist)' = blacklist'
  <2>1. blacklist' \subseteq Entry /\ \A d \in blacklist' : d.flag = None
    BY <1>1, <1>3, UnflaggedEntries DEF ComparatorTypes
  <2>2. \A d \in blacklist' : [d EXCEPT !.flag = None] = d
    BY <2>1 DEF Entry
  <2> QED  BY <2>2 DEF Unflagged
<1>5. ASSUME NEW g \in gone
      PROVE  \E event \in pending' : event.entry = g
  <2>1. \/ g \in Delisted /\ Event("bl-delist", g, Nothing) \in pending'
        \/ g \in Expired /\ Event("bl-expire", g, Nothing) \in pending'
    BY DEF ProcessDeleted
  <2> QED  BY <2>1 DEF Event
<1>6. \A event \in pending' : event.entry \in gone
  BY DEF ProcessDeleted, Event
<1> HIDE DEF gone
<1>7. {x \in listed : \A g \in gone : x.id # g.id}
        = {x \in listed : \A event \in pending' : x.id # event.entry.id}
  BY <1>5, <1>6
<1> QED  BY <1>2, <1>3, <1>4, <1>7, DeletionsAreEvents DEF ConsumersAreUpToDate, IsDeletion

(* The entries of the list just completed are flagged. *)
LEMMA FlaggedAreNotDelisted ==
  ASSUME ComparatorTypes, SeriesInvariant, KnowledgeInvariant, FinalizeSeries
  PROVE  DelistedAreNotListed'
<1>1. /\ step = "event" /\ step' = "deleted" /\ UNCHANGED <<current, applied, time>>
      /\ ProcessDeleted
  BY DEF FinalizeSeries
<1>2. SeriesInvariant'
  <2>1. [ComparatorNext]_vars
    BY DEF ComparatorNext
  <2> QED  BY <2>1, SeriesKept
<1>3. current \in Message /\ Time(current) = time
  BY <1>1 DEF SeriesInvariant, CurrentIsLatest
<1> SUFFICES ASSUME NEW event \in pending', event.type = "bl-delist",
                    NEW n \in Numbers(current[1]), HasEventKey(<<current[1], n>>),
                    EventKey(<<current[1], n>>) = event.entry.key
             PROVE  FALSE
  BY <1>1 DEF DelistedAreNotListed
<1>4. <<current[1], n>> \in applied
  BY <1>1, <1>2, <1>3, MessageParts DEF SeriesInvariant, AllApplied
<1>5. PICK d \in blacklist : d.key = EventKey(<<current[1], n>>) /\ d.flag = current[1]
  BY <1>1, <1>3, <1>4 DEF KnowledgeInvariant, AppliedAreFlagged, Time, HasKey
<1>6. event.entry \in blacklist /\ event.entry.flag = None
  BY <1>1 DEF ProcessDeleted, Delisted, Event
<1>7. d = event.entry
  BY <1>5, <1>6 DEF KnowledgeInvariant, KnownIsSound, KeysDiffer
<1> QED  BY <1>3, <1>5, <1>6, <1>7, MessageParts

LEMMA ConsumersInitially == ComparatorInit => ConsumersInvariant
BY DEF ComparatorInit, ConsumersInvariant, DelistedAreNotListed, ToldAreUnflagged, UpToDate, Emitted,
       EmittedEarlier, Up, NoFile

LEMMA ConsumersKept ==
  ASSUME ComparatorInvariant, [ComparatorNext]_vars
  PROVE  ConsumersInvariant'
<1> USE DEF ComparatorInvariant
<1>1. CASE RestoreState
  <2>1. /\ step = "down" /\ step' \in {"idle", "broken"} /\ pending = {}
        /\ UNCHANGED <<file, pending, current, listed, emitted, exits, interrupts>>
        /\ blacklist' \in {blacklist, file.blacklist}
        /\ step' = "idle" => blacklist' = file.blacklist
    BY <1>1 DEF RestoreState, memory, consumers, bounds, SeriesInvariant, NothingPending
  <2>2. UpToDate'
    <3> SUFFICES ASSUME exits = 0, interrupts = 0, step' = "idle"
                 PROVE  ConsumersAreUpToDate'
      BY <2>1 DEF UpToDate, Up
    <3>1. file = NoFile /\ listed = {}
      BY <2>1 DEF ConsumersInvariant, UpToDate
    <3>2. listed' = {} /\ Unflagged(blacklist)' = {}
      BY <2>1, <3>1 DEF NoFile, Unflagged
    <3> QED  BY <2>1, <3>2, UpToDateAtRestNext
  <2>3. Emitted'
    BY <2>1 DEF ConsumersInvariant, Emitted, EmittedEarlier, WillBeEmitted
  <2> QED  BY <2>1, <2>2, <2>3 DEF ConsumersInvariant, DelistedAreNotListed, ToldAreUnflagged
<1>2. ASSUME NEW m \in Message, RejectInvalid(m) \/ RejectOutOfOrder(m) \/ RejectKeyless(m)
      PROVE  ConsumersInvariant'
  <2>1. UNCHANGED <<blacklist, file, step, current, pending, listed, emitted, exits, interrupts>>
    BY <1>2 DEF RejectInvalid, RejectOutOfOrder, RejectKeyless, Receive, memory, consumers
  <2> QED  BY <2>1, StaysUpToDate DEF ConsumersInvariant, DelistedAreNotListed, ToldAreUnflagged,
              UpToDate, Emitted, EmittedEarlier, WillBeEmitted, Up
<1>3. ASSUME NEW m \in Message, ProcessEvent(m)
      PROVE  ConsumersInvariant'
  <2> DEFINE e == Compared(m).entry
  <2>1. /\ step = "idle" /\ step' = "event" /\ pending = {} /\ pending' = Compared(m).events
        /\ blacklist' = (blacklist \ Known(m)) \cup {e}
        /\ UNCHANGED <<file, listed, emitted, exits, interrupts>>
    BY <1>3 DEF ProcessEvent, Receive, consumers, SeriesInvariant, NothingPending
  <2>2. UpToDate'
    <3> SUFFICES ASSUME exits = 0, interrupts = 0
                 PROVE  ConsumersAreUpToDate'
      BY <2>1 DEF UpToDate
    <3>1. listed = Unflagged(blacklist)
      BY <2>1, UpToDateAtRest DEF ConsumersInvariant, UpToDate, Up
    <3> QED  BY <1>3, <3>1, EventIsUpToDate DEF ConsumersInvariant, KnowledgeInvariant
  <2>3. interrupts = 0 => \A d \in blacklist : d.id \in emitted
    BY <2>1 DEF ConsumersInvariant, Emitted, WillBeEmitted
  <2>4. e \in Entry /\ \A old \in Known(m) : old \in blacklist /\ old \in Entry
    BY ComparedIsSound DEF Known, ComparatorTypes
  <2>5. CASE IsNew(m, e, Compared(m).events)
    <3>1. /\ pending' = {Event("bl-new", e, Nothing)}
          /\ Event("bl-new", e, Nothing).type = "bl-new" /\ Event("bl-new", e, Nothing).entry = e
      BY <2>1, <2>4, <2>5, EventIsRecord DEF IsNew, EventType
    <3>2. Emitted' /\ DelistedAreNotListed'
      BY <2>1, <2>3, <3>1 DEF ConsumersInvariant, Emitted, EmittedEarlier, WillBeEmitted,
                              DelistedAreNotListed
    <3> QED  BY <2>1, <2>2, <3>2 DEF ConsumersInvariant, ToldAreUnflagged
  <2>6. ASSUME NEW old \in Known(m), IsChanged(m, old, e, Compared(m).events)
        PROVE  ConsumersInvariant'
    <3> DEFINE event == Event("bl-change", e, old.id)
    <3>1. pending' = {event}
      BY <2>1, <2>6 DEF IsChanged
    <3>2. event.type = "bl-change" /\ event.entry = e /\ event.replaces = old.id
      BY DEF Event
    <3> HIDE DEF event
    <3>3. Emitted' /\ DelistedAreNotListed'
      BY <2>1, <2>3, <2>4, <3>1, <3>2 DEF ConsumersInvariant, Emitted, EmittedEarlier,
         WillBeEmitted, DelistedAreNotListed
    <3> QED  BY <2>1, <2>2, <3>3 DEF ConsumersInvariant, ToldAreUnflagged
  <2>7. ASSUME NEW old \in Known(m), IsUpdated(m, old, e, Compared(m).events)
        PROVE  ConsumersInvariant'
    <3>1. e.id = old.id
      <4>1. e = [old EXCEPT !.expires = Data(m).expires, !.flag = m[1]]
        BY <2>7 DEF IsUpdated
      <4> HIDE DEF e
      <4> QED  BY <2>4, <4>1, Updated
    <3>2. \A event \in pending' : event.type = "bl-update" /\ event.entry = e
      BY <2>1, <2>7 DEF IsUpdated, Event
    <3>3. Emitted' /\ DelistedAreNotListed'
      BY <2>1, <2>3, <2>4, <3>1, <3>2 DEF ConsumersInvariant, Emitted, EmittedEarlier,
         WillBeEmitted, DelistedAreNotListed
    <3> QED  BY <2>1, <2>2, <3>3 DEF ConsumersInvariant, ToldAreUnflagged
  <2> QED  BY <2>5, <2>6, <2>7, ComparedCases
<1>4. CASE PublishEvent
  <2>1. PICK event \in pending :
          /\ listed' = AfterEvent(event)
          /\ emitted' = IF event.type \in {"bl-new", "bl-change"}
                          THEN emitted \cup {event.entry.id} ELSE emitted
          /\ pending' = pending \ {event}
    BY <1>4 DEF PublishEvent
  <2>2. /\ step \in {"event", "deleted"}
        /\ UNCHANGED <<blacklist, file, step, current, exits, interrupts>>
    BY <1>4 DEF PublishEvent, memory, series, bounds
  <2>3. event \in EventRecord
    BY DEF EventRecord, ComparatorTypes
  <2>4. ToldAreUnflagged'
    BY <2>1, <2>3, AfterEventTypes DEF ToldAreUnflagged, ConsumersInvariant, ComparatorTypes
  <2>5. UpToDate'
    <3> SUFFICES ASSUME exits = 0, interrupts = 0
                 PROVE  ConsumersAreUpToDate'
      BY <2>2 DEF UpToDate
    <3>1. ConsumersAreUpToDate
      BY <2>2 DEF ConsumersInvariant, UpToDate, Up
    <3>2. CASE pending = {event} /\ AfterEvent(event) = Unflagged(blacklist)
      BY <2>1, <2>2, <3>2, UpToDateAtRestNext DEF Unflagged
    <3>3. CASE /\ \A other \in pending : IsDeletion(other)
               /\ Unflagged(blacklist)
                    = {x \in listed : \A other \in pending : x.id # other.entry.id}
      <4>1. listed' = {x \in listed : x.id # event.entry.id}
        BY <2>1, <2>3, <3>3, AfterEventIs
      <4>2. {x \in listed' : \A other \in pending' : x.id # other.entry.id}
              = {x \in listed : \A other \in pending : x.id # other.entry.id}
        BY <2>1, <4>1
      <4>3. Unflagged(blacklist)' = Unflagged(blacklist)
        BY <2>2 DEF Unflagged
      <4>4. \A other \in pending' : IsDeletion(other)
        BY <2>1, <3>3
      <4> QED  BY <3>3, <4>2, <4>3, <4>4 DEF ConsumersAreUpToDate, IsDeletion
    <3> QED  BY <3>1, <3>2, <3>3 DEF ConsumersAreUpToDate
  <2>6. Emitted'
    <3>1. \A id : WillBeEmitted(id) => WillBeEmitted(id)'
      BY <2>1 DEF WillBeEmitted
    <3>2. emitted \subseteq emitted' /\ pending' \subseteq pending
      BY <2>1
    <3>3. EmittedEarlier'
      BY <2>2, <3>2 DEF ConsumersInvariant, Emitted, EmittedEarlier
    <3> QED  BY <2>2, <3>1, <3>2, <3>3 DEF ConsumersInvariant, Emitted
  <2> QED  BY <2>1, <2>2, <2>4, <2>5, <2>6 DEF ConsumersInvariant, DelistedAreNotListed
<1>5. CASE GoOn
  <2>1. /\ UNCHANGED <<blacklist, file, current, pending, listed, emitted, exits, interrupts>>
        /\ step = "event" /\ step' = "idle"
    BY <1>5 DEF GoOn, memory, consumers, bounds
  <2> QED  BY <2>1, StaysUpToDate DEF ConsumersInvariant, DelistedAreNotListed, ToldAreUnflagged,
              UpToDate, Emitted, EmittedEarlier, WillBeEmitted, Up
<1>6. CASE FinalizeSeries
  <2>1. /\ step = "event" /\ step' = "deleted" /\ pending = {} /\ ProcessDeleted
        /\ UNCHANGED <<file, current, listed, emitted, exits, interrupts>>
    BY <1>6 DEF FinalizeSeries, consumers, bounds
  <2>2. UpToDate'
    <3> SUFFICES ASSUME exits = 0, interrupts = 0
                 PROVE  ConsumersAreUpToDate'
      BY <2>1 DEF UpToDate
    <3>1. listed = Unflagged(blacklist)
      BY <2>1, UpToDateAtRest DEF ConsumersInvariant, UpToDate, Up
    <3> QED  BY <2>1, <3>1, DeletionsAreUpToDate DEF KnowledgeInvariant
  <2>3. interrupts = 0 => \A d \in blacklist : d.id \in emitted
    BY <2>1 DEF ConsumersInvariant, Emitted, WillBeEmitted
  <2>4. \A d \in blacklist' : \E g \in blacklist : d.id = g.id
    <3> SUFFICES ASSUME NEW d \in blacklist'
                 PROVE  \E g \in blacklist : d.id = g.id
      OBVIOUS
    <3>1. PICK g \in blacklist : d = [g EXCEPT !.flag = None]
      BY <2>1 DEF ProcessDeleted, Unflagged
    <3> QED  BY <3>1, UnflaggedEntry DEF ComparatorTypes
  <2>5. \A event \in pending' : event.entry \in blacklist /\ event.type \in {"bl-delist", "bl-expire"}
    BY <2>1 DEF ProcessDeleted, Delisted, Expired, Event
  <2>6. Emitted'
    BY <2>1, <2>3, <2>4, <2>5 DEF ConsumersInvariant, Emitted, EmittedEarlier, WillBeEmitted
  <2> QED  BY <1>6, <2>1, <2>2, <2>6, FlaggedAreNotDelisted DEF ConsumersInvariant, ToldAreUnflagged
<1>7. ASSUME NEW s \in Series, OnSeriesTimeout(s)
      PROVE  ConsumersInvariant'
  <2>1. /\ step = "idle" /\ step' = "deleted" /\ pending = {} /\ pending' = {}
        /\ UNCHANGED <<file, listed, emitted, exits, interrupts>>
    BY <1>7 DEF OnSeriesTimeout, consumers, bounds, SeriesInvariant, NothingPending
  <2>2. blacklist' = {TimedOut(s, e) : e \in blacklist}
    BY <1>7, TimeoutBlacklist
  <2>3. UpToDate'
    <3> SUFFICES ASSUME exits = 0, interrupts = 0
                 PROVE  ConsumersAreUpToDate'
      BY <2>1 DEF UpToDate
    <3>1. listed = Unflagged(blacklist)
      BY <2>1, UpToDateAtRest DEF ConsumersInvariant, UpToDate, Up
    <3>2. Unflagged(blacklist') = Unflagged(blacklist)
      BY <2>2, UnflaggedTimedOut DEF ComparatorTypes
    <3>3. Unflagged(blacklist)' = Unflagged(blacklist')
      BY DEF Unflagged
    <3> QED  BY <2>1, <3>1, <3>2, <3>3, UpToDateAtRestNext
  <2>4. \A d \in blacklist' : \E g \in blacklist : d.id = g.id
    <3> SUFFICES ASSUME NEW d \in blacklist'
                 PROVE  \E g \in blacklist : d.id = g.id
      OBVIOUS
    <3>1. PICK g \in blacklist : d = TimedOut(s, g)
      BY <2>2
    <3>2. g \in Entry
      BY DEF ComparatorTypes
    <3> QED  BY <3>1, <3>2, TimedOutIs
  <2>5. Emitted'
    BY <2>1, <2>4 DEF ConsumersInvariant, Emitted, EmittedEarlier, WillBeEmitted
  <2> QED  BY <2>1, <2>3, <2>5 DEF ConsumersInvariant, DelistedAreNotListed, ToldAreUnflagged
<1>8. CASE OpenFile \/ OpenFileToStop
  <2>1. /\ UNCHANGED <<blacklist, current, pending, listed, emitted, exits, interrupts>>
        /\ \/ step = "deleted" /\ step' = "writing"
           \/ step = "stop" /\ step' = "stop_writing"
        /\ file'.blacklist = {}
    BY <1>8 DEF OpenFile, OpenFileToStop, Truncate, Torn, memory, consumers, bounds
  <2> QED  BY <2>1, StaysUpToDate DEF ConsumersInvariant, DelistedAreNotListed, ToldAreUnflagged,
              UpToDate, Emitted, EmittedEarlier, WillBeEmitted, Up
<1>9. CASE CloseSeries
  <2>1. /\ UNCHANGED <<blacklist, current, pending, listed, emitted, exits, interrupts>>
        /\ step \in {"writing", "deleted"} /\ step' = "idle" /\ pending = {}
        /\ file' \in {file, Stored, Torn}
    BY <1>9 DEF CloseSeries, memory, consumers, bounds, SeriesInvariant, NothingPending
  <2>2. file'.blacklist \in {file.blacklist, blacklist, {}}
    BY <2>1 DEF Stored, Torn
  <2>3. Emitted'
    BY <2>1, <2>2 DEF ConsumersInvariant, Emitted, EmittedEarlier, WillBeEmitted
  <2> QED  BY <2>1, <2>3, StaysUpToDate DEF ConsumersInvariant, DelistedAreNotListed,
              ToldAreUnflagged, UpToDate, Up
<1>10. CASE Exit
  <2>1. /\ UNCHANGED <<file, listed, emitted, interrupts>> /\ exits' > 0
        /\ blacklist' = {} /\ pending' = {} /\ step' = "down"
    BY <1>10 DEF Exit, LoseMemory, consumers, ComparatorTypes
  <2> QED  BY <2>1 DEF ConsumersInvariant, DelistedAreNotListed, ToldAreUnflagged, UpToDate,
                       Emitted, EmittedEarlier, WillBeEmitted
<1>11. CASE Interrupt
  <2>1. /\ UNCHANGED <<blacklist, file, current, pending, listed, emitted>> /\ interrupts' > 0
    BY <1>11 DEF Interrupt, consumers, memory, ComparatorTypes
  <2> QED  BY <2>1 DEF ConsumersInvariant, DelistedAreNotListed, ToldAreUnflagged, UpToDate,
                       Emitted, EmittedEarlier, WillBeEmitted
<1>12. CASE Stop
  <2>1. /\ UNCHANGED <<listed, emitted, interrupts>> /\ pending' = {} /\ step' = "down"
        /\ interrupts > 0
    BY <1>12 DEF Stop, LoseMemory, consumers, bounds, ConsumersInvariant, Emitted
  <2> QED  BY <2>1 DEF ConsumersInvariant, DelistedAreNotListed, ToldAreUnflagged, UpToDate,
                       Emitted, EmittedEarlier, WillBeEmitted
<1>13. CASE UNCHANGED vars
  <2>1. UNCHANGED <<blacklist, file, step, current, pending, listed, emitted, exits, interrupts>>
    BY <1>13 DEF vars, memory, consumers, bounds
  <2> QED  BY <2>1, StaysUpToDate DEF ConsumersInvariant, DelistedAreNotListed, ToldAreUnflagged,
              UpToDate, Emitted, EmittedEarlier, WillBeEmitted, Up
<1> QED  BY <1>1, <1>2, <1>3, <1>4, <1>5, <1>6, <1>7, <1>8, <1>9, <1>10, <1>11, <1>12, <1>13
         DEF ComparatorNext

-----------------------------------------------------------------------------
LEMMA ComparatorInvariantHolds == ComparatorSpec => []ComparatorInvariant
<1>1. ComparatorInit => ComparatorInvariant
  BY TypesInitially, SeriesInitially, WaitingInitially, KnowledgeInitially, ConsumersInitially
  DEF ComparatorInvariant
<1>2. ComparatorInvariant /\ [ComparatorNext]_vars => ComparatorInvariant'
  BY TypesKept, SeriesKept, WaitingKept, KnowledgeKept, ConsumersKept
  DEF ComparatorInvariant, ConsumersInvariant
<1> QED  BY <1>1, <1>2, PTL DEF ComparatorSpec

(* finalize_series() finds a series complete only when all its messages have come
   since it was opened, and those that have a key have been accepted; and as long
   as the comparator waits for messages, no series has been accepted as a whole,
   and exactly the open ones have a timeout: for any lists, in whatever order and
   however often their messages come, and whenever the process ends. *)
THEOREM SeriesAlwaysEndProperly == ComparatorSpec => []SeriesEndProperly
<1>1. ComparatorInvariant => SeriesEndProperly
  BY DEF ComparatorInvariant, SeriesInvariant, AllApplied, ArmedAgree, OpenSeries,
         WaitingInvariant, NoneIsLeftWaiting, LacksMessage, SeriesEndProperly
<1> QED  BY <1>1, ComparatorInvariantHolds, PTL

(* What publish_event() tells the consumers agrees with the blacklist, and with
   what they have been told before. *)
THEOREM ConsumersAlwaysAgree == ComparatorSpec => []ConsumersAgree
<1>1. ASSUME ComparatorInvariant
      PROVE  ConsumersAgree
  <2>1. EmittedEarlier
    BY <1>1 DEF ComparatorInvariant, ConsumersInvariant, Emitted
  <2>2. ASSUME exits + interrupts = 0, Up
        PROVE  ConsumersAreUpToDate
    <3>1. exits = 0 /\ interrupts = 0
      BY <1>1, <2>2 DEF ComparatorInvariant, ComparatorTypes
    <3> QED  BY <1>1, <2>2, <3>1 DEF ComparatorInvariant, ConsumersInvariant, UpToDate
  <2>3. ASSUME exits + interrupts = 0, Up, step = "event", pending = {}
        PROVE  \E e \in listed : /\ e.key = EventKey(current)
                                 /\ e.ips = Data(current).ips /\ e.expires = Data(current).expires
    <3>1. listed = Unflagged(blacklist)
      BY <2>2, <2>3, UpToDateAtRest
    <3>2. PICK e \in blacklist : /\ e.key = EventKey(current)
                                 /\ e.ips = Data(current).ips /\ e.expires = Data(current).expires
      BY <1>1, <2>3 DEF ComparatorInvariant, KnowledgeInvariant, CurrentIsKnown, IsKnown, HasKey
    <3>3. e \in Entry
      BY <1>1 DEF ComparatorInvariant, ComparatorTypes
    <3>4. [e EXCEPT !.flag = None] \in listed
      BY <3>1 DEF Unflagged
    <3> QED  BY <3>2, <3>3, <3>4, UnflaggedEntry
  <2>4. SameBlacklist
    BY <1>1, <2>2, <2>3 DEF ComparatorInvariant, ConsumersInvariant, DelistedAreNotListed,
                            SameBlacklist
  <2> QED  BY <2>1, <2>4 DEF ConsumersAgree
<1> QED  BY <1>1, ComparatorInvariantHolds, PTL

=============================================================================
