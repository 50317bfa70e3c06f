-------------------------- MODULE ComponentsProofs --------------------------
(***************************************************************************)
(* Proofs about the two kinds of components that LegacyQueuedBase knows.   *)
(*                                                                         *)
(* The MISP collector, which publishes iteratively: for any events and     *)
(* samples, and any number of troubles, the state file confirms only what  *)
(* has been sent, and nothing is sent that it confirms.                    *)
(*                                                                         *)
(* A component with an input queue: for any messages, any number of        *)
(* outputs, channels to set up and breakdowns, nothing is published twice  *)
(* without a breakdown, and no message is lost.                            *)
(***************************************************************************)
EXTENDS QueuedComponent, MispCollector, TLAPS

StateType == [events : Nat, samples : Nat, processed : SUBSET Sample]

Step == {"none", "fetch", "events", "confirm events", "samples", "next sample", "download",
         "confirm sample", "finish", "ended"}

RunType == [step : Step, now : Nat, state : StateType, loaded : StateType,
            found : SUBSET Event, todo : SUBSET Sample, at : SUBSET Sample,
            failed : SUBSET Sample]

MispTypes ==
  /\ clock \in Nat
  /\ added \in [Event -> Nat]
  /\ file \in StateType
  /\ run \in RunType

(* The state in memory is that of the file. *)
StateIsSaved == run.state = file

Fetching == {"fetch", "events", "confirm events"}
Searching == {"events", "confirm events", "samples"}
Early == {"fetch", "events", "confirm events", "samples"}
Late == {"samples", "next sample", "download", "confirm sample", "finish"}

(* The times that the file confirms lie behind, and in their order. *)
TimesAgree ==
  /\ run.now <= clock
  /\ run.step \in Early => clock <= run.now + Leeway
  /\ file.samples <= file.events /\ file.events <= clock
  /\ run.step # "none" => file.events <= run.now
  /\ run.step \in Late => file.events = run.now
  /\ run.step \in Fetching /\ ~Overdue =>
       file.samples = file.events

(* What has been published last, and is confirmed next. *)
Published == IF run.step = "confirm events" THEN run.found ELSE run.at

(* The coroutine goes on with an empty buffer, when all it has published has
   been sent. *)
BufferHolds ==
  /\ buffer = <<>> \/ buffer = <<Published>>
  /\ gen \in {"down", "setup", "scheduled", "running", "pausing"} => buffer = <<>>
  /\ run.step = "fetch" => gen = "down"

FlushedIsSent ==
  run.step \in {"confirm events", "confirm sample"} /\ buffer = <<>> => Published \subseteq sent

(* What is older than this run, and therefore is confirmed by it, has been
   sent or is going to be. *)
Old == {e \in Event : added[e] # 0 /\ added[e] < run.now}

EventsInHand ==
  /\ run.step \in {"events", "confirm events"} => Old \subseteq sent \cup run.found
  /\ run.step \in Searching /\ ~Overdue =>
       \A e \in Old : added[e] < file.samples \/ e \in run.found

SamplesInHand ==
  \A e \in Old :
    /\ run.step \in {"next sample", "download"} =>
         SamplesOf[e] \subseteq sent \cup givenUp \cup run.todo \cup run.failed
    /\ run.step = "confirm sample" =>
         SamplesOf[e] \subseteq sent \cup givenUp \cup run.todo \cup run.failed \cup run.at
    /\ run.step = "finish" =>
         SamplesOf[e] \subseteq sent \cup givenUp \cup run.failed

(* What the file does not confirm, or the leeway takes in again. *)
EventIsDue(e) == file.events <= added[e] + Leeway
SampleIsDue(s) ==
  /\ s \notin file.processed
  /\ \A e \in Event : s \in SamplesOf[e] => file.samples <= added[e] + Leeway

Due(x) == (x \in Event => EventIsDue(x)) /\ SampleIsDue(x)

(* All that the run deals with is due. *)
WorkIsDue ==
  /\ run.step = "events" => \A e \in run.found : EventIsDue(e)
  /\ run.step \in Searching /\ ~Overdue =>
       \A e \in run.found : file.samples <= added[e] + Leeway
  /\ run.step \in {"next sample", "download", "confirm sample"} =>
       \A s \in run.todo : SampleIsDue(s)
  /\ run.step = "download" => run.todo # {}
  /\ run.step = "confirm sample" => run.at \cap run.todo = {}
  /\ buffer # <<>> => \A x \in Published : Due(x)

MispInvariant ==
  /\ MispTypes /\ StateIsSaved /\ TimesAgree
  /\ BufferHolds /\ FlushedIsSent
  /\ EventsInHand /\ SamplesInHand /\ WorkIsDue
  /\ ConfirmedIsSent

-----------------------------------------------------------------------------
(* Samples of events are no events, and belong to one of them. *)
LEMMA SamplesAreSamples ==
  ASSUME NEW e \in Event
  PROVE  /\ SamplesOf[e] \subseteq Sample
         /\ \A d \in Event : d \notin SamplesOf[e]
         /\ \A d \in Event, s \in SamplesOf[e] : s \in SamplesOf[d] => d = e
BY MispAssumption DEF Sample

(* What a run begins with. *)
LEMMA BegunRun ==
  ASSUME NEW t \in Nat, NEW s \in StateType, NEW place \in Step
  PROVE  LET r == Begun(place, t, s)
         IN  /\ r \in RunType /\ r.step = place /\ r.now = t /\ r.state = s
             /\ r.loaded = s
BY DEF Begun, RunType

(* The parts of the invariant that speak of what the run has in hand. *)
InHand == EventsInHand /\ SamplesInHand /\ WorkIsDue /\ ConfirmedIsSent

(* They remain when the run goes on and things are sent, *)
LEMMA InHandRemains ==
  ASSUME InHand, UNCHANGED <<run, added, file, givenUp>>, sent \subseteq sent',
         buffer' # <<>> => buffer # <<>>
  PROVE  InHand'
<1>1. Old' = Old /\ Published' = Published
  BY DEF Old, Published
<1>2. EventsInHand' /\ SamplesInHand'
  BY <1>1 DEF InHand, EventsInHand, Overdue, SamplesInHand, Old
<1>3. \A x : (EventIsDue(x)' <=> EventIsDue(x)) /\ (SampleIsDue(x)' <=> SampleIsDue(x))
  BY DEF EventIsDue, SampleIsDue
<1>4. WorkIsDue'
  BY <1>1, <1>3 DEF InHand, WorkIsDue, Due, Overdue
<1>5. ConfirmedIsSent'
  BY DEF InHand, ConfirmedIsSent
<1> QED
  BY <1>2, <1>4, <1>5 DEF InHand

(* and when there is no run any more, or a new one that has nothing yet. *)
LEMMA NothingInHand ==
  ASSUME InHand, UNCHANGED <<sent, added, file, givenUp>>, buffer' = <<>>,
         run'.step \in {"none", "fetch", "ended"}
  PROVE  InHand'
<1>1. EventsInHand' /\ SamplesInHand' /\ WorkIsDue'
  BY DEF EventsInHand, SamplesInHand, WorkIsDue, Searching
<1>2. ConfirmedIsSent'
  BY DEF InHand, ConfirmedIsSent
<1> QED
  BY <1>1, <1>2 DEF InHand

-----------------------------------------------------------------------------
(* The numbers that TimesAgree speaks of. *)
LEMMA Numbers ==
  ASSUME MispTypes
  PROVE  /\ clock \in Nat /\ run.now \in Nat /\ Leeway \in Nat
         /\ file.samples \in Nat /\ file.events \in Nat
         /\ \A e \in Event : added[e] \in Nat
BY MispAssumption DEF MispTypes, RunType, StateType

(* The invariant holds when the collector has never been run. *)
LEMMA MispInitially == MispInit => MispInvariant
<1> SUFFICES ASSUME MispInit PROVE MispInvariant
  OBVIOUS
<1>1. /\ gen = "down" /\ buffer = <<>> /\ sent = {} /\ clock = 1
      /\ added = [e \in Event |-> 0] /\ file = [events |-> 1, samples |-> 1, processed |-> {}]
      /\ run = Begun("none", 0, file)
  BY DEF MispInit, PublishingInit
<1>2. file \in StateType
  BY <1>1 DEF StateType
<1>3. run \in RunType /\ run.step = "none" /\ run.now = 0 /\ run.state = file
  <2>1. 0 \in Nat /\ "none" \in Step
    BY DEF Step
  <2> QED
    BY <1>1, <1>2, <2>1, BegunRun
<1>4. MispTypes
  BY <1>1, <1>2, <1>3 DEF MispTypes
<1>5. run.step \notin Early \cup Late \cup Fetching \cup Searching
  BY <1>3 DEF Early, Late, Fetching, Searching
<1>8. StateIsSaved /\ BufferHolds /\ FlushedIsSent
  BY <1>1, <1>3 DEF StateIsSaved, BufferHolds, FlushedIsSent
<1>9. TimesAgree
  BY <1>1, <1>3, <1>5 DEF TimesAgree
<1>6. EventsInHand /\ SamplesInHand /\ WorkIsDue
  BY <1>1, <1>3 DEF EventsInHand, SamplesInHand, WorkIsDue, Searching
<1>7. ConfirmedIsSent
  BY <1>1 DEF ConfirmedIsSent
<1> QED
  BY <1>4, <1>6, <1>7, <1>8, <1>9 DEF MispInvariant

(* Time. *)
LEMMA TickKeeps == MispInvariant /\ Tick => MispInvariant'
<1> SUFFICES ASSUME MispInvariant, Tick PROVE MispInvariant'
  OBVIOUS
<1>1. /\ clock' = clock + 1 /\ (run.step \in Early => clock < run.now + Leeway)
      /\ UNCHANGED <<gen, outcome, buffer, sent, givenUp, added, file, run>>
  BY DEF Tick, AsksInTime, Early, publishing, Past
<1>2. /\ clock \in Nat /\ run.now \in Nat /\ Leeway \in Nat
      /\ file.samples \in Nat /\ file.events \in Nat
  BY Numbers DEF MispInvariant
<1>3. MispTypes'
  BY <1>1, <1>2 DEF MispInvariant, MispTypes
<1>4. TimesAgree'
  BY <1>1, <1>2 DEF MispInvariant, TimesAgree, Overdue
<1>5. StateIsSaved' /\ BufferHolds' /\ FlushedIsSent'
  BY <1>1 DEF MispInvariant, StateIsSaved, BufferHolds, FlushedIsSent, Published
<1>6. InHand'
  BY <1>1, InHandRemains DEF MispInvariant, InHand
<1> QED
  BY <1>3, <1>4, <1>5, <1>6 DEF MispInvariant, InHand

(* A new event is not older than any run, nor confirmed. *)
LEMMA AddEventKeeps == \A e \in Event : MispInvariant /\ AddEvent(e) => MispInvariant'
<1> SUFFICES ASSUME MispInvariant, NEW e \in Event, AddEvent(e) PROVE MispInvariant'
  OBVIOUS
<1>1. /\ added[e] = 0 /\ added' = [added EXCEPT ![e] = clock]
      /\ UNCHANGED <<gen, outcome, buffer, sent, givenUp, clock, file, run>>
  BY DEF AddEvent, publishing, Past
<1>2. MispTypes'
  BY <1>1 DEF MispInvariant, MispTypes
<1>3. TimesAgree' /\ StateIsSaved' /\ BufferHolds' /\ FlushedIsSent'
  BY <1>1 DEF MispInvariant, TimesAgree, Overdue, StateIsSaved, BufferHolds, FlushedIsSent, Published
<1>4. /\ file.samples <= clock /\ file.events <= clock /\ run.now <= clock
      /\ file.samples \in Nat /\ file.events \in Nat /\ run.now \in Nat
      /\ clock \in Nat /\ Leeway \in Nat
  BY Numbers DEF MispInvariant, TimesAgree
<1>5. \A d \in Event : /\ added'[d] = (IF d = e THEN clock ELSE added[d])
                       /\ added[d] \in Nat /\ added'[d] \in Nat /\ added[d] <= added'[d]
  BY <1>1, <1>4 DEF MispInvariant, MispTypes
<1>6. Old' = Old
  BY <1>1, <1>4, <1>5 DEF Old
<1>7. EventsInHand' /\ SamplesInHand'
  BY <1>1, <1>5, <1>6 DEF MispInvariant, EventsInHand, SamplesInHand, Old, Overdue
<1>8. WorkIsDue'
  <2>1. \A d \in Event : file.events <= added[d] + Leeway => file.events <= added'[d] + Leeway
    BY <1>4, <1>5
  <2>2. \A d \in Event : file.samples <= added[d] + Leeway => file.samples <= added'[d] + Leeway
    BY <1>4, <1>5
  <2>3. /\ \A d \in Event : EventIsDue(d) => EventIsDue(d)'
        /\ \A s : SampleIsDue(s) => SampleIsDue(s)'
    BY <1>1, <2>1, <2>2 DEF EventIsDue, SampleIsDue
  <2>4. run.found \subseteq Event
    BY DEF MispInvariant, MispTypes, RunType
  <2> QED
    BY <1>1, <2>2, <2>3, <2>4 DEF MispInvariant, WorkIsDue, Published, Due, Overdue
<1>9. ConfirmedIsSent'
  BY <1>1, <1>4, <1>5 DEF MispInvariant, ConfirmedIsSent
<1> QED
  BY <1>2, <1>3, <1>7, <1>8, <1>9 DEF MispInvariant

(* A run begins. *)
LEMMA StartKeeps == MispInvariant /\ Start => MispInvariant'
<1> SUFFICES ASSUME MispInvariant, Start PROVE MispInvariant'
  OBVIOUS
<1>1. /\ gen = "down" /\ run' = Begun("fetch", clock, file)
      /\ UNCHANGED <<gen, outcome, buffer, sent, givenUp, clock, added, file>>
  BY DEF Start, publishing, Past, Source
<1>2. /\ clock \in Nat /\ file \in StateType /\ Leeway \in Nat
      /\ file.samples \in Nat /\ file.events \in Nat
  BY Numbers DEF MispInvariant, MispTypes
<1>3. /\ run' \in RunType /\ run'.step = "fetch" /\ run'.now = clock /\ run'.state = file
      /\ run'.loaded = file
  <2>1. "fetch" \in Step
    BY DEF Step
  <2>2. LET r == Begun("fetch", clock, file)
        IN  r \in RunType /\ r.step = "fetch" /\ r.now = clock /\ r.state = file /\ r.loaded = file
    BY <1>2, <2>1, BegunRun
  <2> QED
    BY <1>1, <2>2
<1>5. MispTypes' /\ StateIsSaved'
  BY <1>1, <1>3 DEF MispInvariant, MispTypes, StateIsSaved
<1>6. TimesAgree'
  <2>1. run'.step \notin Late /\ run'.step # "none"
    BY <1>3 DEF Late
  <2> QED
    BY <1>1, <1>2, <1>3, <2>1 DEF MispInvariant, TimesAgree, Overdue
<1>7. BufferHolds' /\ FlushedIsSent'
  BY <1>1, <1>3 DEF MispInvariant, BufferHolds, FlushedIsSent
<1>8. InHand'
  BY <1>1, <1>3, <1>7, NothingInHand DEF MispInvariant, InHand, BufferHolds
<1> QED
  BY <1>5, <1>6, <1>7, <1>8 DEF MispInvariant, InHand

-----------------------------------------------------------------------------
(* A search in time finds all that is new, and nothing older by the leeway. *)
LEMMA SearchIsComplete ==
  ASSUME MispInvariant, run.step \in Early, NEW since \in Nat
  PROVE  /\ Search(since) \subseteq Event
         /\ \A e \in Event : added[e] # 0 /\ since <= added[e] => e \in Search(since)
         /\ \A e \in Search(since) : since <= added[e] + Leeway
<1>1. clock <= run.now + Leeway /\ run.now <= clock
  BY DEF MispInvariant, TimesAgree
<1>2. /\ clock \in Nat /\ run.now \in Nat /\ Leeway \in Nat
      /\ \A e \in Event : added[e] \in Nat
  BY Numbers DEF MispInvariant
<1> QED
  BY <1>1, <1>2 DEF Search

(* The events that have come up since the last run are looked for. *)
LEMMA FetchEventsKeeps == MispInvariant /\ FetchEvents => MispInvariant'
<1> SUFFICES ASSUME MispInvariant, FetchEvents PROVE MispInvariant'
  OBVIOUS
<1> DEFINE found == Search(run.state.events)
           state == [run.state EXCEPT !.events = run.now]
<1>1. /\ run.step = "fetch" /\ run.step \in Early \cap Fetching
      /\ gen = "down" /\ buffer = <<>> /\ buffer' = <<>> /\ run.state = file
      /\ UNCHANGED <<sent, givenUp, clock, added>>
  BY DEF FetchEvents, SetUp, Past, Source, publishing, Early, Fetching,
     MispInvariant, BufferHolds, StateIsSaved
<1>2. /\ clock \in Nat /\ run.now \in Nat /\ Leeway \in Nat
      /\ file.samples \in Nat /\ file.events \in Nat /\ \A e \in Event : added[e] \in Nat
      /\ run \in RunType /\ file \in StateType
  BY Numbers DEF MispInvariant, MispTypes
<1>3. /\ found \subseteq Event
      /\ \A e \in Event : added[e] # 0 /\ file.events <= added[e] => e \in found
      /\ \A e \in found : file.events <= added[e] + Leeway
  BY <1>1, <1>2, SearchIsComplete
<1>4. Old \subseteq sent \cup found
  BY <1>1, <1>2, <1>3 DEF Old, MispInvariant, ConfirmedIsSent
<1>5. CASE found # {} /\ run' = [run EXCEPT !.found = found, !.step = "events"] /\ SetUp /\ file' = file
  <2>1. /\ run' \in RunType /\ run'.step = "events" /\ run'.found = found
        /\ run'.state = run.state /\ run'.now = run.now /\ run'.loaded = run.loaded
    BY <1>2, <1>3, <1>5 DEF RunType, Step
  <2>2. run'.step \in Early \cap Fetching /\ run'.step \notin Late
    BY <2>1 DEF Early, Fetching, Late
  <2>3. MispTypes' /\ StateIsSaved'
    BY <1>1, <1>5, <2>1 DEF MispInvariant, MispTypes, StateIsSaved
  <2>4. TimesAgree'
    BY <1>1, <1>2, <1>5, <2>1, <2>2 DEF MispInvariant, TimesAgree, Overdue
  <2>5. BufferHolds' /\ FlushedIsSent'
    BY <1>1, <2>1 DEF BufferHolds, FlushedIsSent
  <2>6. ~Overdue => file.samples = file.events
    BY <1>1 DEF MispInvariant, TimesAgree
  <2>7. Old' = Old /\ (Overdue' <=> Overdue)
    BY <1>1, <2>1 DEF Old, Overdue
  <2>8. EventsInHand'
    BY <1>1, <1>2, <1>3, <1>4, <1>5, <2>1, <2>6, <2>7 DEF EventsInHand, Old
  <2>9. SamplesInHand'
    BY <2>1 DEF SamplesInHand
  <2>10. WorkIsDue'
    BY <1>1, <1>3, <1>5, <2>1, <2>6, <2>7 DEF WorkIsDue, EventIsDue
  <2>11. ConfirmedIsSent'
    BY <1>1, <1>5 DEF MispInvariant, ConfirmedIsSent
  <2> QED
    BY <2>3, <2>4, <2>5, <2>8, <2>9, <2>10, <2>11 DEF MispInvariant
<1>6. CASE found = {} /\ Overdue /\ Saves(state, "samples") /\ SetUp
  <2>1. /\ run' = [run EXCEPT !.state = file', !.step = "samples"]
        /\ file' = [file EXCEPT !.events = run.now]
    BY <1>1, <1>6 DEF Saves
  <2>2. /\ file' \in StateType /\ file'.events = run.now /\ file'.samples = file.samples
        /\ file'.processed = file.processed
    BY <1>2, <2>1 DEF StateType
  <2>3. /\ run' \in RunType /\ run'.step = "samples"
        /\ run'.state = file' /\ run'.now = run.now /\ run'.loaded = run.loaded
    BY <1>2, <2>1, <2>2 DEF RunType, Step
  <2>4. run'.step \in Early \cap Late /\ run'.step \notin Fetching
    BY <2>3 DEF Early, Fetching, Late
  <2>5. MispTypes' /\ StateIsSaved'
    BY <1>1, <2>2, <2>3 DEF MispInvariant, MispTypes, StateIsSaved
  <2>6. TimesAgree'
    BY <1>1, <1>2, <2>2, <2>3, <2>4 DEF MispInvariant, TimesAgree
  <2>7. BufferHolds' /\ FlushedIsSent'
    BY <1>1, <2>3 DEF BufferHolds, FlushedIsSent
  <2>8. Old' = Old /\ Overdue'
    BY <1>1, <1>6, <2>3 DEF Old, Overdue
  <2>9. EventsInHand' /\ SamplesInHand' /\ WorkIsDue'
    BY <1>1, <2>3, <2>8 DEF EventsInHand, SamplesInHand, WorkIsDue
  <2>10. ConfirmedIsSent'
    BY <1>1, <1>2, <1>4, <1>6, <2>2 DEF MispInvariant, ConfirmedIsSent, Old
  <2> QED
    BY <2>5, <2>6, <2>7, <2>9, <2>10 DEF MispInvariant
<1>7. CASE /\ found = {} /\ ~Overdue
           /\ Saves([state EXCEPT !.samples = run.now, !.processed = {}], "none")
           /\ UNCHANGED publishing
  <2>1. /\ run' = [run EXCEPT !.state = file', !.step = "none"]
        /\ file' = [[file EXCEPT !.events = run.now] EXCEPT !.samples = run.now, !.processed = {}]
    BY <1>1, <1>7 DEF Saves
  <2>2. /\ file' \in StateType /\ file'.events = run.now /\ file'.samples = run.now
        /\ file'.processed = {}
    BY <1>2, <2>1 DEF StateType
  <2>3. /\ run' \in RunType /\ run'.step = "none"
        /\ run'.state = file' /\ run'.now = run.now /\ run'.loaded = run.loaded
    BY <1>2, <2>1, <2>2 DEF RunType, Step
  <2>4. run'.step \notin Early \cup Late \cup Fetching \cup Searching
    BY <2>3 DEF Early, Fetching, Late, Searching
  <2>5. MispTypes' /\ StateIsSaved'
    BY <1>1, <2>2, <2>3 DEF MispInvariant, MispTypes, StateIsSaved
  <2>6. TimesAgree'
    BY <1>1, <1>2, <2>2, <2>3, <2>4 DEF MispInvariant, TimesAgree
  <2>7. BufferHolds' /\ FlushedIsSent'
    BY <1>1, <2>3 DEF BufferHolds, FlushedIsSent
  <2>8. EventsInHand' /\ SamplesInHand' /\ WorkIsDue'
    BY <1>1, <2>3, <2>4 DEF EventsInHand, SamplesInHand, WorkIsDue
  <2>9. file.samples = file.events
    BY <1>1, <1>7 DEF MispInvariant, TimesAgree
  <2>10. ConfirmedIsSent'
    <3>1. \A e \in Old : e \in sent /\ SamplesOf[e] \subseteq sent \cup givenUp
      BY <1>2, <1>3, <1>4, <1>7, <2>9 DEF MispInvariant, ConfirmedIsSent, Old
    <3> QED
      BY <1>1, <2>2, <3>1 DEF ConfirmedIsSent, Old
  <2> QED
    BY <2>5, <2>6, <2>7, <2>8, <2>10 DEF MispInvariant
<1> QED
  BY <1>5, <1>6, <1>7 DEF FetchEvents

-----------------------------------------------------------------------------
(* What is known whenever the coroutine has the control. *)
LEMMA InControl ==
  ASSUME MispInvariant, NEW place, Continues(place)
  PROVE  /\ run.step = place /\ gen = "running" /\ buffer = <<>> /\ run.state = file
         /\ UNCHANGED <<sent, clock, added>>
         /\ run \in RunType /\ file \in StateType
BY DEF Continues, Source, MispInvariant, BufferHolds, StateIsSaved, MispTypes

(* Steps that save nothing. *)
LEMMA StepSavesNothing ==
  ASSUME MispInvariant, run' \in RunType, UNCHANGED <<file, clock, added, sent, givenUp>>,
         run'.state = run.state, run'.now = run.now, run'.loaded = run.loaded,
         run.step # "none",
         run'.step \in Early => run.step \in Early,
         run'.step \in Late => run.step \in Late,
         run'.step \in Fetching => run.step \in Fetching
  PROVE  /\ MispTypes' /\ StateIsSaved' /\ TimesAgree' /\ ConfirmedIsSent'
         /\ Old' = Old /\ (Overdue' <=> Overdue)
<1>1. MispTypes' /\ StateIsSaved'
  BY DEF MispInvariant, MispTypes, StateIsSaved
<1>2. TimesAgree'
  BY DEF MispInvariant, TimesAgree, Overdue
<1>3. ConfirmedIsSent'
  BY DEF MispInvariant, ConfirmedIsSent
<1>4. Old' = Old /\ (Overdue' <=> Overdue)
  BY DEF Old, Overdue
<1> QED
  BY <1>1, <1>2, <1>3, <1>4

(* The events found are published, *)
LEMMA PublishEventsKeeps == MispInvariant /\ PublishEvents => MispInvariant'
<1> SUFFICES ASSUME MispInvariant, PublishEvents PROVE MispInvariant'
  OBVIOUS
<1>1. /\ run.step = "events" /\ buffer = <<>> /\ run.state = file
      /\ UNCHANGED <<sent, clock, added, givenUp, file>>
      /\ run \in RunType /\ file \in StateType
      /\ run' = [run EXCEPT !.step = "confirm events"]
      /\ buffer' = <<run.found>> /\ gen' = "flushing"
  <2>1. Continues("events")
    BY DEF PublishEvents
  <2>2. run.step = "events" /\ buffer = <<>> /\ run.state = file
        /\ UNCHANGED <<sent, clock, added>> /\ run \in RunType /\ file \in StateType
    BY <2>1, InControl
  <2>3. buffer' = <<run.found>>
    <3>1. Append(<<>>, run.found) = <<run.found>>
      OBVIOUS
    <3> QED
      BY <2>2, <3>1 DEF PublishEvents, Put
  <2> QED
    BY <2>2, <2>3 DEF PublishEvents, FlushOut, GoesTo
<1>2. /\ run' \in RunType /\ run'.step = "confirm events" /\ run'.found = run.found
      /\ run'.state = run.state /\ run'.now = run.now /\ run'.loaded = run.loaded
  BY <1>1 DEF RunType, Step
<1>3. /\ run.step \in Early \cap Fetching \cap Searching /\ run'.step \notin Late
      /\ run'.step \in Searching
  BY <1>1, <1>2 DEF Early, Late, Fetching, Searching
<1>4. /\ MispTypes' /\ StateIsSaved' /\ TimesAgree' /\ ConfirmedIsSent'
      /\ Old' = Old /\ (Overdue' <=> Overdue)
  BY <1>1, <1>2, <1>3, StepSavesNothing
<1>5. Published' = run.found
  BY <1>2 DEF Published
<1>6. BufferHolds' /\ FlushedIsSent'
  BY <1>1, <1>2, <1>5 DEF BufferHolds, FlushedIsSent
<1>7. EventsInHand' /\ SamplesInHand'
  BY <1>1, <1>2, <1>3, <1>4 DEF MispInvariant, EventsInHand, SamplesInHand, Old
<1>8. \A x \in run.found : Due(x)'
  <2>1. \A x \in run.found : x \in Event /\ EventIsDue(x)
    BY <1>1 DEF MispInvariant, WorkIsDue, RunType
  <2>2. \A x \in Event : x \notin file.processed /\ \A e \in Event : x \notin SamplesOf[e]
    BY <1>1, SamplesAreSamples, MispAssumption DEF StateType
  <2> QED
    BY <1>1, <2>1, <2>2 DEF Due, EventIsDue, SampleIsDue
<1>9. WorkIsDue'
  BY <1>1, <1>2, <1>3, <1>4, <1>5, <1>8 DEF MispInvariant, WorkIsDue
<1> QED
  BY <1>4, <1>6, <1>7, <1>9 DEF MispInvariant

(* and confirmed. *)
LEMMA ConfirmEventsKeeps == MispInvariant /\ ConfirmEvents => MispInvariant'
<1> SUFFICES ASSUME MispInvariant, ConfirmEvents PROVE MispInvariant'
  OBVIOUS
<1>1. /\ run.step = "confirm events" /\ gen = "running" /\ buffer = <<>> /\ run.state = file
      /\ UNCHANGED <<gen, buffer, sent, clock, added, givenUp>>
      /\ run \in RunType /\ file \in StateType
      /\ file' = [file EXCEPT !.events = run.now]
      /\ run' = [run EXCEPT !.state = file', !.step = "samples"]
  BY InControl DEF ConfirmEvents, Saves, publishing
<1>2. /\ clock \in Nat /\ run.now \in Nat /\ Leeway \in Nat
      /\ file.samples \in Nat /\ file.events \in Nat /\ \A e \in Event : added[e] \in Nat
  BY Numbers DEF MispInvariant
<1>3. /\ file' \in StateType /\ file'.events = run.now /\ file'.samples = file.samples
      /\ file'.processed = file.processed
  BY <1>1, <1>2 DEF StateType
<1>4. /\ run' \in RunType /\ run'.step = "samples" /\ run'.found = run.found
      /\ run'.state = file' /\ run'.now = run.now /\ run'.loaded = run.loaded
  BY <1>1, <1>3 DEF RunType, Step
<1>5. /\ run.step \in Early \cap Fetching \cap Searching
      /\ run'.step \in Early \cap Late \cap Searching /\ run'.step \notin Fetching
  BY <1>1, <1>4 DEF Early, Fetching, Late, Searching
<1>6. MispTypes' /\ StateIsSaved'
  BY <1>1, <1>3, <1>4 DEF MispInvariant, MispTypes, StateIsSaved
<1>7. TimesAgree'
  <2>1. /\ run.now <= clock /\ clock <= run.now + Leeway
        /\ file.samples <= file.events /\ file.events <= run.now
    BY <1>1, <1>5 DEF MispInvariant, TimesAgree
  <2>2. clock' = clock
    BY <1>1
  <2> QED
    BY <1>2, <1>3, <1>4, <1>5, <2>1, <2>2 DEF TimesAgree
<1>8. BufferHolds' /\ FlushedIsSent'
  BY <1>1, <1>4 DEF BufferHolds, FlushedIsSent
<1>9. Old' = Old /\ (Overdue' <=> Overdue)
  BY <1>1, <1>4 DEF Old, Overdue
<1>10. EventsInHand' /\ SamplesInHand'
  BY <1>1, <1>3, <1>4, <1>5, <1>9 DEF MispInvariant, EventsInHand, SamplesInHand, Old
<1>11. WorkIsDue'
  BY <1>1, <1>3, <1>4, <1>5, <1>9 DEF MispInvariant, WorkIsDue
<1>12. ConfirmedIsSent'
  <2>1. run.found \subseteq sent
    BY <1>1 DEF MispInvariant, FlushedIsSent, Published
  <2>2. Old \subseteq sent
    BY <1>1, <2>1 DEF MispInvariant, EventsInHand
  <2> QED
    BY <1>1, <1>2, <1>3, <2>2 DEF MispInvariant, ConfirmedIsSent, Old
<1> QED
  BY <1>6, <1>7, <1>8, <1>10, <1>11, <1>12 DEF MispInvariant

(* SamplesDue, said of one sample. *)
LEMMA SamplesDueAre ==
  \A s : s \in SamplesDue <=>
          (\E e \in EventsForSamples : s \in SamplesOf[e]) /\ s \notin run.state.processed
<1> TAKE s
<1> DEFINE E == EventsForSamples
           U == UNION {SamplesOf[e] : e \in E}
<1>1. s \in U <=> \E e \in E : s \in SamplesOf[e]
  <2> HIDE DEF E
  <2> QED
    OBVIOUS
<1>2. SamplesDue = U \ run.state.processed
  BY DEF SamplesDue
<1> HIDE DEF U
<1> QED
  BY <1>1, <1>2

(* The samples to be downloaded are all that are not confirmed, and no others. *)
LEMMA FindSamplesKeeps == MispInvariant /\ FindSamples => MispInvariant'
<1> SUFFICES ASSUME MispInvariant, FindSamples PROVE MispInvariant'
  OBVIOUS
<1>1. /\ run.step = "samples" /\ gen = "running" /\ buffer = <<>> /\ run.state = file
      /\ UNCHANGED <<sent, clock, added, givenUp>>
      /\ run \in RunType /\ file \in StateType
  <2>1. Continues("samples") /\ givenUp' = givenUp
    BY DEF FindSamples
  <2> QED
    BY <2>1, InControl
<1>2. /\ clock \in Nat /\ run.now \in Nat /\ Leeway \in Nat
      /\ file.samples \in Nat /\ file.events \in Nat /\ \A e \in Event : added[e] \in Nat
  BY Numbers DEF MispInvariant
<1>3. run.step \in Early \cap Late \cap Searching
  BY <1>1 DEF Early, Late, Searching
<1>4. /\ EventsForSamples \subseteq Event
      /\ \A e \in Old : added[e] < file.samples \/ e \in EventsForSamples
      /\ \A e \in EventsForSamples : file.samples <= added[e] + Leeway
  <2>1. CASE Overdue
    <3>1. EventsForSamples = Search(file.samples)
      BY <1>1, <2>1 DEF EventsForSamples
    <3>2. /\ Search(file.samples) \subseteq Event
          /\ \A e \in Event : added[e] # 0 /\ file.samples <= added[e] => e \in Search(file.samples)
          /\ \A e \in Search(file.samples) : file.samples <= added[e] + Leeway
      BY <1>2, <1>3, SearchIsComplete
    <3> QED
      BY <1>2, <3>1, <3>2 DEF Old
  <2>2. CASE ~Overdue
    <3>1. EventsForSamples = run.found
      BY <2>2 DEF EventsForSamples
    <3>2. run.found \subseteq Event
      BY <1>1 DEF RunType
    <3> QED
      BY <1>3, <2>2, <3>1, <3>2 DEF MispInvariant, EventsInHand, WorkIsDue
  <2> QED
    BY <2>1, <2>2
<1>5. \A e \in Old : SamplesOf[e] \subseteq sent \cup givenUp \cup SamplesDue
  <2> SUFFICES ASSUME NEW e \in Old PROVE SamplesOf[e] \subseteq sent \cup givenUp \cup SamplesDue
    OBVIOUS
  <2>1. CASE added[e] < file.samples
    BY <2>1 DEF MispInvariant, ConfirmedIsSent, Old
  <2>2. CASE e \in EventsForSamples
    BY <1>1, <2>2, SamplesDueAre DEF MispInvariant, ConfirmedIsSent
  <2> QED
    BY <1>4, <2>1, <2>2
<1>6. /\ SamplesDue \subseteq Sample
      /\ \A s \in SamplesDue : SampleIsDue(s)
  <2> SUFFICES ASSUME NEW s \in SamplesDue PROVE s \in Sample /\ SampleIsDue(s)
    OBVIOUS
  <2>1. PICK e \in EventsForSamples : s \in SamplesOf[e] /\ s \notin file.processed
    BY <1>1, SamplesDueAre
  <2>2. e \in Event /\ file.samples <= added[e] + Leeway
    BY <1>4
  <2>3. \A d \in Event : s \in SamplesOf[d] => d = e
    BY <2>1, <2>2, SamplesAreSamples
  <2> QED
    BY <2>1, <2>2, <2>3, SamplesAreSamples DEF SampleIsDue
<1>7. CASE /\ run' = [run EXCEPT !.todo = SamplesDue, !.step = "next sample"]
           /\ UNCHANGED <<publishing, file>>
  <2>1. /\ run' \in RunType /\ run'.step = "next sample" /\ run'.todo = SamplesDue
        /\ run'.state = run.state /\ run'.now = run.now /\ run'.loaded = run.loaded
    BY <1>1, <1>6, <1>7 DEF RunType, Step
  <2>2. run'.step \notin Early \cup Fetching \cup Searching
    BY <2>1 DEF Early, Fetching, Searching
  <2>3. /\ MispTypes' /\ StateIsSaved' /\ TimesAgree' /\ ConfirmedIsSent'
        /\ Old' = Old /\ (Overdue' <=> Overdue)
    BY <1>1, <1>3, <1>7, <2>1, <2>2, StepSavesNothing
  <2>4. gen' = gen /\ buffer' = buffer
    BY <1>7 DEF publishing
  <2>5. BufferHolds' /\ FlushedIsSent'
    BY <1>1, <2>1, <2>4 DEF BufferHolds, FlushedIsSent
  <2>6. EventsInHand' /\ SamplesInHand'
    BY <1>1, <1>5, <2>1, <2>2, <2>3 DEF EventsInHand, SamplesInHand
  <2>7. WorkIsDue'
    BY <1>1, <1>6, <1>7, <2>1, <2>2, <2>4 DEF WorkIsDue, SampleIsDue
  <2> QED
    BY <2>3, <2>5, <2>6, <2>7 DEF MispInvariant
<1>8. CASE SamplesDue = {} /\ FlushOut /\ UNCHANGED buffer /\ GoesTo("finish")
  <2>1. /\ run' \in RunType /\ run'.step = "finish"
        /\ run'.state = run.state /\ run'.now = run.now /\ run'.loaded = run.loaded
    BY <1>1, <1>8 DEF RunType, Step, GoesTo
  <2>2. run'.step \notin Early \cup Fetching \cup Searching
    BY <2>1 DEF Early, Fetching, Searching
  <2>3. /\ MispTypes' /\ StateIsSaved' /\ TimesAgree' /\ ConfirmedIsSent'
        /\ Old' = Old /\ (Overdue' <=> Overdue)
    BY <1>1, <1>3, <1>8, <2>1, <2>2, StepSavesNothing DEF GoesTo
  <2>4. gen' = "flushing" /\ buffer' = buffer
    BY <1>8 DEF FlushOut
  <2>5. BufferHolds' /\ FlushedIsSent'
    BY <1>1, <2>1, <2>4 DEF BufferHolds, FlushedIsSent
  <2>6. EventsInHand' /\ SamplesInHand'
    BY <1>1, <1>5, <1>8, <2>1, <2>2, <2>3 DEF EventsInHand, SamplesInHand
  <2>7. WorkIsDue'
    BY <1>1, <2>1, <2>2, <2>4 DEF WorkIsDue
  <2> QED
    BY <2>3, <2>5, <2>6, <2>7 DEF MispInvariant
<1> QED
  BY <1>7, <1>8 DEF FindSamples

(* The control may be given back before a sample is downloaded. *)
LEMMA NextSampleKeeps == MispInvariant /\ NextSample => MispInvariant'
<1> SUFFICES ASSUME MispInvariant, NextSample PROVE MispInvariant'
  OBVIOUS
<1>1. /\ run.step = "next sample" /\ gen = "running" /\ buffer = <<>> /\ run.state = file
      /\ UNCHANGED <<sent, clock, added>>
      /\ run \in RunType /\ file \in StateType
  <2>1. Continues("next sample")
    BY DEF NextSample
  <2> QED
    BY <2>1, InControl
<1>2. /\ run' = [run EXCEPT !.step = "download"] /\ run.todo # {}
      /\ UNCHANGED <<buffer, file, givenUp>> /\ gen' \in {"running", "scheduled"}
  BY <1>1 DEF NextSample, GoesTo, MayPause
<1>3. /\ run' \in RunType /\ run'.step = "download" /\ run'.todo = run.todo
      /\ run'.failed = run.failed
      /\ run'.state = run.state /\ run'.now = run.now /\ run'.loaded = run.loaded
  BY <1>1, <1>2 DEF RunType, Step
<1>4. run.step \in Late /\ run'.step \notin Early \cup Fetching \cup Searching
  BY <1>1, <1>3 DEF Early, Late, Fetching, Searching
<1>5. /\ MispTypes' /\ StateIsSaved' /\ TimesAgree' /\ ConfirmedIsSent'
      /\ Old' = Old /\ (Overdue' <=> Overdue)
  BY <1>1, <1>2, <1>3, <1>4, StepSavesNothing
<1>6. BufferHolds' /\ FlushedIsSent'
  BY <1>1, <1>2, <1>3 DEF BufferHolds, FlushedIsSent
<1>7. EventsInHand' /\ SamplesInHand'
  BY <1>1, <1>2, <1>3, <1>4, <1>5 DEF MispInvariant, EventsInHand, SamplesInHand
<1>8. WorkIsDue'
  BY <1>1, <1>2, <1>3, <1>4 DEF MispInvariant, WorkIsDue, SampleIsDue
<1> QED
  BY <1>5, <1>6, <1>7, <1>8 DEF MispInvariant

(* What is known when a sample has been downloaded, or could not be. *)
LEMMA Downloading ==
  ASSUME MispInvariant, Continues("download")
  PROVE  /\ run.step = "download" /\ gen = "running" /\ buffer = <<>> /\ run.state = file
         /\ UNCHANGED <<sent, clock, added>>
         /\ run \in RunType /\ file \in StateType
         /\ run.step \in Late
         /\ Current \subseteq run.todo /\ run.todo \subseteq Sample
         /\ \A s \in run.todo : SampleIsDue(s)
         /\ \A e \in Old : SamplesOf[e] \subseteq sent \cup givenUp \cup run.todo \cup run.failed
<1>1. /\ run.step = "download" /\ gen = "running" /\ buffer = <<>> /\ run.state = file
      /\ UNCHANGED <<sent, clock, added>>
      /\ run \in RunType /\ file \in StateType
  BY InControl
<1>2. run.todo # {} /\ \A s \in run.todo : SampleIsDue(s)
  BY <1>1 DEF MispInvariant, WorkIsDue
<1>3. Current \subseteq run.todo
  BY <1>2 DEF Current
<1>4. run.todo \subseteq Sample
  BY <1>1 DEF RunType
<1>5. \A e \in Old : SamplesOf[e] \subseteq sent \cup givenUp \cup run.todo \cup run.failed
  BY <1>1 DEF MispInvariant, SamplesInHand
<1>6. run.step \in Late
  BY <1>1 DEF Late
<1> QED
  BY <1>1, <1>2, <1>3, <1>4, <1>5, <1>6

(* A sample that has been downloaded is in the outbound buffer. *)
LEMMA DownloadKeeps == MispInvariant /\ Download => MispInvariant'
<1> SUFFICES ASSUME MispInvariant, Download PROVE MispInvariant'
  OBVIOUS
<1>1. /\ run.step = "download" /\ gen = "running" /\ buffer = <<>> /\ run.state = file
      /\ UNCHANGED <<sent, clock, added>>
      /\ run \in RunType /\ file \in StateType
      /\ run.step \in Late
      /\ Current \subseteq run.todo /\ run.todo \subseteq Sample
      /\ \A s \in run.todo : SampleIsDue(s)
      /\ \A e \in Old : SamplesOf[e] \subseteq sent \cup givenUp \cup run.todo \cup run.failed
  <2>1. Continues("download")
    BY DEF Download
  <2> QED
    BY <2>1, Downloading
<1>2. buffer' = <<Current>> /\ gen' = "flushing" /\ UNCHANGED <<file, givenUp>>
  <2>1. Append(<<>>, Current) = <<Current>>
    OBVIOUS
  <2> QED
    BY <1>1, <2>1 DEF Download, Put, FlushOut
<1>3. /\ run' \in RunType /\ run'.step = "confirm sample" /\ run'.todo = run.todo \ Current
      /\ run'.at = Current /\ run'.failed = run.failed
      /\ run'.state = run.state /\ run'.now = run.now /\ run'.loaded = run.loaded
  <2>1. run' = [run EXCEPT !.todo = run.todo \ Current, !.at = Current, !.step = "confirm sample"]
    BY DEF Download
  <2> QED
    BY <1>1, <2>1 DEF RunType, Step
<1>4. run'.step \notin Early \cup Fetching \cup Searching
  BY <1>3 DEF Early, Fetching, Searching
<1>5. /\ MispTypes' /\ StateIsSaved' /\ TimesAgree' /\ ConfirmedIsSent'
      /\ Old' = Old /\ (Overdue' <=> Overdue)
  BY <1>1, <1>2, <1>3, <1>4, StepSavesNothing
<1>6. Published' = Current
  BY <1>3 DEF Published
<1>7. BufferHolds' /\ FlushedIsSent'
  BY <1>2, <1>3, <1>6 DEF BufferHolds, FlushedIsSent
<1>8. EventsInHand' /\ SamplesInHand'
  BY <1>1, <1>2, <1>3, <1>4, <1>5 DEF EventsInHand, SamplesInHand
<1>9. WorkIsDue'
  <2>1. \A s \in run.todo : SampleIsDue(s)' /\ s \notin Event
    BY <1>1, <1>2, MispAssumption DEF SampleIsDue
  <2> QED
    BY <1>1, <1>3, <1>4, <1>6, <2>1 DEF WorkIsDue, Due
<1> QED
  BY <1>5, <1>7, <1>8, <1>9 DEF MispInvariant

(* A sample that could not be downloaded is remembered as failed. *)
LEMMA FailToDownloadKeeps == MispInvariant /\ FailToDownload => MispInvariant'
<1> SUFFICES ASSUME MispInvariant, FailToDownload PROVE MispInvariant'
  OBVIOUS
<1>1. /\ run.step = "download" /\ gen = "running" /\ buffer = <<>> /\ run.state = file
      /\ UNCHANGED <<sent, clock, added>>
      /\ run \in RunType /\ file \in StateType
      /\ run.step \in Late
      /\ Current \subseteq run.todo /\ run.todo \subseteq Sample
      /\ \A s \in run.todo : SampleIsDue(s)
      /\ \A e \in Old : SamplesOf[e] \subseteq sent \cup givenUp \cup run.todo \cup run.failed
  <2>1. Continues("download")
    BY DEF FailToDownload
  <2> QED
    BY <2>1, Downloading
<1>2. buffer' = <<>> /\ gen' \in {"running", "scheduled"} /\ UNCHANGED <<file, givenUp>>
  BY <1>1 DEF FailToDownload, MayPause
<1>3. /\ run' \in RunType /\ run'.step = "next sample" /\ run'.todo = run.todo \ Current
      /\ run'.failed = run.failed \cup Current
      /\ run'.state = run.state /\ run'.now = run.now /\ run'.loaded = run.loaded
  <2>1. run' = [run EXCEPT !.todo = run.todo \ Current, !.failed = run.failed \cup Current,
                           !.step = "next sample"]
    BY DEF FailToDownload
  <2> QED
    BY <1>1, <2>1 DEF RunType, Step
<1>4. run'.step \notin Early \cup Fetching \cup Searching
  BY <1>3 DEF Early, Fetching, Searching
<1>5. /\ MispTypes' /\ StateIsSaved' /\ TimesAgree' /\ ConfirmedIsSent'
      /\ Old' = Old /\ (Overdue' <=> Overdue)
  BY <1>1, <1>2, <1>3, <1>4, StepSavesNothing
<1>6. BufferHolds' /\ FlushedIsSent'
  BY <1>2, <1>3 DEF BufferHolds, FlushedIsSent
<1>7. EventsInHand' /\ SamplesInHand'
  BY <1>1, <1>2, <1>3, <1>4, <1>5 DEF EventsInHand, SamplesInHand
<1>8. WorkIsDue'
  BY <1>1, <1>2, <1>3, <1>4 DEF WorkIsDue, SampleIsDue
<1> QED
  BY <1>5, <1>6, <1>7, <1>8 DEF MispInvariant

(* What has been sent is confirmed. *)
LEMMA ConfirmSampleKeeps == MispInvariant /\ ConfirmSample => MispInvariant'
<1> SUFFICES ASSUME MispInvariant, ConfirmSample PROVE MispInvariant'
  OBVIOUS
<1>1. /\ run.step = "confirm sample" /\ gen = "running" /\ buffer = <<>> /\ run.state = file
      /\ UNCHANGED <<sent, clock, added>>
      /\ run \in RunType /\ file \in StateType
  <2>1. Continues("confirm sample")
    BY DEF ConfirmSample
  <2> QED
    BY <2>1, InControl
<1>2. /\ file' = [file EXCEPT !.processed = file.processed \cup run.at]
      /\ run' = [run EXCEPT !.state = file', !.step = "next sample"]
      /\ UNCHANGED <<gen, buffer, givenUp>>
  BY <1>1 DEF ConfirmSample, Saves, publishing
<1>3. run.at \subseteq Sample /\ run.at \subseteq sent /\ run.at \cap run.todo = {}
  BY <1>1 DEF RunType, MispInvariant, FlushedIsSent, Published, WorkIsDue
<1>4. /\ file' \in StateType /\ file'.events = file.events /\ file'.samples = file.samples
      /\ file'.processed = file.processed \cup run.at
  BY <1>1, <1>2, <1>3 DEF StateType
<1>5. /\ run' \in RunType /\ run'.step = "next sample" /\ run'.todo = run.todo
      /\ run'.failed = run.failed
      /\ run'.state = file' /\ run'.now = run.now /\ run'.loaded = run.loaded
  BY <1>1, <1>2, <1>4 DEF RunType, Step
<1>6. run.step \in Late /\ run'.step \notin Early \cup Fetching \cup Searching
  BY <1>1, <1>5 DEF Early, Late, Fetching, Searching
<1>7. MispTypes' /\ StateIsSaved'
  BY <1>1, <1>4, <1>5 DEF MispInvariant, MispTypes, StateIsSaved
<1>8. TimesAgree'
  <2>1. run'.step # "none" /\ run.step # "none" /\ clock' = clock
    BY <1>1, <1>5
  <2> QED
    BY <1>4, <1>5, <1>6, <2>1 DEF MispInvariant, TimesAgree
<1>9. BufferHolds' /\ FlushedIsSent'
  BY <1>1, <1>2, <1>5 DEF BufferHolds, FlushedIsSent
<1>10. Old' = Old
  BY <1>1, <1>5 DEF Old
<1>11. EventsInHand' /\ SamplesInHand'
  <2>1. \A e \in Old : SamplesOf[e] \subseteq sent \cup givenUp \cup run.todo \cup run.failed
    BY <1>1, <1>3 DEF MispInvariant, SamplesInHand
  <2> QED
    BY <1>1, <1>2, <1>5, <1>6, <1>10, <2>1 DEF EventsInHand, SamplesInHand
<1>12. WorkIsDue'
  <2>1. \A s \in run.todo : SampleIsDue(s)
    BY <1>1 DEF MispInvariant, WorkIsDue
  <2>2. \A s \in run.todo : SampleIsDue(s)'
    BY <1>1, <1>3, <1>4, <2>1 DEF SampleIsDue
  <2> QED
    BY <1>1, <1>2, <1>5, <1>6, <2>2 DEF WorkIsDue
<1>13. ConfirmedIsSent'
  BY <1>1, <1>2, <1>3, <1>4 DEF MispInvariant, ConfirmedIsSent
<1> QED
  BY <1>7, <1>8, <1>9, <1>11, <1>12, <1>13 DEF MispInvariant

(* When all the samples have been tried, some of them may have been downloaded. *)
LEMMA RecapDownloadsKeeps == MispInvariant /\ RecapDownloads => MispInvariant'
<1> SUFFICES ASSUME MispInvariant, RecapDownloads PROVE MispInvariant'
  OBVIOUS
<1>1. /\ run.step = "next sample" /\ gen = "running" /\ buffer = <<>> /\ run.state = file
      /\ UNCHANGED <<sent, clock, added>>
      /\ run \in RunType /\ file \in StateType
  <2>1. Continues("next sample")
    BY DEF RecapDownloads
  <2> QED
    BY <2>1, InControl
<1>2. /\ run.todo = {} /\ UNCHANGED <<buffer, file, givenUp>> /\ gen' = "flushing"
      /\ \/ run' = [run EXCEPT !.step = "finish"]
         \/ run' = [run EXCEPT !.step = "ended"]
  BY DEF RecapDownloads, FlushOut, GoesTo, Ends
<1>3. /\ run' \in RunType /\ run'.step \in {"finish", "ended"}
      /\ run'.failed = run.failed
      /\ run'.state = run.state /\ run'.now = run.now /\ run'.loaded = run.loaded
  BY <1>1, <1>2 DEF RunType, Step
<1>4. run.step \in Late /\ run'.step \notin Early \cup Fetching \cup Searching
  BY <1>1, <1>3 DEF Early, Late, Fetching, Searching
<1>5. /\ MispTypes' /\ StateIsSaved' /\ TimesAgree' /\ ConfirmedIsSent'
      /\ Old' = Old /\ (Overdue' <=> Overdue)
  BY <1>1, <1>2, <1>3, <1>4, StepSavesNothing
<1>6. BufferHolds' /\ FlushedIsSent'
  BY <1>1, <1>2, <1>3 DEF BufferHolds, FlushedIsSent
<1>7. EventsInHand' /\ SamplesInHand'
  <2>1. \A e \in Old : SamplesOf[e] \subseteq sent \cup givenUp \cup run.failed
    BY <1>1, <1>2 DEF MispInvariant, SamplesInHand
  <2> QED
    BY <1>1, <1>2, <1>3, <1>4, <1>5, <2>1 DEF EventsInHand, SamplesInHand
<1>8. WorkIsDue'
  BY <1>1, <1>2, <1>3, <1>4 DEF WorkIsDue
<1> QED
  BY <1>5, <1>6, <1>7, <1>8 DEF MispInvariant

(* What has not been sent by then has been given up. *)
LEMMA FinishKeeps == MispInvariant /\ Finish => MispInvariant'
<1> SUFFICES ASSUME MispInvariant, Finish PROVE MispInvariant'
  OBVIOUS
<1>1. /\ run.step = "finish" /\ gen = "running" /\ buffer = <<>> /\ run.state = file
      /\ UNCHANGED <<sent, clock, added>>
      /\ run \in RunType /\ file \in StateType
  <2>1. Continues("finish")
    BY DEF Finish
  <2> QED
    BY <2>1, InControl
<1>2. /\ file' = [file EXCEPT !.samples = run.now, !.processed = {}]
      /\ run' = [run EXCEPT !.state = file', !.step = "ended"]
      /\ buffer' = <<>> /\ gen' = "flushing" /\ givenUp' = givenUp \cup run.failed
  BY <1>1 DEF Finish, Saves, Ends
<1>3. /\ clock \in Nat /\ run.now \in Nat /\ file.events \in Nat
      /\ \A e \in Event : added[e] \in Nat
  BY Numbers DEF MispInvariant
<1>4. run.now <= clock /\ file.events = run.now
  <2>1. run.step \in Late
    BY <1>1 DEF Late
  <2> QED
    BY <2>1 DEF MispInvariant, TimesAgree
<1>5. /\ file' \in StateType /\ file'.events = run.now /\ file'.samples = run.now
      /\ file'.processed = {}
  BY <1>1, <1>2, <1>3, <1>4 DEF StateType
<1>6. /\ run' \in RunType /\ run'.step = "ended"
      /\ run'.state = file' /\ run'.now = run.now
  BY <1>1, <1>2, <1>5 DEF RunType, Step
<1>7. run'.step \notin Early \cup Late \cup Fetching \cup Searching
  BY <1>6 DEF Early, Late, Fetching, Searching
<1>8. MispTypes' /\ StateIsSaved'
  BY <1>1, <1>5, <1>6 DEF MispInvariant, MispTypes, StateIsSaved
<1>9. TimesAgree'
  BY <1>1, <1>3, <1>4, <1>5, <1>6, <1>7 DEF TimesAgree
<1>10. BufferHolds' /\ FlushedIsSent'
  BY <1>2, <1>6 DEF BufferHolds, FlushedIsSent
<1>11. EventsInHand' /\ SamplesInHand' /\ WorkIsDue'
  BY <1>2, <1>6, <1>7 DEF EventsInHand, SamplesInHand, WorkIsDue
<1>12. ConfirmedIsSent'
  <2>1. \A e \in Old : SamplesOf[e] \subseteq sent' \cup givenUp'
    BY <1>1, <1>2 DEF MispInvariant, SamplesInHand
  <2>2. \A e \in Old : e \in sent'
    BY <1>1, <1>4 DEF MispInvariant, ConfirmedIsSent, Old
  <2> QED
    BY <1>1, <1>5, <2>1, <2>2 DEF ConfirmedIsSent, Old
<1> QED
  BY <1>8, <1>9, <1>10, <1>11, <1>12 DEF MispInvariant

-----------------------------------------------------------------------------
(* The machinery takes the control from the coroutine and gives it back, with
   an empty buffer; or the process ends, and what it has in hand is lost. *)
LEMMA RunGoesOnOrEnds ==
  ASSUME MispInvariant, RunMayEnd, UNCHANGED <<sent, clock, added, file, givenUp>>,
         gen' = "down" => buffer' = <<>>,
         gen' # "down" => buffer' = buffer /\ gen # "down",
         gen' \in {"setup", "scheduled", "running", "pausing"} => buffer = <<>>
  PROVE  MispInvariant'
<1>1. CASE gen' = "down"
  <2>1. run' = Begun("none", run.now, file) /\ buffer' = <<>>
    BY <1>1 DEF RunMayEnd
  <2>2. run.now \in Nat /\ file \in StateType /\ "none" \in Step
    BY Numbers DEF MispInvariant, MispTypes, Step
  <2>3. LET r == Begun("none", run.now, file)
        IN  r \in RunType /\ r.step = "none" /\ r.now = run.now /\ r.state = file
    BY <2>2, BegunRun
  <2>4. run' \in RunType /\ run'.step = "none" /\ run'.now = run.now /\ run'.state = file
    BY <2>1, <2>3
  <2>5. MispTypes' /\ StateIsSaved'
    BY <2>4 DEF MispInvariant, MispTypes, StateIsSaved
  <2>6. run'.step \notin Early \cup Late \cup Fetching
    BY <2>4 DEF Early, Late, Fetching
  <2>7. TimesAgree'
    BY <2>4, <2>6 DEF MispInvariant, TimesAgree
  <2>8. BufferHolds' /\ FlushedIsSent'
    BY <2>1, <2>4 DEF BufferHolds, FlushedIsSent
  <2>9. InHand'
    BY <2>1, <2>4, NothingInHand DEF MispInvariant, InHand
  <2> QED
    BY <2>5, <2>7, <2>8, <2>9 DEF MispInvariant, InHand
<1>2. CASE gen' # "down"
  <2>1. run' = run /\ buffer' = buffer /\ run.step # "fetch"
    BY <1>2 DEF RunMayEnd, MispInvariant, BufferHolds
  <2>2. MispTypes' /\ StateIsSaved' /\ TimesAgree' /\ FlushedIsSent'
    BY <2>1 DEF MispInvariant, MispTypes, StateIsSaved, TimesAgree, Overdue,
       FlushedIsSent, Published
  <2>3. BufferHolds'
    BY <1>2, <2>1 DEF MispInvariant, BufferHolds, Published
  <2>4. InHand'
    BY <2>1, InHandRemains DEF MispInvariant, InHand
  <2> QED
    BY <2>2, <2>3, <2>4 DEF MispInvariant, InHand
<1> QED
  BY <1>1, <1>2

(* The steps of the publishing generator keep the invariant, *)
LEMMA MachineryKeeps == MispInvariant /\ Machinery => MispInvariant'
<1> SUFFICES ASSUME MispInvariant, Machinery PROVE MispInvariant'
  OBVIOUS
<1>1. RunMayEnd /\ UNCHANGED <<sent, clock, added, file, givenUp>>
  BY DEF Machinery, Past, Source
<1>2. gen \in {"setup", "scheduled", "running", "pausing"} => buffer = <<>>
  BY DEF MispInvariant, BufferHolds
<1>3. CASE StartIterativePublishing \/ NextPublishingIteration \/ BufferIsFlushed
  <2>1. /\ gen' # "down" /\ gen # "down" /\ buffer' = buffer /\ buffer = <<>>
    BY <1>2, <1>3 DEF StartIterativePublishing, NextPublishingIteration, BufferIsFlushed
  <2> QED
    BY <1>1, <2>1, RunGoesOnOrEnds
<1>4. CASE AfterFlush
  <2>1. /\ gen # "down" /\ buffer = <<>>
        /\ (gen' # "down" => buffer' = buffer) /\ (gen' = "down" => buffer' = <<>>)
    BY <1>2, <1>4 DEF AfterFlush, ProcessEnds
  <2> QED
    BY <1>1, <2>1, RunGoesOnOrEnds
<1>5. CASE CloseConnection
  <2>1. gen' = "down" /\ buffer' = <<>>
    BY <1>5 DEF CloseConnection, ProcessEnds
  <2> QED
    BY <1>1, <2>1, RunGoesOnOrEnds
<1> QED
  BY <1>3, <1>4, <1>5 DEF Machinery

(* and so do interrupts, kills and losses of the connection. *)
LEMMA TroublesKeep == MispInvariant /\ Troubles => MispInvariant'
<1> SUFFICES ASSUME MispInvariant, Troubles PROVE MispInvariant'
  OBVIOUS
<1>1. RunMayEnd /\ UNCHANGED <<sent, clock, added, file, givenUp>>
  BY DEF Troubles, Source
<1>2. CASE InterruptPublishing
  <2>1. gen' \in {"flushing", "over"} /\ gen # "down" /\ buffer' = buffer
    BY <1>2 DEF InterruptPublishing, Ends
  <2> QED
    BY <1>1, <2>1, RunGoesOnOrEnds
<1>3. CASE ProcessEnds
  <2>1. gen' = "down" /\ buffer' = <<>>
    BY <1>3 DEF ProcessEnds
  <2> QED
    BY <1>1, <2>1, RunGoesOnOrEnds
<1> QED
  BY <1>2, <1>3 DEF Troubles, Breakdown

(* What is in the buffer is sent. *)
LEMMA IOLoopSends ==
  ASSUME MispInvariant, IOLoop
  PROVE  /\ buffer # <<>> /\ Head(buffer) = Published /\ buffer' = <<>>
         /\ gen \notin {"down", "setup", "scheduled", "running", "pausing"}
         /\ sent' = sent \cup Published
         /\ UNCHANGED <<gen, clock, added, file, run, givenUp>>
<1>1. buffer = <<Published>>
  BY DEF IOLoop, Transmit, MispInvariant, BufferHolds
<1>2. Head(<<Published>>) = Published /\ Tail(<<Published>>) = <<>>
  OBVIOUS
<1> QED
  BY <1>1, <1>2 DEF IOLoop, Transmit, Source, MispInvariant, BufferHolds

(* What the IO loop sends is no longer in hand, but sent. *)
LEMMA IOLoopKeeps == MispInvariant /\ IOLoop => MispInvariant'
<1> SUFFICES ASSUME MispInvariant, IOLoop PROVE MispInvariant'
  OBVIOUS
<1>1. /\ buffer # <<>> /\ buffer' = <<>> /\ sent' = sent \cup Published
      /\ UNCHANGED <<gen, clock, added, file, run, givenUp>>
  BY IOLoopSends
<1>2. MispTypes' /\ StateIsSaved' /\ TimesAgree'
  BY <1>1 DEF MispInvariant, MispTypes, StateIsSaved, TimesAgree, Overdue
<1>3. BufferHolds'
  BY <1>1 DEF MispInvariant, BufferHolds
<1>4. FlushedIsSent'
  BY <1>1 DEF FlushedIsSent, Published
<1>5. InHand'
  BY <1>1, InHandRemains DEF MispInvariant, InHand
<1> QED
  BY <1>2, <1>3, <1>4, <1>5 DEF MispInvariant, InHand

-----------------------------------------------------------------------------
(* Each step keeps the invariant. *)
LEMMA MispStep == MispInvariant /\ [MispNext]_mispVars => MispInvariant'
<1> SUFFICES ASSUME MispInvariant, [MispNext]_mispVars PROVE MispInvariant'
  OBVIOUS
<1>1. CASE RunSteps
  BY <1>1, FetchEventsKeeps, PublishEventsKeeps, ConfirmEventsKeeps, FindSamplesKeeps,
     NextSampleKeeps, DownloadKeeps, FailToDownloadKeeps, ConfirmSampleKeeps,
     RecapDownloadsKeeps, FinishKeeps, MachineryKeeps DEF RunSteps
<1>2. CASE IOLoop
  BY <1>2, IOLoopKeeps
<1>3. CASE Surroundings
  BY <1>3, TickKeeps, AddEventKeeps, StartKeeps, TroublesKeep DEF Surroundings
<1>4. CASE UNCHANGED mispVars
  <2>1. UNCHANGED <<gen, buffer, sent, clock, added, file, run, givenUp>>
    BY <1>4 DEF mispVars, publishing
  <2>2. MispTypes' /\ StateIsSaved' /\ TimesAgree' /\ BufferHolds' /\ FlushedIsSent'
    BY <2>1 DEF MispInvariant, MispTypes, StateIsSaved, TimesAgree, Overdue, BufferHolds,
       FlushedIsSent, Published
  <2>3. InHand'
    BY <2>1, InHandRemains DEF MispInvariant, InHand
  <2> QED
    BY <2>2, <2>3 DEF MispInvariant, InHand
<1> QED
  BY <1>1, <1>2, <1>3, <1>4 DEF MispNext

(* The invariant holds in every state the collector, and its state file, come into. *)
THEOREM MispInvariantHolds == MispSpec => []MispInvariant
BY MispInitially, MispStep, PTL DEF MispSpec

(* Whatever is interrupted, killed or disconnected at whatever point: what
   the state file confirms has been sent, but for the samples that the
   collector has given up. *)
THEOREM OnlySentIsConfirmed == MispSpec => []ConfirmedIsSent
<1>1. MispInvariant => ConfirmedIsSent
  BY DEF MispInvariant
<1> QED
  BY <1>1, MispInvariantHolds, PTL

(* Nothing is sent that the state file confirms, but for the leeway. *)
THEOREM NothingConfirmedIsRepeated == MispSpec => ConfirmedIsNotRepeated
<1> DEFINE NothingTwiceSent == IOLoop => \A x \in Head(buffer) :
             /\ x \in Event => file.events <= added[x] + Leeway
             /\ x \notin file.processed
             /\ \A e \in Event : x \in SamplesOf[e] => file.samples <= added[e] + Leeway
<1>1. MispInvariant => NothingTwiceSent
  <2> SUFFICES ASSUME MispInvariant, IOLoop, NEW x \in Head(buffer)
               PROVE  Due(x)
    BY DEF Due, EventIsDue, SampleIsDue
  <2>1. buffer # <<>> /\ Head(buffer) = Published
    BY IOLoopSends
  <2> QED
    BY <2>1 DEF MispInvariant, WorkIsDue
<1> QED
  BY <1>1, MispInvariantHolds, PTL DEF ConfirmedIsNotRepeated

-----------------------------------------------------------------------------
(***************************************************************************)
(* What travels between the component and the broker                       *)
(***************************************************************************)
Answer == {"ack", "nack", "requeue"}
Settling == {"ack", "nack"}
Control == {"consume", "cancel", "close in", "close out", "close"}

Output(m, p) == [kind |-> "output", msg |-> m, part |-> p]

WireFrame ==
  [kind : {"output"}, msg : Msg, part : Part]
  \cup [kind : Answer, msg : Msg, part : {0}]
  \cup [kind : Control, msg : {NoMsg}, part : {0}]

InboxFrame ==
  [kind : {"deliver"}, msg : Msg, part : {0}]
  \cup [kind : {"cancel ok", "cancelled", "closed in", "closed out", "closed"},
        msg : {NoMsg}, part : {0}]

ChannelState == {"none", "open", "closing", "closed"}

ComponentState ==
  [at : {"loop", "callback", "down"}, hand : Msg \cup {NoMsg}, part : 0 .. Parts,
   phase : {0, 1, 3, 4}, closing : BOOLEAN, chanIn : ChannelState, chanOut : ChannelState,
   bound : 0 .. Bindings + 1, declared : 0 .. Exchanges, cancelled : BOOLEAN,
   polling : BOOLEAN, stopping : BOOLEAN]

QueuedTypes ==
  /\ comp \in ComponentState
  /\ link \in {"up", "down"}
  /\ wire \in Seq(WireFrame) /\ inbox \in Seq(InboxFrame)
  /\ queue \subseteq Msg /\ unacked \subseteq Msg /\ consuming \in BOOLEAN
  /\ copies \in [Msg \X Part -> Nat]
  /\ events \in Nat /\ breakdowns \in Nat

(* Frames, by what they say, *)
Kinds(s) == {s[i].kind : i \in 1 .. Len(s)}
Messages(s, kinds) == {s[i].msg : i \in {k \in 1 .. Len(s) : s[k].kind \in kinds}}
Outputs(w) == {w[i] : i \in {k \in 1 .. Len(w) : w[k].kind = "output"}}

(* and by their order: the outputs that no answer follows, and those that
   ought to be in front of an "ack" and are not. *)
AnsweredAfter(w, i) ==
  \E k \in i + 1 .. Len(w) : w[k].kind \in Answer /\ w[k].msg = w[i].msg

Unanswered(w) == {w[i] : i \in {k \in 1 .. Len(w) : w[k].kind = "output" /\ ~AnsweredAfter(w, k)}}
Missing(w) ==
  {x \in Msg \X Part : \E i \in 1 .. Len(w) :
     /\ w[i].kind = "ack" /\ w[i].msg = x[1]
     /\ \A k \in 1 .. i - 1 : w[k] # Output(x[1], x[2])}

NothingTwice(s) ==
  \A i, k \in 1 .. Len(s) :
    /\ s[i].kind \in {"output", "consume", "deliver"} /\ s[i] = s[k] => i = k
    /\ s[i].kind \in Answer /\ s[k].kind \in Answer /\ s[i].msg = s[k].msg => i = k

Closings == {"close in", "close"}

ClosedLast(w) ==
  \A i, k \in 1 .. Len(w) :
    w[i].kind \in Closings /\ i < k => w[k].kind \in Control \ {"consume"}

-----------------------------------------------------------------------------
(* The invariant *)

Shut == comp.chanIn \in {"closing", "closed"}
InHands == IF InCallback THEN {comp.hand} ELSE {}
Delivered == Messages(inbox, {"deliver"})
Answered == Messages(wire, Answer)

Sound(c) ==
  /\ c.at = "callback" => c.hand \in Msg /\ c.chanIn = "open"
  /\ c.phase \in {3, 4} => c.chanIn # "none"
  /\ c.polling = TRUE => c.chanIn # "none"
  /\ c.chanIn = "none" => c.bound = 0

ComponentIsConsistent ==
  /\ Sound(comp)
  /\ comp.at = "down" => link = "down"
  /\ link = "down" => wire = <<>> /\ unacked = {} /\ ~consuming
  /\ queue \cap unacked = {}

(* Before the consumer exists, and when everything has been closed. *)
NotYetConsuming ==
  ~Consumer(comp) \/ "consume" \in Kinds(wire) =>
    /\ ~consuming /\ unacked = {} /\ ~InCallback
    /\ Delivered = {} /\ Answered = {} /\ Outputs(wire) = {}
    /\ "cancelled" \notin Kinds(inbox)

ChannelsAgree ==
  /\ comp.closing => Shut
  /\ NotYetConsuming
  /\ ~Consumer(comp) => "consume" \notin Kinds(wire)
  /\ Kinds(wire) \cap {"close in", "close out", "close"} # {}
       \/ Kinds(inbox) \cap {"closed in", "closed out", "closed"} # {} => Shut
  /\ "cancel" \in Kinds(wire) \/ "cancel ok" \in Kinds(inbox) => comp.closing \/ comp.phase \in {3, 4}
  /\ "closed" \in Kinds(inbox) => unacked = {} /\ ~consuming /\ "consume" \notin Kinds(wire)
  /\ "cancelled" \in Kinds(inbox) => ~consuming
  /\ ClosedLast(wire)

(* A message is on its way to the component, in its hands, or answered. *)
EachInOnePlace ==
  /\ NothingTwice(wire) /\ NothingTwice(inbox)
  /\ Delivered \cap Answered = {}
  /\ InHands \cap (Delivered \cup Answered) = {}
  /\ Delivered \cup InHands \cup Answered \subseteq queue \cup unacked
  /\ consuming \/ comp.chanIn = "open" => Delivered \cup InHands \cup Answered \subseteq unacked
  /\ \A f \in Unanswered(wire) : f.msg \in InHands /\ f.part \in 1 .. comp.part

Count(x) == copies[x] + (IF Output(x[1], x[2]) \in Outputs(wire) THEN 1 ELSE 0)

(* All that has been published was published before a breakdown. *)
Stale(m, p) == Count(<<m, p>>) <= breakdowns

CancelledByBroker ==
  "cancelled" \in Kinds(inbox) \/ (Shut /\ ~comp.closing /\ comp.phase \notin {3, 4})

CountsAgree ==
  \A m \in Msg, p \in Part :
    /\ m \in unacked /\ m \notin InHands /\ m \notin Messages(wire, Settling) => Stale(m, p)
    /\ m \in InHands /\ p > comp.part => Stale(m, p)
    /\ CancelledByBroker => Stale(m, p)
    /\ "cancelled" \in Kinds(inbox) =>
         (m \in Delivered \/ (m \in InHands /\ p > comp.part) => Count(<<m, p>>) + 1 <= breakdowns)

Regular == ChannelsAgree /\ EachInOnePlace /\ CountsAgree

(* After a KeyboardInterrupt that came before the input channel was opened,
   nothing is published. *)
Interrupted ==
  /\ comp.closing
  /\ Outputs(wire) = {}
  /\ \A x \in Msg \X Part : copies[x] <= breakdowns

Consistent == QueuedTypes /\ ComponentIsConsistent

Limits ==
  \A m \in Msg, p \in Part :
    Count(<<m, p>>) <= 1 + breakdowns /\ (m \in queue => Stale(m, p))

CountsInvariant ==
  /\ Consistent /\ Limits
  /\ link = "up" => Regular \/ ("early interrupt" \in Events /\ Interrupted)

-----------------------------------------------------------------------------
(* What appending to a sequence of frames and taking its head do to what it
   says. *)

LEMMA Appending ==
  ASSUME NEW S, NEW w \in Seq(S), NEW f \in S
  PROVE  /\ w \o <<f>> \in Seq(S)
         /\ Len(w \o <<f>>) = Len(w) + 1
         /\ \A i \in 1 .. Len(w) : (w \o <<f>>)[i] = w[i]
         /\ (w \o <<f>>)[Len(w) + 1] = f
         /\ Len(w) \in Nat /\ Len(w \o <<f>>) \in Nat
         /\ \A i \in 1 .. Len(w \o <<f>>) : i \in 1 .. Len(w) \/ i = Len(w) + 1
         /\ \A i \in 1 .. Len(w) : i \in 1 .. Len(w \o <<f>>)
OBVIOUS

LEMMA TakingHead ==
  ASSUME NEW S, NEW w \in Seq(S), w # <<>>
  PROVE  /\ Tail(w) \in Seq(S) /\ Len(w) \in Nat \ {0}
         /\ Head(w) = w[1] /\ Head(w) \in S
         /\ Len(Tail(w)) = Len(w) - 1
         /\ \A i \in 1 .. Len(Tail(w)) : i + 1 \in 1 .. Len(w) /\ Tail(w)[i] = w[i + 1]
         /\ \A i \in 2 .. Len(w) : i - 1 \in 1 .. Len(Tail(w)) /\ w[i] = Tail(w)[i - 1]
OBVIOUS

LEMMA KindsAppended ==
  ASSUME NEW S, NEW w \in Seq(S), NEW f \in S
  PROVE  /\ Kinds(w \o <<f>>) = Kinds(w) \cup {f.kind}
         /\ \A K : Messages(w \o <<f>>, K) = Messages(w, K) \cup (IF f.kind \in K THEN {f.msg} ELSE {})
         /\ Outputs(w \o <<f>>) = Outputs(w) \cup (IF f.kind = "output" THEN {f} ELSE {})
BY Appending DEF Kinds, Messages, Outputs

LEMMA KindsTaken ==
  ASSUME NEW S, NEW w \in Seq(S), w # <<>>
  PROVE  /\ Kinds(w) = Kinds(Tail(w)) \cup {Head(w).kind}
         /\ \A K : Messages(w, K) = Messages(Tail(w), K) \cup (IF Head(w).kind \in K THEN {Head(w).msg} ELSE {})
         /\ Outputs(w) = Outputs(Tail(w)) \cup (IF Head(w).kind = "output" THEN {Head(w)} ELSE {})
<1> DEFINE t == Tail(w)
<1>1. \A i \in 1 .. Len(w) : i = 1 \/ i \in 2 .. Len(w)
  BY TakingHead
<1>2. 1 \in 1 .. Len(w)
  BY TakingHead
<1>3. Kinds(w) = Kinds(Tail(w)) \cup {Head(w).kind}
  BY TakingHead, <1>1, <1>2 DEF Kinds
<1>4. ASSUME NEW K
      PROVE  Messages(w, K) = Messages(Tail(w), K) \cup (IF Head(w).kind \in K THEN {Head(w).msg} ELSE {})
  <2>1. Messages(w, K) \subseteq Messages(Tail(w), K) \cup (IF Head(w).kind \in K THEN {Head(w).msg} ELSE {})
    <3> SUFFICES ASSUME NEW i \in 1 .. Len(w), w[i].kind \in K
                 PROVE  w[i].msg \in Messages(Tail(w), K) \cup (IF Head(w).kind \in K THEN {Head(w).msg} ELSE {})
      BY DEF Messages
    <3>1. CASE i = 1
      BY <3>1, TakingHead
    <3>2. CASE i \in 2 .. Len(w)
      BY <3>2, TakingHead DEF Messages
    <3> QED  BY <1>1, <3>1, <3>2
  <2>2. Messages(Tail(w), K) \subseteq Messages(w, K)
    BY TakingHead DEF Messages
  <2>3. Head(w).kind \in K => Head(w).msg \in Messages(w, K)
    BY TakingHead, <1>2 DEF Messages
  <2> QED  BY <2>1, <2>2, <2>3
<1>5. Outputs(w) = Outputs(Tail(w)) \cup (IF Head(w).kind = "output" THEN {Head(w)} ELSE {})
  <2>1. Outputs(w) \subseteq Outputs(Tail(w)) \cup (IF Head(w).kind = "output" THEN {Head(w)} ELSE {})
    <3> SUFFICES ASSUME NEW i \in 1 .. Len(w), w[i].kind = "output"
                 PROVE  w[i] \in Outputs(Tail(w)) \cup (IF Head(w).kind = "output" THEN {Head(w)} ELSE {})
      BY DEF Outputs
    <3> QED  BY TakingHead, <1>1 DEF Outputs
  <2>2. Outputs(Tail(w)) \subseteq Outputs(w)
    BY TakingHead DEF Outputs
  <2>3. Head(w).kind = "output" => Head(w) \in Outputs(w)
    BY TakingHead, <1>2 DEF Outputs
  <2> QED  BY <2>1, <2>2, <2>3
<1> QED
  BY <1>3, <1>4, <1>5

(* The order of what is on the wire remains. *)
InOrder(w) == NothingTwice(w) /\ ClosedLast(w)

LEMMA OutputAppended ==
  ASSUME NEW w \in Seq(WireFrame), NEW f \in WireFrame, f.kind = "output",
         f \notin Outputs(w), Kinds(w) \cap Closings = {}, InOrder(w)
  PROVE  /\ InOrder(w \o <<f>>)
         /\ Unanswered(w \o <<f>>) \subseteq Unanswered(w) \cup {f}
<1> DEFINE v == w \o <<f>>
<1> HIDE DEF v
<1>0. /\ v \in Seq(WireFrame) /\ Len(v) = Len(w) + 1 /\ Len(w) \in Nat /\ v[Len(w) + 1] = f
      /\ \A i \in 1 .. Len(w) : v[i] = w[i]
      /\ \A i \in 1 .. Len(v) : i \in 1 .. Len(w) \/ i = Len(w) + 1
      /\ \A i \in 1 .. Len(w) : i \in 1 .. Len(v)
      /\ Len(v) \in Nat
  BY Appending DEF v
<1>1. NothingTwice(v)
  <2> SUFFICES ASSUME NEW i \in 1 .. Len(v), NEW k \in 1 .. Len(v)
               PROVE  /\ v[i].kind \in {"output", "consume", "deliver"} /\ v[i] = v[k] => i = k
                      /\ v[i].kind \in Answer /\ v[k].kind \in Answer /\ v[i].msg = v[k].msg => i = k
    BY DEF NothingTwice
  <2>1. \A j \in 1 .. Len(w) : w[j] # f
    BY DEF Outputs
  <2> QED
    BY <1>0, <2>1 DEF InOrder, NothingTwice, Answer
<1>2. ClosedLast(v)
  BY <1>0 DEF InOrder, ClosedLast, Kinds
<1>3. Unanswered(v) \subseteq Unanswered(w) \cup {f}
  <2> SUFFICES ASSUME NEW i \in 1 .. Len(v), v[i].kind = "output", ~AnsweredAfter(v, i), v[i] # f
               PROVE  i \in 1 .. Len(w) /\ ~AnsweredAfter(w, i)
    BY <1>0 DEF Unanswered
  <2> QED
    BY <1>0 DEF AnsweredAfter
<1> QED
  BY <1>1, <1>2, <1>3 DEF v, InOrder

LEMMA MissingWithOutput ==
  ASSUME NEW w \in Seq(WireFrame), NEW f \in WireFrame, f.kind = "output"
  PROVE  Missing(w \o <<f>>) \subseteq Missing(w)
<1> DEFINE v == w \o <<f>>
<1> HIDE DEF v
<1>0. /\ v \in Seq(WireFrame) /\ Len(v) = Len(w) + 1 /\ Len(w) \in Nat /\ v[Len(w) + 1] = f
      /\ \A i \in 1 .. Len(w) : v[i] = w[i]
      /\ \A i \in 1 .. Len(v) : i \in 1 .. Len(w) \/ i = Len(w) + 1
  BY Appending DEF v
<1>1. Missing(v) \subseteq Missing(w)
  <2> SUFFICES ASSUME NEW x \in Msg \X Part, NEW i \in 1 .. Len(v), v[i].kind = "ack", v[i].msg = x[1],
                      \A k \in 1 .. i - 1 : v[k] # Output(x[1], x[2])
               PROVE  i \in 1 .. Len(w) /\ w[i] = v[i] /\ \A k \in 1 .. i - 1 : w[k] # Output(x[1], x[2])
    BY DEF Missing
  <2> QED
    BY <1>0
<1> QED
  BY <1>1 DEF v

LEMMA AnswerAppended ==
  ASSUME NEW w \in Seq(WireFrame), NEW f \in WireFrame, f.kind \in Answer,
         f.msg \notin Messages(w, Answer), Kinds(w) \cap Closings = {}, InOrder(w)
  PROVE  /\ InOrder(w \o <<f>>)
         /\ Unanswered(w \o <<f>>) \subseteq {g \in Unanswered(w) : g.msg # f.msg}
         /\ f.kind # "ack" => Missing(w \o <<f>>) \subseteq Missing(w)
         /\ \A x \in Missing(w \o <<f>>) :
              x \in Missing(w) \/ (x[1] = f.msg /\ Output(x[1], x[2]) \notin Outputs(w))
<1> DEFINE v == w \o <<f>>
<1> HIDE DEF v
<1>0. /\ v \in Seq(WireFrame) /\ Len(v) = Len(w) + 1 /\ Len(w) \in Nat /\ v[Len(w) + 1] = f
      /\ \A i \in 1 .. Len(w) : v[i] = w[i]
      /\ \A i \in 1 .. Len(v) : i \in 1 .. Len(w) \/ i = Len(w) + 1
      /\ \A i \in 1 .. Len(w) : i \in 1 .. Len(v)
      /\ Len(v) \in Nat
  BY Appending DEF v
<1>1. NothingTwice(v)
  <2> SUFFICES ASSUME NEW i \in 1 .. Len(v), NEW k \in 1 .. Len(v)
               PROVE  /\ v[i].kind \in {"output", "consume", "deliver"} /\ v[i] = v[k] => i = k
                      /\ v[i].kind \in Answer /\ v[k].kind \in Answer /\ v[i].msg = v[k].msg => i = k
    BY DEF NothingTwice
  <2>1. \A j \in 1 .. Len(w) : w[j].kind \in Answer => w[j].msg # f.msg
    BY DEF Messages
  <2> QED
    BY <1>0, <2>1 DEF InOrder, NothingTwice, Answer
<1>2. ClosedLast(v)
  BY <1>0 DEF InOrder, ClosedLast, Kinds
<1>3. Unanswered(v) \subseteq {g \in Unanswered(w) : g.msg # f.msg}
  <2> SUFFICES ASSUME NEW i \in 1 .. Len(v), v[i].kind = "output", ~AnsweredAfter(v, i)
               PROVE  i \in 1 .. Len(w) /\ ~AnsweredAfter(w, i) /\ v[i].msg # f.msg
    BY <1>0 DEF Unanswered
  <2>1. i \in 1 .. Len(w)
    BY <1>0 DEF Answer
  <2>2. Len(w) + 1 \in i + 1 .. Len(v)
    BY <1>0, <2>1
  <2>3. \A k \in i + 1 .. Len(w) : k \in i + 1 .. Len(v) /\ v[k] = w[k]
    BY <1>0, <2>1
  <2> QED
    BY <1>0, <2>1, <2>2, <2>3 DEF AnsweredAfter
<1>4. ASSUME NEW x \in Missing(v)
      PROVE  x \in Missing(w) \/ (f.kind = "ack" /\ x[1] = f.msg /\ Output(x[1], x[2]) \notin Outputs(w))
  <2>1. PICK i \in 1 .. Len(v) : /\ v[i].kind = "ack" /\ v[i].msg = x[1]
                                 /\ \A k \in 1 .. i - 1 : v[k] # Output(x[1], x[2])
    BY DEF Missing
  <2>2. CASE i \in 1 .. Len(w)
    <3>1. \A k \in 1 .. i - 1 : w[k] # Output(x[1], x[2])
      BY <1>0, <2>1, <2>2
    <3> QED  BY <1>0, <2>1, <2>2, <3>1 DEF Missing
  <2>3. CASE i = Len(w) + 1
    <3>1. \A k \in 1 .. Len(w) : w[k] # Output(x[1], x[2])
      BY <1>0, <2>1, <2>3
    <3> QED  BY <1>0, <2>1, <2>3, <3>1 DEF Outputs
  <2> QED  BY <1>0, <2>2, <2>3
<1> QED
  BY <1>1, <1>2, <1>3, <1>4 DEF v, InOrder

(* v is w, and some frames of `kinds` behind it that are about no message. *)
GoesOn(w, v, kinds) ==
  /\ v \in Seq(WireFrame)
  /\ Kinds(v) = Kinds(w) \cup kinds
  /\ \A K \in SUBSET Answer : Messages(v, K) = Messages(w, K)
  /\ Outputs(v) = Outputs(w)
  /\ Unanswered(v) \subseteq Unanswered(w)
  /\ Missing(v) \subseteq Missing(w)
  /\ InOrder(w) /\ ("consume" \in kinds => Kinds(w) \cap ({"consume"} \cup Closings) = {}) => InOrder(v)

LEMMA ControlAppended ==
  ASSUME NEW w \in Seq(WireFrame), NEW f \in WireFrame, f.kind \in Control
  PROVE  GoesOn(w, w \o <<f>>, {f.kind})
<1> DEFINE v == w \o <<f>>
      Alone == f.kind = "consume" => Kinds(w) \cap ({"consume"} \cup Closings) = {}
<1> HIDE DEF v
<1>0. /\ v \in Seq(WireFrame) /\ Len(v) = Len(w) + 1 /\ Len(w) \in Nat /\ v[Len(w) + 1] = f
      /\ \A i \in 1 .. Len(w) : v[i] = w[i]
      /\ \A i \in 1 .. Len(v) : i \in 1 .. Len(w) \/ i = Len(w) + 1
      /\ \A i \in 1 .. Len(w) : i \in 1 .. Len(v)
      /\ Len(v) \in Nat
  BY Appending DEF v
<1>f. f.kind \notin Answer \cup {"output", "ack", "deliver"}
  BY DEF Answer, Control
<1>1. InOrder(w) /\ Alone => NothingTwice(v)
  <2> SUFFICES ASSUME InOrder(w), Alone, NEW i \in 1 .. Len(v), NEW k \in 1 .. Len(v)
               PROVE  /\ v[i].kind \in {"output", "consume", "deliver"} /\ v[i] = v[k] => i = k
                      /\ v[i].kind \in Answer /\ v[k].kind \in Answer /\ v[i].msg = v[k].msg => i = k
    BY DEF NothingTwice
  <2>1. f.kind = "consume" => \A j \in 1 .. Len(w) : w[j].kind # "consume"
    BY DEF Kinds
  <2> QED
    BY ZenonT(60), <1>0, <2>1 DEF InOrder, NothingTwice, Answer, Control
<1>2. InOrder(w) /\ Alone => ClosedLast(v)
  <2> SUFFICES ASSUME InOrder(w), Alone, NEW i \in 1 .. Len(v), NEW k \in 1 .. Len(v),
                      v[i].kind \in Closings, i < k
               PROVE  v[k].kind \in Control \ {"consume"}
    BY DEF ClosedLast
  <2>1. i \in 1 .. Len(w) /\ w[i].kind \in Closings
    BY <1>0
  <2>2. CASE k \in 1 .. Len(w)
    BY <1>0, <2>1, <2>2 DEF InOrder, ClosedLast
  <2>3. CASE k = Len(w) + 1
    BY <1>0, <2>1, <2>3 DEF Kinds
  <2> QED  BY <1>0, <2>2, <2>3
<1>3. Unanswered(v) \subseteq Unanswered(w)
  <2> SUFFICES ASSUME NEW i \in 1 .. Len(v), v[i].kind = "output", ~AnsweredAfter(v, i)
               PROVE  i \in 1 .. Len(w) /\ ~AnsweredAfter(w, i)
    BY <1>0 DEF Unanswered
  <2> QED
    BY <1>0, <1>f DEF AnsweredAfter
<1>4. Missing(v) \subseteq Missing(w)
  <2> SUFFICES ASSUME NEW x \in Msg \X Part, NEW i \in 1 .. Len(v), v[i].kind = "ack", v[i].msg = x[1],
                      \A k \in 1 .. i - 1 : v[k] # Output(x[1], x[2])
               PROVE  i \in 1 .. Len(w) /\ w[i] = v[i] /\ \A k \in 1 .. i - 1 : w[k] # Output(x[1], x[2])
    BY DEF Missing
  <2> QED
    <3>1. i \in 1 .. Len(w)
      BY <1>0, <1>f
    <3> QED  BY <1>0, <3>1
<1>5. /\ Kinds(v) = Kinds(w) \cup {f.kind}
      /\ \A K \in SUBSET Answer : Messages(v, K) = Messages(w, K)
      /\ Outputs(v) = Outputs(w)
  <2>1. ASSUME NEW K \in SUBSET Answer  PROVE Messages(v, K) = Messages(w, K)
    <3>1. f.kind \notin K
      BY <1>f
    <3>2. Messages(v, K) = Messages(w, K) \cup (IF f.kind \in K THEN {f.msg} ELSE {})
      BY KindsAppended DEF v
    <3> QED  BY <3>1, <3>2
  <2>2. Kinds(v) = Kinds(w) \cup {f.kind}
    BY KindsAppended DEF v
  <2>3. Outputs(v) = Outputs(w) \cup (IF f.kind = "output" THEN {f} ELSE {})
    BY KindsAppended DEF v
  <2> QED  BY <1>f, <2>1, <2>2, <2>3
<1> QED
  BY <1>0, <1>1, <1>2, <1>3, <1>4, <1>5 DEF v, InOrder, GoesOn

LEMMA GoingOn ==
  ASSUME NEW w \in Seq(WireFrame), NEW v \in Seq(WireFrame), NEW u \in Seq(WireFrame), NEW K, NEW L,
         GoesOn(w, v, K), GoesOn(v, u, L), "consume" \notin K \cup L
  PROVE  GoesOn(w, u, K \cup L)
BY DEF GoesOn

LEMMA WireTaken ==
  ASSUME NEW w \in Seq(WireFrame), w # <<>>, InOrder(w)
  PROVE  /\ InOrder(Tail(w))
         /\ Unanswered(Tail(w)) \subseteq Unanswered(w)
         /\ Head(w).kind = "output" => Head(w) \notin Outputs(Tail(w))
         /\ Head(w).kind = "consume" => "consume" \notin Kinds(Tail(w))
         /\ Head(w).kind \in Answer => Head(w).msg \notin Messages(Tail(w), Answer)
         /\ Head(w).kind \in Closings =>
              /\ Outputs(Tail(w)) = {} /\ Messages(Tail(w), Answer) = {}
              /\ "consume" \notin Kinds(Tail(w))
<1> DEFINE v == Tail(w)
<1> HIDE DEF v
<1>0. /\ v \in Seq(WireFrame) /\ Len(v) = Len(w) - 1 /\ Len(w) \in Nat \ {0}
      /\ Head(w) = w[1] /\ 1 \in 1 .. Len(w)
      /\ \A i \in 1 .. Len(v) : i + 1 \in 1 .. Len(w) /\ i + 1 # 1 /\ v[i] = w[i + 1]
      /\ \A i \in 1 .. Len(v), k \in 1 .. Len(v) : (i + 1 = k + 1 <=> i = k) /\ (i + 1 < k + 1 <=> i < k)
      /\ \A i \in 1 .. Len(v) : 1 < i + 1
      /\ Len(v) \in Nat
  BY TakingHead DEF v
<1>1. InOrder(v)
  <2>1. NothingTwice(v)
    BY SMTT(30), <1>0 DEF InOrder, NothingTwice
  <2>2. ClosedLast(v)
    <3> SUFFICES ASSUME NEW i \in 1 .. Len(v), NEW k \in 1 .. Len(v), v[i].kind \in Closings, i < k
                 PROVE  v[k].kind \in Control \ {"consume"}
      BY DEF ClosedLast
    <3>1. i + 1 < k + 1 /\ w[i + 1].kind \in Closings /\ w[k + 1] = v[k]
      BY <1>0
    <3> QED  BY <1>0, <3>1 DEF InOrder, ClosedLast
  <2> QED  BY <2>1, <2>2 DEF InOrder
<1>2. Unanswered(v) \subseteq Unanswered(w)
  <2> SUFFICES ASSUME NEW i \in 1 .. Len(v), v[i].kind = "output", ~AnsweredAfter(v, i)
               PROVE  i + 1 \in 1 .. Len(w) /\ v[i] = w[i + 1] /\ ~AnsweredAfter(w, i + 1)
    BY <1>0 DEF Unanswered
  <2>1. ASSUME NEW k \in (i + 1) + 1 .. Len(w)  PROVE k - 1 \in i + 1 .. Len(v) /\ v[k - 1] = w[k]
    <3>1. k - 1 \in 1 .. Len(v) /\ (k - 1) + 1 = k
      BY <1>0
    <3> QED  BY <1>0, <3>1
  <2>2. i + 1 \in 1 .. Len(w) /\ v[i] = w[i + 1]
    BY <1>0
  <2>3. ASSUME AnsweredAfter(w, i + 1)  PROVE FALSE
    <3>1. PICK k \in (i + 1) + 1 .. Len(w) : w[k].kind \in Answer /\ w[k].msg = w[i + 1].msg
      BY <2>3 DEF AnsweredAfter
    <3>2. k - 1 \in i + 1 .. Len(v) /\ v[k - 1].kind \in Answer /\ v[k - 1].msg = v[i].msg
      BY <2>1, <2>2, <3>1
    <3> QED  BY <3>2 DEF AnsweredAfter
  <2> QED
    BY <2>2, <2>3
<1>3. /\ w[1].kind = "output" => w[1] \notin Outputs(v)
      /\ w[1].kind = "consume" => "consume" \notin Kinds(v)
      /\ w[1].kind \in Answer => w[1].msg \notin Messages(v, Answer)
  <2>1. w[1].kind = "output" => w[1] \notin Outputs(v)
    BY <1>0 DEF InOrder, NothingTwice, Outputs
  <2>2. w[1].kind \in Answer => w[1].msg \notin Messages(v, Answer)
    BY <1>0 DEF InOrder, NothingTwice, Messages
  <2>3. ASSUME w[1].kind = "consume", NEW i \in 1 .. Len(v), v[i].kind = "consume"  PROVE FALSE
    <3>1. \A f \in WireFrame : f.kind = "consume" => f = Frame("consume")
      BY DEF WireFrame, Answer, Frame
    <3>2. w[1] \in WireFrame /\ w[i + 1] \in WireFrame
      BY <1>0
    <3> QED  BY <1>0, <2>3, <3>1, <3>2 DEF InOrder, NothingTwice
  <2> QED  BY <2>1, <2>2, <2>3 DEF Kinds
<1>4. ASSUME w[1].kind \in Closings
      PROVE  Outputs(v) = {} /\ Messages(v, Answer) = {} /\ "consume" \notin Kinds(v)
  <2>1. \A i \in 1 .. Len(v) : v[i].kind \in Control \ {"consume"}
    BY <1>0, <1>4 DEF InOrder, ClosedLast
  <2> QED  BY <2>1 DEF Outputs, Messages, Kinds, Control, Answer
<1> QED
  BY <1>0, <1>1, <1>2, <1>3, <1>4 DEF v

LEMMA MissingTaken ==
  ASSUME NEW w \in Seq(WireFrame), w # <<>>
  PROVE  /\ \A x \in Missing(Tail(w)) : x \in Missing(w) \/ Head(w) = Output(x[1], x[2])
         /\ Head(w).kind = "ack" => {Head(w).msg} \X Part \subseteq Missing(w)
<1> DEFINE v == Tail(w)
<1> HIDE DEF v
<1>0. /\ v \in Seq(WireFrame) /\ Len(v) = Len(w) - 1 /\ Len(w) \in Nat \ {0}
      /\ Head(w) = w[1] /\ 1 \in 1 .. Len(w) /\ w[1] \in WireFrame
      /\ \A i \in 1 .. Len(v) : i + 1 \in 1 .. Len(w) /\ v[i] = w[i + 1]
      /\ Len(v) \in Nat
  BY TakingHead DEF v
<1>1. ASSUME NEW x \in Missing(v), w[1] # Output(x[1], x[2])  PROVE x \in Missing(w)
  <2>1. PICK i \in 1 .. Len(v) : /\ v[i].kind = "ack" /\ v[i].msg = x[1]
                                 /\ \A k \in 1 .. i - 1 : v[k] # Output(x[1], x[2])
    BY DEF Missing
  <2>2. ASSUME NEW k \in 1 .. (i + 1) - 1  PROVE w[k] # Output(x[1], x[2])
    <3>1. k = 1 \/ (k - 1 \in 1 .. i - 1 /\ k - 1 \in 1 .. Len(v) /\ (k - 1) + 1 = k)
      BY <1>0
    <3> QED  BY <1>0, <1>1, <2>1, <3>1
  <2> QED  BY <1>0, <2>1, <2>2 DEF Missing
<1>2. ASSUME w[1].kind = "ack", NEW x \in {w[1].msg} \X Part  PROVE x \in Missing(w)
  <2>1. w[1].msg \in Msg
    BY <1>0, <1>2 DEF WireFrame, Control
  <2> QED  BY <1>0, <1>2, <2>1 DEF Missing
<1> QED
  BY <1>0, <1>1, <1>2 DEF v

(* Frames for the component. *)
LEMMA InboxGoesOn ==
  ASSUME NEW b \in Seq(InboxFrame), NEW f \in InboxFrame, NothingTwice(b),
         f.kind = "deliver" => f.msg \notin Messages(b, {"deliver"})
  PROVE  NothingTwice(b \o <<f>>)
<1> DEFINE v == b \o <<f>>
<1> HIDE DEF v
<1>0. /\ Len(v) = Len(b) + 1 /\ Len(b) \in Nat /\ v[Len(b) + 1] = f
      /\ \A i \in 1 .. Len(b) : v[i] = b[i]
      /\ \A i \in 1 .. Len(v) : i \in 1 .. Len(b) \/ i = Len(b) + 1
      /\ \A i \in 1 .. Len(v) : v[i] \in InboxFrame
  BY Appending DEF v
<1>1. \A j \in 1 .. Len(b) : f.kind = "deliver" => b[j] # f
  BY DEF Messages
<1>2. \A g \in InboxFrame : g.kind \notin Answer \cup {"output", "consume"}
  BY DEF InboxFrame, Answer
<1> QED
  BY <1>0, <1>1, <1>2 DEF NothingTwice, v

LEMMA InboxTaken ==
  ASSUME NEW b \in Seq(InboxFrame), b # <<>>, NothingTwice(b)
  PROVE  /\ NothingTwice(Tail(b))
         /\ Head(b).kind = "deliver" =>
              Head(b).msg \in Msg /\ Head(b).msg \notin Messages(Tail(b), {"deliver"})
<1> DEFINE v == Tail(b)
<1> HIDE DEF v
<1>0. /\ v \in Seq(InboxFrame) /\ Len(v) = Len(b) - 1 /\ Len(b) \in Nat \ {0}
      /\ Head(b) = b[1] /\ 1 \in 1 .. Len(b) /\ b[1] \in InboxFrame
      /\ \A i \in 1 .. Len(v) : i + 1 \in 1 .. Len(b) /\ i + 1 # 1 /\ v[i] = b[i + 1]
      /\ \A i \in 1 .. Len(v), k \in 1 .. Len(v) : i + 1 = k + 1 <=> i = k
      /\ Len(v) \in Nat
  BY TakingHead DEF v
<1>1. NothingTwice(v)
  BY <1>0 DEF NothingTwice
<1>2. ASSUME NEW f \in InboxFrame, NEW g \in InboxFrame,
             f.kind = "deliver", g.kind = "deliver", f.msg = g.msg
      PROVE  f = g
  <2>1. /\ f \in [kind : {"deliver"}, msg : Msg, part : {0}]
        /\ g \in [kind : {"deliver"}, msg : Msg, part : {0}]
    BY <1>2 DEF InboxFrame
  <2> QED  BY <1>2, <2>1
<1>3. \A f \in InboxFrame : f.kind = "deliver" => f.msg \in Msg
  BY DEF InboxFrame
<1>4. b[1].kind = "deliver" => b[1].msg \notin Messages(v, {"deliver"})
  <2> SUFFICES ASSUME b[1].kind = "deliver", NEW i \in 1 .. Len(v), v[i].kind = "deliver",
                      v[i].msg = b[1].msg
               PROVE  FALSE
    BY DEF Messages
  <2>1. b[i + 1] = b[1]
    BY <1>0, <1>2
  <2> QED  BY <1>0, <2>1 DEF NothingTwice
<1> QED
  BY <1>0, <1>1, <1>3, <1>4 DEF v

LEMMA Concatenations ==
  ASSUME NEW S, NEW a \in Seq(S), NEW b \in Seq(S), NEW c \in Seq(S)
  PROVE  a \o b \in Seq(S) /\ a \o (b \o c) = (a \o b) \o c /\ a \o <<>> = a /\ <<>> \o a = a
OBVIOUS

LEMMA Associative ==
  ASSUME NEW a \in Seq(WireFrame), NEW b \in Seq(WireFrame), NEW c \in Seq(WireFrame)
  PROVE  a \o (b \o c) = (a \o b) \o c
BY Concatenations

LEMMA NothingGoesOn ==
  ASSUME NEW w \in Seq(WireFrame)  PROVE GoesOn(w, w, {})
BY DEF GoesOn

LEMMA FrameGoesOn ==
  ASSUME NEW w \in Seq(WireFrame), NEW kind \in Control \ {"consume"}
  PROVE  <<Frame(kind)>> \in Seq(WireFrame) /\ GoesOn(w, w \o <<Frame(kind)>>, {kind})
<1>1. Frame(kind) \in WireFrame /\ Frame(kind).kind = kind
  BY DEF Frame, WireFrame
<1>2. GoesOn(w, w \o <<Frame(kind)>>, {Frame(kind).kind})
  BY <1>1, ControlAppended
<1> QED
  BY <1>1, <1>2

LEMMA PerhapsAFrameGoesOn ==
  ASSUME NEW w \in Seq(WireFrame), NEW kind \in Control \ {"consume"},
         NEW s, s = <<>> \/ s = <<Frame(kind)>>
  PROVE  /\ s \in Seq(WireFrame) /\ w \o s \in Seq(WireFrame)
         /\ GoesOn(w, w \o s, {kind}) \/ GoesOn(w, w \o s, {})
<1>1. CASE s = <<Frame(kind)>>
  BY <1>1, FrameGoesOn, Concatenations
<1>2. CASE s = <<>>
  <2>1. w \o <<>> = w
    BY Concatenations
  <2> QED  BY <1>2, <2>1, NothingGoesOn
<1> QED
  BY <1>1, <1>2

-----------------------------------------------------------------------------
(* What the operators of the component do. *)

(* c, after inner_stop() *)
Stopped(c) == [c EXCEPT !.phase = 0, !.closing = TRUE, !.cancelled = @ \/ Cancels(c),
                        !.chanIn = Closed(@), !.chanOut = Closed(@)]

LEMMA InnerStopping ==
  ASSUME wire \in Seq(WireFrame), NEW c, NEW frames \in Seq(WireFrame), InnerStop(c, frames),
         ~(c.phase <= 2 /\ c.chanIn \in {"closing", "closed"})
  PROVE  /\ comp' = Stopped(c) /\ UNCHANGED <<link, broker>>
         /\ link # "up" => wire' = <<>>
         /\ link = "up" => \E K \in SUBSET {"cancel", "close in", "close out"} :
                             GoesOn(wire \o frames, wire', K)
<1> DEFINE a == FrameIf(Cancels(c), "cancel")
           b == FrameIf(c.chanIn = "open", "close in")
           d == FrameIf(c.chanOut = "open", "close out")
           w1 == wire \o frames
           w2 == w1 \o a
           w3 == w2 \o b
           w4 == w3 \o d
<1>1. Goes(Stopped(c), frames \o a \o b \o d)
  BY DEF InnerStop, Stopped
<1>2. "cancel" \in Control \ {"consume"} /\ "close in" \in Control \ {"consume"}
      /\ "close out" \in Control \ {"consume"}
  BY DEF Control
<1>f. /\ a = <<>> \/ a = <<Frame("cancel")>>
      /\ b = <<>> \/ b = <<Frame("close in")>>
      /\ d = <<>> \/ d = <<Frame("close out")>>
  BY DEF FrameIf
<1> HIDE DEF a, b, d
<1>3. w1 \in Seq(WireFrame) /\ a \in Seq(WireFrame) /\ b \in Seq(WireFrame) /\ d \in Seq(WireFrame)
  BY <1>2, <1>f, PerhapsAFrameGoesOn, Concatenations
<1>4. w2 \in Seq(WireFrame) /\ w3 \in Seq(WireFrame) /\ w4 \in Seq(WireFrame)
  BY <1>3, Concatenations
<1>5. wire \o (frames \o a \o b \o d) = w4
  <2>1. frames \o a \in Seq(WireFrame) /\ frames \o a \o b \in Seq(WireFrame)
    BY <1>3, Concatenations
  <2>2. wire \o (frames \o a \o b \o d) = (wire \o (frames \o a \o b)) \o d
    <3> DEFINE x == frames \o a \o b
    <3> HIDE DEF x
    <3>0. x \in Seq(WireFrame)
      BY <2>1 DEF x
    <3>1. wire \o (x \o d) = (wire \o x) \o d
      BY SMTT(30), <1>3, <3>0, Associative
    <3> QED  BY <3>1 DEF x
  <2>3. wire \o (frames \o a \o b) = (wire \o (frames \o a)) \o b
    <3> DEFINE x == frames \o a
    <3> HIDE DEF x
    <3>0. x \in Seq(WireFrame)
      BY <2>1 DEF x
    <3>1. wire \o (x \o b) = (wire \o x) \o b
      BY SMTT(30), <1>3, <3>0, Associative
    <3> QED  BY <3>1 DEF x
  <2>4. wire \o (frames \o a) = (wire \o frames) \o a
    BY SMTT(30), <1>3, Concatenations
  <2> QED  BY <2>2, <2>3, <2>4
<1> HIDE DEF w1, w2, w3, w4
<1>6. PICK K \in {{}, {"cancel"}} : GoesOn(w1, w2, K)
  <2>1. GoesOn(w1, w1 \o a, {"cancel"}) \/ GoesOn(w1, w1 \o a, {})
    BY <1>3, <1>2, <1>f, PerhapsAFrameGoesOn
  <2> QED  BY <2>1 DEF w2
<1>7. PICK L \in {{}, {"close in"}} : GoesOn(w2, w3, L)
  <2>1. GoesOn(w2, w2 \o b, {"close in"}) \/ GoesOn(w2, w2 \o b, {})
    BY <1>4, <1>2, <1>f, PerhapsAFrameGoesOn
  <2> QED  BY <2>1 DEF w3
<1>8. PICK M \in {{}, {"close out"}} : GoesOn(w3, w4, M)
  <2>1. GoesOn(w3, w3 \o d, {"close out"}) \/ GoesOn(w3, w3 \o d, {})
    BY <1>4, <1>2, <1>f, PerhapsAFrameGoesOn
  <2> QED  BY <2>1 DEF w4
<1>9. GoesOn(w1, w4, (K \cup L) \cup M)
  <2>1. GoesOn(w1, w3, K \cup L)
    BY <1>3, <1>4, <1>6, <1>7, GoingOn
  <2> QED  BY <1>3, <1>4, <1>8, <2>1, GoingOn
<1>10. (K \cup L) \cup M \in SUBSET {"cancel", "close in", "close out"}
  BY <1>6, <1>7, <1>8
<1>11. /\ comp' = Stopped(c) /\ UNCHANGED <<link, broker>>
       /\ link # "up" => wire' = <<>>
       /\ link = "up" => wire' = w4
  BY <1>1, <1>5 DEF Goes, Send, broker
<1> QED
  BY <1>9, <1>10, <1>11 DEF w1

(* _handle_graceful_shutdown_phase_if_any(), while the input is open *)
LEMMA Proceeding ==
  ASSUME wire \in Seq(WireFrame), NEW c, NEW frames \in Seq(WireFrame),
         c.chanIn = "open", Proceed(c, frames)
  PROVE  /\ UNCHANGED <<link, broker>>
         /\ link # "up" => wire' = <<>>
         /\ \/ /\ c.phase # 1 /\ comp' = c
               /\ link = "up" => GoesOn(wire \o frames, wire', {})
            \/ /\ c.phase = 1
               /\ comp' = [c EXCEPT !.phase = 3, !.cancelled = TRUE, !.polling = TRUE]
               /\ link = "up" => GoesOn(wire \o frames, wire', {"cancel"})
<1>1. wire \o frames \in Seq(WireFrame)
  BY Concatenations
<1>2. CASE c.phase # 1
  BY <1>1, <1>2, NothingGoesOn DEF Proceed, Goes, Send, broker
<1>3. CASE c.phase = 1
  <2>1. Goes([c EXCEPT !.phase = 3, !.cancelled = TRUE, !.polling = TRUE],
             Append(frames, Frame("cancel")))
    BY <1>3 DEF Proceed
  <2>2. Frame("cancel") \in WireFrame /\ "cancel" \in Control \ {"consume"}
    BY DEF Frame, WireFrame, Control
  <2>3. Append(frames, Frame("cancel")) = frames \o <<Frame("cancel")>>
    BY <2>2
  <2>4. wire \o (frames \o <<Frame("cancel")>>) = (wire \o frames) \o <<Frame("cancel")>>
    <3>1. <<Frame("cancel")>> \in Seq(WireFrame)
      BY <2>2
    <3> QED  BY <3>1, Concatenations
  <2>5. GoesOn(wire \o frames, (wire \o frames) \o <<Frame("cancel")>>, {"cancel"})
    BY <1>1, <2>2, FrameGoesOn
  <2> QED  BY <1>3, <2>1, <2>3, <2>4, <2>5 DEF Goes, Send, broker
<1> QED
  BY <1>2, <1>3
-----------------------------------------------------------------------------
(* The kinds of steps *)

EventsGoOn == events' \in Nat /\ breakdowns' \in Nat /\ breakdowns <= breakdowns'

(* The component goes on, and sends some frames that are about no message. *)
Still(K) ==
  /\ comp' \in ComponentState /\ Sound(comp')
  /\ comp'.at = comp.at /\ comp'.at # "down" /\ comp'.hand = comp.hand /\ comp'.part = comp.part
  /\ UNCHANGED <<link, broker>>
  /\ link # "up" => wire' = <<>>
  /\ link = "up" => GoesOn(wire, wire', K)
  /\ \/ inbox' = inbox
     \/ inbox # <<>> /\ inbox' = Tail(inbox) /\ Head(inbox).kind # "deliver"
  /\ EventsGoOn
  /\ comp.closing => comp'.closing
  /\ OutputReady(comp) => OutputReady(comp')
  /\ Consumer(comp') => Consumer(comp) \/ OutputReady(comp) \/ "slow output" \in Events

(* What they have to do with its channels. *)
Proper(K) ==
  /\ Consumer(comp) => Consumer(comp')
  /\ "consume" \in K => comp.chanIn = "open" /\ ~Consumer(comp) /\ Consumer(comp')
  /\ Shut \/ (comp'.closing /\ ~comp.closing) => Shut'
  /\ K \cap {"close in", "close out", "close"} # {} => Shut'
  /\ "cancel" \in K \/ comp.phase \in {3, 4} => comp'.closing \/ comp'.phase \in {3, 4}
  /\ comp'.chanIn = "open" => comp.chanIn = "open" \/ ~Consumer(comp)
  /\ Shut' /\ ~comp'.closing /\ comp'.phase \notin {3, 4} => CancelledByBroker

LEMMA PartNumbers ==
  Parts \in Nat \ {0} /\ Bindings \in Nat \ {0} /\ Exchanges \in Nat \ {0} /\ NoMsg \notin Msg
BY QueuedAssumption

LEMMA FreshStates == Down \in ComponentState /\ Sound(Down) /\ Fresh \in ComponentState /\ Sound(Fresh)
<1>0. 0 \in 0 .. Parts /\ 0 \in 0 .. Bindings + 1 /\ 0 \in 0 .. Exchanges /\ 0 # Bindings + 1
  BY PartNumbers
<1>1. Fresh \in ComponentState
  BY <1>0 DEF Fresh, ComponentState, ChannelState
<1>3. Down \in ComponentState
  BY <1>1 DEF Down, ComponentState
<1>2. Sound(Fresh) /\ Sound(Down)
  <2>1. /\ Fresh.at = "loop" /\ Fresh.phase = 0 /\ Fresh.polling = FALSE /\ Fresh.bound = 0
        /\ Down.at = "down" /\ Down.phase = 0 /\ Down.polling = FALSE /\ Down.bound = 0
    BY DEF Down, Fresh
  <2> QED  BY <2>1 DEF Sound
<1> QED
  BY <1>1, <1>2, <1>3

LEMMA StoppedState ==
  ASSUME NEW c \in ComponentState, Sound(c), c.at = "loop"
  PROVE  /\ Stopped(c) \in ComponentState /\ Sound(Stopped(c))
         /\ Stopped(c).at = c.at /\ Stopped(c).hand = c.hand /\ Stopped(c).part = c.part
         /\ Stopped(c).closing /\ Stopped(c).phase = 0 /\ Stopped(c).bound = c.bound
         /\ Stopped(c).chanIn = Closed(c.chanIn)
<1>1. Closed(c.chanIn) \in ChannelState /\ Closed(c.chanOut) \in ChannelState
  BY DEF Closed, ChannelState, ComponentState
<1>2. (c.cancelled \/ Cancels(c)) \in BOOLEAN
  BY DEF Cancels
<1>3. Stopped(c) \in ComponentState
  BY <1>1, <1>2 DEF Stopped, ComponentState
<1>4. /\ Stopped(c).at = c.at /\ Stopped(c).hand = c.hand /\ Stopped(c).part = c.part
      /\ Stopped(c).closing /\ Stopped(c).phase = 0 /\ Stopped(c).bound = c.bound
      /\ Stopped(c).declared = c.declared /\ Stopped(c).polling = c.polling
      /\ Stopped(c).chanIn = Closed(c.chanIn)
  BY DEF Stopped, ComponentState
<1>5. Sound(Stopped(c))
  BY <1>4 DEF Sound, Closed
<1> QED
  BY <1>3, <1>4, <1>5

LEMMA EventsPass ==
  ASSUME QueuedTypes
  PROVE  /\ UNCHANGED Counts => EventsGoOn
         /\ \A e : Happens(e) => EventsGoOn
BY DEF QueuedTypes, Counts, EventsGoOn, Happens

(* What is sent arrives on the wire, or nowhere. *)
Sends(K) ==
  /\ link # "up" => wire' = <<>>
  /\ link = "up" => GoesOn(wire, wire', K)

LEMMA SendingNothing ==
  ASSUME wire \in Seq(WireFrame), NEW c, Goes(c, <<>>)
  PROVE  comp' = c /\ UNCHANGED <<link, broker>> /\ Sends({})
<1>1. wire \o <<>> = wire
  BY Concatenations
<1> QED
  BY <1>1, NothingGoesOn DEF Goes, Send, Sends, broker

LEMMA SendingAFrame ==
  ASSUME wire \in Seq(WireFrame), NEW c, NEW kind \in Control, Goes(c, <<Frame(kind)>>)
  PROVE  comp' = c /\ UNCHANGED <<link, broker>> /\ Sends({kind})
<1>1. Frame(kind) \in WireFrame /\ Frame(kind).kind = kind
  BY DEF Frame, WireFrame
<1>2. GoesOn(wire, wire \o <<Frame(kind)>>, {kind})
  BY <1>1, ControlAppended
<1> QED
  BY <1>2 DEF Goes, Send, Sends, broker

LEMMA Stopping ==
  ASSUME wire \in Seq(WireFrame), NEW c, InnerStop(c, <<>>),
         ~(c.phase <= 2 /\ c.chanIn \in {"closing", "closed"})
  PROVE  /\ comp' = Stopped(c) /\ UNCHANGED <<link, broker>>
         /\ \E K \in SUBSET {"cancel", "close in", "close out"} : Sends(K)
<1>1. <<>> \in Seq(WireFrame) /\ wire \o <<>> = wire
  BY Concatenations
<1> QED
  BY <1>1, InnerStopping DEF Sends

Quiet == \E K \in SUBSET Control : Still(K) /\ (Regular /\ link = "up" => Proper(K))

LEMMA OpenInputIsQuiet == Consistent /\ OpenInput => Quiet
<1> SUFFICES ASSUME Consistent, OpenInput  PROVE Still({}) /\ Proper({})
  BY DEF Quiet
<1>1. comp' = [comp EXCEPT !.chanIn = "open"] /\ UNCHANGED <<link, broker>> /\ Sends({})
  BY SendingNothing DEF Consistent, QueuedTypes, OpenInput
<1>2. comp \in ComponentState /\ comp.at = "loop" /\ comp.chanIn = "none" /\ Sound(comp)
  BY DEF OpenInput, Consistent, QueuedTypes, ComponentIsConsistent
<1>3. comp' \in ComponentState /\ Sound(comp')
  BY <1>1, <1>2 DEF ComponentState, ChannelState, Sound
<1>4. Still({})
  <2>1. /\ comp'.at = comp.at /\ comp'.hand = comp.hand /\ comp'.part = comp.part
        /\ comp'.closing = comp.closing /\ comp'.bound = comp.bound /\ comp'.declared = comp.declared
    BY <1>1, <1>2 DEF ComponentState
  <2>2. inbox' = inbox /\ EventsGoOn
    BY EventsPass DEF OpenInput, Consistent
  <2> QED  BY <1>1, <1>2, <1>3, <2>1, <2>2 DEF Still, Sends, Consumer, OutputReady
<1>5. Proper({})
  BY <1>1, <1>2, PartNumbers DEF Proper, Sound, Consumer, Shut, ComponentState
<1> QED
  BY <1>4, <1>5

LEMMA OnBindOkIsQuiet == Consistent /\ OnBindOk => Quiet
<1> SUFFICES ASSUME Consistent, OnBindOk
             PROVE  \E K \in SUBSET Control : Still(K) /\ Proper(K)
  BY DEF Quiet
<1> DEFINE c == [comp EXCEPT !.bound = @ + 1]
<1>1. comp \in ComponentState /\ comp.at = "loop" /\ comp.chanIn = "open" /\ Sound(comp) /\ ~Consumer(comp)
  BY DEF OnBindOk, Consistent, QueuedTypes, ComponentIsConsistent
<1>2. comp.bound \in 0 .. Bindings /\ comp.bound + 1 \in 0 .. Bindings + 1
  BY <1>1, PartNumbers DEF Consumer, ComponentState
<1>3. c \in ComponentState /\ Sound(c) /\ c.bound = comp.bound + 1
  BY <1>1, <1>2 DEF ComponentState, ChannelState, Sound
<1> DEFINE K == IF Consumer(c) THEN {"consume"} ELSE {}
<1>4. comp' = c /\ UNCHANGED <<link, broker>> /\ Sends(K)
  <2>1. CASE Consumer(c)
    BY <2>1, SendingAFrame DEF Consistent, QueuedTypes, OnBindOk, Control
  <2>2. CASE ~Consumer(c)
    BY <2>2, SendingNothing DEF Consistent, QueuedTypes, OnBindOk
  <2> QED  BY <2>1, <2>2
<1>5. Consumer(c) => OutputReady(comp) \/ "slow output" \in Events
  <2>1. Consumer(c) => comp.bound = Bindings
    BY <1>2, <1>3, PartNumbers DEF Consumer
  <2> QED  BY <2>1 DEF OnBindOk
<1>6. Still(K)
  <2>1. /\ comp'.at = comp.at /\ comp'.hand = comp.hand /\ comp'.part = comp.part
        /\ comp'.closing = comp.closing /\ comp'.declared = comp.declared
    BY <1>1, <1>4 DEF ComponentState
  <2>2. inbox' = inbox /\ EventsGoOn
    BY EventsPass DEF OnBindOk, Consistent
  <2> HIDE DEF c
  <2> QED  BY <1>1, <1>3, <1>4, <1>5, <2>1, <2>2 DEF Still, Sends, OutputReady
<1>7. Proper(K)
  BY <1>1, <1>3, <1>4, <1>5 DEF Proper, Shut, ComponentState, CancelledByBroker
<1>8. K \in SUBSET Control
  BY DEF Control
<1> QED
  BY <1>6, <1>7, <1>8

LEMMA OpenOutputIsQuiet == Consistent /\ (OpenOutput \/ OnOutputExchangeDeclared) => Quiet
<1> SUFFICES ASSUME Consistent, OpenOutput \/ OnOutputExchangeDeclared  PROVE Still({}) /\ Proper({})
  BY DEF Quiet
<1> DEFINE opened == [comp EXCEPT !.chanOut = "open"]
           declared == [comp EXCEPT !.declared = @ + 1]
<1>1. (comp' = opened \/ (comp' = declared /\ ~OutputReady(comp))) /\ UNCHANGED <<link, broker>> /\ Sends({})
  BY SendingNothing DEF Consistent, QueuedTypes, OpenOutput, OnOutputExchangeDeclared
<1>2. comp \in ComponentState /\ comp.at = "loop" /\ Sound(comp)
  BY DEF OpenOutput, OnOutputExchangeDeclared, Consistent, QueuedTypes, ComponentIsConsistent
<1>3. ~OutputReady(comp) => comp.declared + 1 \in 0 .. Exchanges
  BY <1>2, PartNumbers DEF OutputReady, ComponentState
<1>4. comp' \in ComponentState /\ Sound(comp')
  BY <1>1, <1>2, <1>3 DEF ComponentState, ChannelState, Sound
<1>5. /\ comp'.at = comp.at /\ comp'.hand = comp.hand /\ comp'.part = comp.part
      /\ comp'.closing = comp.closing /\ comp'.bound = comp.bound
      /\ comp'.chanIn = comp.chanIn /\ comp'.phase = comp.phase
  BY <1>1, <1>2 DEF ComponentState
<1>6. Still({})
  <2>1. inbox' = inbox /\ EventsGoOn
    BY EventsPass DEF OpenOutput, OnOutputExchangeDeclared, Consistent
  <2>2. OutputReady(comp) => OutputReady(comp')
    BY <1>1, <1>2 DEF OutputReady, ComponentState
  <2> HIDE DEF opened, declared
  <2> QED  BY <1>1, <1>2, <1>4, <1>5, <2>1, <2>2 DEF Still, Sends, Consumer
<1>7. Proper({})
  BY <1>5 DEF Proper, Consumer, Shut, CancelledByBroker
<1> QED
  BY <1>6, <1>7

LEMMA InnerStopIsQuiet ==
  ASSUME Consistent, NEW c \in ComponentState, Sound(c), comp.at = "loop",
         c.at = comp.at, c.hand = comp.hand, c.part = comp.part, c.bound = comp.bound,
         c.declared = comp.declared, c.chanIn = comp.chanIn, InnerStop(c, <<>>),
         ~(c.phase <= 2 /\ c.chanIn \in {"closing", "closed"}),
         inbox' = inbox, EventsGoOn
  PROVE  \E K \in SUBSET Control : Still(K) /\ comp'.closing /\ (comp.chanIn # "none" => Proper(K))
<1>1. /\ comp' = Stopped(c) /\ UNCHANGED <<link, broker>>
      /\ \E K \in SUBSET {"cancel", "close in", "close out"} : Sends(K)
  BY Stopping DEF Consistent, QueuedTypes
<1>2. PICK K \in SUBSET {"cancel", "close in", "close out"} : Sends(K)
  BY <1>1
<1>3. /\ comp' \in ComponentState /\ Sound(comp')
      /\ comp'.at = comp.at /\ comp'.hand = comp.hand /\ comp'.part = comp.part
      /\ comp'.closing /\ comp'.phase = 0 /\ comp'.bound = comp.bound
      /\ comp'.chanIn = Closed(comp.chanIn)
  BY <1>1, StoppedState
<1>4. comp'.declared = comp.declared
  BY <1>1 DEF Stopped, ComponentState
<1>5. Still(K)
  BY <1>1, <1>2, <1>3, <1>4 DEF Still, Sends, Consumer, OutputReady
<1>6. ASSUME comp.chanIn # "none"  PROVE Proper(K)
  <2>1. comp.chanIn \in ChannelState
    BY DEF Consistent, QueuedTypes, ComponentState
  <2>2. Shut' /\ comp'.chanIn # "open"
    BY <1>3, <1>6, <2>1 DEF Shut, Closed, ChannelState
  <2> QED  BY <1>2, <1>3, <2>2 DEF Proper, Consumer
<1>7. K \in SUBSET Control
  BY <1>2 DEF Control
<1> QED
  BY <1>3, <1>5, <1>6, <1>7

(* A graceful shutdown after the broker has cancelled the consumer *)
CollapsesSilently == Collapse /\ UNCHANGED inbox /\ EventsGoOn /\ CancelledByBroker

LEMMA TriggerIsQuiet == Consistent /\ TriggerGracefulStop => Quiet \/ CollapsesSilently
<1> SUFFICES ASSUME Consistent, TriggerGracefulStop
             PROVE  (\E K \in SUBSET Control : Still(K) /\ Proper(K)) \/ CollapsesSilently
  BY DEF Quiet
<1> DEFINE c == [comp EXCEPT !.phase = 1]
<1>1. /\ comp \in ComponentState /\ Sound(comp) /\ comp.phase = 0 /\ ~comp.closing
      /\ inbox' = inbox /\ EventsGoOn
  BY EventsPass DEF TriggerGracefulStop, Consistent, QueuedTypes, ComponentIsConsistent
<1>2. /\ c \in ComponentState /\ c.phase = 1 /\ c.at = comp.at /\ c.hand = comp.hand /\ c.part = comp.part
      /\ c.closing = comp.closing /\ c.bound = comp.bound /\ c.declared = comp.declared
      /\ c.chanIn = comp.chanIn /\ c.polling = comp.polling
  BY <1>1 DEF ComponentState
<1>3. Sound(c)
  BY <1>1, <1>2 DEF Sound
<1>4. CASE comp.at = "callback" /\ Goes(c, <<>>)
  <2>1. comp' = c /\ UNCHANGED <<link, broker>> /\ Sends({})
    BY <1>4, SendingNothing DEF Consistent, QueuedTypes
  <2> HIDE DEF c
  <2>2. Still({})
    BY <1>1, <1>2, <1>3, <1>4, <2>1 DEF Still, Sends, Consumer, OutputReady
  <2>3. Proper({})
    BY <1>1, <1>2, <2>1 DEF Proper, Consumer, Shut, CancelledByBroker
  <2> QED  BY <2>2, <2>3
<1>5. CASE comp.at = "loop" /\ Consumer(comp) /\ Proceed(c, <<>>)
  <2>1. comp.chanIn # "none" /\ comp.chanIn \in ChannelState
    BY <1>1, <1>5, PartNumbers DEF Sound, Consumer, ComponentState
  <2>2. CASE comp.chanIn = "open"
    <3> DEFINE d == [c EXCEPT !.phase = 3, !.cancelled = TRUE, !.polling = TRUE]
    <3>0. <<>> \in Seq(WireFrame) /\ wire \in Seq(WireFrame) /\ wire \o <<>> = wire
      BY Concatenations DEF Consistent, QueuedTypes
    <3>1. comp' = d /\ UNCHANGED <<link, broker>> /\ Sends({"cancel"})
      BY <1>2, <1>5, <2>2, <3>0, Proceeding DEF Sends
    <3>2. /\ d \in ComponentState /\ d.phase = 3 /\ d.at = comp.at /\ d.hand = comp.hand /\ d.part = comp.part
          /\ d.closing = comp.closing /\ d.bound = comp.bound /\ d.declared = comp.declared
          /\ d.chanIn = comp.chanIn
      BY <1>2 DEF ComponentState
    <3>3. Sound(d)
      BY <1>1, <1>5, <2>2, <3>2 DEF Sound
    <3> HIDE DEF d, c
    <3>4. Still({"cancel"})
      BY <1>1, <1>5, <3>1, <3>2, <3>3 DEF Still, Sends, Consumer, OutputReady
    <3>5. Proper({"cancel"})
      BY <1>1, <3>1, <3>2 DEF Proper, Consumer, Shut
    <3>6. {"cancel"} \in SUBSET Control
      BY DEF Control
    <3> QED  BY <3>4, <3>5, <3>6
  <2>3. CASE comp.chanIn # "open"
    <3>1. InnerStop(c, <<>>)
      BY <1>2, <1>5, <2>3 DEF Proceed
    <3>2. c.phase <= 2 /\ c.chanIn \in {"closing", "closed"}
      BY <1>2, <2>1, <2>3 DEF ChannelState
    <3>3. Collapse
      BY <3>1, <3>2 DEF InnerStop
    <3>4. CancelledByBroker
      BY <1>1, <1>2, <3>2 DEF CancelledByBroker, Shut
    <3> QED  BY <1>1, <3>3, <3>4 DEF CollapsesSilently
  <2> QED  BY <2>2, <2>3
<1> QED
  BY <1>4, <1>5 DEF TriggerGracefulStop

LEMMA InputHasShutDownIsQuiet == Consistent /\ InputHasShutDown => Quiet
<1> SUFFICES ASSUME Consistent, InputHasShutDown  PROVE Still({}) /\ Proper({})
  BY DEF Quiet
<1>1. /\ comp \in ComponentState /\ Sound(comp) /\ comp.at = "loop" /\ comp.polling = TRUE
      /\ inbox' = inbox /\ EventsGoOn
  BY EventsPass DEF InputHasShutDown, Consistent, QueuedTypes, ComponentIsConsistent, ComponentState
<1>2. comp' = [comp EXCEPT !.phase = 4, !.polling = FALSE] /\ UNCHANGED <<link, broker>> /\ Sends({})
  BY SendingNothing DEF InputHasShutDown, Consistent, QueuedTypes
<1>3. /\ comp' \in ComponentState /\ comp'.phase = 4 /\ comp'.polling = FALSE
      /\ comp'.at = comp.at /\ comp'.hand = comp.hand /\ comp'.part = comp.part
      /\ comp'.closing = comp.closing /\ comp'.bound = comp.bound /\ comp'.declared = comp.declared
      /\ comp'.chanIn = comp.chanIn
  BY <1>1, <1>2 DEF ComponentState
<1>4. Sound(comp')
  BY <1>1, <1>3 DEF Sound
<1>5. Still({})
  BY <1>1, <1>2, <1>3, <1>4 DEF Still, Sends, Consumer, OutputReady
<1>6. Proper({})
  BY <1>3 DEF Proper, Consumer, Shut
<1> QED
  BY <1>5, <1>6

LEMMA OutputIsFlushedIsQuiet == Consistent /\ OutputIsFlushed => Quiet
<1> SUFFICES ASSUME Consistent, OutputIsFlushed  PROVE Quiet
  OBVIOUS
<1>1. /\ comp \in ComponentState /\ Sound(comp) /\ comp.at = "loop" /\ comp.phase = 4
      /\ inbox' = inbox /\ EventsGoOn /\ InnerStop(comp, <<>>)
  BY EventsPass DEF OutputIsFlushed, Consistent, QueuedTypes, ComponentIsConsistent
<1>2. comp.chanIn # "none"
  BY <1>1 DEF Sound
<1>3. \E K \in SUBSET Control : Still(K) /\ comp'.closing /\ (comp.chanIn # "none" => Proper(K))
  BY <1>1, InnerStopIsQuiet
<1> QED
  BY <1>2, <1>3 DEF Quiet

(* An interrupt stops the component in time, too early, or makes it fail. *)
Breaks == Collapse /\ UNCHANGED inbox /\ EventsGoOn /\ breakdowns' = breakdowns + 1
StopsTooEarly ==
  /\ "early interrupt" \in Events /\ comp.chanIn = "none"
  /\ comp'.closing /\ breakdowns' = breakdowns + 1
  /\ \E K \in SUBSET Control : Still(K)

LEMMA InterruptIsQuiet == Consistent /\ Interrupt => Quiet \/ Breaks \/ StopsTooEarly
<1> SUFFICES ASSUME Consistent, Interrupt  PROVE Quiet \/ Breaks \/ StopsTooEarly
  OBVIOUS
<1> DEFINE c == [comp EXCEPT !.stopping = TRUE]
<1>1. /\ comp \in ComponentState /\ Sound(comp) /\ comp.at = "loop"
      /\ inbox' = inbox /\ InnerStop(c, <<>>)
  BY DEF Interrupt, Consistent, QueuedTypes, ComponentIsConsistent
<1>2. EventsGoOn
  BY EventsPass DEF Interrupt, Consistent
<1>3. /\ breakdowns' = breakdowns + 1
      /\ comp.chanIn = "none" => "early interrupt" \in Events
  BY DEF Interrupt, Happens
<1>4. /\ c \in ComponentState /\ c.at = comp.at /\ c.hand = comp.hand /\ c.part = comp.part
      /\ c.bound = comp.bound /\ c.declared = comp.declared
      /\ c.chanIn = comp.chanIn /\ c.phase = comp.phase /\ c.polling = comp.polling
  BY <1>1 DEF ComponentState
<1>5. Sound(c)
  BY <1>1, <1>4 DEF Sound
<1>6. CASE c.phase <= 2 /\ c.chanIn \in {"closing", "closed"}
  BY <1>1, <1>2, <1>3, <1>6 DEF InnerStop, Breaks
<1>7. CASE ~(c.phase <= 2 /\ c.chanIn \in {"closing", "closed"})
  <2> HIDE DEF c
  <2>1. PICK K \in SUBSET Control : Still(K) /\ comp'.closing /\ (comp.chanIn # "none" => Proper(K))
    BY <1>1, <1>2, <1>4, <1>5, <1>7, InnerStopIsQuiet
  <2> QED  BY <1>3, <2>1 DEF Quiet, StopsTooEarly
<1> QED
  BY <1>6, <1>7

LEMMA Receiving ==
  ASSUME Consistent, NEW kind, Receives(kind)
  PROVE  /\ comp \in ComponentState /\ Sound(comp) /\ comp.at = "loop" /\ link = "up"
         /\ inbox # <<>> /\ inbox' = Tail(inbox) /\ Head(inbox).kind = kind
         /\ inbox \in Seq(InboxFrame) /\ inbox' \in Seq(InboxFrame) /\ EventsGoOn
         /\ kind \in Kinds(inbox)
<1>1. /\ inbox # <<>> /\ inbox' = Tail(inbox) /\ Head(inbox).kind = kind
      /\ inbox \in Seq(InboxFrame)
  BY DEF Receives, Consistent, QueuedTypes
<1>2. kind \in Kinds(inbox)
  BY <1>1, KindsTaken
<1>3. inbox' \in Seq(InboxFrame)
  BY <1>1, TakingHead
<1>4. EventsGoOn
  BY EventsPass DEF Receives, Consistent
<1> QED
  BY <1>1, <1>2, <1>3, <1>4 DEF Receives, Consistent, QueuedTypes, ComponentIsConsistent

(* The component is told of something, and asks for a channel to be closed
   or does not answer. *)
LEMMA RepliesAreQuiet ==
  ASSUME Consistent, NEW kind, kind # "deliver", Receives(kind), NEW c \in ComponentState, Sound(c),
         c.at = "loop", c.hand = comp.hand, c.part = comp.part, c.closing = comp.closing,
         c.bound = comp.bound, c.declared = comp.declared, c.phase = comp.phase,
         NEW K \in SUBSET {"close in", "close"}, comp' = c, UNCHANGED <<link, broker>>, Sends(K),
         c.chanIn = "open" => comp.chanIn = "open",
         Regular => (Shut \/ K # {} => c.chanIn \in {"closing", "closed"}),
         Regular /\ c.chanIn \in {"closing", "closed"} /\ ~comp.closing /\ comp.phase \notin {3, 4}
           => CancelledByBroker
  PROVE  Quiet
<1>0. /\ comp.at = "loop" /\ inbox # <<>> /\ inbox' = Tail(inbox) /\ Head(inbox).kind = kind
      /\ EventsGoOn
  BY Receiving
<1>1. Still(K)
  <2>1. (Consumer(comp') <=> Consumer(comp)) /\ (OutputReady(comp') <=> OutputReady(comp))
    BY DEF Consumer, OutputReady
  <2> QED  BY <1>0, <2>1 DEF Still, Sends
<1>2. ASSUME Regular  PROVE Proper(K)
  BY <1>2 DEF Proper, Consumer, Shut
<1>3. K \in SUBSET Control
  BY DEF Control
<1> QED
  BY <1>1, <1>2, <1>3 DEF Quiet

LEMMA OnCancelOkIsQuiet == Consistent /\ OnCancelOk => Quiet
<1> SUFFICES ASSUME Consistent, OnCancelOk  PROVE Quiet
  OBVIOUS
<1> DEFINE c == [comp EXCEPT !.chanIn = "closing"]
<1>1. /\ Receives("cancel ok") /\ comp \in ComponentState /\ Sound(comp) /\ comp.at = "loop"
      /\ "cancel ok" \in Kinds(inbox)
  BY Receiving DEF OnCancelOk
<1>2. CASE comp.chanIn = "open"
  <2>1. comp' = c /\ UNCHANGED <<link, broker>> /\ Sends({"close in"})
    BY <1>2, SendingAFrame DEF OnCancelOk, Consistent, QueuedTypes, Control
  <2>2. /\ c \in ComponentState /\ c.at = comp.at /\ c.hand = comp.hand /\ c.part = comp.part
        /\ c.closing = comp.closing /\ c.bound = comp.bound /\ c.declared = comp.declared
        /\ c.phase = comp.phase /\ c.polling = comp.polling /\ c.chanIn = "closing"
    BY <1>1 DEF ComponentState, ChannelState
  <2> HIDE DEF c
  <2>3. Sound(c)
    BY <1>1, <2>2 DEF Sound
  <2>4. Regular => comp.closing \/ comp.phase \in {3, 4}
    BY <1>1 DEF Regular, ChannelsAgree
  <2> QED  BY <1>1, <2>1, <2>2, <2>3, <2>4, RepliesAreQuiet
<1>3. CASE comp.chanIn # "open"
  <2>1. comp' = comp /\ UNCHANGED <<link, broker>> /\ Sends({})
    BY <1>3, SendingNothing DEF OnCancelOk, Consistent, QueuedTypes
  <2> QED  BY <1>1, <2>1, RepliesAreQuiet DEF Shut, CancelledByBroker
<1> QED
  BY <1>2, <1>3

(* The process ends because of what the broker has told it. *)
EndsOnFrame ==
  /\ Collapse /\ link = "up" /\ inbox' \in Seq(InboxFrame) /\ EventsGoOn
  /\ CancelledByBroker \/ "closed" \in Kinds(inbox)

LEMMA OnConsumerCancelledIsQuiet == Consistent /\ OnConsumerCancelled => Quiet \/ EndsOnFrame
<1> SUFFICES ASSUME Consistent, OnConsumerCancelled  PROVE Quiet \/ EndsOnFrame
  OBVIOUS
<1> DEFINE c == [comp EXCEPT !.chanIn = "closing"]
<1>1. /\ Receives("cancelled") /\ comp \in ComponentState /\ Sound(comp) /\ comp.at = "loop"
      /\ "cancelled" \in Kinds(inbox) /\ inbox' \in Seq(InboxFrame) /\ EventsGoOn /\ link = "up"
  BY Receiving DEF OnConsumerCancelled
<1>2. CASE comp.chanIn = "open"
  <2>1. comp' = c /\ UNCHANGED <<link, broker>> /\ Sends({"close in"})
    BY <1>2, SendingAFrame DEF OnConsumerCancelled, Consistent, QueuedTypes, Control
  <2>2. /\ c \in ComponentState /\ c.at = comp.at /\ c.hand = comp.hand /\ c.part = comp.part
        /\ c.closing = comp.closing /\ c.bound = comp.bound /\ c.declared = comp.declared
        /\ c.phase = comp.phase /\ c.polling = comp.polling /\ c.chanIn = "closing"
    BY <1>1 DEF ComponentState, ChannelState
  <2> HIDE DEF c
  <2>3. Sound(c)
    BY <1>1, <2>2 DEF Sound
  <2>4. CancelledByBroker
    BY <1>1 DEF CancelledByBroker
  <2> QED  BY <1>1, <2>1, <2>2, <2>3, <2>4, RepliesAreQuiet
<1>3. CASE comp.chanIn # "open"
  BY <1>1, <1>3 DEF OnConsumerCancelled, EndsOnFrame, CancelledByBroker
<1> QED
  BY <1>2, <1>3

LEMMA OnConnectionClosedEnds == Consistent /\ OnConnectionClosed => EndsOnFrame
BY Receiving DEF OnConnectionClosed, EndsOnFrame

LEMMA OnInputChannelClosedIsQuiet == Consistent /\ OnInputChannelClosed => Quiet
<1> SUFFICES ASSUME Consistent, OnInputChannelClosed  PROVE Quiet
  OBVIOUS
<1> DEFINE c == [comp EXCEPT !.chanIn = "closed"]
           K == IF comp.phase = 0 THEN {"close"} ELSE {}
<1>1. /\ Receives("closed in") /\ comp \in ComponentState /\ Sound(comp) /\ comp.at = "loop"
      /\ "closed in" \in Kinds(inbox)
  BY Receiving DEF OnInputChannelClosed
<1>2. comp' = c /\ UNCHANGED <<link, broker>> /\ Sends(K)
  BY SendingAFrame, SendingNothing DEF OnInputChannelClosed, Consistent, QueuedTypes, Control
<1>3. /\ c \in ComponentState /\ c.at = comp.at /\ c.hand = comp.hand /\ c.part = comp.part
      /\ c.closing = comp.closing /\ c.bound = comp.bound /\ c.declared = comp.declared
      /\ c.phase = comp.phase /\ c.polling = comp.polling /\ c.chanIn = "closed"
  BY <1>1 DEF ComponentState, ChannelState
<1>4. K \in SUBSET {"close in", "close"}
  OBVIOUS
<1> HIDE DEF c, K
<1>5. Sound(c)
  BY <1>1, <1>3 DEF Sound
<1>6. Regular => Shut
  BY <1>1 DEF Regular, ChannelsAgree
<1>7. Shut /\ ~comp.closing /\ comp.phase \notin {3, 4} => CancelledByBroker
  BY DEF CancelledByBroker
<1> QED
  BY <1>1, <1>2, <1>3, <1>4, <1>5, <1>6, <1>7, RepliesAreQuiet

LEMMA OnOutputChannelClosedIsQuiet == Consistent /\ OnOutputChannelClosed => Quiet
<1> SUFFICES ASSUME Consistent, OnOutputChannelClosed  PROVE Quiet
  OBVIOUS
<1> DEFINE c == [comp EXCEPT !.chanOut = "closed"]
<1>1. /\ Receives("closed out") /\ comp \in ComponentState /\ Sound(comp) /\ comp.at = "loop"
      /\ "closed out" \in Kinds(inbox)
  BY Receiving DEF OnOutputChannelClosed
<1>2. comp' = c /\ UNCHANGED <<link, broker>> /\ Sends({"close"})
  BY SendingAFrame DEF OnOutputChannelClosed, Consistent, QueuedTypes, Control
<1>3. /\ c \in ComponentState /\ c.at = comp.at /\ c.hand = comp.hand /\ c.part = comp.part
      /\ c.closing = comp.closing /\ c.bound = comp.bound /\ c.declared = comp.declared
      /\ c.phase = comp.phase /\ c.polling = comp.polling /\ c.chanIn = comp.chanIn
  BY <1>1 DEF ComponentState, ChannelState
<1> HIDE DEF c
<1>5. Sound(c)
  BY <1>1, <1>3 DEF Sound
<1>6. Regular => Shut
  BY <1>1 DEF Regular, ChannelsAgree
<1>7. Shut /\ ~comp.closing /\ comp.phase \notin {3, 4} => CancelledByBroker
  BY DEF CancelledByBroker
<1>8. Shut <=> c.chanIn \in {"closing", "closed"}
  BY <1>3 DEF Shut
<1> QED
  BY <1>1, <1>2, <1>3, <1>5, <1>6, <1>7, <1>8, RepliesAreQuiet
-----------------------------------------------------------------------------
(* Nothing more is published: the counts remain, or become less. *)

LEMMA CountIsNumber == ASSUME QueuedTypes, NEW x \in Msg \X Part  PROVE Count(x) \in Nat
BY DEF QueuedTypes, Count

LEMMA CountRemains ==
  ASSUME QueuedTypes, copies' = copies, Outputs(wire') \subseteq Outputs(wire),
         NEW m \in Msg, NEW p \in Part
  PROVE  /\ Count(<<m, p>>)' \in Nat /\ Count(<<m, p>>) \in Nat
         /\ Count(<<m, p>>)' <= Count(<<m, p>>)
<1>1. copies[<<m, p>>] \in Nat
  BY DEF QueuedTypes
<1> QED
  BY <1>1 DEF Count

LEMMA LimitsRemain ==
  ASSUME QueuedTypes, Limits, copies' = copies, Outputs(wire') \subseteq Outputs(wire), EventsGoOn,
         queue' \subseteq Msg,
         \A m \in queue' : m \in queue \/ breakdowns' >= breakdowns + 1 \/ \A p \in Part : Stale(m, p)
  PROVE  Limits'
<1> SUFFICES ASSUME NEW m \in Msg, NEW p \in Part
             PROVE  Count(<<m, p>>)' <= 1 + breakdowns' /\ (m \in queue' => Count(<<m, p>>)' <= breakdowns')
  BY DEF Limits, Stale
<1>1. /\ Count(<<m, p>>)' \in Nat /\ Count(<<m, p>>) \in Nat /\ Count(<<m, p>>)' <= Count(<<m, p>>)
      /\ breakdowns \in Nat /\ breakdowns' \in Nat /\ breakdowns <= breakdowns'
  BY CountRemains DEF QueuedTypes, EventsGoOn
<1>2. Count(<<m, p>>) <= 1 + breakdowns /\ (m \in queue => Count(<<m, p>>) <= breakdowns)
  BY DEF Limits, Stale
<1>3. m \in queue' => m \in queue \/ breakdowns' >= breakdowns + 1 \/ Count(<<m, p>>) <= breakdowns
  BY DEF Stale
<1> QED
  BY <1>1, <1>2, <1>3

LEMMA NothingOnAnEmptyWire == /\ Kinds(<<>>) = {} /\ Outputs(<<>>) = {} /\ \A K : Messages(<<>>, K) = {}
                              /\ Unanswered(<<>>) = {} /\ Missing(<<>>) = {} /\ InOrder(<<>>)
BY DEF Kinds, Outputs, Messages, Unanswered, Missing, InOrder, NothingTwice, ClosedLast

(* After an early interrupt nothing is published until the process ends. *)
LEMMA InterruptedRemains ==
  ASSUME QueuedTypes, Interrupted, comp'.closing, copies' = copies,
         Outputs(wire') \subseteq Outputs(wire), EventsGoOn, queue' \subseteq Msg
  PROVE  Interrupted' /\ Limits'
<1>1. Interrupted'
  BY DEF Interrupted, EventsGoOn, QueuedTypes
<1>2. ASSUME NEW m \in Msg, NEW p \in Part
      PROVE  Count(<<m, p>>)' <= 1 + breakdowns' /\ (m \in queue' => Count(<<m, p>>)' <= breakdowns')
  <2>1. Count(<<m, p>>)' = copies'[<<m, p>>]
    BY <1>1 DEF Count, Interrupted, QueuedTypes
  <2>2. copies'[<<m, p>>] <= breakdowns' /\ copies'[<<m, p>>] \in Nat /\ breakdowns' \in Nat
    BY <1>1 DEF Interrupted, QueuedTypes, EventsGoOn
  <2> QED  BY <2>1, <2>2
<1> QED
  BY <1>1, <1>2 DEF Limits, Stale

-----------------------------------------------------------------------------
(* Quiet steps *)

LEMMA StillIsConsistent ==
  ASSUME Consistent, NEW K, Still(K)
  PROVE  /\ Consistent' /\ Outputs(wire') = Outputs(wire) /\ EventsGoOn
         /\ UNCHANGED <<link, queue, unacked, consuming, copies>>
<1>1. /\ UNCHANGED <<link, queue, unacked, consuming, dead, copies>>
      /\ EventsGoOn
  BY DEF Still, broker
<1>2. CASE link = "up"
  <2>1. wire' \in Seq(WireFrame) /\ Outputs(wire') = Outputs(wire)
    BY <1>2 DEF Still, GoesOn
  <2>2. inbox' \in Seq(InboxFrame)
    BY ZenonT(60), TakingHead DEF Still, Consistent, QueuedTypes
  <2> QED
    BY <1>1, <1>2, <2>1, <2>2 DEF Still, Consistent, QueuedTypes, ComponentIsConsistent, EventsGoOn
<1>3. CASE link = "down"
  <2>1. wire' = <<>> /\ wire = <<>>
    BY <1>3 DEF Still, Consistent, ComponentIsConsistent
  <2>2. inbox' \in Seq(InboxFrame)
    BY ZenonT(60), TakingHead DEF Still, Consistent, QueuedTypes
  <2> QED
    BY <1>1, <1>3, <2>1, <2>2 DEF Still, Consistent, QueuedTypes, ComponentIsConsistent, EventsGoOn
<1> QED
  BY <1>2, <1>3 DEF Consistent, QueuedTypes

(* What is said in the inbox after a frame other than a delivery has been
   taken, or none. *)
LEMMA InboxRemains ==
  ASSUME QueuedTypes, NEW K, Still(K)
  PROVE  /\ Kinds(inbox') \subseteq Kinds(inbox) /\ Delivered' = Delivered
         /\ NothingTwice(inbox) => NothingTwice(inbox')
<1>1. CASE inbox' = inbox
  BY <1>1 DEF Delivered
<1>2. CASE inbox # <<>> /\ inbox' = Tail(inbox) /\ Head(inbox).kind # "deliver"
  <2>1. inbox \in Seq(InboxFrame)
    BY DEF QueuedTypes
  <2>2. Kinds(inbox') \subseteq Kinds(inbox) /\ (NothingTwice(inbox) => NothingTwice(inbox'))
    BY <1>2, <2>1, KindsTaken, InboxTaken
  <2>3. Messages(inbox, {"deliver"})
          = Messages(inbox', {"deliver"})
            \cup (IF Head(inbox).kind \in {"deliver"} THEN {Head(inbox).msg} ELSE {})
    BY <1>2, <2>1, KindsTaken
  <2> QED  BY <1>2, <2>2, <2>3 DEF Delivered
<1> QED
  BY <1>1, <1>2 DEF Still

LEMMA QuietKeepsRegular ==
  ASSUME Consistent, link = "up", Regular, NEW K \in SUBSET Control, Still(K), Proper(K)
  PROVE  Regular'
<1>1. /\ UNCHANGED <<link, queue, unacked, consuming, copies>>
      /\ Consistent' /\ Outputs(wire') = Outputs(wire) /\ EventsGoOn
  BY StillIsConsistent
<1>2. /\ Kinds(wire') = Kinds(wire) \cup K
      /\ Messages(wire', Answer) = Messages(wire, Answer)
      /\ Messages(wire', Settling) = Messages(wire, Settling)
      /\ Unanswered(wire') \subseteq Unanswered(wire)
  BY DEF Still, GoesOn, Answer, Settling
<1>3. /\ Kinds(inbox') \subseteq Kinds(inbox) /\ Delivered' = Delivered
      /\ NothingTwice(inbox) => NothingTwice(inbox')
  BY InboxRemains DEF Consistent
<1>4. /\ InCallback' = InCallback /\ InHands' = InHands /\ Answered' = Answered
      /\ comp'.part = comp.part /\ comp'.hand = comp.hand
  BY <1>2 DEF Still, InCallback, InHands, Answered
<1>5. InOrder(wire')
  <2>1. "consume" \in K => Kinds(wire) \cap ({"consume"} \cup Closings) = {}
    BY DEF Regular, ChannelsAgree, Proper, Shut, Closings
  <2>2. InOrder(wire)
    BY DEF InOrder, Regular, EachInOnePlace, ChannelsAgree
  <2> QED  BY <2>1, <2>2 DEF Still, GoesOn
<1>6. ChannelsAgree'
  <2>1. comp'.closing => Shut'
    BY DEF Regular, ChannelsAgree, Proper
  <2>2. NotYetConsuming'
    <3>1. ~Consumer(comp') \/ "consume" \in Kinds(wire') => ~Consumer(comp) \/ "consume" \in Kinds(wire)
      BY <1>2 DEF Proper
    <3> QED
      BY <1>1, <1>2, <1>3, <1>4, <3>1 DEF NotYetConsuming, Regular, ChannelsAgree
  <2>3. ~Consumer(comp') => "consume" \notin Kinds(wire')
    BY <1>2 DEF Regular, ChannelsAgree, Proper
  <2>4. Kinds(wire') \cap {"close in", "close out", "close"} # {}
           \/ Kinds(inbox') \cap {"closed in", "closed out", "closed"} # {} => Shut'
    BY <1>2, <1>3 DEF Regular, ChannelsAgree, Proper
  <2>5. "cancel" \in Kinds(wire') \/ "cancel ok" \in Kinds(inbox') => comp'.closing \/ comp'.phase \in {3, 4}
    BY <1>2, <1>3 DEF Regular, ChannelsAgree, Proper, Still
  <2>6. "closed" \in Kinds(inbox') => unacked' = {} /\ ~consuming' /\ "consume" \notin Kinds(wire')
    BY <1>1, <1>2, <1>3 DEF Regular, ChannelsAgree, Proper, Shut
  <2>7. "cancelled" \in Kinds(inbox') => ~consuming'
    BY <1>1, <1>3 DEF Regular, ChannelsAgree
  <2> QED
    BY <1>5, <2>1, <2>2, <2>3, <2>4, <2>5, <2>6, <2>7 DEF ChannelsAgree, InOrder
<1>7. EachInOnePlace'
  <2>1. consuming' \/ comp'.chanIn = "open" => Delivered' \cup InHands' \cup Answered' \subseteq unacked'
    <3>1. ~Consumer(comp) => Delivered = {} /\ Answered = {} /\ InHands = {}
      BY DEF Regular, ChannelsAgree, NotYetConsuming, InHands
    <3>2. consuming \/ comp.chanIn = "open" => Delivered \cup InHands \cup Answered \subseteq unacked
      BY DEF Regular, EachInOnePlace
    <3>3. comp'.chanIn = "open" => comp.chanIn = "open" \/ ~Consumer(comp)
      BY DEF Proper
    <3> QED  BY <1>1, <1>3, <1>4, <3>1, <3>2, <3>3
  <2>2. \A f \in Unanswered(wire') : f.msg \in InHands' /\ f.part \in 1 .. comp'.part
    BY <1>2, <1>4 DEF Regular, EachInOnePlace
  <2> QED
    BY <1>1, <1>3, <1>4, <1>5, <2>1, <2>2 DEF Regular, EachInOnePlace, InOrder
<1>8. CountsAgree'
  <2> SUFFICES ASSUME NEW m \in Msg, NEW p \in Part
               PROVE  /\ m \in unacked' /\ m \notin InHands' /\ m \notin Messages(wire', Settling) => Stale(m, p)'
                      /\ m \in InHands' /\ p > comp'.part => Stale(m, p)'
                      /\ CancelledByBroker' => Stale(m, p)'
                      /\ "cancelled" \in Kinds(inbox') =>
                           (m \in Delivered' \/ (m \in InHands' /\ p > comp'.part) => Count(<<m, p>>)' + 1 <= breakdowns')
    BY DEF CountsAgree
  <2>1. /\ Count(<<m, p>>)' = Count(<<m, p>>) /\ Count(<<m, p>>) \in Nat
        /\ breakdowns \in Nat /\ breakdowns' \in Nat /\ breakdowns <= breakdowns'
    BY <1>1, CountIsNumber DEF Consistent, QueuedTypes, EventsGoOn, Count
  <2>2. Stale(m, p) => Stale(m, p)'
    BY <2>1 DEF Stale
  <2>3. CancelledByBroker' => CancelledByBroker
    BY <1>3 DEF CancelledByBroker, Proper
  <2>4. Count(<<m, p>>) + 1 <= breakdowns => Count(<<m, p>>)' + 1 <= breakdowns'
    BY <2>1
  <2> HIDE DEF Count, Stale
  <2> QED
    BY <1>1, <1>2, <1>3, <1>4, <2>2, <2>3, <2>4 DEF Regular, CountsAgree
<1> QED
  BY <1>6, <1>7, <1>8 DEF Regular
-----------------------------------------------------------------------------
(* Steps that deal with a message *)

LEMMA OutputsAreAnswered ==
  ASSUME NEW w \in Seq(WireFrame), NEW f \in Outputs(w)
  PROVE  /\ f \in WireFrame /\ f.kind = "output"
         /\ f \in Unanswered(w) \/ f.msg \in Messages(w, Answer)
<1>1. PICK i \in 1 .. Len(w) : f = w[i] /\ w[i].kind = "output"
  BY DEF Outputs
<1>2. CASE AnsweredAfter(w, i)
  <2>1. PICK k \in i + 1 .. Len(w) : w[k].kind \in Answer /\ w[k].msg = w[i].msg
    BY <1>2 DEF AnsweredAfter
  <2>2. k \in 1 .. Len(w)
    BY <2>1
  <2> QED  BY <1>1, <2>1, <2>2 DEF Messages
<1>3. CASE ~AnsweredAfter(w, i)
  BY <1>1, <1>3 DEF Unanswered
<1> QED
  BY <1>1, <1>2, <1>3

LEMMA MovesAreConsistent ==
  ASSUME Consistent, comp' \in ComponentState, Sound(comp'), comp'.at # "down",
         UNCHANGED <<link, broker>>, EventsGoOn, inbox' \in Seq(InboxFrame),
         link # "up" => wire' = <<>>, link = "up" => wire' \in Seq(WireFrame)
  PROVE  Consistent' /\ UNCHANGED <<link, queue, unacked, consuming, copies>>
<1>1. UNCHANGED <<queue, unacked, consuming, dead, copies>>
  BY DEF broker
<1>2. wire' \in Seq(WireFrame) /\ (link = "down" => wire' = <<>>)
  <2>1. link \in {"up", "down"} /\ <<>> \in Seq(WireFrame)
    BY DEF Consistent, QueuedTypes
  <2> QED  BY <2>1
<1> QED
  BY <1>1, <1>2 DEF Consistent, QueuedTypes, ComponentIsConsistent, EventsGoOn

(* `part` of the message in hand is published. *)
LEMMA PublishKeepsRegular ==
  ASSUME Consistent, Limits, link = "up", Regular, Publish
  PROVE  Consistent' /\ Limits' /\ Regular'
<1> DEFINE h == comp.hand
           q == comp.part + 1
           f == Output(h, q)
<1>1. /\ comp \in ComponentState /\ Sound(comp) /\ InCallback /\ h \in Msg /\ comp.chanIn = "open"
      /\ comp.part \in 0 .. Parts /\ comp.part < Parts /\ wire \in Seq(WireFrame)
  BY DEF Publish, InCallback, Consistent, QueuedTypes, ComponentIsConsistent, Sound, ComponentState
<1>2. q \in Part /\ q \in 0 .. Parts
  BY <1>1, PartNumbers DEF Part
<1>3. f \in WireFrame /\ f.kind = "output" /\ f.msg = h /\ f.part = q
  BY <1>1, <1>2 DEF Output, WireFrame
<1>4. /\ comp' = [comp EXCEPT !.part = q] /\ wire' = wire \o <<f>> /\ inbox' = inbox
      /\ UNCHANGED <<link, broker>> /\ EventsGoOn /\ UNCHANGED Counts
  BY EventsPass DEF Publish, Goes, Send, Output, broker, Consistent
<1>5. /\ comp' \in ComponentState /\ comp'.part = q /\ comp'.at = comp.at /\ comp'.hand = h
      /\ comp'.phase = comp.phase /\ comp'.closing = comp.closing /\ comp'.chanIn = comp.chanIn
      /\ comp'.bound = comp.bound /\ comp'.polling = comp.polling
  BY <1>1, <1>2, <1>4 DEF ComponentState
<1>6. Sound(comp')
  BY <1>1, <1>5 DEF Sound
<1> HIDE DEF q, f
<1>7. wire' \in Seq(WireFrame)
  BY <1>1, <1>3, <1>4, Appending
<1>8. Consistent' /\ UNCHANGED <<link, queue, unacked, consuming, copies>>
  <2>1. comp'.at # "down" /\ inbox' \in Seq(InboxFrame)
    BY <1>1, <1>4, <1>5 DEF InCallback, Consistent, QueuedTypes
  <2> QED  BY <1>4, <1>5, <1>6, <1>7, <2>1, MovesAreConsistent
<1>9. /\ InHands = {h} /\ InHands' = {h} /\ h \notin Delivered /\ h \notin Answered /\ h \in unacked
  BY <1>1, <1>5 DEF InHands, InCallback, Regular, EachInOnePlace
<1>10. f \notin Outputs(wire)
  <2> SUFFICES ASSUME f \in Outputs(wire)  PROVE FALSE
    OBVIOUS
  <2>1. f \in Unanswered(wire)
    BY <1>1, <1>3, <1>9, OutputsAreAnswered DEF Answered
  <2>2. f.part \in 1 .. comp.part
    BY <2>1 DEF Regular, EachInOnePlace
  <2> QED  BY <1>1, <1>3, <2>2 DEF q
<1>11. Kinds(wire) \cap Closings = {} /\ InOrder(wire)
  BY <1>1 DEF Regular, ChannelsAgree, EachInOnePlace, Shut, Closings, InOrder
<1>12. InOrder(wire') /\ Unanswered(wire') \subseteq Unanswered(wire) \cup {f}
  BY <1>1, <1>3, <1>4, <1>10, <1>11, OutputAppended
<1>13. /\ Kinds(wire') = Kinds(wire) \cup {"output"}
       /\ Outputs(wire') = Outputs(wire) \cup {f}
       /\ Messages(wire', Answer) = Messages(wire, Answer)
       /\ Messages(wire', Settling) = Messages(wire, Settling)
  <2>1. ASSUME NEW K \in SUBSET Answer  PROVE Messages(wire', K) = Messages(wire, K)
    <3>1. Messages(wire', K) = Messages(wire, K) \cup (IF f.kind \in K THEN {f.msg} ELSE {})
      BY <1>1, <1>3, <1>4, KindsAppended
    <3>2. f.kind \notin K
      BY <1>3 DEF Answer
    <3> QED  BY <3>1, <3>2
  <2>2. Messages(wire', Settling) = Messages(wire, Settling) /\ Messages(wire', Answer) = Messages(wire, Answer)
    BY <2>1 DEF Answer, Settling
  <2>3. Kinds(wire \o <<f>>) = Kinds(wire) \cup {f.kind}
    BY <1>1, <1>3, KindsAppended
  <2>4. Outputs(wire \o <<f>>) = Outputs(wire) \cup (IF f.kind = "output" THEN {f} ELSE {})
    BY <1>1, <1>3, KindsAppended
  <2> QED  BY <1>3, <1>4, <2>2, <2>3, <2>4
<1>14. ChannelsAgree'
  <2>1. Consumer(comp) /\ "consume" \notin Kinds(wire)
    BY <1>1 DEF Regular, ChannelsAgree, NotYetConsuming
  <2>2. Consumer(comp') /\ "consume" \notin Kinds(wire')
    BY <1>5, <1>13, <2>1 DEF Consumer
  <2>3. Shut' <=> Shut
    BY <1>5 DEF Shut
  <2> QED
    BY <1>4, <1>5, <1>8, <1>12, <1>13, <2>2, <2>3
    DEF Regular, ChannelsAgree, NotYetConsuming, InOrder
<1>15. EachInOnePlace'
  <2>1. Delivered' = Delivered /\ Answered' = Answered
    BY <1>4, <1>13 DEF Delivered, Answered
  <2>2. ASSUME NEW g \in Unanswered(wire')  PROVE g.msg \in InHands' /\ g.part \in 1 .. comp'.part
    <3>1. CASE g = f
      BY <1>2, <1>3, <1>5, <1>9, <3>1 DEF Part
    <3>2. CASE g \in Unanswered(wire)
      <4>1. g.msg \in InHands /\ g.part \in 1 .. comp.part
        BY <3>2 DEF Regular, EachInOnePlace
      <4> QED  BY <1>1, <1>5, <1>9, <4>1 DEF q
    <3> QED  BY <1>12, <3>1, <3>2
  <2> QED
    BY <1>4, <1>5, <1>8, <1>9, <1>12, <2>1, <2>2 DEF Regular, EachInOnePlace, InOrder
<1>16. ASSUME NEW m \in Msg, NEW p \in Part
       PROVE  /\ Count(<<m, p>>) \in Nat
              /\ Count(<<m, p>>)' = IF m = h /\ p = q THEN Count(<<m, p>>) + 1 ELSE Count(<<m, p>>)
              /\ m = h /\ p > comp.part => Count(<<m, p>>) <= breakdowns
              /\ "cancelled" \in Kinds(inbox) /\ m = h /\ p > comp.part => Count(<<m, p>>) + 1 <= breakdowns
  <2>1. Output(m, p) = f <=> m = h /\ p = q
    BY DEF f, Output
  <2>2. copies'[<<m, p>>] = copies[<<m, p>>] /\ copies[<<m, p>>] \in Nat
    BY <1>8 DEF Consistent, QueuedTypes
  <2>3. Count(<<m, p>>) \in Nat /\ Count(<<m, p>>)' = IF m = h /\ p = q THEN Count(<<m, p>>) + 1 ELSE Count(<<m, p>>)
    BY <1>10, <1>13, <2>1, <2>2 DEF Count
  <2> QED
    BY <1>9, <2>3 DEF Regular, CountsAgree, Stale
<1>17. breakdowns' = breakdowns /\ breakdowns \in Nat /\ q > comp.part
  BY <1>1, <1>4 DEF Counts, Consistent, QueuedTypes, q
<1>18. Limits'
  <2> SUFFICES ASSUME NEW m \in Msg, NEW p \in Part
               PROVE  Count(<<m, p>>)' <= 1 + breakdowns' /\ (m \in queue' => Count(<<m, p>>)' <= breakdowns')
    BY DEF Limits, Stale
  <2>1. Count(<<m, p>>) <= 1 + breakdowns /\ (m \in queue => Count(<<m, p>>) <= breakdowns)
    BY DEF Limits, Stale
  <2>2. h \notin queue
    BY <1>9 DEF Consistent, ComponentIsConsistent
  <2> QED
    BY <1>8, <1>16, <1>17, <2>1, <2>2
<1>19. CountsAgree'
  <2> SUFFICES ASSUME NEW m \in Msg, NEW p \in Part
               PROVE  /\ m \in unacked' /\ m \notin InHands' /\ m \notin Messages(wire', Settling) => Stale(m, p)'
                      /\ m \in InHands' /\ p > comp'.part => Stale(m, p)'
                      /\ CancelledByBroker' => Stale(m, p)'
                      /\ "cancelled" \in Kinds(inbox') =>
                           (m \in Delivered' \/ (m \in InHands' /\ p > comp'.part) => Count(<<m, p>>)' + 1 <= breakdowns')
    BY DEF CountsAgree
  <2>0. CancelledByBroker' <=> "cancelled" \in Kinds(inbox)
    BY <1>1, <1>4, <1>5 DEF CancelledByBroker, Shut
  <2>1. CASE m = h /\ p = q
    <3>1. m \in InHands' /\ ~(p > comp'.part) /\ m \notin Delivered'
      <4>1. ~(p > comp'.part)
        BY <1>2, <1>5, <2>1 DEF Part
      <4>2. Delivered' = Delivered
        BY <1>4 DEF Delivered
      <4> QED  BY <1>9, <2>1, <4>1, <4>2
    <3>2. "cancelled" \in Kinds(inbox) => Count(<<m, p>>) + 1 <= breakdowns
      BY <1>16, <1>17, <2>1
    <3>3. CancelledByBroker' => Count(<<m, p>>)' <= breakdowns'
      BY <1>16, <1>17, <2>0, <2>1, <3>2
    <3> QED  BY <3>1, <3>3 DEF Stale
  <2>2. CASE ~(m = h /\ p = q)
    <3>1. Count(<<m, p>>)' = Count(<<m, p>>) /\ (Stale(m, p)' <=> Stale(m, p))
      BY <1>16, <1>17, <2>2 DEF Stale
    <3>2. m \in InHands' /\ p > comp'.part => m \in InHands /\ p > comp.part
      BY <1>1, <1>2, <1>5, <1>9 DEF Part, q
    <3>3. CancelledByBroker' => CancelledByBroker
      BY <2>0 DEF CancelledByBroker
    <3>4. Delivered' = Delivered
      BY <1>4 DEF Delivered
    <3> HIDE DEF Count, Stale, CancelledByBroker
    <3> QED
      BY <1>4, <1>8, <1>9, <1>13, <1>17, <3>1, <3>2, <3>3, <3>4 DEF Regular, CountsAgree
  <2> QED  BY <2>1, <2>2
<1> QED
  BY <1>8, <1>14, <1>15, <1>18, <1>19 DEF Regular

LEMMA MessagesAppended ==
  ASSUME NEW S, NEW w \in Seq(S), NEW f \in S, NEW K
  PROVE  Messages(w \o <<f>>, K) = Messages(w, K) \cup (IF f.kind \in K THEN {f.msg} ELSE {})
BY Appending DEF Messages

(* What the wire says after an answer and the frames that follow it. *)
LEMMA AnswerGoesOn ==
  ASSUME NEW w \in Seq(WireFrame), NEW f \in WireFrame, f.kind \in Answer, NEW v, NEW K,
         GoesOn(w \o <<f>>, v, K)
  PROVE  /\ Kinds(v) = Kinds(w) \cup {f.kind} \cup K
         /\ Outputs(v) = Outputs(w)
         /\ Messages(v, Answer) = Messages(w, Answer) \cup {f.msg}
         /\ Messages(v, Settling) = Messages(w, Settling) \cup (IF f.kind = "requeue" THEN {} ELSE {f.msg})
<1> DEFINE u == w \o <<f>>
<1>1. Kinds(u) = Kinds(w) \cup {f.kind}
  BY KindsAppended
<1>2. Outputs(u) = Outputs(w) \cup (IF f.kind = "output" THEN {f} ELSE {})
  BY KindsAppended
<1>3. Messages(u, Answer) = Messages(w, Answer) \cup (IF f.kind \in Answer THEN {f.msg} ELSE {})
  BY MessagesAppended
<1>4. Messages(u, Settling) = Messages(w, Settling) \cup (IF f.kind \in Settling THEN {f.msg} ELSE {})
  BY MessagesAppended
<1>5. Settling \in SUBSET Answer /\ Answer \in SUBSET Answer
      /\ (f.kind \in Settling <=> f.kind # "requeue") /\ f.kind # "output"
  BY DEF Answer, Settling
<1> HIDE DEF u
<1>6. GoesOn(u, v, K)
  BY DEF u
<1> QED
  BY <1>1, <1>2, <1>3, <1>4, <1>5, <1>6 DEF GoesOn

(* Nothing more is published, and no message is in more danger of being
   published again. *)
LEMMA CountsAgreeRemain ==
  ASSUME QueuedTypes, CountsAgree, copies' = copies, Outputs(wire') \subseteq Outputs(wire), EventsGoOn,
         CancelledByBroker' => CancelledByBroker,
         "cancelled" \in Kinds(inbox') => "cancelled" \in Kinds(inbox),
         Delivered' \subseteq Delivered, InHands' \subseteq InHands,
         comp'.part = comp.part \/ InHands' = {},
         \A m \in Msg : m \in unacked' /\ m \notin InHands' /\ m \notin Messages(wire', Settling) =>
           \/ m \in unacked /\ m \notin InHands /\ m \notin Messages(wire, Settling)
           \/ \A p \in Part : Stale(m, p)'
  PROVE  CountsAgree'
<1> SUFFICES ASSUME NEW m \in Msg, NEW p \in Part
             PROVE  /\ m \in unacked' /\ m \notin InHands' /\ m \notin Messages(wire', Settling) => Stale(m, p)'
                    /\ m \in InHands' /\ p > comp'.part => Stale(m, p)'
                    /\ CancelledByBroker' => Stale(m, p)'
                    /\ "cancelled" \in Kinds(inbox') =>
                         (m \in Delivered' \/ (m \in InHands' /\ p > comp'.part) => Count(<<m, p>>)' + 1 <= breakdowns')
  BY DEF CountsAgree
<1>1. /\ Count(<<m, p>>)' <= Count(<<m, p>>) /\ Count(<<m, p>>) \in Nat /\ Count(<<m, p>>)' \in Nat
      /\ breakdowns \in Nat /\ breakdowns' \in Nat /\ breakdowns <= breakdowns'
  BY CountRemains DEF QueuedTypes, EventsGoOn
<1>2. Stale(m, p) => Stale(m, p)'
  BY <1>1 DEF Stale
<1>3. Count(<<m, p>>) + 1 <= breakdowns => Count(<<m, p>>)' + 1 <= breakdowns'
  BY <1>1
<1> QED
  BY <1>2, <1>3 DEF CountsAgree

(* What follows an answer when the component stops. *)
Farewell == {"cancel", "close in", "close out"}

(* A message in hand, or one that has just arrived, is answered; some frames
   about no message may follow. *)
LEMMA AnswerKeepsRegular ==
  ASSUME Consistent, Consistent', link = "up", Regular,
         NEW m \in Msg, NEW kind \in Answer, NEW K \in SUBSET Farewell,
         GoesOn(wire \o <<About(kind, m)>>, wire', K),
         comp.chanIn = "open", m \in InHands \cup Delivered, InHands \subseteq {m}, InHands' = {},
         ~InCallback',
         Delivered' = Delivered \ {m}, NothingTwice(inbox'), Kinds(inbox') \subseteq Kinds(inbox),
         UNCHANGED <<link, queue, unacked, consuming, copies>>, EventsGoOn,
         comp'.bound = comp.bound, comp'.closing => Shut', Shut' => comp'.closing,
         "close in" \in K \/ "close out" \in K => Shut',
         comp.closing => comp'.closing,
         "cancel" \in K \/ comp.phase \in {3, 4} => comp'.closing \/ comp'.phase \in {3, 4},
         kind = "requeue" => \A p \in Part : Stale(m, p)'
  PROVE  Regular'
<1> DEFINE f == About(kind, m)
           v == wire \o <<f>>
<1>1. /\ f \in WireFrame /\ f.kind = kind /\ f.msg = m /\ wire \in Seq(WireFrame)
  BY DEF About, WireFrame, Answer, Consistent, QueuedTypes
<1>2. ~Shut /\ Kinds(wire) \cap Closings = {} /\ InOrder(wire)
  BY DEF Shut, Regular, ChannelsAgree, EachInOnePlace, Closings, InOrder
<1>3. m \notin Answered /\ m \in unacked
  BY DEF Regular, EachInOnePlace
<1> HIDE DEF f, v
<1>4. v \in Seq(WireFrame) /\ InOrder(v) /\ Unanswered(v) \subseteq {g \in Unanswered(wire) : g.msg # m}
  BY <1>1, <1>2, <1>3, AnswerAppended, Appending DEF v, Answered
<1>5. GoesOn(v, wire', K)
  BY DEF v, f
<1>6. InOrder(wire') /\ Unanswered(wire') \subseteq Unanswered(v)
  <2>1. "consume" \notin K
    BY DEF Farewell
  <2> QED  BY <1>4, <1>5, <2>1 DEF GoesOn
<1>7. /\ Kinds(wire') = Kinds(wire) \cup {kind} \cup K
      /\ Outputs(wire') = Outputs(wire)
      /\ Messages(wire', Answer) = Messages(wire, Answer) \cup {m}
      /\ Messages(wire', Settling) = Messages(wire, Settling) \cup (IF kind = "requeue" THEN {} ELSE {m})
  <2>1. f.kind \in Answer /\ GoesOn(wire \o <<f>>, wire', K)
    BY <1>1, <1>5 DEF v
  <2>2. /\ Kinds(wire') = Kinds(wire) \cup {f.kind} \cup K
        /\ Outputs(wire') = Outputs(wire)
        /\ Messages(wire', Answer) = Messages(wire, Answer) \cup {f.msg}
        /\ Messages(wire', Settling) = Messages(wire, Settling) \cup (IF f.kind = "requeue" THEN {} ELSE {f.msg})
    BY <1>1, <2>1, AnswerGoesOn
  <2> QED  BY <1>1, <2>2
<1>9. Answered' = Answered \cup {m}
  BY <1>7 DEF Answered
<1>10. Consumer(comp) /\ "consume" \notin Kinds(wire)
  BY DEF Regular, ChannelsAgree, NotYetConsuming, InHands
<1>11. ChannelsAgree'
  <2>1. Consumer(comp') /\ "consume" \notin Kinds(wire')
    BY <1>7, <1>10 DEF Consumer, Answer, Farewell
  <2>2. Kinds(wire') \cap {"close in", "close out", "close"} # {} => Shut'
    BY <1>2, <1>7 DEF Regular, ChannelsAgree, Answer, Farewell
  <2>3. "cancel" \in Kinds(wire') \/ "cancel ok" \in Kinds(inbox') => comp'.closing \/ comp'.phase \in {3, 4}
    BY <1>7 DEF Regular, ChannelsAgree, Answer, Farewell
  <2> QED
    BY <1>2, <1>6, <2>1, <2>2, <2>3 DEF Regular, ChannelsAgree, NotYetConsuming, InOrder
<1>12. EachInOnePlace'
  <2>1. ASSUME NEW g \in Unanswered(wire')  PROVE FALSE
    BY <1>4, <1>6 DEF Regular, EachInOnePlace
  <2>2. Delivered' \cap Answered' = {}
    BY <1>9 DEF Regular, EachInOnePlace
  <2>3. Delivered' \cup InHands' \cup Answered' \subseteq unacked'
    BY <1>3, <1>9 DEF Regular, EachInOnePlace
  <2> QED
    BY <1>6, <2>1, <2>2, <2>3 DEF EachInOnePlace, InOrder
<1>13. CountsAgree'
  <2>1. CancelledByBroker' => CancelledByBroker
    BY DEF CancelledByBroker
  <2>2. ASSUME NEW n \in Msg, n \in unacked', n \notin Messages(wire', Settling)
        PROVE  \/ n \in unacked /\ n \notin InHands /\ n \notin Messages(wire, Settling)
               \/ \A p \in Part : Stale(n, p)'
    BY <1>7, <2>2
  <2>3. CountsAgree /\ QueuedTypes
    BY DEF Regular, Consistent
  <2> QED
    BY <1>7, <2>1, <2>2, <2>3, CountsAgreeRemain
<1> QED
  BY <1>11, <1>12, <1>13 DEF Regular

(* The component answers m, and some frames about no message may follow. *)
Answering(m, kind, K) ==
  /\ comp' \in ComponentState /\ Sound(comp') /\ comp'.at = "loop"
  /\ comp'.bound = comp.bound /\ comp'.declared = comp.declared
  /\ comp.chanIn = "open"
  /\ UNCHANGED <<link, broker>> /\ EventsGoOn
  /\ link # "up" => wire' = <<>>
  /\ link = "up" => GoesOn(wire \o <<About(kind, m)>>, wire', K)
  /\ comp.closing => comp'.closing
  /\ comp'.closing /\ ~comp.closing => Shut'
  /\ Shut' => comp'.closing
  /\ "close in" \in K \/ "close out" \in K => Shut'
  /\ "cancel" \in K \/ comp.phase \in {3, 4} => comp'.closing \/ comp'.phase \in {3, 4}

LEMMA EndingTheMessage ==
  ASSUME Consistent, InCallback, NEW kind \in Answer, UNCHANGED <<inbox, Counts>>,
         Proceed(EndMessage(comp), <<About(kind, comp.hand)>>)
  PROVE  \E K \in SUBSET Farewell : Answering(comp.hand, kind, K)
<1> DEFINE c == EndMessage(comp)
           d == [c EXCEPT !.phase = 3, !.cancelled = TRUE, !.polling = TRUE]
<1>1. /\ comp \in ComponentState /\ Sound(comp) /\ comp.hand \in Msg /\ comp.chanIn = "open"
      /\ wire \in Seq(WireFrame) /\ EventsGoOn
  BY EventsPass DEF Consistent, QueuedTypes, ComponentIsConsistent, Sound, InCallback
<1>2. 0 \in 0 .. Parts
  BY PartNumbers
<1>3. /\ c \in ComponentState /\ c.at = "loop" /\ c.bound = comp.bound /\ c.declared = comp.declared
      /\ c.chanIn = "open" /\ c.phase = comp.phase /\ c.closing = comp.closing
      /\ d \in ComponentState /\ d.at = "loop" /\ d.bound = comp.bound /\ d.declared = comp.declared
      /\ d.chanIn = "open" /\ d.phase = 3 /\ d.closing = comp.closing
  BY <1>1, <1>2 DEF EndMessage, ComponentState
<1>4. Sound(c) /\ Sound(d)
  BY <1>3 DEF Sound
<1>5. <<About(kind, comp.hand)>> \in Seq(WireFrame)
  <2>1. About(kind, comp.hand) \in WireFrame
    BY <1>1 DEF About, WireFrame
  <2> QED  BY <2>1
<1>6. Proceed(c, <<About(kind, comp.hand)>>)
  OBVIOUS
<1> HIDE DEF c
<1>7. /\ UNCHANGED <<link, broker>>
      /\ link # "up" => wire' = <<>>
      /\ \/ /\ c.phase # 1 /\ comp' = c
            /\ link = "up" => GoesOn(wire \o <<About(kind, comp.hand)>>, wire', {})
         \/ /\ c.phase = 1 /\ comp' = d
            /\ link = "up" => GoesOn(wire \o <<About(kind, comp.hand)>>, wire', {"cancel"})
  BY <1>1, <1>3, <1>5, <1>6, Proceeding
<1> HIDE DEF d
<1>8. CASE c.phase # 1 /\ comp' = c
  <2>1. link = "up" => GoesOn(wire \o <<About(kind, comp.hand)>>, wire', {})
    BY <1>7, <1>8
  <2>2. Answering(comp.hand, kind, {})
    BY <1>1, <1>3, <1>4, <1>7, <1>8, <2>1 DEF Answering, Shut
  <2> QED  BY <2>2
<1>9. CASE c.phase = 1 /\ comp' = d
  <2>0. link = "up" => GoesOn(wire \o <<About(kind, comp.hand)>>, wire', {"cancel"})
    BY <1>7, <1>9
  <2>1. Answering(comp.hand, kind, {"cancel"})
    BY <1>1, <1>3, <1>4, <1>7, <1>9, <2>0 DEF Answering, Shut
  <2>2. {"cancel"} \in SUBSET Farewell
    BY DEF Farewell
  <2> QED  BY <2>1, <2>2
<1> QED
  BY <1>7, <1>8, <1>9

LEMMA InterruptingTheMessage ==
  ASSUME Consistent, InterruptInCallback
  PROVE  /\ \E K \in SUBSET Farewell : Answering(comp.hand, "requeue", K)
         /\ inbox' = inbox /\ breakdowns' = breakdowns + 1
<1> DEFINE c == [EndMessage(comp) EXCEPT !.stopping = TRUE]
           frames == <<About("requeue", comp.hand)>>
<1>1. /\ comp \in ComponentState /\ Sound(comp) /\ comp.hand \in Msg /\ comp.chanIn = "open"
      /\ wire \in Seq(WireFrame)
  BY DEF InterruptInCallback, Consistent, QueuedTypes, ComponentIsConsistent, Sound, InCallback
<1>2. inbox' = inbox /\ breakdowns' = breakdowns + 1 /\ EventsGoOn
  BY EventsPass DEF InterruptInCallback, Happens, Consistent
<1>3. 0 \in 0 .. Parts
  BY PartNumbers
<1>4. /\ c \in ComponentState /\ c.at = "loop" /\ c.bound = comp.bound /\ c.declared = comp.declared
      /\ c.chanIn = "open" /\ c.phase = comp.phase
  BY <1>1, <1>3 DEF EndMessage, ComponentState
<1>5. Sound(c)
  BY <1>4 DEF Sound
<1>6. frames \in Seq(WireFrame)
  <2>1. About("requeue", comp.hand) \in WireFrame
    BY <1>1 DEF About, WireFrame, Answer
  <2> QED  BY <2>1
<1>7. InnerStop(c, frames)
  BY <1>1 DEF InterruptInCallback
<1> HIDE DEF c, frames
<1>8. /\ comp' = Stopped(c) /\ UNCHANGED <<link, broker>>
      /\ link # "up" => wire' = <<>>
      /\ link = "up" => \E K \in SUBSET {"cancel", "close in", "close out"} :
                          GoesOn(wire \o frames, wire', K)
  <2>1. ~(c.phase <= 2 /\ c.chanIn \in {"closing", "closed"})
    BY <1>4
  <2> QED  BY <1>1, <1>6, <1>7, <2>1, InnerStopping
<1>9. PICK K \in SUBSET Farewell : link = "up" => GoesOn(wire \o frames, wire', K)
  BY <1>8 DEF Farewell
<1>10. Stopped(c).declared = c.declared
  BY <1>4 DEF Stopped, ComponentState
<1>11. /\ comp' \in ComponentState /\ Sound(comp') /\ comp'.at = "loop" /\ comp'.bound = comp.bound
       /\ comp'.declared = comp.declared /\ comp'.closing /\ comp'.chanIn = "closing"
  BY <1>4, <1>5, <1>8, <1>10, StoppedState DEF Closed
<1>12. GoesOn(wire \o frames, wire', K) => GoesOn(wire \o <<About("requeue", comp.hand)>>, wire', K)
  BY DEF frames
<1>13. Answering(comp.hand, "requeue", K)
  BY <1>1, <1>2, <1>8, <1>9, <1>11, <1>12 DEF Answering, Shut
<1> QED
  BY <1>2, <1>13

(* A delivery: the message is taken into hand, or sent back, or it has come
   too late. *)
Begins(m) ==
  /\ comp.at = "loop" /\ comp.chanIn = "open"
  /\ comp' = BeginMessage(comp, m)
  /\ Sends({})

Passes ==
  /\ comp' = comp /\ comp.at = "loop" /\ comp.chanIn # "open"
  /\ Sends({})

LEMMA DeliveryIsHandled ==
  ASSUME Consistent, OnDeliver, NEW m, m = Head(inbox).msg
  PROVE  /\ m \in Msg /\ link = "up" /\ comp.at = "loop" /\ UNCHANGED <<link, broker>> /\ EventsGoOn
         /\ UNCHANGED Counts
         /\ inbox \in Seq(InboxFrame) /\ inbox # <<>> /\ inbox' = Tail(inbox) /\ inbox' \in Seq(InboxFrame)
         /\ Head(inbox).kind = "deliver" /\ Head(inbox).msg = m
         /\ Begins(m) \/ Passes \/ Answering(m, "requeue", {})
<1>1. /\ comp \in ComponentState /\ Sound(comp) /\ comp.at = "loop" /\ link = "up" /\ inbox # <<>>
      /\ inbox' = Tail(inbox) /\ Head(inbox).kind = "deliver"
      /\ inbox \in Seq(InboxFrame) /\ inbox' \in Seq(InboxFrame) /\ EventsGoOn
  BY Receiving DEF OnDeliver
<1>2. m \in Msg
  <2>1. Head(inbox) \in InboxFrame
    BY <1>1, TakingHead
  <2> QED  BY <1>1, <2>1 DEF InboxFrame
<1>3. UNCHANGED <<link, broker>> /\ UNCHANGED Counts /\ wire \in Seq(WireFrame)
  BY DEF OnDeliver, Goes, Receives, broker, Consistent, QueuedTypes
<1>4. CASE ~comp.cancelled /\ comp.chanIn = "open"
  <2>1. Goes(BeginMessage(comp, m), <<>>)
    BY <1>4 DEF OnDeliver
  <2>2. comp' = BeginMessage(comp, m) /\ Sends({})
    BY <1>3, <2>1, SendingNothing
  <2> QED  BY <1>1, <1>2, <1>3, <1>4, <2>2 DEF Begins
<1>5. CASE comp.chanIn # "open"
  <2>1. Goes(comp, <<>>)
    BY <1>5 DEF OnDeliver
  <2>2. comp' = comp /\ Sends({})
    BY <1>3, <2>1, SendingNothing
  <2> QED  BY <1>1, <1>2, <1>3, <1>5, <2>2 DEF Passes
<1>6. CASE comp.cancelled /\ comp.chanIn = "open"
  <2>1. Goes(comp, <<About("requeue", m)>>)
    BY <1>6 DEF OnDeliver
  <2>2. About("requeue", m) \in WireFrame
    BY <1>2 DEF About, WireFrame, Answer
  <2>3. wire \o <<About("requeue", m)>> \in Seq(WireFrame)
    BY <1>3, <2>2, Appending
  <2>4. GoesOn(wire \o <<About("requeue", m)>>, wire', {})
    BY <1>1, <2>1, <2>3, NothingGoesOn DEF Goes, Send
  <2>5. comp' = comp
    BY <2>1 DEF Goes
  <2>6. Answering(m, "requeue", {})
    BY <1>1, <1>3, <1>6, <2>4, <2>5 DEF Answering, Shut
  <2> QED  BY <1>1, <1>2, <1>3, <2>6
<1> QED
  BY <1>4, <1>5, <1>6

LEMMA AnsweringIsConsistent ==
  ASSUME Consistent, NEW m \in Msg, NEW kind \in Answer, NEW K, Answering(m, kind, K),
         inbox' \in Seq(InboxFrame)
  PROVE  /\ Consistent' /\ Outputs(wire') = Outputs(wire)
         /\ UNCHANGED <<link, queue, unacked, consuming, copies>>
<1>1. comp'.at # "down"
  BY DEF Answering
<1>2. link = "up" => wire' \in Seq(WireFrame)
  BY DEF Answering, GoesOn
<1>3. Consistent' /\ UNCHANGED <<link, queue, unacked, consuming, copies>>
  BY <1>1, <1>2, MovesAreConsistent DEF Answering
<1>4. Outputs(wire') = Outputs(wire)
  <2>1. CASE link = "up"
    <3>1. /\ About(kind, m) \in WireFrame /\ About(kind, m).kind \in Answer
          /\ wire \in Seq(WireFrame)
      BY DEF About, WireFrame, Consistent, QueuedTypes
    <3>2. GoesOn(wire \o <<About(kind, m)>>, wire', K)
      BY <2>1 DEF Answering
    <3> QED  BY <3>1, <3>2, AnswerGoesOn
  <2>2. CASE link # "up"
    <3>1. wire' = <<>> /\ wire = <<>>
      BY <2>2 DEF Answering, Consistent, ComponentIsConsistent, QueuedTypes
    <3> QED  BY <3>1
  <2> QED  BY <2>1, <2>2
<1> QED
  BY <1>3, <1>4

(* What happens to the message in hand, *)
LEMMA CallbackAnswerKeepsRegular ==
  ASSUME Consistent, Limits, link = "up", Regular, InCallback, NEW m, m = comp.hand, NEW kind \in Answer,
         NEW K \in SUBSET Farewell, Answering(m, kind, K), inbox' = inbox,
         kind = "requeue" => breakdowns' = breakdowns + 1
  PROVE  Regular'
<1>1. m \in Msg /\ comp.chanIn = "open" /\ inbox' \in Seq(InboxFrame)
  BY DEF Consistent, ComponentIsConsistent, Sound, InCallback, QueuedTypes
<1>2. /\ Consistent' /\ Outputs(wire') = Outputs(wire)
      /\ UNCHANGED <<link, queue, unacked, consuming, copies>> /\ EventsGoOn
  BY <1>1, AnsweringIsConsistent DEF Answering
<1>3. InHands = {m} /\ InHands' = {} /\ ~InCallback'
  BY DEF InHands, InCallback, Answering
<1>4. Delivered' = Delivered /\ m \notin Delivered /\ NothingTwice(inbox)
  BY <1>3 DEF Delivered, Regular, EachInOnePlace
<1>5. ~comp.closing
  BY <1>1 DEF Regular, ChannelsAgree, Shut
<1>6. ASSUME kind = "requeue", NEW p \in Part  PROVE Stale(m, p)'
  <2>1. Count(<<m, p>>) <= 1 + breakdowns
    BY <1>1 DEF Limits
  <2>2. /\ Count(<<m, p>>)' \in Nat /\ Count(<<m, p>>) \in Nat /\ Count(<<m, p>>)' <= Count(<<m, p>>)
        /\ breakdowns \in Nat
    <3>1. QueuedTypes /\ breakdowns \in Nat
      BY DEF Consistent, QueuedTypes
    <3> QED  BY <1>1, <1>2, <3>1, CountRemains
  <2>3. Count(<<m, p>>)' <= breakdowns'
    BY <1>6, <2>1, <2>2
  <2> QED  BY <2>3 DEF Stale
<1>7. GoesOn(wire \o <<About(kind, m)>>, wire', K)
  BY DEF Answering
<1>8. /\ comp'.bound = comp.bound /\ (comp'.closing => Shut') /\ (Shut' => comp'.closing)
      /\ ("close in" \in K \/ "close out" \in K => Shut') /\ (comp.closing => comp'.closing)
      /\ ("cancel" \in K \/ comp.phase \in {3, 4} => comp'.closing \/ comp'.phase \in {3, 4})
  BY <1>5 DEF Answering
<1>9. /\ m \in InHands \cup Delivered /\ InHands \subseteq {m} /\ Delivered' = Delivered \ {m}
      /\ NothingTwice(inbox') /\ Kinds(inbox') \subseteq Kinds(inbox)
  BY <1>3, <1>4
<1> QED
  BY <1>1, <1>2, <1>3, <1>6, <1>7, <1>8, <1>9, AnswerKeepsRegular

(* and to one that has arrived. *)
LEMMA DeliveryTaken ==
  ASSUME inbox \in Seq(InboxFrame), inbox # <<>>, inbox' = Tail(inbox),
         NEW m, Head(inbox).kind = "deliver", Head(inbox).msg = m, NothingTwice(inbox)
  PROVE  /\ m \in Delivered /\ Delivered' = Delivered \ {m} /\ NothingTwice(inbox')
         /\ Kinds(inbox') \subseteq Kinds(inbox) /\ Kinds(inbox) \subseteq Kinds(inbox') \cup {"deliver"}
<1>1. Kinds(inbox) = Kinds(inbox') \cup {Head(inbox).kind}
  BY KindsTaken
<1>2. Messages(inbox, {"deliver"})
        = Messages(inbox', {"deliver"}) \cup (IF Head(inbox).kind \in {"deliver"} THEN {Head(inbox).msg} ELSE {})
  BY KindsTaken
<1>3. NothingTwice(inbox') /\ m \notin Messages(inbox', {"deliver"})
  BY InboxTaken
<1> QED
  BY <1>1, <1>2, <1>3 DEF Delivered

LEMMA SendingNothingChangesNothing ==
  ASSUME wire \in Seq(WireFrame), link = "up", Sends({})
  PROVE  /\ wire' \in Seq(WireFrame) /\ Kinds(wire') = Kinds(wire) /\ Outputs(wire') = Outputs(wire)
         /\ Messages(wire', Answer) = Messages(wire, Answer)
         /\ Messages(wire', Settling) = Messages(wire, Settling)
         /\ Unanswered(wire') \subseteq Unanswered(wire)
         /\ InOrder(wire) => InOrder(wire')
<1>1. GoesOn(wire, wire', {})
  BY DEF Sends
<1> QED
  BY <1>1 DEF GoesOn, Answer, Settling

LEMMA PassingKeepsRegular ==
  ASSUME Consistent, Consistent', link = "up", Regular, NEW m, Passes, EventsGoOn,
         UNCHANGED <<link, queue, unacked, consuming, copies>>,
         Delivered' = Delivered \ {m}, NothingTwice(inbox'), Kinds(inbox') \subseteq Kinds(inbox)
  PROVE  Regular'
<1>1. /\ wire' \in Seq(WireFrame) /\ Kinds(wire') = Kinds(wire) /\ Outputs(wire') = Outputs(wire)
      /\ Messages(wire', Answer) = Messages(wire, Answer)
      /\ Messages(wire', Settling) = Messages(wire, Settling)
      /\ Unanswered(wire') \subseteq Unanswered(wire)
      /\ InOrder(wire')
  <2>1. wire \in Seq(WireFrame) /\ Sends({})
    BY DEF Consistent, QueuedTypes, Passes
  <2>2. InOrder(wire)
    BY DEF Regular, ChannelsAgree, EachInOnePlace, InOrder
  <2> QED  BY <2>1, <2>2, SendingNothingChangesNothing
<1>2. comp' = comp /\ InHands' = InHands /\ Answered' = Answered /\ InCallback' = InCallback
  BY <1>1 DEF Passes, InHands, InCallback, Answered
<1>3. ChannelsAgree'
  BY <1>1, <1>2 DEF Regular, ChannelsAgree, NotYetConsuming, Shut, InOrder
<1>4. EachInOnePlace'
  <2>1. /\ Delivered' \cap Answered' = {}
        /\ InHands' \cap (Delivered' \cup Answered') = {}
        /\ Delivered' \cup InHands' \cup Answered' \subseteq queue' \cup unacked'
        /\ consuming' \/ comp'.chanIn = "open" => Delivered' \cup InHands' \cup Answered' \subseteq unacked'
    BY <1>2 DEF Regular, EachInOnePlace
  <2>2. \A f \in Unanswered(wire') : f.msg \in InHands' /\ f.part \in 1 .. comp'.part
    BY <1>1, <1>2 DEF Regular, EachInOnePlace
  <2> QED  BY <1>1, <2>1, <2>2 DEF EachInOnePlace, InOrder
<1>5. CountsAgree'
  <2>1. CancelledByBroker' => CancelledByBroker
    BY <1>2 DEF CancelledByBroker, Shut
  <2>2. CountsAgree /\ QueuedTypes
    BY DEF Regular, Consistent
  <2> QED  BY <1>1, <1>2, <2>1, <2>2, CountsAgreeRemain
<1> QED
  BY <1>3, <1>4, <1>5 DEF Regular

LEMMA BeginningKeepsRegular ==
  ASSUME Consistent, Consistent', link = "up", Regular, NEW m \in Msg, Begins(m), UNCHANGED breakdowns,
         UNCHANGED <<link, queue, unacked, consuming, copies>>, m \in Delivered,
         Delivered' = Delivered \ {m}, NothingTwice(inbox'), Kinds(inbox') \subseteq Kinds(inbox)
  PROVE  Regular'
<1>1. /\ wire' \in Seq(WireFrame) /\ Kinds(wire') = Kinds(wire) /\ Outputs(wire') = Outputs(wire)
      /\ Messages(wire', Answer) = Messages(wire, Answer)
      /\ Messages(wire', Settling) = Messages(wire, Settling)
      /\ Unanswered(wire') \subseteq Unanswered(wire)
      /\ InOrder(wire')
  <2>1. wire \in Seq(WireFrame) /\ Sends({})
    BY DEF Consistent, QueuedTypes, Begins
  <2>2. InOrder(wire)
    BY DEF Regular, ChannelsAgree, EachInOnePlace, InOrder
  <2> QED  BY <2>1, <2>2, SendingNothingChangesNothing
<1>2. /\ comp'.at = "callback" /\ comp'.hand = m /\ comp'.part = 0 /\ comp'.chanIn = "open" /\ comp.chanIn = "open"
      /\ comp'.closing = comp.closing /\ comp'.phase = comp.phase /\ comp'.bound = comp.bound
  BY DEF Begins, BeginMessage, Consistent, QueuedTypes, ComponentState
<1>3. InHands = {} /\ InHands' = {m} /\ InCallback' /\ Answered' = Answered
  BY <1>1, <1>2 DEF Begins, InHands, InCallback, Answered
<1>4. Consumer(comp) /\ Consumer(comp') /\ "consume" \notin Kinds(wire)
  BY <1>2 DEF Regular, ChannelsAgree, NotYetConsuming, Consumer
<1>5. m \in unacked /\ m \notin Answered
  BY <1>2 DEF Regular, EachInOnePlace
<1>6. ChannelsAgree'
  BY <1>1, <1>2, <1>4 DEF Regular, ChannelsAgree, NotYetConsuming, Shut, InOrder
<1>7. EachInOnePlace'
  <2>1. /\ Delivered' \cap Answered' = {}
        /\ InHands' \cap (Delivered' \cup Answered') = {}
        /\ Delivered' \cup InHands' \cup Answered' \subseteq unacked'
    BY <1>2, <1>3, <1>5 DEF Regular, EachInOnePlace
  <2>2. Unanswered(wire') = {}
    BY <1>1, <1>3 DEF Regular, EachInOnePlace
  <2> QED  BY <1>1, <2>1, <2>2 DEF EachInOnePlace, InOrder
<1>8. CountsAgree'
  <2> SUFFICES ASSUME NEW n \in Msg, NEW p \in Part
               PROVE  /\ n \in unacked' /\ n \notin InHands' /\ n \notin Messages(wire', Settling) => Stale(n, p)'
                      /\ n \in InHands' /\ p > comp'.part => Stale(n, p)'
                      /\ CancelledByBroker' => Stale(n, p)'
                      /\ "cancelled" \in Kinds(inbox') =>
                           (n \in Delivered' \/ (n \in InHands' /\ p > comp'.part) => Count(<<n, p>>)' + 1 <= breakdowns')
    BY DEF CountsAgree
  <2>1. Count(<<n, p>>)' = Count(<<n, p>>)
    BY <1>1 DEF Count
  <2>2. Stale(n, p)' <=> Stale(n, p)
    BY <2>1 DEF Stale
  <2>3. CancelledByBroker' => CancelledByBroker
    BY <1>2 DEF CancelledByBroker, Shut
  <2>4. Messages(wire, Settling) \subseteq Answered
    BY DEF Messages, Answered, Settling, Answer
  <2> HIDE DEF Count, Stale, CancelledByBroker
  <2> QED
    BY <1>1, <1>3, <1>5, <2>1, <2>2, <2>3, <2>4 DEF Regular, CountsAgree
<1> QED
  BY <1>6, <1>7, <1>8 DEF Regular

-----------------------------------------------------------------------------
(* The broker's steps *)

LEMMA BrokerTaking ==
  ASSUME Consistent, NEW kind, BrokerTakes(kind)
  PROVE  /\ link = "up" /\ wire \in Seq(WireFrame) /\ wire # <<>> /\ wire' = Tail(wire)
         /\ wire' \in Seq(WireFrame) /\ Head(wire) \in WireFrame /\ Head(wire).kind = kind
         /\ UNCHANGED <<comp, link, Counts>> /\ EventsGoOn
         /\ Kinds(wire) = Kinds(wire') \cup {kind}
         /\ Outputs(wire) = Outputs(wire') \cup (IF kind = "output" THEN {Head(wire)} ELSE {})
         /\ Messages(wire, Answer) = Messages(wire', Answer) \cup (IF kind \in Answer THEN {Head(wire).msg} ELSE {})
         /\ Messages(wire, Settling) = Messages(wire', Settling) \cup (IF kind \in Settling THEN {Head(wire).msg} ELSE {})
<1>1. /\ link = "up" /\ wire \in Seq(WireFrame) /\ wire # <<>> /\ wire' = Tail(wire) /\ Head(wire).kind = kind
      /\ UNCHANGED <<comp, link, Counts>>
  BY DEF BrokerTakes, Consistent, QueuedTypes
<1>2. wire' \in Seq(WireFrame) /\ Head(wire) \in WireFrame
  BY <1>1, TakingHead
<1>3. EventsGoOn
  BY <1>1, EventsPass DEF Consistent
<1>4. Kinds(wire) = Kinds(Tail(wire)) \cup {Head(wire).kind}
  BY <1>1, KindsTaken
<1>5. Outputs(wire) = Outputs(Tail(wire)) \cup (IF Head(wire).kind = "output" THEN {Head(wire)} ELSE {})
  BY <1>1, KindsTaken
<1>6. \A L : Messages(wire, L) = Messages(Tail(wire), L) \cup (IF Head(wire).kind \in L THEN {Head(wire).msg} ELSE {})
  BY <1>1, KindsTaken
<1>7. /\ Messages(wire, Answer) = Messages(wire', Answer) \cup (IF kind \in Answer THEN {Head(wire).msg} ELSE {})
      /\ Messages(wire, Settling) = Messages(wire', Settling) \cup (IF kind \in Settling THEN {Head(wire).msg} ELSE {})
  BY <1>1, <1>6
<1> QED
  BY <1>1, <1>2, <1>3, <1>4, <1>5, <1>7

(* The broker has said something about no message. *)
LEMMA Replied ==
  ASSUME inbox \in Seq(InboxFrame), NEW kind, kind # "deliver", Frame(kind) \in InboxFrame,
         Reply(<<Frame(kind)>>)
  PROVE  /\ inbox' \in Seq(InboxFrame) /\ Kinds(inbox') = Kinds(inbox) \cup {kind} /\ Delivered' = Delivered
         /\ NothingTwice(inbox) => NothingTwice(inbox')
<1> DEFINE f == Frame(kind)
<1>1. inbox' = inbox \o <<f>> /\ f \in InboxFrame /\ f.kind = kind
  BY DEF Reply, Frame
<1> HIDE DEF f
<1>2. inbox' \in Seq(InboxFrame)
  BY <1>1, Appending
<1>3. Kinds(inbox \o <<f>>) = Kinds(inbox) \cup {f.kind}
  BY <1>1, KindsAppended
<1>4. Messages(inbox \o <<f>>, {"deliver"})
        = Messages(inbox, {"deliver"}) \cup (IF f.kind \in {"deliver"} THEN {f.msg} ELSE {})
  BY <1>1, MessagesAppended
<1>5. NothingTwice(inbox) => NothingTwice(inbox')
  BY <1>1, InboxGoesOn
<1> QED
  BY <1>1, <1>2, <1>3, <1>4, <1>5 DEF Delivered

LEMMA ReplyFrames ==
  \A kind : kind \in {"cancel ok", "cancelled", "closed in", "closed out", "closed"} => Frame(kind) \in InboxFrame
BY DEF Frame, InboxFrame

(* A step of the broker leaves a consistent state if it leaves the sets of
   messages so. *)
LEMMA BrokerIsConsistent ==
  ASSUME Consistent, link = "up", UNCHANGED <<comp, link>>, EventsGoOn,
         wire' \in Seq(WireFrame), inbox' \in Seq(InboxFrame),
         queue' \subseteq Msg, unacked' \subseteq Msg, queue' \cap unacked' = {},
         consuming' \in BOOLEAN, copies' \in [Msg \X Part -> Nat]
  PROVE  Consistent'
BY DEF Consistent, QueuedTypes, ComponentIsConsistent, EventsGoOn

(* An output that arrives counts as before. *)
LEMMA ArrivingCounts ==
  ASSUME Consistent, BrokerTakesOutput, Head(wire) \notin Outputs(Tail(wire)), NEW m \in Msg, NEW p \in Part
  PROVE  Count(<<m, p>>)' = Count(<<m, p>>) /\ (Stale(m, p)' <=> Stale(m, p))
<1> DEFINE f == Head(wire)
<1>1. /\ f \in WireFrame /\ f.kind = "output" /\ wire' = Tail(wire) /\ UNCHANGED Counts
      /\ Outputs(wire) = Outputs(wire') \cup (IF "output" = "output" THEN {Head(wire)} ELSE {})
  BY BrokerTaking DEF BrokerTakesOutput
<1>2. copies' = [copies EXCEPT ![<<f.msg, f.part>>] = @ + 1]
  BY DEF BrokerTakesOutput
<1>3. f = Output(f.msg, f.part) /\ f.msg \in Msg /\ f.part \in Part
  BY <1>1 DEF Output, WireFrame, Answer, Control
<1>4. copies \in [Msg \X Part -> Nat]
  BY DEF Consistent, QueuedTypes
<1> HIDE DEF f
<1>5. f \in Outputs(wire) /\ f \notin Outputs(wire') /\ \A g : g # f => (g \in Outputs(wire) <=> g \in Outputs(wire'))
  BY <1>1 DEF f
<1>6. Output(m, p) = f <=> <<m, p>> = <<f.msg, f.part>>
  BY <1>3 DEF Output
<1>7. copies[<<m, p>>] \in Nat
  BY <1>4
<1>8. Count(<<m, p>>)' = Count(<<m, p>>)
  <2>1. CASE Output(m, p) = f
    <3>1. copies'[<<m, p>>] = copies[<<m, p>>] + 1
      BY <1>2, <1>4, <1>6, <2>1
    <3> QED  BY <1>5, <1>7, <2>1, <3>1 DEF Count
  <2>2. CASE Output(m, p) # f
    <3>1. copies'[<<m, p>>] = copies[<<m, p>>]
      BY <1>2, <1>4, <1>6, <2>2
    <3> QED  BY <1>5, <1>7, <2>2, <3>1 DEF Count
  <2> QED  BY <2>1, <2>2
<1> QED
  BY <1>1, <1>8 DEF Stale, Counts

LEMMA BrokerTakesOutputKeeps ==
  ASSUME Consistent, Limits, Regular, BrokerTakesOutput
  PROVE  Consistent' /\ Limits' /\ Regular'
<1>1. /\ link = "up" /\ wire \in Seq(WireFrame) /\ wire # <<>> /\ wire' = Tail(wire) /\ wire' \in Seq(WireFrame)
      /\ Head(wire) \in WireFrame /\ Head(wire).kind = "output" /\ UNCHANGED <<comp, link, Counts>> /\ EventsGoOn
      /\ Kinds(wire) = Kinds(wire') \cup {"output"}
      /\ Messages(wire, Answer) = Messages(wire', Answer) \cup (IF "output" \in Answer THEN {Head(wire).msg} ELSE {})
      /\ Messages(wire, Settling) = Messages(wire', Settling) \cup (IF "output" \in Settling THEN {Head(wire).msg} ELSE {})
      /\ Outputs(wire) = Outputs(wire') \cup (IF "output" = "output" THEN {Head(wire)} ELSE {})
  BY BrokerTaking DEF BrokerTakesOutput
<1>2. UNCHANGED <<inbox, queue, unacked, consuming>>
  BY DEF BrokerTakesOutput
<1>3. InOrder(wire)
  BY DEF Regular, ChannelsAgree, EachInOnePlace, InOrder
<1>4. InOrder(wire') /\ Unanswered(wire') \subseteq Unanswered(wire) /\ Head(wire) \notin Outputs(Tail(wire))
  BY <1>1, <1>3, WireTaken
<1>5. Messages(wire', Answer) = Messages(wire, Answer) /\ Messages(wire', Settling) = Messages(wire, Settling)
  BY <1>1 DEF Answer, Settling
<1>6. Consistent'
  <2>1. copies' \in [Msg \X Part -> Nat]
    <3>1. Head(wire).msg \in Msg /\ Head(wire).part \in Part
      BY <1>1 DEF WireFrame, Answer, Control
    <3>2. copies \in [Msg \X Part -> Nat]
      BY DEF Consistent, QueuedTypes
    <3>3. copies' = [copies EXCEPT ![<<Head(wire).msg, Head(wire).part>>] = @ + 1]
      BY DEF BrokerTakesOutput
    <3> QED  BY <3>1, <3>2, <3>3
  <2>2. inbox' \in Seq(InboxFrame) /\ queue' \subseteq Msg /\ unacked' \subseteq Msg /\ queue' \cap unacked' = {}
        /\ consuming' \in BOOLEAN
    BY <1>2 DEF Consistent, QueuedTypes, ComponentIsConsistent
  <2> QED  BY <1>1, <2>1, <2>2, BrokerIsConsistent
<1>7. ASSUME NEW m \in Msg, NEW p \in Part
      PROVE  Count(<<m, p>>)' = Count(<<m, p>>) /\ (Stale(m, p)' <=> Stale(m, p))
  BY <1>4, ArrivingCounts
<1>8. /\ InHands' = InHands /\ InCallback' = InCallback /\ Delivered' = Delivered /\ Answered' = Answered
      /\ (CancelledByBroker' <=> CancelledByBroker) /\ (Shut' <=> Shut) /\ breakdowns' = breakdowns
  BY <1>1, <1>2, <1>5 DEF InHands, InCallback, Delivered, Answered, CancelledByBroker, Shut, Counts
<1> HIDE DEF Count, Stale, CancelledByBroker, Shut
<1>9. Limits'
  BY <1>2, <1>7, <1>8 DEF Limits
<1>10. CountsAgree'
  BY <1>1, <1>2, <1>5, <1>7, <1>8 DEF Regular, CountsAgree
<1>11. ChannelsAgree'
  BY <1>1, <1>2, <1>4, <1>5, <1>8 DEF Regular, ChannelsAgree, NotYetConsuming, InOrder
<1>12. EachInOnePlace'
  <2>1. \A f \in Unanswered(wire') : f.msg \in InHands' /\ f.part \in 1 .. comp'.part
    BY <1>1, <1>4, <1>8 DEF Regular, EachInOnePlace
  <2> QED  BY <1>1, <1>2, <1>4, <1>8, <2>1 DEF Regular, EachInOnePlace, InOrder
<1> QED
  BY <1>6, <1>9, <1>10, <1>11, <1>12 DEF Regular

LEMMA BrokerTakesAnswerIsConsistent ==
  ASSUME Consistent, NEW kind \in Answer, BrokerTakes(kind), NEW m, m = Head(wire).msg,
         unacked' = unacked \ ({m} \cap unacked),
         queue' = IF kind = "requeue" THEN queue \cup ({m} \cap unacked) ELSE queue,
         UNCHANGED <<inbox, consuming, copies>>
  PROVE  /\ Consistent' /\ EventsGoOn /\ Outputs(wire') = Outputs(wire) /\ link' = "up"
         /\ UNCHANGED <<comp, link, Counts>>
<1>1. /\ link = "up" /\ wire' \in Seq(WireFrame) /\ UNCHANGED <<comp, link, Counts>> /\ EventsGoOn
      /\ Outputs(wire) = Outputs(wire') \cup (IF kind = "output" THEN {Head(wire)} ELSE {})
  BY BrokerTaking
<1>2. inbox' \in Seq(InboxFrame) /\ queue' \subseteq Msg /\ unacked' \subseteq Msg /\ queue' \cap unacked' = {}
      /\ consuming' \in BOOLEAN /\ copies' \in [Msg \X Part -> Nat]
  BY DEF Consistent, QueuedTypes, ComponentIsConsistent
<1>3. kind # "output"
  BY DEF Answer
<1> QED
  BY <1>1, <1>2, <1>3, BrokerIsConsistent

LEMMA BrokerTakesAnswerKeeps ==
  ASSUME Consistent, Limits, Regular, NEW kind \in Answer, BrokerTakes(kind), NEW m, m = Head(wire).msg,
         unacked' = unacked \ ({m} \cap unacked),
         queue' = IF kind = "requeue" THEN queue \cup ({m} \cap unacked) ELSE queue,
         UNCHANGED <<inbox, consuming, copies>>
  PROVE  Consistent' /\ Limits' /\ Regular'
<1>1. /\ link = "up" /\ wire \in Seq(WireFrame) /\ wire # <<>> /\ wire' = Tail(wire) /\ wire' \in Seq(WireFrame)
      /\ Head(wire).kind = kind /\ UNCHANGED <<comp, link, Counts>> /\ EventsGoOn
      /\ Kinds(wire) = Kinds(wire') \cup {kind}
      /\ Messages(wire, Answer) = Messages(wire', Answer) \cup (IF kind \in Answer THEN {m} ELSE {})
      /\ Messages(wire, Settling) = Messages(wire', Settling) \cup (IF kind \in Settling THEN {m} ELSE {})
  BY BrokerTaking
<1>2. Consistent' /\ Outputs(wire') = Outputs(wire)
  BY BrokerTakesAnswerIsConsistent
<1>3. InOrder(wire)
  BY DEF Regular, ChannelsAgree, EachInOnePlace, InOrder
<1>4. /\ InOrder(wire') /\ Unanswered(wire') \subseteq Unanswered(wire)
      /\ m \notin Messages(wire', Answer)
  BY <1>1, <1>3, WireTaken
<1>5. kind = "requeue" <=> kind \notin Settling
  BY DEF Answer, Settling
<1>6. /\ InHands' = InHands /\ InCallback' = InCallback /\ Delivered' = Delivered
      /\ m \in Answered /\ Answered' = Answered \ {m}
      /\ (CancelledByBroker' <=> CancelledByBroker) /\ (Shut' <=> Shut) /\ breakdowns' = breakdowns
  BY <1>1, <1>4 DEF InHands, InCallback, Delivered, Answered, CancelledByBroker, Shut, Counts
<1>7. m \notin InHands /\ m \notin Delivered
  BY <1>6 DEF Regular, EachInOnePlace
<1>8. ASSUME kind = "requeue", m \in unacked, NEW p \in Part  PROVE Stale(m, p)
  <2>1. m \notin Messages(wire, Settling)
    <3>1. Messages(wire', Settling) \subseteq Messages(wire', Answer)
      BY DEF Messages, Settling, Answer
    <3> QED  BY <1>1, <1>4, <1>5, <1>8, <3>1
  <2>2. m \in Msg
    BY <1>8 DEF Consistent, QueuedTypes
  <2> QED  BY <1>7, <1>8, <2>1, <2>2 DEF Regular, CountsAgree
<1>9. Limits'
  <2>1. QueuedTypes /\ queue' \subseteq Msg
    BY <1>2 DEF Consistent, QueuedTypes
  <2>2. \A n \in queue' : n \in queue \/ breakdowns' >= breakdowns + 1 \/ \A p \in Part : Stale(n, p)
    BY <1>8
  <2> QED  BY <1>1, <1>2, <2>1, <2>2, LimitsRemain
<1>10. CountsAgree'
  <2>1. QueuedTypes /\ CountsAgree
    BY DEF Consistent, Regular
  <2>2. \A n \in Msg : n \in unacked' /\ n \notin InHands' /\ n \notin Messages(wire', Settling) =>
           \/ n \in unacked /\ n \notin InHands /\ n \notin Messages(wire, Settling)
           \/ \A p \in Part : Stale(n, p)'
    BY <1>1, <1>6
  <2>3. /\ CancelledByBroker' => CancelledByBroker
        /\ "cancelled" \in Kinds(inbox') => "cancelled" \in Kinds(inbox)
        /\ Delivered' \subseteq Delivered /\ InHands' \subseteq InHands /\ comp'.part = comp.part
    BY <1>1, <1>6
  <2> QED  BY <1>1, <1>2, <2>1, <2>2, <2>3, CountsAgreeRemain
<1>11. ChannelsAgree'
  <2>1. Consumer(comp) /\ "consume" \notin Kinds(wire)
    BY <1>6 DEF Regular, ChannelsAgree, NotYetConsuming
  <2>2. unacked = {} => unacked' = {}
    OBVIOUS
  <2>3. NotYetConsuming'
    BY <1>1, <2>1 DEF NotYetConsuming
  <2> QED  BY <1>1, <1>4, <1>6, <2>1, <2>2, <2>3 DEF Regular, ChannelsAgree, InOrder
<1>12. EachInOnePlace'
  <2>1. \A f \in Unanswered(wire') : f.msg \in InHands' /\ f.part \in 1 .. comp'.part
    BY <1>1, <1>4, <1>6 DEF Regular, EachInOnePlace
  <2>2. /\ Delivered' \cap Answered' = {} /\ InHands' \cap (Delivered' \cup Answered') = {}
    BY <1>6 DEF Regular, EachInOnePlace
  <2>3. /\ Delivered' \cup InHands' \cup Answered' \subseteq queue' \cup unacked'
        /\ consuming' \/ comp'.chanIn = "open" => Delivered' \cup InHands' \cup Answered' \subseteq unacked'
    BY <1>1, <1>6, <1>7 DEF Regular, EachInOnePlace
  <2> QED  BY <1>4, <2>1, <2>2, <2>3 DEF Regular, EachInOnePlace, InOrder
<1> QED
  BY <1>2, <1>9, <1>10, <1>11, <1>12 DEF Regular

(* Steps of the broker after which the same messages are on the wire. *)
LEMMA SameMessagesRemain ==
  ASSUME NEW kind, kind \notin Answer \cup {"output"}, Consistent, Regular, BrokerTakes(kind)
  PROVE  /\ Messages(wire', Answer) = Messages(wire, Answer) /\ Answered' = Answered
         /\ Messages(wire', Settling) = Messages(wire, Settling)
         /\ Outputs(wire') = Outputs(wire) /\ Kinds(wire) = Kinds(wire') \cup {kind}
         /\ InOrder(wire') /\ Unanswered(wire') \subseteq Unanswered(wire)
         /\ kind = "consume" => "consume" \notin Kinds(wire')
         /\ kind \in Closings => Outputs(wire) = {} /\ Answered = {} /\ "consume" \notin Kinds(wire')
         /\ InHands' = InHands /\ InCallback' = InCallback /\ (Shut' <=> Shut) /\ UNCHANGED <<comp, link, Counts>>
         /\ link = "up" /\ EventsGoOn /\ wire' \in Seq(WireFrame)
<1>1. /\ link = "up" /\ wire \in Seq(WireFrame) /\ wire # <<>> /\ wire' = Tail(wire) /\ wire' \in Seq(WireFrame)
      /\ Head(wire).kind = kind /\ UNCHANGED <<comp, link, Counts>> /\ EventsGoOn
      /\ Kinds(wire) = Kinds(wire') \cup {kind}
      /\ Outputs(wire) = Outputs(wire') \cup (IF kind = "output" THEN {Head(wire)} ELSE {})
      /\ Messages(wire, Answer) = Messages(wire', Answer) \cup (IF kind \in Answer THEN {Head(wire).msg} ELSE {})
      /\ Messages(wire, Settling) = Messages(wire', Settling) \cup (IF kind \in Settling THEN {Head(wire).msg} ELSE {})
  BY BrokerTaking
<1>2. InOrder(wire)
  BY DEF Regular, ChannelsAgree, EachInOnePlace, InOrder
<1>3. /\ InOrder(wire') /\ Unanswered(wire') \subseteq Unanswered(wire)
      /\ kind = "consume" => "consume" \notin Kinds(wire')
      /\ kind \in Closings => Outputs(wire') = {} /\ Messages(wire', Answer) = {} /\ "consume" \notin Kinds(wire')
  BY <1>1, <1>2, WireTaken
<1>4. kind # "output" /\ kind \notin Answer /\ kind \notin Settling
  BY DEF Answer, Settling
<1> QED
  BY <1>1, <1>3, <1>4 DEF Answered, InHands, InCallback, Shut

LEMMA BrokerTakesConsumeKeeps ==
  ASSUME Consistent, Limits, Regular, BrokerTakesConsume
  PROVE  Consistent' /\ Limits' /\ Regular'
<1>0. BrokerTakes("consume") /\ "consume" \notin Answer \cup {"output"}
  BY DEF BrokerTakesConsume, Answer
<1>1. /\ Messages(wire', Answer) = Messages(wire, Answer) /\ Answered' = Answered
      /\ Messages(wire', Settling) = Messages(wire, Settling)
      /\ Outputs(wire') = Outputs(wire) /\ Kinds(wire) = Kinds(wire') \cup {"consume"}
      /\ InOrder(wire') /\ Unanswered(wire') \subseteq Unanswered(wire)
      /\ "consume" \notin Kinds(wire')
      /\ InHands' = InHands /\ InCallback' = InCallback /\ (Shut' <=> Shut) /\ UNCHANGED <<comp, link, Counts>>
      /\ link = "up" /\ EventsGoOn /\ wire' \in Seq(WireFrame)
  BY <1>0, SameMessagesRemain
<1>2. UNCHANGED <<inbox, queue, unacked, copies>> /\ consuming' = TRUE
  BY DEF BrokerTakesConsume
<1>3. Delivered' = Delivered
  BY <1>2 DEF Delivered
<1>4. Consistent'
  <2>1. inbox' \in Seq(InboxFrame) /\ queue' \subseteq Msg /\ unacked' \subseteq Msg /\ queue' \cap unacked' = {}
        /\ consuming' \in BOOLEAN /\ copies' \in [Msg \X Part -> Nat]
    BY <1>2 DEF Consistent, QueuedTypes, ComponentIsConsistent
  <2> QED  BY <1>1, <2>1, BrokerIsConsistent
<1>5. /\ ~consuming /\ unacked = {} /\ ~InCallback /\ Delivered = {} /\ Answered = {} /\ Outputs(wire) = {}
      /\ "cancelled" \notin Kinds(inbox) /\ Consumer(comp)
  BY <1>1 DEF Regular, ChannelsAgree, NotYetConsuming
<1>6. InHands = {}
  BY <1>5 DEF InHands
<1>7. ChannelsAgree'
  <2>1. NotYetConsuming' /\ Consumer(comp')
    BY <1>1, <1>5 DEF NotYetConsuming
  <2>2. "closed" \notin Kinds(inbox')
    BY <1>1, <1>2 DEF Regular, ChannelsAgree
  <2> QED  BY <1>1, <1>2, <1>5, <2>1, <2>2 DEF Regular, ChannelsAgree, InOrder
<1>8. EachInOnePlace'
  <2>1. Unanswered(wire') = {}
    BY <1>1, <1>6 DEF Regular, EachInOnePlace
  <2> QED  BY <1>1, <1>2, <1>3, <1>5, <1>6, <2>1 DEF Regular, EachInOnePlace, InOrder
<1>9. Limits' /\ CountsAgree'
  <2>1. QueuedTypes /\ CountsAgree /\ queue' \subseteq Msg
    BY <1>4 DEF Consistent, Regular, QueuedTypes
  <2>2. CancelledByBroker' => CancelledByBroker
    BY <1>1, <1>2 DEF CancelledByBroker
  <2>3. Limits'
    BY <1>1, <1>2, <2>1, LimitsRemain
  <2>4. CountsAgree'
    BY <1>1, <1>2, <1>3, <2>1, <2>2, CountsAgreeRemain
  <2> QED  BY <2>3, <2>4
<1> QED
  BY <1>4, <1>7, <1>8, <1>9 DEF Regular

(* What the broker takes when it gives up the messages not acknowledged *)
ReturnsAll == queue' = queue \cup unacked /\ unacked' = {} /\ consuming' = FALSE

LEMMA BrokerRepliesKeeps ==
  ASSUME Consistent, Limits, Regular, NEW kind, kind \notin Answer \cup {"output", "consume"},
         BrokerTakes(kind), NEW reply, Frame(reply) \in InboxFrame, reply # "deliver", reply # "cancelled",
         Reply(<<Frame(reply)>>), consuming' \in BOOLEAN, consuming' => consuming, copies' = copies,
         UNCHANGED <<queue, unacked>> \/ (kind \in Closings /\ ReturnsAll),
         reply = "cancel ok" => kind = "cancel",
         reply # "cancel ok" => kind \in Closings \/ kind = "close out",
         reply = "closed" => kind \in Closings /\ ReturnsAll
  PROVE  Consistent' /\ Limits' /\ Regular'
<1>1. /\ Messages(wire', Answer) = Messages(wire, Answer) /\ Answered' = Answered
      /\ Messages(wire', Settling) = Messages(wire, Settling)
      /\ Outputs(wire') = Outputs(wire) /\ Kinds(wire) = Kinds(wire') \cup {kind}
      /\ InOrder(wire') /\ Unanswered(wire') \subseteq Unanswered(wire)
      /\ kind \in Closings => Outputs(wire) = {} /\ Answered = {} /\ "consume" \notin Kinds(wire')
      /\ InHands' = InHands /\ InCallback' = InCallback /\ (Shut' <=> Shut) /\ UNCHANGED <<comp, link, Counts>>
      /\ link = "up" /\ EventsGoOn /\ wire' \in Seq(WireFrame)
  BY SameMessagesRemain
<1>2. inbox \in Seq(InboxFrame)
  BY DEF Consistent, QueuedTypes
<1>3. /\ inbox' \in Seq(InboxFrame) /\ Kinds(inbox') = Kinds(inbox) \cup {reply} /\ Delivered' = Delivered
      /\ NothingTwice(inbox) => NothingTwice(inbox')
  BY <1>2, Replied
<1>4. Consistent'
  <2>1. /\ queue \subseteq Msg /\ unacked \subseteq Msg /\ queue \cap unacked = {}
        /\ copies \in [Msg \X Part -> Nat]
    BY DEF Consistent, QueuedTypes, ComponentIsConsistent
  <2>2. queue' \subseteq Msg /\ unacked' \subseteq Msg /\ queue' \cap unacked' = {}
    BY <2>1 DEF ReturnsAll
  <2> QED  BY <1>1, <1>3, <2>1, <2>2, BrokerIsConsistent
<1>5. kind \in Closings \/ kind = "close out" => Shut
  BY <1>1 DEF Regular, ChannelsAgree, Closings
<1>6. Shut => InHands = {} /\ comp.chanIn # "open"
  BY DEF Shut, Consistent, ComponentIsConsistent, Sound, InHands, InCallback
<1>7. ChannelsAgree'
  <2>1. NotYetConsuming'
    <3>1. ~Consumer(comp') \/ "consume" \in Kinds(wire') => ~Consumer(comp) \/ "consume" \in Kinds(wire)
      BY <1>1
    <3>2. "cancelled" \in Kinds(inbox') => "cancelled" \in Kinds(inbox)
      BY <1>3
    <3>3. unacked = {} => unacked' = {}
      BY DEF ReturnsAll
    <3> QED  BY <1>1, <1>3, <3>1, <3>2, <3>3 DEF NotYetConsuming, Regular, ChannelsAgree
  <2>2. Kinds(wire') \cap {"close in", "close out", "close"} # {}
           \/ Kinds(inbox') \cap {"closed in", "closed out", "closed"} # {} => Shut'
    BY <1>1, <1>3, <1>5 DEF Regular, ChannelsAgree
  <2>3. "cancel" \in Kinds(wire') \/ "cancel ok" \in Kinds(inbox') => comp'.closing \/ comp'.phase \in {3, 4}
    BY <1>1, <1>3 DEF Regular, ChannelsAgree
  <2>4. "closed" \in Kinds(inbox') => unacked' = {} /\ ~consuming' /\ "consume" \notin Kinds(wire')
    <3>1. CASE reply = "closed"
      BY <1>1, <3>1 DEF ReturnsAll
    <3>2. CASE "closed" \in Kinds(inbox)
      BY <1>1, <3>2 DEF Regular, ChannelsAgree, ReturnsAll
    <3> QED  BY <1>3, <3>1, <3>2
  <2>5. "cancelled" \in Kinds(inbox') => ~consuming'
    BY <1>3 DEF Regular, ChannelsAgree
  <2>6. (comp'.closing => Shut') /\ (~Consumer(comp') => "consume" \notin Kinds(wire'))
    BY <1>1 DEF Regular, ChannelsAgree
  <2> QED  BY <1>1, <2>1, <2>2, <2>3, <2>4, <2>5, <2>6 DEF ChannelsAgree, InOrder
<1>8. EachInOnePlace'
  <2>1. \A f \in Unanswered(wire') : f.msg \in InHands' /\ f.part \in 1 .. comp'.part
    BY <1>1 DEF Regular, EachInOnePlace
  <2>2. /\ Delivered' \cup InHands' \cup Answered' \subseteq queue' \cup unacked'
        /\ consuming' \/ comp'.chanIn = "open" => Delivered' \cup InHands' \cup Answered' \subseteq unacked'
    BY <1>1, <1>3, <1>5, <1>6 DEF Regular, EachInOnePlace, ReturnsAll
  <2> QED  BY <1>1, <1>3, <2>1, <2>2 DEF Regular, EachInOnePlace, InOrder
<1>9. ASSUME NEW m \in queue'  PROVE m \in queue \/ \A p \in Part : Stale(m, p)
  <2> SUFFICES ASSUME kind \in Closings, m \in unacked  PROVE \A p \in Part : Stale(m, p)
    BY <1>9 DEF ReturnsAll
  <2>1. m \in Msg /\ m \notin InHands
    BY <1>5, <1>6 DEF Consistent, QueuedTypes
  <2>2. m \notin Messages(wire, Settling)
    BY <1>1 DEF Answered, Messages, Settling, Answer
  <2> QED  BY <2>1, <2>2 DEF Regular, CountsAgree
<1>10. Limits' /\ CountsAgree'
  <2>1. QueuedTypes /\ CountsAgree /\ queue' \subseteq Msg
    BY <1>4 DEF Consistent, Regular, QueuedTypes
  <2>2. CancelledByBroker' => CancelledByBroker
    BY <1>1, <1>3 DEF CancelledByBroker
  <2>3. Limits'
    BY <1>1, <1>9, <2>1, LimitsRemain
  <2>4. unacked' \subseteq unacked
    BY DEF ReturnsAll
  <2>5. \A m \in Msg : m \in unacked' /\ m \notin InHands' /\ m \notin Messages(wire', Settling) =>
           \/ m \in unacked /\ m \notin InHands /\ m \notin Messages(wire, Settling)
           \/ \A p \in Part : Stale(m, p)'
    BY <1>1, <2>4
  <2>6. CountsAgree'
    BY <1>1, <1>3, <2>1, <2>2, <2>5, CountsAgreeRemain
  <2> QED  BY <2>3, <2>6
<1> QED
  BY <1>4, <1>7, <1>8, <1>10 DEF Regular

LEMMA BrokerClosesKeeps ==
  ASSUME Consistent, Limits, Regular, BrokerTakesCancel \/ BrokerTakesClose \/ BrokerTakesCloseOutput
  PROVE  Consistent' /\ Limits' /\ Regular'
<1>0. /\ \A kind \in Control \ {"consume"} : kind \notin Answer \cup {"output", "consume"}
      /\ {"cancel", "close in", "close", "close out"} \subseteq Control \ {"consume"}
      /\ "close in" \in Closings /\ "close" \in Closings
      /\ consuming \in BOOLEAN
  BY DEF Control, Answer, Closings, Consistent, QueuedTypes
<1>1. CASE BrokerTakesCancel
  <2>1. /\ BrokerTakes("cancel") /\ consuming' = FALSE /\ Reply(<<Frame("cancel ok")>>)
        /\ UNCHANGED <<queue, unacked>> /\ copies' = copies
    BY <1>1 DEF BrokerTakesCancel
  <2>2. "cancel" \notin Answer \cup {"output", "consume"} /\ Frame("cancel ok") \in InboxFrame
    BY <1>0, ReplyFrames
  <2> QED  BY <1>0, <2>1, <2>2, BrokerRepliesKeeps
<1>2. CASE BrokerTakesCloseOutput
  <2>1. /\ BrokerTakes("close out") /\ Reply(<<Frame("closed out")>>)
        /\ UNCHANGED <<queue, unacked>> /\ copies' = copies /\ consuming' = consuming
    BY <1>2 DEF BrokerTakesCloseOutput, broker
  <2>2. "close out" \notin Answer \cup {"output", "consume"} /\ Frame("closed out") \in InboxFrame
    BY <1>0, ReplyFrames
  <2>3. consuming' \in BOOLEAN /\ (consuming' => consuming)
    BY <1>0, <2>1
  <2> QED  BY <2>1, <2>2, <2>3, BrokerRepliesKeeps
<1>3. CASE BrokerTakesClose
  <2>1. ReturnsAll /\ copies' = copies /\ consuming' = FALSE
    BY <1>3 DEF BrokerTakesClose, ReturnsAll
  <2>0. /\ "close in" \notin Answer \cup {"output", "consume"} /\ "close" \notin Answer \cup {"output", "consume"}
        /\ Frame("closed in") \in InboxFrame /\ Frame("closed") \in InboxFrame
    BY <1>0, ReplyFrames
  <2>2. CASE BrokerTakes("close in") /\ Reply(<<Frame("closed in")>>)
    BY <1>0, <2>0, <2>1, <2>2, BrokerRepliesKeeps
  <2>3. CASE BrokerTakes("close") /\ Reply(<<Frame("closed")>>)
    BY <1>0, <2>0, <2>1, <2>3, BrokerRepliesKeeps
  <2> QED  BY <1>3, <2>2, <2>3 DEF BrokerTakesClose
<1> QED
  BY <1>1, <1>2, <1>3

LEMMA CancelConsumerKeeps ==
  ASSUME Consistent, Limits, Regular, CancelConsumer
  PROVE  Consistent' /\ Limits' /\ Regular'
<1>1. /\ link = "up" /\ consuming = TRUE /\ consuming' = FALSE /\ Reply(<<Frame("cancelled")>>)
      /\ UNCHANGED <<comp, link, wire, queue, unacked, copies>>
      /\ EventsGoOn /\ breakdowns' = breakdowns + 1
  BY EventsPass DEF CancelConsumer, Happens, Consistent, QueuedTypes
<1>2. /\ inbox' \in Seq(InboxFrame) /\ Kinds(inbox') = Kinds(inbox) \cup {"cancelled"} /\ Delivered' = Delivered
      /\ NothingTwice(inbox) => NothingTwice(inbox')
  <2>1. inbox \in Seq(InboxFrame) /\ Frame("cancelled") \in InboxFrame
    BY ReplyFrames DEF Consistent, QueuedTypes
  <2> QED  BY <1>1, <2>1, Replied
<1>3. Consistent'
  <2>1. wire' \in Seq(WireFrame) /\ queue' \subseteq Msg /\ unacked' \subseteq Msg /\ queue' \cap unacked' = {}
        /\ consuming' \in BOOLEAN /\ copies' \in [Msg \X Part -> Nat]
    BY <1>1 DEF Consistent, QueuedTypes, ComponentIsConsistent
  <2> QED  BY <1>1, <1>2, <2>1, BrokerIsConsistent
<1>4. /\ InHands' = InHands /\ InCallback' = InCallback /\ Answered' = Answered /\ (Shut' <=> Shut)
  BY <1>1 DEF InHands, InCallback, Answered, Shut
<1>5. Consumer(comp) /\ "consume" \notin Kinds(wire)
  BY <1>1 DEF Regular, ChannelsAgree, NotYetConsuming
<1>6. ChannelsAgree'
  <2>1. NotYetConsuming'
    BY <1>1, <1>5 DEF NotYetConsuming
  <2> QED  BY <1>1, <1>2, <1>4, <1>5, <2>1 DEF Regular, ChannelsAgree
<1>7. EachInOnePlace'
  BY <1>1, <1>2, <1>4 DEF Regular, EachInOnePlace
<1>8. ASSUME NEW m \in Msg, NEW p \in Part
      PROVE  /\ Count(<<m, p>>)' = Count(<<m, p>>) /\ Count(<<m, p>>) \in Nat /\ Count(<<m, p>>) <= 1 + breakdowns
             /\ breakdowns \in Nat /\ (Stale(m, p) => Count(<<m, p>>)' + 1 <= breakdowns') /\ Stale(m, p)'
  <2>1. Count(<<m, p>>)' = Count(<<m, p>>)
    BY <1>1 DEF Count
  <2>2. Count(<<m, p>>) \in Nat /\ breakdowns \in Nat
    BY CountIsNumber DEF Consistent, QueuedTypes
  <2>3. Count(<<m, p>>) <= 1 + breakdowns
    BY DEF Limits
  <2>4. Stale(m, p) => Count(<<m, p>>)' + 1 <= breakdowns'
    BY <1>1, <2>1, <2>2 DEF Stale
  <2>5. Stale(m, p)'
    BY <1>1, <2>1, <2>2, <2>3 DEF Stale
  <2> QED  BY <2>1, <2>2, <2>3, <2>4, <2>5
<1>9. Limits'
  <2> SUFFICES ASSUME NEW m \in Msg, NEW p \in Part  PROVE Count(<<m, p>>)' <= 1 + breakdowns' /\ Stale(m, p)'
    BY DEF Limits
  <2>1. Count(<<m, p>>)' <= 1 + breakdowns'
    BY <1>1, <1>8
  <2> QED  BY <1>8, <2>1
<1>10. CountsAgree'
  <2> SUFFICES ASSUME NEW m \in Msg, NEW p \in Part, m \in Delivered \/ (m \in InHands /\ p > comp.part)
               PROVE  Stale(m, p)
    <3>1. comp'.part = comp.part
      BY <1>1
    <3> QED  BY <1>2, <1>4, <1>8, <3>1 DEF CountsAgree
  <2>1. m \in Delivered => m \in unacked /\ m \notin InHands /\ m \notin Messages(wire, Settling)
    <3>1. Messages(wire, Settling) \subseteq Answered
      BY DEF Answered, Messages, Settling, Answer
    <3> QED  BY <1>1, <3>1 DEF Regular, EachInOnePlace
  <2> QED  BY <2>1 DEF Regular, CountsAgree
<1> QED
  BY <1>3, <1>6, <1>7, <1>9, <1>10 DEF Regular

LEMMA DeliverKeeps ==
  ASSUME Consistent, Limits, Regular, NEW m \in Msg, Deliver(m)
  PROVE  Consistent' /\ Limits' /\ Regular'
<1> DEFINE f == About("deliver", m)
<1>1. /\ link = "up" /\ consuming = TRUE /\ m \in queue /\ queue' = queue \ {m} /\ unacked' = unacked \cup {m}
      /\ inbox' = inbox \o <<f>>
      /\ UNCHANGED <<comp, link, wire, consuming, copies, Counts>>
      /\ EventsGoOn /\ breakdowns' = breakdowns
  BY EventsPass DEF Deliver, Reply, Counts, Consistent, QueuedTypes
<1>2. f \in InboxFrame /\ f.kind = "deliver" /\ f.msg = m /\ inbox \in Seq(InboxFrame)
  BY DEF About, InboxFrame, Consistent, QueuedTypes
<1> HIDE DEF f
<1>3. m \notin unacked /\ m \notin Delivered /\ m \notin InHands /\ m \notin Answered
  BY <1>1 DEF Consistent, ComponentIsConsistent, Regular, EachInOnePlace
<1>4. /\ inbox' \in Seq(InboxFrame) /\ Kinds(inbox') = Kinds(inbox) \cup {"deliver"}
      /\ Delivered' = Delivered \cup {m} /\ NothingTwice(inbox')
  <2>1. Kinds(inbox \o <<f>>) = Kinds(inbox) \cup {f.kind}
    BY <1>2, KindsAppended
  <2>2. Messages(inbox \o <<f>>, {"deliver"})
          = Messages(inbox, {"deliver"}) \cup (IF f.kind \in {"deliver"} THEN {f.msg} ELSE {})
    BY <1>2, MessagesAppended
  <2>3. inbox' \in Seq(InboxFrame)
    BY <1>1, <1>2, Appending
  <2>4. NothingTwice(inbox) /\ m \notin Messages(inbox, {"deliver"})
    BY <1>3 DEF Regular, EachInOnePlace, Delivered
  <2>5. NothingTwice(inbox \o <<f>>)
    BY <1>2, <2>4, InboxGoesOn
  <2> QED  BY <1>1, <1>2, <2>1, <2>2, <2>3, <2>5 DEF Delivered
<1>5. Consistent'
  <2>1. /\ queue \subseteq Msg /\ unacked \subseteq Msg /\ queue \cap unacked = {} /\ wire' \in Seq(WireFrame)
        /\ consuming' \in BOOLEAN /\ copies' \in [Msg \X Part -> Nat]
    BY <1>1 DEF Consistent, QueuedTypes, ComponentIsConsistent
  <2>2. queue' \subseteq Msg /\ unacked' \subseteq Msg /\ queue' \cap unacked' = {}
    BY <1>1, <2>1
  <2> QED  BY <1>1, <1>4, <2>1, <2>2, BrokerIsConsistent
<1>6. /\ InHands' = InHands /\ InCallback' = InCallback /\ Answered' = Answered /\ (Shut' <=> Shut)
  BY <1>1 DEF InHands, InCallback, Answered, Shut
<1>7. Consumer(comp) /\ "consume" \notin Kinds(wire)
  BY <1>1 DEF Regular, ChannelsAgree, NotYetConsuming
<1>8. "closed" \notin Kinds(inbox) /\ "cancelled" \notin Kinds(inbox)
  BY <1>1 DEF Regular, ChannelsAgree
<1>9. ChannelsAgree'
  <2>1. NotYetConsuming'
    BY <1>1, <1>7 DEF NotYetConsuming
  <2>2. Kinds(inbox') \cap {"closed in", "closed out", "closed"} # {}
          => Kinds(inbox) \cap {"closed in", "closed out", "closed"} # {}
    BY <1>4
  <2>3. ("cancel ok" \in Kinds(inbox') => "cancel ok" \in Kinds(inbox))
        /\ "closed" \notin Kinds(inbox') /\ "cancelled" \notin Kinds(inbox')
    BY <1>4, <1>8
  <2>4. Kinds(wire') \cap {"close in", "close out", "close"} # {}
           \/ Kinds(inbox') \cap {"closed in", "closed out", "closed"} # {} => Shut'
    BY <1>1, <1>6, <2>2 DEF Regular, ChannelsAgree
  <2> QED  BY <1>1, <1>6, <1>7, <2>1, <2>3, <2>4 DEF Regular, ChannelsAgree
<1>10. EachInOnePlace'
  BY <1>1, <1>3, <1>4, <1>6 DEF Regular, EachInOnePlace
<1>11. Limits'
  <2>1. QueuedTypes /\ queue' \subseteq Msg /\ queue' \subseteq queue
    BY <1>1 DEF Consistent, QueuedTypes
  <2> QED  BY <1>1, <2>1, LimitsRemain
<1>12. CountsAgree'
  <2> SUFFICES ASSUME NEW n \in Msg, NEW p \in Part
               PROVE  /\ n \in unacked' /\ n \notin InHands' /\ n \notin Messages(wire', Settling) => Stale(n, p)'
                      /\ n \in InHands' /\ p > comp'.part => Stale(n, p)'
                      /\ CancelledByBroker' => Stale(n, p)'
                      /\ "cancelled" \in Kinds(inbox') =>
                           (n \in Delivered' \/ (n \in InHands' /\ p > comp'.part) => Count(<<n, p>>)' + 1 <= breakdowns')
    BY DEF CountsAgree
  <2>1. (Stale(n, p)' <=> Stale(n, p)) /\ comp' = comp
    BY <1>1 DEF Stale, Count
  <2>2. CancelledByBroker' => CancelledByBroker
    BY <1>1, <1>4, <1>6 DEF CancelledByBroker
  <2>3. "cancelled" \notin Kinds(inbox')
    BY <1>4, <1>8
  <2>4. n = m => Stale(n, p)
    BY <1>1 DEF Limits
  <2> HIDE DEF Stale, CancelledByBroker
  <2> QED  BY <1>1, <1>6, <2>1, <2>2, <2>3, <2>4 DEF Regular, CountsAgree
<1> QED
  BY <1>5, <1>9, <1>10, <1>11, <1>12 DEF Regular

-----------------------------------------------------------------------------
(* Losing the connection, and starting again *)

LEMMA DisconnectKeeps ==
  ASSUME Consistent, Limits, Disconnect, EventsGoOn, comp' \in ComponentState, Sound(comp'),
         inbox' \in Seq(InboxFrame),
         \A m \in unacked : breakdowns' >= breakdowns + 1 \/ \A p \in Part : Stale(m, p)
  PROVE  Consistent' /\ Limits' /\ link' = "down"
<1>1. /\ link' = "down" /\ wire' = <<>> /\ queue' = queue \cup unacked /\ unacked' = {}
      /\ consuming' = FALSE /\ UNCHANGED <<dead, copies>>
  BY DEF Disconnect
<1>2. queue' \subseteq Msg /\ <<>> \in Seq(WireFrame)
  BY <1>1 DEF Consistent, QueuedTypes
<1>3. Consistent'
  BY <1>1, <1>2 DEF Consistent, QueuedTypes, ComponentIsConsistent, EventsGoOn
<1>4. Limits'
  <2>1. QueuedTypes /\ Outputs(wire') \subseteq Outputs(wire)
    BY <1>1, NothingOnAnEmptyWire DEF Consistent
  <2>2. \A m \in queue' : m \in queue \/ breakdowns' >= breakdowns + 1 \/ \A p \in Part : Stale(m, p)
    BY <1>1
  <2> QED  BY <1>1, <1>2, <2>1, <2>2, LimitsRemain
<1> QED
  BY <1>1, <1>3, <1>4

LEMMA CollapseKeeps ==
  ASSUME Consistent, Limits, Collapse, EventsGoOn, inbox' \in Seq(InboxFrame),
         \A m \in unacked : breakdowns' >= breakdowns + 1 \/ \A p \in Part : Stale(m, p)
  PROVE  Consistent' /\ Limits' /\ link' = "down"
BY FreshStates, DisconnectKeeps DEF Collapse

LEMMA AllIsStale ==
  ASSUME CountsInvariant, CancelledByBroker \/ (link = "up" /\ "closed" \in Kinds(inbox)),
         NEW m \in unacked, NEW p \in Part
  PROVE  Stale(m, p)
<1>1. m \in Msg /\ link = "up"
  BY DEF CountsInvariant, Consistent, QueuedTypes, ComponentIsConsistent
<1>2. CASE Regular
  BY <1>1, <1>2 DEF Regular, ChannelsAgree, CountsAgree
<1>3. CASE Interrupted
  <2>1. Outputs(wire) = {} /\ copies[<<m, p>>] <= breakdowns /\ copies[<<m, p>>] \in Nat
    BY <1>1, <1>3 DEF Interrupted, CountsInvariant, Consistent, QueuedTypes
  <2>2. Count(<<m, p>>) = copies[<<m, p>>]
    BY <2>1 DEF Count
  <2> QED  BY <2>1, <2>2 DEF Stale
<1> QED
  BY <1>1, <1>2, <1>3 DEF CountsInvariant

LEMMA BreakingKeeps ==
  ASSUME CountsInvariant, inbox' = inbox, EventsGoOn, breakdowns' = breakdowns + 1,
         Collapse \/ (Disconnect /\ comp' = comp)
  PROVE  CountsInvariant'
<1>1. /\ Consistent /\ Limits /\ inbox' \in Seq(InboxFrame) /\ comp \in ComponentState /\ Sound(comp)
      /\ breakdowns \in Nat
  BY DEF CountsInvariant, Consistent, QueuedTypes, ComponentIsConsistent
<1>3. breakdowns' >= breakdowns + 1
  BY <1>1
<1>2. Consistent' /\ Limits' /\ link' = "down"
  BY <1>1, <1>3, CollapseKeeps, DisconnectKeeps
<1> QED
  BY <1>2 DEF CountsInvariant

LEMMA EndingKeeps ==
  ASSUME CountsInvariant, CollapsesSilently \/ EndsOnFrame
  PROVE  CountsInvariant'
<1>1. /\ Collapse /\ EventsGoOn /\ inbox' \in Seq(InboxFrame) /\ Consistent /\ Limits
      /\ CancelledByBroker \/ (link = "up" /\ "closed" \in Kinds(inbox))
  BY DEF CollapsesSilently, EndsOnFrame, CountsInvariant, Consistent, QueuedTypes
<1>2. Consistent' /\ Limits' /\ link' = "down"
  BY <1>1, AllIsStale, CollapseKeeps
<1> QED
  BY <1>2 DEF CountsInvariant

LEMMA NoticeLossKeeps == CountsInvariant /\ NoticeLoss => CountsInvariant'
<1> SUFFICES ASSUME CountsInvariant, NoticeLoss  PROVE CountsInvariant'
  OBVIOUS
<1>1. /\ link = "down" /\ comp' = Down /\ UNCHANGED <<link, wire, inbox, queue, unacked, consuming, dead, copies>>
      /\ UNCHANGED <<events, breakdowns>>
  BY DEF NoticeLoss, broker, Counts
<1>2. Consistent'
  BY <1>1, FreshStates DEF CountsInvariant, Consistent, QueuedTypes, ComponentIsConsistent
<1>3. Limits'
  BY <1>1 DEF CountsInvariant, Limits, Stale, Count
<1> QED
  BY <1>1, <1>2, <1>3 DEF CountsInvariant

LEMMA NothingInAnEmptyInbox == NothingTwice(<<>>) /\ <<>> \in Seq(InboxFrame)
BY DEF NothingTwice

LEMMA RestartKeeps == CountsInvariant /\ Restart => CountsInvariant'
<1> SUFFICES ASSUME CountsInvariant, Restart  PROVE CountsInvariant'
  OBVIOUS
<1>1. /\ comp.at = "down" /\ comp' = Fresh /\ link' = "up" /\ inbox' = <<>>
      /\ UNCHANGED <<wire, queue, unacked, consuming, dead, copies, events, breakdowns>>
  BY DEF Restart, broker, Counts
<1>2. wire = <<>> /\ unacked = {} /\ ~consuming
  BY <1>1 DEF CountsInvariant, Consistent, ComponentIsConsistent
<1>3. /\ Fresh.at = "loop" /\ Fresh.chanIn = "none" /\ Fresh.phase = 0 /\ Fresh.closing = FALSE
      /\ Fresh.bound = 0
  BY DEF Fresh
<1>4. Consistent'
  BY <1>1, <1>2, <1>3, FreshStates, NothingInAnEmptyInbox DEF CountsInvariant, Consistent, QueuedTypes, ComponentIsConsistent
<1>5. Limits'
  BY <1>1 DEF CountsInvariant, Limits, Stale, Count
<1>6. /\ Kinds(wire') = {} /\ Outputs(wire') = {} /\ Answered' = {} /\ Unanswered(wire') = {}
      /\ Messages(wire', Settling) = {} /\ InOrder(wire') /\ Kinds(inbox') = {} /\ Delivered' = {}
  BY <1>1, <1>2, NothingOnAnEmptyWire DEF Answered, Delivered
<1>7. InHands' = {} /\ ~InCallback' /\ ~Shut' /\ ~comp'.closing /\ ~CancelledByBroker'
  BY <1>1, <1>3, <1>6 DEF InHands, InCallback, Shut, CancelledByBroker
<1>8. ChannelsAgree'
  BY <1>1, <1>2, <1>6, <1>7 DEF ChannelsAgree, NotYetConsuming, InOrder
<1>9. EachInOnePlace'
  BY <1>1, <1>2, <1>6, <1>7, NothingInAnEmptyInbox DEF EachInOnePlace, InOrder
<1>10. CountsAgree'
  BY <1>1, <1>2, <1>6, <1>7 DEF CountsAgree
<1> QED
  BY <1>1, <1>4, <1>5, <1>8, <1>9, <1>10 DEF CountsInvariant, Regular

-----------------------------------------------------------------------------
(* Each kind of step keeps the invariant. *)

(* Nothing is published, and the queue stays as it is or the state is
   regular. *)
LEMMA MovingKeeps ==
  ASSUME CountsInvariant, Consistent', EventsGoOn, Outputs(wire') \subseteq Outputs(wire),
         UNCHANGED <<link, queue, copies>>, comp.closing => comp'.closing,
         link = "up" /\ Regular => Regular'
  PROVE  CountsInvariant'
<1>1. QueuedTypes /\ Consistent /\ Limits /\ queue' \subseteq Msg
  BY DEF CountsInvariant, Consistent, QueuedTypes
<1>2. Limits'
  BY <1>1, LimitsRemain
<1>3. ASSUME Interrupted  PROVE Interrupted'
  BY <1>1, <1>3, InterruptedRemains DEF Interrupted
<1> QED
  BY <1>2, <1>3 DEF CountsInvariant

LEMMA QuietKeeps == CountsInvariant /\ Quiet => CountsInvariant'
<1> SUFFICES ASSUME CountsInvariant, NEW K \in SUBSET Control, Still(K), Regular /\ link = "up" => Proper(K)
             PROVE  CountsInvariant'
  BY DEF Quiet
<1>1. /\ Consistent /\ Consistent' /\ Outputs(wire') = Outputs(wire) /\ EventsGoOn
      /\ UNCHANGED <<link, queue, unacked, consuming, copies>>
  BY StillIsConsistent DEF CountsInvariant
<1>2. link = "up" /\ Regular => Regular'
  BY <1>1, QuietKeepsRegular
<1>3. comp.closing => comp'.closing
  BY DEF Still
<1> QED
  BY <1>1, <1>2, <1>3, MovingKeeps

LEMMA StopsTooEarlyKeeps == CountsInvariant /\ StopsTooEarly => CountsInvariant'
<1> SUFFICES ASSUME CountsInvariant, StopsTooEarly, NEW K \in SUBSET Control, Still(K)  PROVE CountsInvariant'
  BY DEF StopsTooEarly
<1>1. /\ Consistent /\ Limits /\ Consistent' /\ Outputs(wire') = Outputs(wire) /\ EventsGoOn
      /\ UNCHANGED <<link, queue, unacked, consuming, copies>>
  BY StillIsConsistent DEF CountsInvariant
<1>2. QueuedTypes /\ queue' \subseteq Msg
  BY <1>1 DEF Consistent, QueuedTypes
<1>3. Limits'
  BY <1>1, <1>2, LimitsRemain
<1>4. ASSUME link = "up"  PROVE Interrupted'
  <2>1. Outputs(wire) = {}
    <3>0. comp.bound = 0
      BY <1>1 DEF StopsTooEarly, Consistent, ComponentIsConsistent, Sound
    <3>4. 0 # Bindings + 1
      BY PartNumbers
    <3>1. ~Consumer(comp)
      BY <3>0, <3>4 DEF Consumer
    <3>2. CASE Regular
      BY <3>1, <3>2 DEF Regular, ChannelsAgree, NotYetConsuming
    <3> QED  BY <1>4, <3>2 DEF CountsInvariant, Interrupted
  <2>2. ASSUME NEW x \in Msg \X Part  PROVE copies'[x] <= breakdowns'
    <3>1. PICK m \in Msg, p \in Part : x = <<m, p>>
      OBVIOUS
    <3>2. Count(<<m, p>>) = copies[x] /\ Count(<<m, p>>) <= 1 + breakdowns
      BY <1>1, <2>1, <3>1, CountIsNumber DEF Count, Limits, QueuedTypes, Consistent
    <3>3. breakdowns \in Nat /\ copies[x] \in Nat /\ breakdowns' = breakdowns + 1 /\ copies' = copies
      BY <1>1, <1>2 DEF QueuedTypes, StopsTooEarly
    <3> QED  BY <3>2, <3>3
  <2> QED  BY <1>1, <2>1, <2>2 DEF Interrupted, StopsTooEarly
<1> QED
  BY <1>1, <1>3, <1>4 DEF CountsInvariant, StopsTooEarly

LEMMA AnswerKeeps ==
  ASSUME CountsInvariant, NEW m \in Msg, NEW kind \in Answer, NEW K, Answering(m, kind, K),
         inbox' \in Seq(InboxFrame), link = "up" /\ Regular => Regular'
  PROVE  CountsInvariant'
<1>1. /\ Consistent /\ Consistent' /\ Outputs(wire') = Outputs(wire)
      /\ UNCHANGED <<link, queue, unacked, consuming, copies>>
  BY AnsweringIsConsistent DEF CountsInvariant
<1>2. EventsGoOn /\ (comp.closing => comp'.closing)
  BY DEF Answering
<1> QED
  BY <1>1, <1>2, MovingKeeps

LEMMA SettlingKeeps == CountsInvariant /\ (Acknowledge \/ Reject) => CountsInvariant'
<1> SUFFICES ASSUME CountsInvariant, Acknowledge \/ Reject  PROVE CountsInvariant'
  OBVIOUS
<1>1. PICK kind \in Settling : Proceed(EndMessage(comp), <<About(kind, comp.hand)>>)
  BY DEF Acknowledge, Reject, Settling
<1>2. InCallback /\ UNCHANGED <<inbox, Counts>> /\ kind \in Answer /\ kind # "requeue" /\ Consistent /\ Limits
  BY <1>1 DEF Acknowledge, Reject, Settling, Answer, CountsInvariant
<1>3. PICK K \in SUBSET Farewell : Answering(comp.hand, kind, K)
  BY <1>1, <1>2, EndingTheMessage
<1>4. PICK m \in Msg : m = comp.hand
  BY <1>2 DEF Consistent, ComponentIsConsistent, Sound, InCallback
<1>5. link = "up" /\ Regular => Regular'
  BY <1>2, <1>3, <1>4, CallbackAnswerKeepsRegular
<1>6. inbox' \in Seq(InboxFrame)
  BY <1>2 DEF Consistent, QueuedTypes
<1> QED
  BY <1>2, <1>3, <1>4, <1>5, <1>6, AnswerKeeps

LEMMA InterruptInCallbackKeeps == CountsInvariant /\ InterruptInCallback => CountsInvariant'
<1> SUFFICES ASSUME CountsInvariant, InterruptInCallback  PROVE CountsInvariant'
  OBVIOUS
<1>1. InCallback /\ Consistent /\ Limits /\ "requeue" \in Answer
  BY DEF InterruptInCallback, CountsInvariant, Answer
<1>2. PICK K \in SUBSET Farewell : Answering(comp.hand, "requeue", K)
  BY <1>1, InterruptingTheMessage
<1>3. inbox' = inbox /\ breakdowns' = breakdowns + 1
  BY <1>1, InterruptingTheMessage
<1>4. PICK m \in Msg : m = comp.hand
  BY <1>1 DEF Consistent, ComponentIsConsistent, Sound, InCallback
<1>5. link = "up" /\ Regular => Regular'
  BY <1>1, <1>2, <1>3, <1>4, CallbackAnswerKeepsRegular
<1>6. inbox' \in Seq(InboxFrame)
  BY <1>1, <1>3 DEF Consistent, QueuedTypes
<1> QED
  BY <1>1, <1>2, <1>4, <1>5, <1>6, AnswerKeeps

LEMMA OnDeliverKeeps == CountsInvariant /\ OnDeliver => CountsInvariant'
<1> SUFFICES ASSUME CountsInvariant, OnDeliver  PROVE CountsInvariant'
  OBVIOUS
<1>0. Consistent /\ Limits
  BY DEF CountsInvariant
<1>1. PICK m : m = Head(inbox).msg
  OBVIOUS
<1>2. /\ m \in Msg /\ link = "up" /\ comp.at = "loop" /\ UNCHANGED <<link, broker>> /\ EventsGoOn
      /\ UNCHANGED Counts
      /\ inbox \in Seq(InboxFrame) /\ inbox # <<>> /\ inbox' = Tail(inbox) /\ inbox' \in Seq(InboxFrame)
      /\ Head(inbox).kind = "deliver" /\ Head(inbox).msg = m
      /\ Begins(m) \/ Passes \/ Answering(m, "requeue", {})
  BY <1>0, <1>1, DeliveryIsHandled
<1>3. ASSUME Regular
      PROVE  /\ m \in Delivered /\ Delivered' = Delivered \ {m} /\ NothingTwice(inbox')
             /\ Kinds(inbox') \subseteq Kinds(inbox)
  <2>1. NothingTwice(inbox)
    BY <1>3 DEF Regular, EachInOnePlace
  <2> QED  BY <1>2, <2>1, DeliveryTaken
<1>4. UNCHANGED <<queue, unacked, consuming, copies>> /\ breakdowns' = breakdowns
  BY <1>2 DEF broker, Counts
<1>5. CASE Begins(m) \/ Passes
  <2>1. /\ wire \in Seq(WireFrame) /\ Sends({}) /\ comp \in ComponentState /\ Sound(comp)
    BY <1>0, <1>5 DEF Begins, Passes, Consistent, QueuedTypes, ComponentIsConsistent
  <2>2. wire' \in Seq(WireFrame) /\ Outputs(wire') = Outputs(wire)
    BY <1>2, <2>1, SendingNothingChangesNothing
  <2>3. comp' \in ComponentState /\ Sound(comp') /\ comp'.at # "down" /\ comp'.closing = comp.closing
    <3>1. CASE Passes
      BY <1>2, <2>1, <3>1 DEF Passes
    <3>2. CASE Begins(m)
      <4>1. 0 \in 0 .. Parts
        BY PartNumbers
      <4>2. /\ comp' \in ComponentState /\ comp'.at = "callback" /\ comp'.closing = comp.closing
            /\ comp'.hand = m /\ comp'.chanIn = "open"
        BY <1>2, <2>1, <3>2, <4>1 DEF Begins, BeginMessage, ComponentState
      <4>3. Sound(comp')
        BY <1>2, <4>2 DEF Sound
      <4> QED  BY <4>2, <4>3
    <3> QED  BY <1>5, <3>1, <3>2
  <2>4. Consistent'
    BY <1>0, <1>2, <2>2, <2>3, MovesAreConsistent
  <2>5. Regular => Regular'
    BY <1>0, <1>2, <1>3, <1>4, <1>5, <2>4, PassingKeepsRegular, BeginningKeepsRegular
  <2> QED  BY <1>2, <1>4, <2>2, <2>3, <2>4, <2>5, MovingKeeps
<1>6. CASE Answering(m, "requeue", {})
  <2>1. "requeue" \in Answer /\ {} \in SUBSET Farewell
    BY DEF Answer
  <2>2. Consistent' /\ Outputs(wire') = Outputs(wire)
    BY <1>0, <1>2, <1>6, <2>1, AnsweringIsConsistent
  <2>3. ASSUME Regular  PROVE Regular'
    <3>1. InHands = {} /\ InHands' = {} /\ ~InCallback'
      BY <1>2, <1>6 DEF InHands, InCallback, Answering
    <3>2. comp.chanIn = "open" /\ ~comp.closing
      BY <1>6, <2>3 DEF Answering, Regular, ChannelsAgree, Shut
    <3>3. m \in unacked /\ m \notin Answered
      BY <1>3, <2>3, <3>2 DEF Regular, EachInOnePlace
    <3>4. m \notin Messages(wire, Settling)
      BY <3>3 DEF Answered, Messages, Settling, Answer
    <3>5. ASSUME NEW p \in Part  PROVE Stale(m, p)'
      <4>1. Stale(m, p)
        BY <1>2, <2>3, <3>1, <3>3, <3>4 DEF Regular, CountsAgree
      <4>2. Count(<<m, p>>)' = Count(<<m, p>>)
        BY <1>4, <2>2 DEF Count
      <4> QED  BY <1>4, <4>1, <4>2 DEF Stale
    <3>6. GoesOn(wire \o <<About("requeue", m)>>, wire', {})
      BY <1>2, <1>6 DEF Answering
    <3>7. /\ comp'.bound = comp.bound /\ (comp'.closing => Shut') /\ (Shut' => comp'.closing)
          /\ (comp.closing => comp'.closing)
          /\ (comp.phase \in {3, 4} => comp'.closing \/ comp'.phase \in {3, 4})
      BY <1>6, <3>2 DEF Answering
    <3>8. m \in InHands \cup Delivered /\ InHands \subseteq {m} /\ Delivered' = Delivered \ {m}
          /\ NothingTwice(inbox') /\ Kinds(inbox') \subseteq Kinds(inbox)
      BY <1>3, <2>3, <3>1
    <3> QED
      BY <1>0, <1>2, <1>4, <2>1, <2>2, <2>3, <3>1, <3>2, <3>5, <3>6, <3>7, <3>8, AnswerKeepsRegular
  <2> QED  BY <1>2, <1>6, <2>1, <2>3, AnswerKeeps
<1> QED
  BY <1>2, <1>5, <1>6

LEMMA PublishKeeps == CountsInvariant /\ Publish => CountsInvariant'
<1> SUFFICES ASSUME CountsInvariant, Publish  PROVE CountsInvariant'
  OBVIOUS
<1>0. Consistent /\ Limits /\ ~comp.closing
  BY DEF CountsInvariant, Publish, CanPublish
<1>1. CASE link = "up"
  <2>1. Regular
    BY <1>0, <1>1 DEF CountsInvariant, Interrupted
  <2> QED  BY <1>0, <1>1, <2>1, PublishKeepsRegular DEF CountsInvariant
<1>2. CASE link # "up"
  <2>1. wire' = <<>> /\ wire = <<>>
    BY <1>0, <1>2 DEF Publish, Goes, Send, Consistent, ComponentIsConsistent, QueuedTypes
  <2>2. /\ comp' = [comp EXCEPT !.part = @ + 1] /\ UNCHANGED <<link, broker>> /\ inbox' = inbox /\ UNCHANGED Counts
        /\ comp \in ComponentState /\ Sound(comp) /\ comp.part < Parts
    BY <1>0 DEF Publish, Goes, Consistent, QueuedTypes, ComponentIsConsistent, broker
  <2>3. comp.part + 1 \in 0 .. Parts
    BY <2>2, PartNumbers DEF ComponentState
  <2>4. /\ comp' \in ComponentState /\ comp'.at = comp.at /\ comp'.hand = comp.hand /\ comp'.phase = comp.phase
        /\ comp'.chanIn = comp.chanIn /\ comp'.bound = comp.bound /\ comp'.polling = comp.polling
    BY <2>2, <2>3 DEF ComponentState
  <2>5. Sound(comp') /\ comp'.at # "down" /\ EventsGoOn /\ inbox' \in Seq(InboxFrame)
    BY <1>0, <2>2, <2>4, EventsPass DEF Sound, Publish, InCallback, Consistent, QueuedTypes
  <2>6. Consistent' /\ UNCHANGED <<link, queue, unacked, consuming, copies>>
    BY <1>0, <1>2, <2>1, <2>2, <2>4, <2>5, MovesAreConsistent
  <2> QED
    BY <1>0, <1>2, <2>1, <2>5, <2>6, MovingKeeps
<1> QED
  BY <1>1, <1>2

(* The broker's steps other than taking an output, whatever the state *)
LEMMA BrokerStepsAreConsistent ==
  ASSUME Consistent,
         \/ BrokerTakesAnswer \/ BrokerTakesConsume \/ BrokerTakesCancel \/ BrokerTakesClose
         \/ BrokerTakesCloseOutput \/ CancelConsumer \/ \E m \in Msg : Deliver(m)
  PROVE  /\ Consistent' /\ EventsGoOn /\ link = "up" /\ UNCHANGED <<comp, link, copies>>
         /\ Outputs(wire') \subseteq Outputs(wire)
<1>0. /\ queue \subseteq Msg /\ unacked \subseteq Msg /\ queue \cap unacked = {} /\ consuming \in BOOLEAN
      /\ copies \in [Msg \X Part -> Nat] /\ wire \in Seq(WireFrame) /\ inbox \in Seq(InboxFrame)
  BY DEF Consistent, QueuedTypes, ComponentIsConsistent
<1>1. ASSUME NEW kind, BrokerTakes(kind)
      PROVE  /\ link = "up" /\ wire' \in Seq(WireFrame) /\ UNCHANGED <<comp, link, Counts>> /\ EventsGoOn
             /\ Outputs(wire') \subseteq Outputs(wire)
  <2>1. /\ link = "up" /\ wire' \in Seq(WireFrame) /\ UNCHANGED <<comp, link, Counts>> /\ EventsGoOn
        /\ Outputs(wire) = Outputs(wire') \cup (IF kind = "output" THEN {Head(wire)} ELSE {})
    BY <1>1, BrokerTaking
  <2> QED  BY <2>1
<1>2. ASSUME NEW f \in InboxFrame, Reply(<<f>>)  PROVE inbox' \in Seq(InboxFrame)
  BY <1>0, <1>2, Appending DEF Reply
<1>3. CASE BrokerTakesAnswer
  <2>1. PICK kind \in Answer :
          /\ BrokerTakes(kind)
          /\ LET m == {Head(wire).msg} \cap unacked
             IN  /\ unacked' = unacked \ m
                 /\ queue' = IF kind = "requeue" THEN queue \cup m ELSE queue
    BY <1>3 DEF BrokerTakesAnswer, Answer
  <2>2. UNCHANGED <<inbox, consuming, copies>>
    BY <1>3 DEF BrokerTakesAnswer
  <2>3. queue' \subseteq Msg /\ unacked' \subseteq Msg /\ queue' \cap unacked' = {}
    BY <1>0, <2>1
  <2> QED  BY <1>0, <1>1, <2>1, <2>2, <2>3, BrokerIsConsistent
<1>4. CASE BrokerTakesConsume \/ BrokerTakesCancel \/ BrokerTakesCloseOutput
  <2>1. /\ \E kind : BrokerTakes(kind)
        /\ UNCHANGED <<queue, unacked, copies>> /\ consuming' \in BOOLEAN
    BY <1>0, <1>4 DEF BrokerTakesConsume, BrokerTakesCancel, BrokerTakesCloseOutput, broker
  <2>2. inbox' \in Seq(InboxFrame)
    BY <1>0, <1>2, <1>4, ReplyFrames DEF BrokerTakesConsume, BrokerTakesCancel, BrokerTakesCloseOutput
  <2> QED  BY <1>0, <1>1, <2>1, <2>2, BrokerIsConsistent
<1>5. CASE BrokerTakesClose
  <2>1. /\ \E kind : BrokerTakes(kind)
        /\ queue' = queue \cup unacked /\ unacked' = {} /\ copies' = copies /\ consuming' = FALSE
    BY <1>5 DEF BrokerTakesClose
  <2>2. inbox' \in Seq(InboxFrame)
    BY <1>2, <1>5, ReplyFrames DEF BrokerTakesClose
  <2>3. queue' \subseteq Msg /\ unacked' \subseteq Msg /\ queue' \cap unacked' = {} /\ consuming' \in BOOLEAN
    BY <1>0, <2>1
  <2> QED  BY <1>0, <1>1, <2>1, <2>2, <2>3, BrokerIsConsistent
<1>6. CASE CancelConsumer
  <2>1. /\ link = "up" /\ consuming' = FALSE /\ Reply(<<Frame("cancelled")>>)
        /\ UNCHANGED <<comp, link, wire, queue, unacked, copies>> /\ EventsGoOn
    BY <1>6, EventsPass DEF CancelConsumer, Consistent
  <2>2. inbox' \in Seq(InboxFrame)
    BY <1>2, <2>1, ReplyFrames
  <2> QED  BY <1>0, <2>1, <2>2, BrokerIsConsistent
<1>7. ASSUME NEW m \in Msg, Deliver(m)
      PROVE  /\ Consistent' /\ EventsGoOn /\ link = "up" /\ UNCHANGED <<comp, link, copies>>
             /\ Outputs(wire') \subseteq Outputs(wire)
  <2>1. /\ link = "up" /\ queue' = queue \ {m} /\ unacked' = unacked \cup {m} /\ Reply(<<About("deliver", m)>>)
        /\ UNCHANGED <<comp, link, wire, consuming, copies, Counts>> /\ EventsGoOn
    BY <1>7, EventsPass DEF Deliver, Consistent, Counts
  <2>2. About("deliver", m) \in InboxFrame
    BY DEF About, InboxFrame
  <2>3. inbox' \in Seq(InboxFrame)
    BY <1>2, <2>1, <2>2
  <2>4. queue' \subseteq Msg /\ unacked' \subseteq Msg /\ queue' \cap unacked' = {}
    BY <1>0, <2>1
  <2> QED  BY <1>0, <2>1, <2>3, <2>4, BrokerIsConsistent
<1> QED
  BY <1>3, <1>4, <1>5, <1>6, <1>7

LEMMA BrokerKeeps ==
  CountsInvariant /\ (BrokerSteps \/ CancelConsumer \/ \E m \in Msg : Deliver(m)) => CountsInvariant'
<1> SUFFICES ASSUME CountsInvariant, BrokerSteps \/ CancelConsumer \/ \E m \in Msg : Deliver(m)
             PROVE  CountsInvariant'
  OBVIOUS
<1>0. Consistent /\ Limits
  BY DEF CountsInvariant
<1>1. link = "up"
  BY DEF BrokerSteps, BrokerTakesOutput, BrokerTakesAnswer, BrokerTakesConsume, BrokerTakesCancel,
         BrokerTakesClose, BrokerTakesCloseOutput, BrokerTakes, CancelConsumer, Deliver
<1>2. CASE Regular
  <2>1. CASE BrokerTakesAnswer
    <3>1. PICK kind \in Answer :
            /\ BrokerTakes(kind)
            /\ LET m == {Head(wire).msg} \cap unacked
               IN  /\ unacked' = unacked \ m
                   /\ queue' = IF kind = "requeue" THEN queue \cup m ELSE queue
      BY <2>1 DEF BrokerTakesAnswer, Answer
    <3>2. UNCHANGED <<inbox, consuming, copies>>
      BY <2>1 DEF BrokerTakesAnswer
    <3>3. PICK m : m = Head(wire).msg
      OBVIOUS
    <3>4. Consistent' /\ Limits' /\ Regular'
      BY <1>0, <1>2, <3>1, <3>2, <3>3, BrokerTakesAnswerKeeps
    <3> QED  BY <3>4 DEF CountsInvariant
  <2>2. (Consistent' /\ Limits' /\ Regular') \/ BrokerTakesAnswer
    BY <1>0, <1>2, BrokerTakesOutputKeeps, BrokerTakesConsumeKeeps, BrokerClosesKeeps, CancelConsumerKeeps,
       DeliverKeeps DEF BrokerSteps
  <2> QED  BY <2>1, <2>2 DEF CountsInvariant
<1>3. CASE "early interrupt" \in Events /\ Interrupted
  <2>1. ~BrokerTakesOutput
    <3> SUFFICES ASSUME BrokerTakesOutput  PROVE FALSE
      OBVIOUS
    <3>1. Outputs(wire) = Outputs(wire') \cup (IF "output" = "output" THEN {Head(wire)} ELSE {})
      BY <1>0, BrokerTaking DEF BrokerTakesOutput
    <3> QED  BY <1>3, <3>1 DEF Interrupted
  <2>2. /\ Consistent' /\ EventsGoOn /\ UNCHANGED <<comp, link, copies>>
        /\ Outputs(wire') \subseteq Outputs(wire)
    BY <1>0, <2>1, BrokerStepsAreConsistent DEF BrokerSteps
  <2>3. comp'.closing /\ QueuedTypes /\ queue' \subseteq Msg
    BY <1>0, <1>3, <2>2 DEF Interrupted, Consistent, QueuedTypes
  <2>4. Interrupted' /\ Limits'
    BY <1>3, <2>2, <2>3, InterruptedRemains
  <2> QED  BY <1>3, <2>2, <2>4 DEF CountsInvariant
<1> QED
  BY <1>1, <1>2, <1>3 DEF CountsInvariant

-----------------------------------------------------------------------------
LEMMA CountsInvariantInitially == QueuedInit => CountsInvariant
<1> SUFFICES ASSUME QueuedInit  PROVE CountsInvariant
  OBVIOUS
<1>1. /\ comp = Down /\ link = "down" /\ wire = <<>> /\ inbox = <<>> /\ queue = Msg /\ unacked = {}
      /\ consuming = FALSE /\ copies = [x \in Msg \X Part |-> 0] /\ events = 0 /\ breakdowns = 0
  BY DEF QueuedInit
<1>2. Down.at = "down" /\ <<>> \in Seq(WireFrame)
  BY DEF Down, Fresh
<1>3. Consistent
  BY <1>1, <1>2, FreshStates, NothingInAnEmptyInbox DEF Consistent, QueuedTypes, ComponentIsConsistent
<1>4. Limits
  <2>1. ASSUME NEW m \in Msg, NEW p \in Part  PROVE Count(<<m, p>>) = 0
    BY <1>1, NothingOnAnEmptyWire DEF Count
  <2>2. ASSUME NEW m \in Msg, NEW p \in Part
        PROVE  Count(<<m, p>>) <= 1 + breakdowns /\ Stale(m, p)
    <3> HIDE DEF Count
    <3> QED  BY <1>1, <2>1 DEF Stale
  <2> QED  BY <2>2 DEF Limits
<1> QED
  BY <1>1, <1>3, <1>4 DEF CountsInvariant

LEMMA ComponentKeeps == CountsInvariant /\ (ComponentSteps \/ ComponentTimers) => CountsInvariant'
<1> SUFFICES ASSUME CountsInvariant, ComponentSteps \/ ComponentTimers  PROVE CountsInvariant'
  OBVIOUS
<1>1. Consistent
  BY DEF CountsInvariant
<1>2. CASE \/ OpenInput \/ OnBindOk \/ OpenOutput \/ OnOutputExchangeDeclared \/ OnCancelOk
           \/ OnInputChannelClosed \/ OnOutputChannelClosed \/ InputHasShutDown \/ OutputIsFlushed
  <2>1. Quiet
    BY <1>1, <1>2, OpenInputIsQuiet, OnBindOkIsQuiet, OpenOutputIsQuiet, OnCancelOkIsQuiet,
       OnInputChannelClosedIsQuiet, OnOutputChannelClosedIsQuiet, InputHasShutDownIsQuiet, OutputIsFlushedIsQuiet
  <2> QED  BY <2>1, QuietKeeps
<1>3. CASE OnConsumerCancelled \/ OnConnectionClosed
  <2>1. Quiet \/ EndsOnFrame
    BY <1>1, <1>3, OnConsumerCancelledIsQuiet, OnConnectionClosedEnds
  <2> QED  BY <2>1, QuietKeeps, EndingKeeps
<1>4. CASE Publish \/ Acknowledge \/ Reject \/ OnDeliver \/ Restart \/ NoticeLoss
  BY <1>4, PublishKeeps, SettlingKeeps, OnDeliverKeeps, RestartKeeps, NoticeLossKeeps
<1> QED
  BY <1>2, <1>3, <1>4 DEF ComponentSteps, ComponentTimers

LEMMA DisturbanceKeeps == CountsInvariant /\ Disturbance => CountsInvariant'
<1> SUFFICES ASSUME CountsInvariant, Disturbance  PROVE CountsInvariant'
  OBVIOUS
<1>1. Consistent
  BY DEF CountsInvariant
<1>2. CASE TriggerGracefulStop \/ Interrupt
  <2>1. Quiet \/ CollapsesSilently \/ Breaks \/ StopsTooEarly
    BY <1>1, <1>2, TriggerIsQuiet, InterruptIsQuiet
  <2>2. Breaks => CountsInvariant'
    BY BreakingKeeps DEF Breaks
  <2> QED  BY <2>1, <2>2, QuietKeeps, EndingKeeps, StopsTooEarlyKeeps
<1>3. CASE ExitInCallback \/ Kill \/ LoseConnection
  <2>1. /\ inbox' = inbox /\ breakdowns' = breakdowns + 1
        /\ Collapse \/ (Disconnect /\ comp' = comp)
    BY <1>3 DEF ExitInCallback, Kill, LoseConnection, Happens
  <2>2. EventsGoOn
    BY <1>1, <1>3, EventsPass DEF ExitInCallback, Kill, LoseConnection, Consistent
  <2> QED  BY <2>1, <2>2, BreakingKeeps
<1> QED
  BY <1>2, <1>3, InterruptInCallbackKeeps, BrokerKeeps DEF Disturbance

LEMMA CountsInvariantStep == CountsInvariant /\ [QueuedNext]_vars => CountsInvariant'
<1> SUFFICES ASSUME CountsInvariant, [QueuedNext]_vars  PROVE CountsInvariant'
  OBVIOUS
<1>1. CASE QueuedNext
  BY <1>1, ComponentKeeps, BrokerKeeps, DisturbanceKeeps DEF QueuedNext
<1>2. CASE UNCHANGED vars
  <2>1. UNCHANGED <<comp, link, wire, inbox, queue, unacked, consuming, dead, copies, events, breakdowns>>
    BY <1>2 DEF vars, broker
  <2>0. events \in Nat /\ breakdowns \in Nat
    BY DEF CountsInvariant, Consistent, QueuedTypes
  <2>4. EventsGoOn
    BY <2>0, <2>1 DEF EventsGoOn
  <2>2. Consistent'
    BY <2>1 DEF CountsInvariant, Consistent, QueuedTypes, ComponentIsConsistent
  <2>3. Regular => Regular'
    <3>1. ChannelsAgree => ChannelsAgree'
      BY <2>1 DEF ChannelsAgree, NotYetConsuming, InCallback, Delivered, Answered, Shut
    <3>2. EachInOnePlace => EachInOnePlace'
      BY <2>1 DEF EachInOnePlace, InHands, InCallback, Delivered, Answered
    <3>3. CountsAgree => CountsAgree'
      BY ZenonT(60), <2>1 DEF CountsAgree, Stale, Count, InHands, InCallback, Delivered, Shut, CancelledByBroker
    <3> QED  BY <3>1, <3>2, <3>3 DEF Regular
  <2> QED  BY <2>1, <2>2, <2>3, <2>4, MovingKeeps
<1> QED  BY <1>1, <1>2

LEMMA CountsInvariantHolds == QueuedSpec => []CountsInvariant
BY CountsInvariantStep, CountsInvariantInitially, PTL DEF QueuedSpec

(* Whatever happens, and however often: no part of the output is published
   more often than once, and once more for each connection broken, process
   ended or message interrupted; base.py, on_message() and inner_stop(). *)
THEOREM NoDuplicatesWithoutBreakdown == QueuedSpec => []DuplicatesOnlyAfterBreakdown
<1>1. CountsInvariant => DuplicatesOnlyAfterBreakdown
  <2> SUFFICES ASSUME CountsInvariant, NEW m \in Msg, NEW p \in Part  PROVE copies[<<m, p>>] <= 1 + breakdowns
    BY DEF DuplicatesOnlyAfterBreakdown
  <2>1. copies[<<m, p>>] \in Nat /\ breakdowns \in Nat /\ Count(<<m, p>>) <= 1 + breakdowns
    BY DEF CountsInvariant, Consistent, QueuedTypes, Limits
  <2>2. copies[<<m, p>>] <= Count(<<m, p>>) /\ Count(<<m, p>>) \in Nat
    BY <2>1 DEF Count
  <2> QED  BY <2>1, <2>2
<1> QED
  BY <1>1, CountsInvariantHolds, PTL

-----------------------------------------------------------------------------
(* The promise: what is acknowledged has been published, and what is rejected
   may be. *)

Rejection == {"nack"}

AcksComeLast == \A x \in Missing(wire) : copies[x] > 0
InHandIsOnItsWay ==
  InCallback => \A p \in 1 .. comp.part : copies[<<comp.hand, p>>] > 0 \/ Output(comp.hand, p) \in Outputs(wire)

OnlyBadAreRejected == Messages(wire, Rejection) \subseteq Bad

NothingIsLost == AcksComeLast /\ InHandIsOnItsWay /\ OnlyBadAreRejected

PromiseInvariant ==
  /\ CountsInvariant
  /\ Consumer(comp) => OutputReady(comp)
  /\ link = "up" => NothingIsLost

(* With the output ready before the input, and no KeyboardInterrupt before
   the input channel is opened *)
Orderly == "early interrupt" \notin Events /\ "slow output" \notin Events

LEMMA OrderlyIsRegular ==
  ASSUME Orderly, CountsInvariant, link = "up"
  PROVE  Regular /\ Consistent /\ wire \in Seq(WireFrame) /\ InOrder(wire)
BY DEF Orderly, CountsInvariant, Consistent, QueuedTypes, Regular, ChannelsAgree, EachInOnePlace, InOrder

LEMMA LosingNothing ==
  ASSUME NothingIsLost, copies' = copies, Outputs(wire') = Outputs(wire),
         Missing(wire') \subseteq Missing(wire), Messages(wire', Rejection) \subseteq Messages(wire, Rejection),
         InCallback' => InCallback /\ comp'.hand = comp.hand /\ comp'.part = comp.part
  PROVE  NothingIsLost'
<1>1. AcksComeLast' /\ OnlyBadAreRejected'
  BY DEF NothingIsLost, AcksComeLast, OnlyBadAreRejected
<1>2. InHandIsOnItsWay'
  BY DEF NothingIsLost, InHandIsOnItsWay
<1> QED
  BY <1>1, <1>2 DEF NothingIsLost

LEMMA GoingOnLosesNothing ==
  ASSUME NothingIsLost, copies' = copies, NEW K, GoesOn(wire, wire', K),
         InCallback' => InCallback /\ comp'.hand = comp.hand /\ comp'.part = comp.part
  PROVE  NothingIsLost'
<1>1. Outputs(wire') = Outputs(wire) /\ Missing(wire') \subseteq Missing(wire)
  BY DEF GoesOn
<1>2. Messages(wire', Rejection) = Messages(wire, Rejection)
  <2>1. Rejection \in SUBSET Answer
    BY DEF Rejection, Answer
  <2> QED  BY <2>1 DEF GoesOn
<1> QED
  BY <1>1, <1>2, LosingNothing

LEMMA QuietLosesNothing ==
  ASSUME Orderly, PromiseInvariant, CountsInvariant', Quiet
  PROVE  PromiseInvariant'
<1>1. PICK K \in SUBSET Control : Still(K)
  BY DEF Quiet
<1>2. Consumer(comp') => OutputReady(comp')
  BY <1>1 DEF Still, Orderly, PromiseInvariant
<1>3. ASSUME link' = "up"  PROVE NothingIsLost'
  <2>1. /\ link = "up" /\ GoesOn(wire, wire', K) /\ copies' = copies
        /\ comp'.at = comp.at /\ comp'.hand = comp.hand /\ comp'.part = comp.part
    BY <1>1, <1>3 DEF Still, broker
  <2>2. NothingIsLost /\ (InCallback' => InCallback)
    BY <2>1 DEF PromiseInvariant, InCallback
  <2> QED  BY <2>1, <2>2, GoingOnLosesNothing
<1> QED
  BY <1>2, <1>3 DEF PromiseInvariant

LEMMA FreshIsNotConsuming == ~Consumer(Fresh) /\ ~Consumer(Down)
<1>1. Fresh.bound = 0 /\ Down.bound = 0
  BY DEF Fresh, Down
<1>2. 0 # Bindings + 1
  BY PartNumbers
<1> QED
  BY <1>1, <1>2 DEF Consumer

LEMMA DownLosesNothing ==
  ASSUME PromiseInvariant, CountsInvariant', link' = "down", comp' = Down \/ comp' = comp
  PROVE  PromiseInvariant'
BY FreshIsNotConsuming DEF PromiseInvariant

LEMMA RestartLosesNothing ==
  ASSUME PromiseInvariant, CountsInvariant', Restart
  PROVE  PromiseInvariant'
<1>1. comp' = Fresh /\ comp.at = "down" /\ wire' = wire /\ Fresh.at = "loop"
  BY DEF Restart, Fresh
<1>2. wire = <<>>
  BY <1>1 DEF PromiseInvariant, CountsInvariant, Consistent, ComponentIsConsistent
<1>3. AcksComeLast' /\ OnlyBadAreRejected'
  BY <1>1, <1>2, NothingOnAnEmptyWire DEF AcksComeLast, OnlyBadAreRejected
<1>4. InHandIsOnItsWay'
  BY <1>1 DEF InHandIsOnItsWay, InCallback
<1> QED
  BY <1>1, <1>3, <1>4, FreshIsNotConsuming DEF PromiseInvariant, NothingIsLost

(* The answer to the message in hand *)
LEMMA AnsweringLosesNothing ==
  ASSUME Orderly, CountsInvariant, NothingIsLost, link = "up",
         NEW m \in Msg, NEW kind \in Answer, NEW K, Answering(m, kind, K), m \notin Answered,
         kind = "ack" => InCallback /\ m = comp.hand /\ comp.part = Parts,
         kind = "nack" => m \in Bad
  PROVE  NothingIsLost'
<1> DEFINE f == About(kind, m)
           v == wire \o <<f>>
<1>1. f \in WireFrame /\ f.kind = kind /\ f.msg = m
  BY DEF About, WireFrame
<1>2. Regular /\ wire \in Seq(WireFrame) /\ InOrder(wire)
  BY OrderlyIsRegular
<1>3. Kinds(wire) \cap Closings = {}
  BY <1>2 DEF Answering, Regular, ChannelsAgree, Shut, Closings
<1>4. GoesOn(v, wire', K) /\ copies' = copies /\ ~InCallback'
  BY DEF Answering, broker, InCallback
<1> HIDE DEF f
<1>5. \A x \in Missing(v) : x \in Missing(wire) \/ (x[1] = m /\ Output(x[1], x[2]) \notin Outputs(wire))
  BY <1>1, <1>2, <1>3, AnswerAppended DEF Answered
<1>6. kind # "ack" => Missing(v) \subseteq Missing(wire)
  BY <1>1, <1>2, <1>3, AnswerAppended DEF Answered
<1>7. Messages(v, Rejection) = Messages(wire, Rejection) \cup (IF kind \in Rejection THEN {m} ELSE {})
  BY <1>1, <1>2, MessagesAppended
<1> HIDE DEF v
<1>8. Missing(wire') \subseteq Missing(v) /\ Messages(wire', Rejection) = Messages(v, Rejection)
  <2>1. Rejection \in SUBSET Answer
    BY DEF Rejection, Answer
  <2> QED  BY <1>4, <2>1 DEF GoesOn
<1>9. AcksComeLast'
  <2> SUFFICES ASSUME NEW x \in Missing(wire')  PROVE copies[x] > 0
    BY <1>4 DEF AcksComeLast
  <2>1. CASE x \in Missing(wire)
    BY <2>1 DEF NothingIsLost, AcksComeLast
  <2>2. CASE x \notin Missing(wire)
    <3>1. kind = "ack" /\ x[1] = m /\ Output(x[1], x[2]) \notin Outputs(wire)
      BY <1>5, <1>6, <1>8, <2>2
    <3>2. x \in Msg \X Part
      BY DEF Missing
    <3>3. x = <<m, x[2]>> /\ x[2] \in 1 .. Parts
      BY <3>1, <3>2 DEF Part
    <3> QED  BY <3>1, <3>3 DEF NothingIsLost, InHandIsOnItsWay
  <2> QED  BY <2>1, <2>2
<1>10. OnlyBadAreRejected'
  BY <1>7, <1>8 DEF NothingIsLost, OnlyBadAreRejected, Rejection
<1>11. InHandIsOnItsWay'
  BY <1>4 DEF InHandIsOnItsWay
<1> QED
  BY <1>9, <1>10, <1>11 DEF NothingIsLost

(* Only a message that cannot be processed is rejected. *)
LEMMA RejectedAreBad ==
  ASSUME Orderly, PromiseInvariant, link = "up", Reject
  PROVE  comp.hand \in Bad
<1>1. Regular /\ InCallback /\ comp.chanIn = "open"
  BY OrderlyIsRegular DEF Reject, PromiseInvariant, CountsInvariant, Consistent, ComponentIsConsistent, Sound, InCallback
<1>2. ~comp.closing /\ Consumer(comp)
  BY <1>1 DEF Regular, ChannelsAgree, NotYetConsuming, Shut
<1> QED
  BY <1>2 DEF Reject, Raises, CanPublish, PromiseInvariant

LEMMA SettlingLosesNothing ==
  ASSUME Orderly, PromiseInvariant, CountsInvariant', Acknowledge \/ Reject
  PROVE  PromiseInvariant'
<1>1. PICK kind \in Settling : /\ Proceed(EndMessage(comp), <<About(kind, comp.hand)>>)
                               /\ kind = "ack" => comp.part = Parts
                               /\ kind = "nack" => Reject
  BY DEF Acknowledge, Reject, Settling
<1>2. InCallback /\ UNCHANGED <<inbox, Counts>> /\ kind \in Answer /\ CountsInvariant /\ Consistent
  BY <1>1 DEF Acknowledge, Reject, Settling, Answer, PromiseInvariant, CountsInvariant
<1>3. PICK K \in SUBSET Farewell : Answering(comp.hand, kind, K)
  BY <1>1, <1>2, EndingTheMessage
<1>4. PICK m \in Msg : m = comp.hand
  BY <1>2 DEF Consistent, ComponentIsConsistent, Sound, InCallback
<1>5. Consumer(comp') => OutputReady(comp')
  BY <1>3 DEF Answering, PromiseInvariant, Consumer, OutputReady
<1>6. ASSUME link' = "up"  PROVE NothingIsLost'
  <2>1. link = "up" /\ NothingIsLost
    BY <1>3, <1>6 DEF Answering, PromiseInvariant
  <2>2. m \notin Answered
    <3>1. EachInOnePlace /\ InHands = {m}
      BY <1>2, <1>4, <2>1, OrderlyIsRegular DEF Regular, InHands
    <3> QED  BY <3>1 DEF EachInOnePlace
  <2>3. kind = "nack" => m \in Bad
    BY <1>1, <1>4, <2>1, RejectedAreBad
  <2> QED  BY <1>1, <1>2, <1>3, <1>4, <2>1, <2>2, <2>3, AnsweringLosesNothing
<1> QED
  BY <1>5, <1>6 DEF PromiseInvariant

LEMMA InterruptInCallbackLosesNothing ==
  ASSUME Orderly, PromiseInvariant, CountsInvariant', InterruptInCallback
  PROVE  PromiseInvariant'
<1>1. InCallback /\ CountsInvariant /\ Consistent /\ "requeue" \in Answer
  BY DEF InterruptInCallback, PromiseInvariant, CountsInvariant, Answer
<1>2. PICK K \in SUBSET Farewell : Answering(comp.hand, "requeue", K)
  BY <1>1, InterruptingTheMessage
<1>3. PICK m \in Msg : m = comp.hand
  BY <1>1 DEF Consistent, ComponentIsConsistent, Sound, InCallback
<1>4. Consumer(comp') => OutputReady(comp')
  BY <1>2 DEF Answering, PromiseInvariant, Consumer, OutputReady
<1>5. ASSUME link' = "up"  PROVE NothingIsLost'
  <2>1. link = "up" /\ NothingIsLost
    BY <1>2, <1>5 DEF Answering, PromiseInvariant
  <2>2. m \notin Answered
    <3>1. EachInOnePlace /\ InHands = {m}
      BY <1>1, <1>3, <2>1, OrderlyIsRegular DEF Regular, InHands
    <3> QED  BY <3>1 DEF EachInOnePlace
  <2> QED  BY <1>1, <1>2, <1>3, <2>1, <2>2, AnsweringLosesNothing
<1> QED
  BY <1>4, <1>5 DEF PromiseInvariant

LEMMA OnDeliverLosesNothing ==
  ASSUME Orderly, PromiseInvariant, CountsInvariant', OnDeliver
  PROVE  PromiseInvariant'
<1>1. CountsInvariant /\ Consistent
  BY DEF PromiseInvariant, CountsInvariant
<1>2. PICK m : m = Head(inbox).msg
  OBVIOUS
<1>3. /\ m \in Msg /\ link = "up" /\ comp.at = "loop" /\ UNCHANGED <<link, broker>>
      /\ inbox \in Seq(InboxFrame) /\ inbox # <<>> /\ inbox' = Tail(inbox)
      /\ Head(inbox).kind = "deliver" /\ Head(inbox).msg = m
      /\ Begins(m) \/ Passes \/ Answering(m, "requeue", {})
  BY <1>1, <1>2, DeliveryIsHandled
<1>4. NothingIsLost /\ Regular /\ Consistent /\ wire \in Seq(WireFrame) /\ copies' = copies
  BY <1>1, <1>3, OrderlyIsRegular DEF PromiseInvariant, broker
<1>5. CASE Passes
  <2>1. GoesOn(wire, wire', {}) /\ comp' = comp
    BY <1>3, <1>5 DEF Passes, Sends
  <2>2. NothingIsLost'
    BY <1>4, <2>1, GoingOnLosesNothing DEF InCallback
  <2> QED  BY <2>1, <2>2 DEF PromiseInvariant
<1>6. CASE Begins(m)
  <2>1. /\ GoesOn(wire, wire', {}) /\ comp'.bound = comp.bound /\ comp'.declared = comp.declared
        /\ comp'.part = 0
    BY <1>3, <1>4, <1>6 DEF Begins, Sends, BeginMessage, Consistent, QueuedTypes, ComponentState
  <2>2. AcksComeLast' /\ OnlyBadAreRejected'
    <3>1. Rejection \in SUBSET Answer
      BY DEF Rejection, Answer
    <3>2. Missing(wire') \subseteq Missing(wire) /\ Messages(wire', Rejection) = Messages(wire, Rejection)
      BY <2>1, <3>1 DEF GoesOn
    <3> QED  BY <1>4, <3>2 DEF NothingIsLost, AcksComeLast, OnlyBadAreRejected
  <2>3. InHandIsOnItsWay'
    BY <2>1 DEF InHandIsOnItsWay
  <2> QED  BY <2>1, <2>2, <2>3 DEF PromiseInvariant, NothingIsLost, Consumer, OutputReady
<1>7. CASE Answering(m, "requeue", {})
  <2>1. m \notin Answered
    <3>1. m \in Delivered
      BY <1>3, <1>4, DeliveryTaken DEF Regular, EachInOnePlace
    <3> QED  BY <1>4, <3>1 DEF Regular, EachInOnePlace
  <2>2. "requeue" \in Answer
    BY DEF Answer
  <2>3. NothingIsLost'
    BY <1>1, <1>3, <1>4, <1>7, <2>1, <2>2, AnsweringLosesNothing
  <2> QED  BY <1>7, <2>3 DEF Answering, PromiseInvariant, Consumer, OutputReady
<1> QED
  BY <1>3, <1>5, <1>6, <1>7

LEMMA PublishLosesNothing ==
  ASSUME Orderly, PromiseInvariant, CountsInvariant', Publish
  PROVE  PromiseInvariant'
<1> DEFINE f == Output(comp.hand, comp.part + 1)
<1>0. CountsInvariant /\ Consistent /\ comp \in ComponentState /\ Sound(comp) /\ InCallback
  BY DEF PromiseInvariant, CountsInvariant, Consistent, QueuedTypes, ComponentIsConsistent, Publish
<1>1. /\ comp' = [comp EXCEPT !.part = @ + 1] /\ link' = link /\ copies' = copies
      /\ link = "up" => wire' = wire \o <<f>>
  BY DEF Publish, Goes, Send, broker, Output
<1>2. /\ comp'.bound = comp.bound /\ comp'.declared = comp.declared /\ comp'.hand = comp.hand
      /\ comp'.part = comp.part + 1 /\ comp.part \in 0 .. Parts /\ comp.part < Parts
  BY <1>0, <1>1 DEF ComponentState, Publish
<1>3. comp.hand \in Msg /\ comp.part + 1 \in Part
  <2>1. comp.part + 1 \in Part
    BY <1>2, PartNumbers DEF Part
  <2> QED  BY <1>0, <2>1 DEF Sound, InCallback
<1>4. f \in WireFrame /\ f.kind = "output"
  BY <1>3 DEF Output, WireFrame
<1>5. ASSUME link' = "up"  PROVE NothingIsLost'
  <2>1. link = "up" /\ NothingIsLost /\ Regular /\ wire \in Seq(WireFrame) /\ InOrder(wire)
    BY <1>0, <1>1, <1>5, OrderlyIsRegular DEF PromiseInvariant
  <2> HIDE DEF f
  <2>3. Missing(wire') \subseteq Missing(wire)
    <3>1. wire' = wire \o <<f>>
      BY <1>1, <2>1
    <3> QED  BY <1>4, <2>1, <3>1, MissingWithOutput
  <2>4. Messages(wire', Rejection) = Messages(wire, Rejection) /\ Outputs(wire') = Outputs(wire) \cup {f}
    <3>1. wire' = wire \o <<f>>
      BY <1>1, <2>1
    <3>2. Messages(wire \o <<f>>, Rejection) = Messages(wire, Rejection) \cup (IF f.kind \in Rejection THEN {f.msg} ELSE {})
      BY <1>4, <2>1, MessagesAppended
    <3>3. Outputs(wire \o <<f>>) = Outputs(wire) \cup (IF f.kind = "output" THEN {f} ELSE {})
      BY <1>4, <2>1, KindsAppended
    <3> QED  BY <1>4, <3>1, <3>2, <3>3 DEF Rejection
  <2>5. AcksComeLast' /\ OnlyBadAreRejected'
    BY <1>1, <2>1, <2>3, <2>4 DEF NothingIsLost, AcksComeLast, OnlyBadAreRejected
  <2>6. ASSUME NEW p \in 1 .. comp'.part
        PROVE  copies'[<<comp'.hand, p>>] > 0 \/ Output(comp'.hand, p) \in Outputs(wire')
    <3>1. CASE p \in 1 .. comp.part
      BY <1>0, <1>1, <1>2, <2>1, <2>4, <3>1 DEF NothingIsLost, InHandIsOnItsWay
    <3>2. CASE p = comp.part + 1
      BY <1>2, <2>4, <3>2 DEF f
    <3> QED  BY <1>2, <3>1, <3>2
  <2> QED  BY <2>5, <2>6 DEF NothingIsLost, InHandIsOnItsWay
<1>6. Consumer(comp') => OutputReady(comp')
  BY <1>2 DEF PromiseInvariant, Consumer, OutputReady
<1> QED
  BY <1>5, <1>6 DEF PromiseInvariant

(* What the broker takes *)
LEMMA TakingLosesNothing ==
  ASSUME Consistent, NEW kind, BrokerTakes(kind), NothingIsLost
  PROVE  /\ OnlyBadAreRejected' /\ UNCHANGED <<comp, link>>
         /\ \A x \in Missing(wire') : copies[x] > 0 \/ Head(wire) = Output(x[1], x[2])
         /\ kind # "output" => Outputs(wire') = Outputs(wire)
         /\ kind # "output" => \A x \in Missing(wire') : copies[x] > 0
         /\ \A f \in Outputs(wire) : f \in Outputs(wire') \/ f = Head(wire)
<1>1. /\ wire \in Seq(WireFrame) /\ wire # <<>> /\ wire' = Tail(wire) /\ Head(wire).kind = kind
      /\ UNCHANGED <<comp, link, Counts>>
      /\ Outputs(wire) = Outputs(wire') \cup (IF kind = "output" THEN {Head(wire)} ELSE {})
  BY BrokerTaking
<1>2. Messages(wire, Rejection)
        = Messages(Tail(wire), Rejection) \cup (IF Head(wire).kind \in Rejection THEN {Head(wire).msg} ELSE {})
  BY <1>1, KindsTaken
<1>3. \A x \in Missing(Tail(wire)) : x \in Missing(wire) \/ Head(wire) = Output(x[1], x[2])
  BY <1>1, MissingTaken
<1>4. \A x : Output(x[1], x[2]).kind = "output"
  BY DEF Output
<1> QED
  BY <1>1, <1>2, <1>3, <1>4 DEF NothingIsLost, OnlyBadAreRejected, AcksComeLast

LEMMA BrokerLosesNothing ==
  ASSUME Orderly, PromiseInvariant, CountsInvariant',
         BrokerSteps \/ CancelConsumer \/ \E m \in Msg : Deliver(m)
  PROVE  PromiseInvariant'
<1>1. CountsInvariant /\ Consistent
  BY DEF PromiseInvariant, CountsInvariant
<1>2. CASE CancelConsumer \/ \E m \in Msg : Deliver(m)
  <2>1. UNCHANGED <<comp, link, wire, copies>>
    BY <1>2 DEF CancelConsumer, Deliver
  <2> QED
    BY <2>1 DEF PromiseInvariant, NothingIsLost, AcksComeLast, InHandIsOnItsWay, OnlyBadAreRejected, InCallback
<1>3. CASE BrokerTakesOutput
  <2>1. /\ BrokerTakes("output") /\ link = "up" /\ NothingIsLost
    BY <1>3 DEF BrokerTakesOutput, BrokerTakes, PromiseInvariant
  <2>2. /\ OnlyBadAreRejected' /\ UNCHANGED <<comp, link>>
        /\ \A x \in Missing(wire') : copies[x] > 0 \/ Head(wire) = Output(x[1], x[2])
        /\ \A f \in Outputs(wire) : f \in Outputs(wire') \/ f = Head(wire)
    BY <1>1, <2>1, TakingLosesNothing
  <2>3. ASSUME NEW x \in Msg \X Part
        PROVE  copies[x] > 0 \/ Head(wire) = Output(x[1], x[2]) => copies'[x] > 0
    <3>1. copies \in [Msg \X Part -> Nat]
      BY <1>1 DEF Consistent, QueuedTypes
    <3>2. copies' = [copies EXCEPT ![<<Head(wire).msg, Head(wire).part>>] = @ + 1]
      BY <1>3 DEF BrokerTakesOutput
    <3>3. Head(wire) = Output(x[1], x[2]) => x = <<Head(wire).msg, Head(wire).part>>
      BY DEF Output
    <3>4. copies[x] \in Nat /\ (copies'[x] = copies[x] \/ copies'[x] = copies[x] + 1)
      BY <3>1, <3>2
    <3>5. x = <<Head(wire).msg, Head(wire).part>> => copies'[x] = copies[x] + 1
      BY <3>1, <3>2
    <3> QED  BY <3>3, <3>4, <3>5
  <2>4. AcksComeLast'
    BY <2>2, <2>3 DEF AcksComeLast, Missing
  <2>5. InHandIsOnItsWay'
    <3> SUFFICES ASSUME InCallback, NEW p \in 1 .. comp.part
                 PROVE  copies'[<<comp.hand, p>>] > 0 \/ Output(comp.hand, p) \in Outputs(wire')
      BY <2>2 DEF InHandIsOnItsWay, InCallback
    <3>1. <<comp.hand, p>> \in Msg \X Part
      <4>1. comp.hand \in Msg /\ comp.part \in 0 .. Parts
        BY <1>1 DEF Consistent, ComponentIsConsistent, QueuedTypes, ComponentState, Sound, InCallback
      <4>2. p \in Part
        BY <4>1, PartNumbers DEF Part
      <4> QED  BY <4>1, <4>2
    <3>2. copies[<<comp.hand, p>>] > 0 \/ Output(comp.hand, p) \in Outputs(wire)
      BY <2>1 DEF NothingIsLost, InHandIsOnItsWay
    <3>3. CASE Output(comp.hand, p) = Head(wire)
      <4>1. Head(wire) = Output(<<comp.hand, p>>[1], <<comp.hand, p>>[2])
        BY <3>3
      <4> QED  BY <2>3, <3>1, <4>1
    <3>4. CASE Output(comp.hand, p) # Head(wire)
      BY <2>2, <2>3, <3>1, <3>2, <3>4
    <3> QED  BY <3>3, <3>4
  <2> QED  BY <2>2, <2>4, <2>5 DEF PromiseInvariant, NothingIsLost, Consumer, OutputReady
<1>4. CASE BrokerSteps /\ ~BrokerTakesOutput
  <2>1. PICK kind : BrokerTakes(kind) /\ kind # "output"
    <3>1. CASE BrokerTakesAnswer
      BY <3>1, Zenon DEF BrokerTakesAnswer, BrokerTakes, Answer
    <3>2. CASE ~BrokerTakesAnswer
      <4>1. \/ BrokerTakes("consume") \/ BrokerTakes("cancel") \/ BrokerTakes("close in")
            \/ BrokerTakes("close") \/ BrokerTakes("close out")
        BY <1>4, <3>2
        DEF BrokerSteps, BrokerTakesConsume, BrokerTakesCancel, BrokerTakesClose, BrokerTakesCloseOutput
      <4>2. \E kind \in Control : BrokerTakes(kind)
        BY <4>1 DEF Control
      <4> QED  BY <4>2 DEF Control
    <3> QED
      BY <3>1, <3>2
  <2>2. copies' = copies /\ link = "up" /\ NothingIsLost
    BY <1>4, <2>1 DEF BrokerSteps, BrokerTakesAnswer, BrokerTakesConsume, BrokerTakesCancel, BrokerTakesClose,
       BrokerTakesCloseOutput, BrokerTakes, PromiseInvariant, broker
  <2>3. /\ OnlyBadAreRejected' /\ UNCHANGED <<comp, link>> /\ Outputs(wire') = Outputs(wire)
        /\ \A x \in Missing(wire') : copies[x] > 0
    BY <1>1, <2>1, <2>2, TakingLosesNothing
  <2>4. AcksComeLast' /\ InHandIsOnItsWay'
    BY <2>2, <2>3 DEF NothingIsLost, AcksComeLast, InHandIsOnItsWay, InCallback
  <2> QED  BY <2>3, <2>4 DEF PromiseInvariant, NothingIsLost, Consumer, OutputReady
<1> QED
  BY <1>2, <1>3, <1>4

LEMMA PromiseInvariantHolds == Orderly => (QueuedSpec => []PromiseInvariant)
<1> SUFFICES ASSUME Orderly  PROVE QueuedSpec => []PromiseInvariant
  OBVIOUS
<1>1. QueuedInit => PromiseInvariant
  <2> SUFFICES ASSUME QueuedInit  PROVE PromiseInvariant
    OBVIOUS
  <2>1. comp = Down /\ link = "down"
    BY DEF QueuedInit
  <2> QED  BY <2>1, CountsInvariantInitially, FreshIsNotConsuming DEF PromiseInvariant
<1>2. PromiseInvariant /\ [QueuedNext]_vars => PromiseInvariant'
  <2> SUFFICES ASSUME PromiseInvariant, [QueuedNext]_vars  PROVE PromiseInvariant'
    OBVIOUS
  <2>1. CountsInvariant /\ Consistent
    BY DEF PromiseInvariant, CountsInvariant
  <2>2. CountsInvariant'
    BY <2>1, CountsInvariantStep
  <2>3. CASE ComponentSteps \/ ComponentTimers
    <3>1. CASE \/ OpenInput \/ OnBindOk \/ OpenOutput \/ OnOutputExchangeDeclared \/ OnCancelOk
               \/ OnInputChannelClosed \/ OnOutputChannelClosed \/ InputHasShutDown \/ OutputIsFlushed
      <4>1. Quiet
        BY <2>1, <3>1, OpenInputIsQuiet, OnBindOkIsQuiet, OpenOutputIsQuiet, OnCancelOkIsQuiet,
           OnInputChannelClosedIsQuiet, OnOutputChannelClosedIsQuiet, InputHasShutDownIsQuiet, OutputIsFlushedIsQuiet
      <4> QED  BY <2>2, <4>1, QuietLosesNothing
    <3>2. CASE OnConsumerCancelled \/ OnConnectionClosed
      <4>1. Quiet \/ (comp' = Down /\ link' = "down")
        BY <2>1, <3>2, OnConsumerCancelledIsQuiet, OnConnectionClosedEnds DEF EndsOnFrame, Collapse, Disconnect
      <4> QED  BY <2>2, <4>1, QuietLosesNothing, DownLosesNothing
    <3>3. CASE NoticeLoss
      <4>1. comp' = Down /\ link' = "down"
        BY <3>3 DEF NoticeLoss
      <4> QED  BY <2>2, <4>1, DownLosesNothing
    <3>4. CASE Publish \/ Acknowledge \/ Reject \/ OnDeliver \/ Restart
      BY <2>2, <3>4, PublishLosesNothing, SettlingLosesNothing, OnDeliverLosesNothing, RestartLosesNothing
    <3> QED  BY <2>3, <3>1, <3>2, <3>3, <3>4 DEF ComponentSteps, ComponentTimers
  <2>4. CASE BrokerSteps \/ CancelConsumer \/ \E m \in Msg : Deliver(m)
    BY <2>2, <2>4, BrokerLosesNothing
  <2>5. CASE Disturbance
    <3>1. CASE TriggerGracefulStop \/ Interrupt
      <4>1. Quiet \/ (comp' = Down /\ link' = "down")
        BY <2>1, <3>1, TriggerIsQuiet, InterruptIsQuiet
        DEF Orderly, StopsTooEarly, Breaks, CollapsesSilently, Collapse, Disconnect
      <4> QED  BY <2>2, <4>1, QuietLosesNothing, DownLosesNothing
    <3>2. CASE ExitInCallback \/ Kill \/ LoseConnection
      <4>1. link' = "down" /\ (comp' = Down \/ comp' = comp)
        BY <3>2 DEF ExitInCallback, Kill, LoseConnection, Collapse, Disconnect
      <4> QED  BY <2>2, <4>1, DownLosesNothing
    <3> QED  BY <2>2, <2>4, <2>5, <3>1, <3>2, InterruptInCallbackLosesNothing DEF Disturbance
  <2>6. CASE UNCHANGED vars
    <3>1. UNCHANGED <<comp, link, wire, copies>>
      BY <2>6 DEF vars, broker
    <3> QED
      BY <2>2, <3>1 DEF PromiseInvariant, NothingIsLost, AcksComeLast, InHandIsOnItsWay, OnlyBadAreRejected, InCallback
  <2> QED  BY <2>3, <2>4, <2>5, <2>6 DEF QueuedNext
<1> QED
  BY <1>1, <1>2, PTL DEF QueuedSpec

-----------------------------------------------------------------------------
(* The promise is kept, step by step. *)

Waiting == queue \cup unacked
Produced == {x \in Msg \X Part : copies[x] > 0}

(* What is on the wire is about messages that are still waiting. *)
LEMMA OutputsAreOfWaiting ==
  ASSUME Regular, wire \in Seq(WireFrame), NEW f \in Outputs(wire)
  PROVE  f.msg \in Waiting
BY OutputsAreAnswered DEF Regular, EachInOnePlace, Answered, Waiting

LEMMA OutputIsProduced ==
  ASSUME Orderly, PromiseInvariant, BrokerTakesOutput
  PROVE  \E m \in Msg, p \in Part : Promise!Produce(m, p)
<1>1. /\ CountsInvariant /\ Consistent
  BY DEF PromiseInvariant, CountsInvariant
<1>2. /\ link = "up" /\ wire \in Seq(WireFrame) /\ Head(wire) \in WireFrame /\ Head(wire).kind = "output"
      /\ Outputs(wire) = Outputs(wire') \cup (IF "output" = "output" THEN {Head(wire)} ELSE {})
  BY <1>1, BrokerTaking DEF BrokerTakesOutput
<1>3. PICK m \in Msg, p \in Part : m = Head(wire).msg /\ p = Head(wire).part
  BY <1>2 DEF WireFrame, Answer, Control
<1>4. m \in queue \cup unacked
  <2>1. Head(wire) \in Outputs(wire) /\ Regular
    BY <1>1, <1>2, OrderlyIsRegular
  <2> QED  BY <1>2, <1>3, <2>1, OutputsAreOfWaiting DEF Waiting
<1>5. copies' = [copies EXCEPT ![<<m, p>>] = @ + 1] /\ UNCHANGED <<queue, unacked>>
  BY <1>3 DEF BrokerTakesOutput
<1>6. copies \in [Msg \X Part -> Nat]
  BY <1>1 DEF Consistent, QueuedTypes
<1>7. Produced' = Produced \cup {<<m, p>>}
  <2>1. ASSUME NEW x \in Msg \X Part  PROVE copies'[x] > 0 <=> copies[x] > 0 \/ x = <<m, p>>
    BY <1>5, <1>6
  <2> QED  BY <2>1 DEF Produced
<1> QED
  BY <1>4, <1>5, <1>7 DEF Promise!Produce, Produced

LEMMA AnswerIsDoneOrBuried ==
  ASSUME Orderly, PromiseInvariant, BrokerTakesAnswer
  PROVE  \/ \E m \in Msg : Promise!Done(m) \/ Promise!Bury(m)
         \/ Waiting' = Waiting /\ copies' = copies
<1>1. CountsInvariant /\ Consistent
  BY DEF PromiseInvariant, CountsInvariant
<1>2. PICK kind \in Answer :
        /\ BrokerTakes(kind)
        /\ LET m == {Head(wire).msg} \cap unacked
           IN  /\ unacked' = unacked \ m
               /\ queue' = IF kind = "requeue" THEN queue \cup m ELSE queue
  BY DEF BrokerTakesAnswer, Answer
<1>3. copies' = copies
  BY DEF BrokerTakesAnswer
<1>4. /\ link = "up" /\ wire \in Seq(WireFrame) /\ wire # <<>> /\ Head(wire).kind = kind
  BY <1>1, <1>2, BrokerTaking
<1>5. /\ queue \subseteq Msg /\ unacked \subseteq Msg /\ queue \cap unacked = {}
      /\ copies \in [Msg \X Part -> Nat] /\ NothingIsLost
  BY <1>1, <1>4 DEF Consistent, QueuedTypes, ComponentIsConsistent, PromiseInvariant
<1>6. CASE kind = "requeue" \/ Head(wire).msg \notin unacked
  BY <1>2, <1>3, <1>6 DEF Waiting
<1>7. CASE kind # "requeue" /\ Head(wire).msg \in unacked
  <2>1. PICK m \in Msg : m = Head(wire).msg
    BY <1>5, <1>7
  <2>2. m \in queue \cup unacked /\ queue' \cup unacked' = (queue \cup unacked) \ {m}
    BY <1>2, <1>5, <1>7, <2>1
  <2>3. Produced' = Produced
    BY <1>3 DEF Produced
  <2>4. CASE kind = "ack"
    <3>1. {m} \X Part \subseteq Missing(wire)
      BY <1>4, <2>1, <2>4, MissingTaken
    <3>2. {m} \X Part \subseteq Produced
      BY <1>5, <3>1 DEF NothingIsLost, AcksComeLast, Produced
    <3> QED  BY <2>2, <2>3, <3>2 DEF Promise!Done, Produced
  <2>5. CASE kind = "nack"
    <3>1. Messages(wire, Rejection)
            = Messages(Tail(wire), Rejection) \cup (IF Head(wire).kind \in Rejection THEN {Head(wire).msg} ELSE {})
      BY <1>4, KindsTaken
    <3>2. m \in Bad
      BY <1>4, <1>5, <2>1, <2>5, <3>1 DEF NothingIsLost, OnlyBadAreRejected, Rejection
    <3> QED  BY <2>2, <2>3, <3>2 DEF Promise!Bury, Produced
  <2> QED  BY <1>7, <2>4, <2>5 DEF Answer
<1> QED
  BY <1>6, <1>7

(* Nothing else takes a message away, or publishes anything. *)
LEMMA OthersKeepWaiting ==
  ASSUME Consistent, QueuedNext, ~BrokerTakesOutput, ~BrokerTakesAnswer
  PROVE  Waiting' = Waiting /\ copies' = copies
<1>1. UNCHANGED broker => Waiting' = Waiting /\ copies' = copies
  BY DEF broker, Waiting
<1>2. Disconnect => Waiting' = Waiting /\ copies' = copies
  BY DEF Disconnect, Waiting
<1>3. /\ \A c, frames : Goes(c, frames) => Waiting' = Waiting /\ copies' = copies
      /\ Collapse => Waiting' = Waiting /\ copies' = copies
  BY <1>1, <1>2 DEF Goes, Collapse
<1>4. \A c, frames : InnerStop(c, frames) => Waiting' = Waiting /\ copies' = copies
  BY <1>3 DEF InnerStop
<1>5. \A c, frames : Proceed(c, frames) => Waiting' = Waiting /\ copies' = copies
  BY <1>3, <1>4 DEF Proceed
<1>6. ComponentSteps \/ ComponentTimers => Waiting' = Waiting /\ copies' = copies
  BY <1>1, <1>3, <1>4, <1>5
  DEF ComponentSteps, ComponentTimers, OpenInput, OnBindOk, OpenOutput, OnOutputExchangeDeclared, Publish, Acknowledge,
      Reject, OnDeliver, OnCancelOk, OnConsumerCancelled, OnInputChannelClosed, OnOutputChannelClosed,
      OnConnectionClosed, Restart, InputHasShutDown, OutputIsFlushed, NoticeLoss
<1>7. Disturbance => Waiting' = Waiting /\ copies' = copies
  <2>1. CancelConsumer => Waiting' = Waiting /\ copies' = copies
    BY DEF CancelConsumer, Waiting
  <2> QED
    BY <1>2, <1>3, <1>4, <1>5, <2>1
    DEF Disturbance, TriggerGracefulStop, Interrupt, InterruptInCallback, ExitInCallback, LoseConnection, Kill
<1>8. ASSUME NEW m \in Msg, Deliver(m)  PROVE Waiting' = Waiting /\ copies' = copies
  BY <1>8 DEF Deliver, Waiting
<1>9. BrokerSteps => Waiting' = Waiting /\ copies' = copies
  BY <1>1 DEF BrokerSteps, BrokerTakesConsume, BrokerTakesCancel, BrokerTakesClose, BrokerTakesCloseOutput, Waiting
<1> QED
  BY <1>6, <1>7, <1>8, <1>9 DEF QueuedNext

(* No message leaves the input queue before its whole output has reached the
   broker, and only those that cannot be processed are buried: on_message(),
   the publications and the answers of base.py implement the promise, if the
   output is ready before the first message arrives, and no KeyboardInterrupt
   comes before the input channel has been opened. *)
THEOREM PromiseIsKept == Orderly => (QueuedSpec => KeepsPromise)
<1> SUFFICES ASSUME Orderly  PROVE QueuedSpec => KeepsPromise
  OBVIOUS
<1>1. QueuedInit => Promise!Init
  <2> SUFFICES ASSUME QueuedInit  PROVE Promise!Init
    OBVIOUS
  <2>1. queue = Msg /\ unacked = {} /\ copies = [x \in Msg \X Part |-> 0]
    BY DEF QueuedInit
  <2>2. \A x \in Msg \X Part : ~(copies[x] > 0)
    BY <2>1
  <2> QED  BY <2>1, <2>2 DEF Promise!Init
<1>2. PromiseInvariant /\ [QueuedNext]_vars => [Promise!Next]_(Promise!vars)
  <2> SUFFICES ASSUME PromiseInvariant, [QueuedNext]_vars  PROVE [Promise!Next]_(Promise!vars)
    OBVIOUS
  <2>1. Waiting' = Waiting /\ copies' = copies => UNCHANGED Promise!vars
    BY DEF Waiting, Promise!vars
  <2>2. CASE UNCHANGED vars
    BY <2>1, <2>2 DEF vars, broker, Waiting
  <2>3. CASE QueuedNext
    <3>1. CASE BrokerTakesOutput
      BY <3>1, OutputIsProduced DEF Promise!Next
    <3>2. CASE BrokerTakesAnswer
      BY <2>1, <3>2, AnswerIsDoneOrBuried DEF Promise!Next
    <3>3. CASE ~BrokerTakesOutput /\ ~BrokerTakesAnswer
      BY <2>1, <2>3, <3>3, OthersKeepWaiting DEF PromiseInvariant, CountsInvariant
    <3> QED  BY <3>1, <3>2, <3>3
  <2> QED  BY <2>2, <2>3
<1> QED
  BY <1>1, <1>2, PromiseInvariantHolds, PTL DEF QueuedSpec, KeepsPromise, Promise!Spec
=============================================================================
