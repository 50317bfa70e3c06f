---------------------------- MODULE MispCollector ----------------------------
(***************************************************************************)
(* The collector of MISP events and malware samples                        *)
(* (N6DataSources/n6datasources/collectors/misp.py), a user of iterative   *)
(* publishing with a state file.                                           *)
(*                                                                         *)
(* It is run from time to time.  Each run publishes the events that have   *)
(* come since the last one, and then the samples that belong to them, one  *)
(* by one; if the samples could not be completed they are overdue, and the *)
(* next run asks for their events again.  What has been flushed out of the *)
(* outbound buffer is confirmed in the state file.                         *)
(***************************************************************************)
EXTENDS IterativePublishing

CONSTANTS
  Event,     (* The events.                                                 *)
  SamplesOf, (* SamplesOf[e]: the ids of the samples of an event.           *)
  Leeway,    (* _LAST_TIME_LEEWAY_MINUTES.                                  *)
  MaxDays,   (* max_acceptable_days_of_continuous_download_failures.        *)
  LastTime   (* The time goes up to this.                                   *)

Sample == UNION {SamplesOf[e] : e \in Event}

ASSUME MispAssumption ==
  /\ Event \cap Sample = {}
  /\ \A d, e \in Event : d # e => SamplesOf[d] \cap SamplesOf[e] = {}
  /\ {Leeway, MaxDays, LastTime} \subseteq Nat

VARIABLES
  clock,    (* The time.                                                    *)
  added,    (* added[e]: when the event came up in MISP; 0 if it has not.   *)
  file,     (* The state file: events_last_proc_datetime,
               samples_last_proc_datetime and already_processed_sample_ids. *)
  run,      (* The run that is in progress, or the last one: see Begun.     *)
  givenUp   (* The samples the collector has given up.  A history variable. *)

mispVars == <<publishing, sent, troubles, clock, added, file, run, givenUp>>

(* step     what is to be done next
   now      _now, and
   state    _state
   loaded   _state as it has been loaded
   found    _misp_events
   todo     the samples that are still to be downloaded
   at       the one that has been published last; {} if no download has been
            successful
   failed   the samples whose download has failed                           *)
Begun(step, time, loaded) ==
  [step |-> step, now |-> time, state |-> loaded, loaded |-> loaded,
   found |-> {}, todo |-> {}, at |-> {}, failed |-> {}]

(* _overdue_samples_to_publish. *)
Overdue == run.loaded.samples < run.loaded.events

MispInit ==
  /\ PublishingInit
  /\ clock = 1
  /\ added = [e \in Event |-> 0]
  /\ file = [events |-> 1, samples |-> 1, processed |-> {}]
  /\ run = Begun("none", 0, file)
  /\ givenUp = {}

(* What is asked for is "the last so many minutes", as seen from MISP. *)
Search(since) ==
  {e \in Event : added[e] # 0 /\ clock + since <= added[e] + run.now + Leeway}

(* save_state(), together with a step of the collection. *)
Saves(state, step) ==
  /\ run' = [run EXCEPT !.state = state, !.step = step]
  /\ file' = state

GoesTo(step) == run' = [run EXCEPT !.step = step] /\ UNCHANGED file

Past == <<sent, troubles, givenUp>>
Source == <<clock, added>>

-----------------------------------------------------------------------------
(* The time does not go on so far that a run asks too late. *)
AsksInTime ==
  run.step \in {"fetch", "events", "confirm events", "samples"} =>
    clock < run.now + Leeway

Tick ==
  /\ clock < LastTime /\ AsksInTime
  /\ clock' = clock + 1
  /\ UNCHANGED <<publishing, Past, added, file, run>>

AddEvent(e) ==
  /\ added[e] = 0
  /\ added' = [added EXCEPT ![e] = clock]
  /\ UNCHANGED <<publishing, Past, clock, file, run>>

-----------------------------------------------------------------------------
(* run_collection().  There is at most one run at any time. *)

Start ==
  /\ gen = "down" /\ run.step = "none"
  /\ clock > run.now
  /\ run' = Begun("fetch", clock, file)
  /\ UNCHANGED <<publishing, Past, Source, file>>

FetchEvents ==
  /\ run.step = "fetch"
  /\ LET found == Search(run.state.events)
         state == [run.state EXCEPT !.events = run.now]
     IN  \/ /\ found # {}
            /\ run' = [run EXCEPT !.found = found, !.step = "events"]
            /\ SetUp
            /\ UNCHANGED file
         \/ /\ found = {} /\ Overdue
            /\ Saves(state, "samples")
            /\ SetUp
         \/ /\ found = {} /\ ~Overdue
            /\ Saves([state EXCEPT !.samples = run.now, !.processed = {}], "none")
            /\ UNCHANGED publishing
  /\ UNCHANGED <<Past, Source>>

(* publish_iteratively(). *)
Continues(step) ==
  /\ gen = "running" /\ run.step = step
  /\ UNCHANGED <<sent, troubles, Source>>

PublishEvents ==
  /\ Continues("events")
  /\ Put(run.found) /\ FlushOut
  /\ GoesTo("confirm events")
  /\ UNCHANGED givenUp

ConfirmEvents ==
  /\ Continues("confirm events")
  /\ Saves([run.state EXCEPT !.events = run.now], "samples")
  /\ UNCHANGED <<publishing, givenUp>>

(* The events just found are all that matter, unless samples are overdue. *)
EventsForSamples == IF Overdue THEN Search(run.state.samples) ELSE run.found

(* A variant of the next one. *)
AllSamples == UNION {SamplesOf[e] : e \in EventsForSamples}

SamplesDue == (UNION {SamplesOf[e] : e \in EventsForSamples}) \ run.state.processed

FindSamples ==
  /\ Continues("samples")
  /\ \/ /\ SamplesDue # {}
        /\ run' = [run EXCEPT !.todo = SamplesDue, !.step = "next sample"]
        /\ UNCHANGED <<publishing, file>>
     \/ /\ SamplesDue = {}
        /\ FlushOut /\ UNCHANGED buffer
        /\ GoesTo("finish")
  /\ UNCHANGED givenUp

NextSample ==
  /\ Continues("next sample") /\ run.todo # {}
  /\ UNCHANGED buffer /\ MayPause
  /\ GoesTo("download")
  /\ UNCHANGED givenUp

(* The samples are downloaded in a certain order. *)
Current == {CHOOSE s \in run.todo : TRUE}

(* All the attempts for one sample, and its publication. *)
Download ==
  /\ Continues("download")
  /\ Put(Current) /\ FlushOut
  /\ run' = [run EXCEPT !.todo = @ \ Current, !.at = Current,
                        !.step = "confirm sample"]
  /\ UNCHANGED <<file, givenUp>>

FailToDownload ==
  /\ Continues("download")
  /\ UNCHANGED buffer /\ MayPause
  /\ run' = [run EXCEPT !.todo = @ \ Current, !.failed = @ \cup Current,
                        !.step = "next sample"]
  /\ UNCHANGED <<file, givenUp>>

ConfirmSample ==
  /\ Continues("confirm sample")
  /\ Saves([run.state EXCEPT !.processed = @ \cup run.at], "next sample")
  /\ UNCHANGED <<publishing, givenUp>>

(* One successful download is enough to consider the samples finished. *)
RecapDownloads ==
  /\ Continues("next sample") /\ run.todo = {}
  /\ \/ /\ run.at # {}
        /\ FlushOut
        /\ GoesTo("finish")
     \/ /\ run.at = {}
        /\ Ends(IF run.now > run.state.samples + MaxDays THEN "raised" ELSE "returned")
        /\ GoesTo("ended")
  /\ UNCHANGED <<buffer, givenUp>>

Finish ==
  /\ Continues("finish")
  /\ Saves([run.state EXCEPT !.samples = run.now, !.processed = {}], "ended")
  /\ Ends("returned") /\ UNCHANGED buffer
  /\ givenUp' = givenUp \cup run.failed

-----------------------------------------------------------------------------
(* The machinery, as a part of the collector. *)

(* Nothing of a run remains but its time. *)
RunMayEnd == run' = IF gen' = "down" THEN Begun("none", run.now, file) ELSE run

Machinery ==
  /\ \/ StartIterativePublishing \/ NextPublishingIteration
     \/ BufferIsFlushed \/ AfterFlush \/ CloseConnection
  /\ RunMayEnd
  /\ UNCHANGED <<Past, Source, file>>

IOLoop == Transmit /\ UNCHANGED <<Source, file, run, givenUp>>

Troubles ==
  /\ Trouble
  /\ \/ InterruptPublishing
     \/ Breakdown
     \/ run.step = "fetch" /\ ProcessEnds
  /\ RunMayEnd
  /\ UNCHANGED <<sent, givenUp, Source, file>>

RunSteps ==
  \/ FetchEvents \/ PublishEvents \/ ConfirmEvents
  \/ FindSamples \/ NextSample \/ Download \/ FailToDownload \/ ConfirmSample
  \/ RecapDownloads \/ Finish
  \/ Machinery

Surroundings == Tick \/ (\E e \in Event : AddEvent(e)) \/ Start \/ Troubles

MispNext == RunSteps \/ IOLoop \/ Surroundings

(* A run that is in progress goes on, and so does the IO loop. *)
MispSpec == MispInit /\ [][MispNext]_mispVars
FairMispSpec == MispSpec /\ WF_mispVars(RunSteps) /\ WF_mispVars(IOLoop)

-----------------------------------------------------------------------------
(* The state file never confirms what is still in the outbound buffer, or
   lost with it: events older than its time, samples of such events, and the
   samples it lists have been sent; but for samples that could not be
   downloaded, of which the log tells that they "will be lost". *)
ConfirmedIsSent ==
  /\ \A e \in Event : added[e] # 0 =>
       /\ added[e] < file.events => e \in sent
       /\ added[e] < file.samples => SamplesOf[e] \subseteq sent \cup givenUp
  /\ file.processed \subseteq sent

(* And whatever breaks, nothing is sent that the file confirms, unless the
   leeway takes it in again: no event that is older by the leeway than the
   events' time, no sample of an event older by that than the samples' time,
   and no sample that is listed as processed. *)
ConfirmedIsNotRepeated ==
  [][IOLoop => \A x \in Head(buffer) :
       /\ x \in Event => file.events <= added[x] + Leeway
       /\ x \notin file.processed
       /\ \A e \in Event : x \in SamplesOf[e] => file.samples <= added[e] + Leeway]_mispVars

(* A run ends, however many downloads fail, also when it is interrupted;
   nobody waits for ever for the buffer to be flushed. *)
CollectionsEnd == gen # "down" ~> gen = "down"
=============================================================================
