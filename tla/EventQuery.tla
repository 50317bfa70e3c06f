----------------------------- MODULE EventQuery -----------------------------
(***************************************************************************)
(* How the REST API reads events from the Event DB                         *)
(* (N6Lib/n6lib/data_backend_api.py: _EventsQueryProcessor).               *)
(*                                                                         *)
(* The time interval of a request is gone through in steps, from the       *)
(* newest window of `day_step` days to the oldest one.  In each step one   *)
(* or more queries with LIMIT and OFFSET fetch rows, which are ordered by  *)
(* their time only.  An event may have several rows; those with the same   *)
(* time are grouped by event, and of each event one result is made, or     *)
(* none, until there are as many results as the client wants.              *)
(***************************************************************************)
EXTENDS Integers, Sequences, FiniteSets

LOCAL INSTANCE SequencesExt

CONSTANTS
  Contents,   (* What the Event DB may have for a request: functions from the
                 ids of the events (which are sorted as numbers are here) to
                 their time, the number of their rows, and whether
                 _preprocess_result_dict() keeps them.                      *)
  Requests,   (* time.min; time.max (or the time in an hour), if `closed`, or
                 time.until; opt.limit.                                     *)
  DayStep,    (* day_step, in units of the times.                           *)
  MinReserve  (* 100.                                                       *)

ASSUME EventQueryAssumption == DayStep \in Nat \ {0} /\ MinReserve \in Nat

NoLimit == 0

VARIABLES
  found,      (* The content, as the transaction (REPEATABLE READ) sees it. *)
  asked,      (* The request.                                               *)
  doing,      (* "idle", "asking" (about to execute a query), "fetching"
                 (its rows) or "done".                                      *)
  window,     (* The current step.                                          *)
  passed,     (* The rows of the window that are not after the last one
                 fetched, in the order of the current query.                *)
  fetched,    (* cur_step_fetched_rows_count.                               *)
  left,       (* How many rows the current query may still give.            *)
  group,      (* The events whose rows with the current time have been
                 fetched.                                                   *)
  results,    (* The results produced.                                      *)
  stable      (* Whether no query has put rows of the same time in another
                 order than the one before it: a history variable.          *)

queryVars == <<found, asked, doing, window, passed, fetched, left, group, results, stable>>

NoRequest == [min |-> 0, end |-> 0, closed |-> TRUE, limit |-> NoLimit]
NoWindow == [lower |-> 0, upper |-> 0, closed |-> TRUE]

QueryInit ==
  /\ found = <<>> /\ asked = NoRequest /\ doing = "idle" /\ window = NoWindow
  /\ passed = {} /\ fetched = 0 /\ left = 0
  /\ group = {} /\ results = <<>> /\ stable = TRUE

Larger(t, u) == IF t > u THEN t ELSE u

-----------------------------------------------------------------------------
(* The steps: the first window is closed on the right if the request is. *)

FirstWindow(r) == [lower |-> Larger(r.min, r.end - DayStep), upper |-> r.end, closed |-> r.closed]

NextWindow == [lower |-> Larger(asked.min, window.lower - DayStep),
               upper |-> window.lower, closed |-> FALSE]

IsLastWindow == window.lower <= asked.min

Within(t, lower, upper, closed) == lower <= t /\ (t < upper \/ (closed /\ t = upper))

Rows ==
  {row \in (DOMAIN found) \X (1 .. 2) :
     /\ row[2] <= found[row[1]].parts
     /\ Within(found[row[1]].time, window.lower, window.upper, window.closed)}

Time(row) == found[row[1]].time

(* ORDER BY time DESC: no row of S is after one of the others. *)
ComeFirst(S) == LET others == Rows \ S IN \A r \in S, s \in others : Time(r) >= Time(s)

-----------------------------------------------------------------------------
(* The results. *)

Limited(seq, limit) ==
  IF limit = NoLimit \/ Len(seq) <= limit THEN seq ELSE SubSeq(seq, 1, limit)

Reached(seq) == asked.limit # NoLimit /\ Len(seq) >= asked.limit

(* The whole group has been read, and the loop breaks when there are enough. *)
WithGroup ==
  Limited(results \o SetToSortSeq({id \in group : found[id].kept}, <), asked.limit)

-----------------------------------------------------------------------------
(* The actions. *)

Receive ==
  /\ doing = "idle"
  /\ \E content \in Contents, r \in Requests :
       found' = content /\ asked' = r /\ window' = FirstWindow(r)
  /\ doing' = "asking"
  /\ UNCHANGED <<passed, fetched, left, group, results, stable>>

(* The number of results instead of that of rows. *)
OffsetOfResults == Len(results)

Offset == fetched

StillExpected == asked.limit - Len(results)

QueryLimit ==
  IF asked.limit = NoLimit THEN Cardinality(Rows) + 1
  ELSE StillExpected + Larger(MinReserve, StillExpected \div 4)

(* The database orders the rows anew, and skips as many as it is told. *)
Execute(skipped) ==
  /\ doing = "asking"
  /\ Cardinality(skipped) = Offset /\ ComeFirst(skipped)
  /\ doing' = "fetching"
  /\ passed' = skipped /\ left' = QueryLimit
  /\ stable' = (stable /\ skipped = passed)
  /\ UNCHANGED <<found, asked, window, fetched, group, results>>

(* A row with another time completes the group; its results are produced before
   any further row is fetched. *)
FetchRow(row) ==
  /\ doing = "fetching" /\ left > 0
  /\ row \notin passed /\ ComeFirst(passed \cup {row})
  /\ passed' = passed \cup {row}
  /\ fetched' = fetched + 1 /\ left' = left - 1
  /\ IF \A id \in group : found[id].time = Time(row)
       THEN /\ group' = group \cup {row[1]}
            /\ UNCHANGED <<doing, results>>
       ELSE /\ group' = {row[1]}
            /\ results' = WithGroup
            /\ doing' = IF Reached(results') THEN "done" ELSE doing
  /\ UNCHANGED <<found, asked, window, stable>>

(* The query has given as many rows as it could: there may be more. *)
QueryAgain ==
  /\ doing = "fetching" /\ left = 0
  /\ doing' = "asking"
  /\ UNCHANGED <<found, asked, window, passed, fetched, left, group, results, stable>>

Exhausted == doing = "fetching" /\ left > 0 /\ Rows \subseteq passed

NextStep ==
  /\ Exhausted /\ ~IsLastWindow
  /\ doing' = "asking" /\ window' = NextWindow
  /\ passed' = {} /\ fetched' = 0
  /\ UNCHANGED <<found, asked, left, group, results, stable>>

Finish ==
  /\ Exhausted /\ IsLastWindow
  /\ doing' = "done" /\ results' = WithGroup /\ group' = {}
  /\ UNCHANGED <<found, asked, window, passed, fetched, left, stable>>

(* The response has been sent; or the database fails, or the client goes away,
   and what has been sent is all there is. *)
EndRequest ==
  /\ doing # "idle"
  /\ found' = <<>> /\ asked' = NoRequest /\ doing' = "idle" /\ window' = NoWindow
  /\ passed' = {} /\ fetched' = 0 /\ left' = 0
  /\ group' = {} /\ results' = <<>> /\ stable' = TRUE

QueryNext ==
  \/ Receive
  \/ \E skipped \in SUBSET Rows : Execute(skipped)
  \/ \E row \in Rows : FetchRow(row)
  \/ QueryAgain \/ NextStep \/ Finish \/ EndRequest

QuerySpec == QueryInit /\ [][QueryNext]_queryVars

-----------------------------------------------------------------------------
(* Properties. *)

Matches(id) ==
  found[id].kept /\ Within(found[id].time, asked.min, asked.end, asked.closed)

Precedes(a, b) ==
  found[a].time > found[b].time \/ (found[a].time = found[b].time /\ a < b)

Matching == {id \in DOMAIN found : Matches(id)}

(* The place of an event among those that match. *)
Place(id) == Cardinality({other \in Matching : Precedes(other, id)}) + 1

IsAll == Len(results) = Cardinality(Matching) \/ Reached(results)

(* What is sent is true: "always sorted by their `time`, descendingly"
   (docs/src/usage/restapi.md), each event once, none that does not match, no
   more than opt.limit. *)
ResultsAreSound ==
  /\ \A i \in 1 .. Len(results) : Matches(results[i])
  /\ \A j \in 1 .. Len(results) : \A i \in 1 .. j - 1 :
       /\ results[i] # results[j]
       /\ found[results[i]].time >= found[results[j]].time
  /\ asked.limit # NoLimit => Len(results) <= asked.limit

(* And it is complete: however the interval is cut into steps and the steps into
   queries, whatever number of rows the events have, and though some of them
   are dropped after the query, the client gets exactly the newest events that
   match, and those with the same time in the order of their ids.  Only if the
   database puts rows with the same time in another order from one query to the
   next, an event may be missed; even then it is not repeated.  No query is
   executed, as asserted, when nothing is expected any more. *)
ResultsAreRight ==
  /\ ResultsAreSound
  /\ stable => /\ \A i \in 1 .. Len(results) : Place(results[i]) = i
               /\ doing = "done" => IsAll
  /\ doing = "asking" /\ asked.limit # NoLimit => StillExpected > 0

=============================================================================
