---------------------------- MODULE RowsCollector ----------------------------
(***************************************************************************)
(* Collectors of time-ordered rows                                         *)
(* (N6DataSources/n6datasources/collectors/base.py:                        *)
(* BaseTimeOrderedRowsCollector, on StatefulCollectorMixin and             *)
(* BaseTwoPhaseCollector).                                                 *)
(*                                                                         *)
(* A collector is run again and again.  Each run loads the state, gets the *)
(* rows that the source has, publishes those that are fresh according to   *)
(* the state, and saves the new state.  Nothing prevents two runs from     *)
(* being in progress at the same time.                                     *)
(***************************************************************************)
EXTENDS Naturals, FiniteSets

CONSTANTS
  Row,             (* All rows.                                             *)
  TimeOf,          (* TimeOf[r]: its time, as clean_row_time() gives it.    *)
  Run,             (* The runs that may be in progress at the same time.    *)
  MismatchIsFatal, (* The values that the option row_count_mismatch_is_fatal
                      has, in one run or another.                           *)
  MaxFailures      (* How many runs break off at most.                      *)

ASSUME RowsAssumption ==
  /\ IsFiniteSet(Row)
  /\ TimeOf \in [Row -> Nat \ {0}]
  /\ MismatchIsFatal \subseteq BOOLEAN
  /\ MaxFailures \in Nat

VARIABLES
  available, (* The rows that the source has.                               *)
  state,     (* The state file.                                             *)
  at,        (* at[p]: where run p is.                                      *)
  loaded,    (* loaded[p]: the state it has loaded...                       *)
  new,       (* new[p]: ...and the one it is going to save.                 *)
  fresh,     (* fresh[p]: the rows it has to publish.                       *)
  published, (* The rows published...                                       *)
  again,     (* ...and those published more than once.  History variables.  *)
  unusual,   (* What has happened so far that does not usually happen:
                "removal" or "return" of a row, or "overlap" of runs.  A
                history variable, too.                                      *)
  aborted,   (* Why a run last refused to collect: "no", "counts" (the
                ValueError) or "assertion".                                 *)
  failures   (* How many runs have broken off.                              *)

run == <<at, loaded, new, fresh>>
consumers == <<published, again>>
vars == <<available, state, run, consumers, unusual, aborted, failures>>

(* newest_row_time, newest_rows and rows_count.  0 is the oldest possible
   row time. *)
DefaultState == [newest |-> 0, rows |-> {}, count |-> 0]

RowsInit ==
  /\ available = {}
  /\ state = DefaultState
  /\ at = [p \in Run |-> "off"]
  /\ loaded = [p \in Run |-> DefaultState]
  /\ new = [p \in Run |-> DefaultState]
  /\ fresh = [p \in Run |-> {}]
  /\ published = {} /\ again = {} /\ unusual = {}
  /\ aborted = "no" /\ failures = 0

-----------------------------------------------------------------------------
(* The source. *)

Has(what) == unusual' = unusual \cup {what}

(* "...values of the time/order field of any new (fresh) rows must be greater
   than or equal to the time/order field's values of all rows collected":
   also by a run in progress. *)
Collected == published \cup UNION {fresh[p] : p \in Run}

Add(r) ==
  /\ r \notin available
  /\ \/ r \in published /\ Has("return")
     \/ /\ r \notin published
        /\ \A q \in Collected : TimeOf[q] <= TimeOf[r]
        /\ UNCHANGED unusual
  /\ available' = available \cup {r}
  /\ UNCHANGED <<state, run, consumers, aborted, failures>>

Withdraw(r) ==
  /\ r \in available
  /\ available' = available \ {r}
  /\ Has("removal")
  /\ UNCHANGED <<state, run, consumers, aborted, failures>>

-----------------------------------------------------------------------------
(* A run: run_collection(). *)

LoadState(p) ==
  /\ at[p] = "off"
  /\ at' = [at EXCEPT ![p] = "obtaining"]
  /\ loaded' = [loaded EXCEPT ![p] = state]
  /\ IF \A q \in Run : at[q] = "off" THEN UNCHANGED unusual ELSE Has("overlap")
  /\ UNCHANGED <<available, state, new, fresh, consumers, aborted, failures>>

(* get_fresh_rows_only(). *)
Selected(p) == {r \in available : TimeOf[r] >= loaded[p].newest}

(* With the rows of the newest time that have been collected. *)
FreshByTime(p) == Selected(p)

Fresh(p) == Selected(p) \ loaded[p].rows

IsNewest(r, rows) == \A q \in rows : TimeOf[q] <= TimeOf[r]
NewestRows(rows) == {r \in rows : IsNewest(r, rows)}

CountMismatch(p) ==
  Cardinality(available) # loaded[p].count + Cardinality(Fresh(p))

End(p) ==
  /\ at' = [at EXCEPT ![p] = "off"]
  /\ loaded' = [loaded EXCEPT ![p] = DefaultState]
  /\ new' = [new EXCEPT ![p] = DefaultState]
  /\ fresh' = [fresh EXCEPT ![p] = {}]
  /\ UNCHANGED <<available, consumers, unusual>>

(* _check_counts() raises ValueError. *)
AbortOnCounts(p) ==
  /\ at[p] = "obtaining"
  /\ CountMismatch(p) /\ TRUE \in MismatchIsFatal
  /\ aborted' = "counts"
  /\ End(p)
  /\ UNCHANGED <<state, failures>>

(* No fresh rows: the rows of the newest time are expected to be the same as
   before, or not to be there any more. *)
AsBefore(p) == Selected(p) = {} \/ NewestRows(Selected(p)) = loaded[p].rows

FindNothing(p) ==
  /\ at[p] = "obtaining"
  /\ CountMismatch(p) => FALSE \in MismatchIsFatal
  /\ Fresh(p) = {}
  /\ aborted' = IF AsBefore(p) THEN aborted ELSE "assertion"
  /\ End(p)
  /\ UNCHANGED <<state, failures>>

Obtain(p) ==
  /\ at[p] = "obtaining"
  /\ CountMismatch(p) => FALSE \in MismatchIsFatal
  /\ Fresh(p) # {}
  /\ fresh' = [fresh EXCEPT ![p] = Fresh(p)]
  /\ \E r \in NewestRows(Selected(p)) :
       new' = [new EXCEPT ![p] = [newest |-> TimeOf[r],
                                  rows |-> NewestRows(Selected(p)),
                                  count |-> Cardinality(available)]]
  /\ at' = [at EXCEPT ![p] = "publishing"]
  /\ UNCHANGED <<available, state, loaded, consumers, unusual, aborted, failures>>

(* The state is saved as soon as the rows have been put into the buffer. *)
PublishLater(p) ==
  /\ at[p] = "publishing"
  /\ at' = [at EXCEPT ![p] = "published"]
  /\ state' = new[p]
  /\ UNCHANGED <<available, loaded, new, fresh, consumers, unusual, aborted, failures>>

(* The publishing phase ends normally only if the connection has been closed
   normally, after the outbound buffer has been flushed. *)
Publish(p) ==
  /\ at[p] = "publishing"
  /\ at' = [at EXCEPT ![p] = "published"]
  /\ published' = published \cup fresh[p]
  /\ again' = again \cup (fresh[p] \cap published)
  /\ UNCHANGED <<available, state, loaded, new, fresh, unusual, aborted, failures>>

(* after_completed_publishing(). *)
SaveState(p) ==
  /\ at[p] = "published"
  /\ state' = new[p]
  /\ End(p)
  /\ UNCHANGED <<aborted, failures>>

(* The connection is lost, the run is interrupted or killed, or the state
   cannot be saved. *)
Fail(p) ==
  /\ at[p] # "off"
  /\ failures < MaxFailures
  /\ failures' = failures + 1
  /\ End(p)
  /\ UNCHANGED <<state, aborted>>

RunStep(p) ==
  \/ LoadState(p) \/ AbortOnCounts(p) \/ FindNothing(p) \/ Obtain(p)
  \/ Publish(p) \/ SaveState(p)

RowsNext ==
  \/ \E r \in Row : Add(r) \/ Withdraw(r)
  \/ \E p \in Run : RunStep(p) \/ Fail(p)

RowsSpec == RowsInit /\ [][RowsNext]_vars

-----------------------------------------------------------------------------
StateType == [newest : Nat, rows : SUBSET Row, count : Nat]

(* ...and some of the newest rows are fresh: the sanity assertion made when
   there are fresh rows holds. *)
RowsTypeOK ==
  /\ available \subseteq Row
  /\ state \in StateType
  /\ at \in [Run -> {"off", "obtaining", "publishing", "published"}]
  /\ loaded \in [Run -> StateType] /\ new \in [Run -> StateType]
  /\ fresh \in [Run -> SUBSET Row]
  /\ \A p \in Run : at[p] = "publishing" => new[p].rows \ loaded[p].rows # {}
  /\ published \subseteq Row /\ again \subseteq Row
  /\ unusual \subseteq {"removal", "return", "overlap"}
  /\ aborted \in {"no", "counts", "assertion"} /\ failures \in 0 .. MaxFailures

(* The rows that a run that loads s takes for collected. *)
Skipped(s) == {r \in available : TimeOf[r] < s.newest \/ r \in s.rows}

(* No row is lost: whatever the next run will skip has been published, even
   if runs overlap or break off. *)
NothingIsLost == Skipped(state) \subseteq published

(* A row is published twice only if a run has broken off, runs have overlapped
   or a row has come back; and a run is refused only if the source has dropped
   rows. *)
TroubleHasACause ==
  /\ again # {} => failures > 0 \/ unusual \cap {"overlap", "return"} # {}
  /\ aborted # "no" => "removal" \in unusual

(* No run passes over a row that is there and has not been published: unless it
   is refused or breaks off, it takes all of them. *)
TakesEveryRow ==
  \A p \in Run :
    at[p] = "obtaining" /\ at'[p] # "obtaining" /\ ~AbortOnCounts(p) /\ ~Fail(p)
      => available \subseteq published \cup fresh'[p]

(* No row is lost, and none is passed over. *)
RowsAreKept == [][NothingIsLost' /\ TakesEveryRow]_vars

=============================================================================
