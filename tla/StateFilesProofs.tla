-------------------------- MODULE StateFilesProofs --------------------------
(***************************************************************************)
(* What holds of the programs that keep their state in files from one run  *)
(* to the next, whatever the values of the constants.                      *)
(*                                                                         *)
(* Part 1: no row is lost by collectors of time-ordered rows, whatever the *)
(* rows, their times, the number of runs and of failures.  NothingIsLost   *)
(* speaks of the state file only.  It is preserved by the saving of a      *)
(* state because of what holds of the states that runs have in memory, and *)
(* by the arrival of a row because the newest time of such a state is the  *)
(* time of a row collected.                                                *)
(*                                                                         *)
(* Part 2: the state files of the aggregator agree with each other.  The   *)
(* handles that the data file will have and the payloads of the whole      *)
(* payload file, its unwritten end included, agree; copying the payloads   *)
(* still needed, one after another, keeps them at the places of their new  *)
(* handles.                                                                *)
(*                                                                         *)
(* Part 3: the groups of the aggregator are right.  What counts is that    *)
(* the groups are of today, except while the first event of a day is       *)
(* processed, and in the order in which they end, except for those with an *)
(* event out of order.                                                     *)
(***************************************************************************)
EXTENDS RowsCollector, AggregatorStorage, SourceAggregation, FiniteSetTheorems, TLAPS

-----------------------------------------------------------------------------
(* Part 1: RowsCollector. *)

(* To save s is safe once the rows of set P have been published, if the source
   has the rows of set A. *)
SafeGiven(A, s, P) ==
  /\ s.newest = 0 \/ \E q \in P : TimeOf[q] = s.newest
  /\ s.rows \subseteq P
  /\ \A r \in A : TimeOf[r] < s.newest => r \in P

Safe(s, P) == SafeGiven(available, s, P)

RunIsSafe(p) ==
  /\ at[p] = "obtaining" => Safe(loaded[p], published)
  /\ at[p] = "publishing" => Safe(new[p], published \cup fresh[p])
  /\ at[p] = "published" => Safe(new[p], published)

Types ==
  /\ available \subseteq Row
  /\ state \in StateType
  /\ at \in [Run -> {"off", "obtaining", "publishing", "published"}]
  /\ loaded \in [Run -> StateType] /\ new \in [Run -> StateType]
  /\ fresh \in [Run -> SUBSET Row]
  /\ published \subseteq Row /\ again \subseteq Row
  /\ unusual \subseteq {"removal", "return", "overlap"}
  /\ aborted \in {"no", "counts", "assertion"} /\ failures \in 0 .. MaxFailures

(* The sanity assertion made when there are fresh rows. *)
NewestIsFresh ==
  \A p \in Run : at[p] = "publishing" => new[p].rows \ loaded[p].rows # {}

(* Why it holds: a loaded state has all its rows at its newest time. *)
AtNewest(s) == \A r \in s.rows : TimeOf[r] = s.newest
AllAtNewest ==
  AtNewest(state) /\ \A p \in Run : AtNewest(loaded[p]) /\ AtNewest(new[p])

AllSafe == Safe(state, published) /\ \A p \in Run : RunIsSafe(p)

(* The inductive invariant. *)
RowsInvariant == Types /\ NewestIsFresh /\ AllAtNewest /\ AllSafe

-----------------------------------------------------------------------------
(* The row counts are numbers. *)
LEMMA CountIsNat ==
  ASSUME NEW S \in SUBSET Row
  PROVE Cardinality(S) \in Nat
<1>1. IsFiniteSet(S)  BY RowsAssumption, FS_Subset
<1> QED  BY <1>1, FS_CardinalityType

(* The invariant holds initially. *)
LEMMA InvariantHoldsFirst == RowsInit => RowsInvariant
BY RowsAssumption DEF RowsInit, RowsInvariant, Types, NewestIsFresh, AllAtNewest,
  AtNewest, AllSafe, Safe, SafeGiven, RunIsSafe, DefaultState, StateType

(* Types are preserved: the only step that makes up a new state is Obtain. *)
LEMMA TypesPreserved == Types /\ [RowsNext]_vars => Types'
<1> SUFFICES ASSUME Types, [RowsNext]_vars  PROVE Types'
  OBVIOUS
<1> USE RowsAssumption DEF Types, StateType
<1>1. ASSUME NEW r \in Row, Add(r) \/ Withdraw(r)  PROVE Types'
  BY <1>1 DEF Add, Withdraw, Has, run, consumers
<1>2. ASSUME NEW p \in Run, LoadState(p)  PROVE Types'
  BY <1>2 DEF LoadState, Has, consumers
<1>3. ASSUME NEW p \in Run, Obtain(p)  PROVE Types'
  <2>1. Selected(p) \subseteq Row /\ Fresh(p) \subseteq Row /\ NewestRows(Selected(p)) \subseteq Row
    BY DEF Selected, Fresh, NewestRows
  <2>2. Cardinality(available) \in Nat
    BY CountIsNat
  <2> QED  BY <1>3, <2>1, <2>2 DEF Obtain, consumers
<1>4. ASSUME NEW p \in Run, Publish(p)  PROVE Types'
  BY <1>4 DEF Publish
<1>5. ASSUME NEW p \in Run, AbortOnCounts(p) \/ FindNothing(p) \/ SaveState(p) \/ Fail(p)
      PROVE Types'
  <2>1. End(p)
    BY <1>5 DEF AbortOnCounts, FindNothing, SaveState, Fail
  <2>2. (available \subseteq Row /\ at \in [Run -> {"off", "obtaining", "publishing", "published"}]
         /\ fresh \in [Run -> SUBSET Row] /\ published \subseteq Row /\ again \subseteq Row
         /\ unusual \subseteq {"removal", "return", "overlap"})'
    BY <2>1 DEF End, consumers
  <2>3. (loaded \in [Run -> StateType] /\ new \in [Run -> StateType])'
    BY <2>1 DEF End, DefaultState
  <2>4. state' \in {state, new[p]}
    BY <1>5 DEF AbortOnCounts, FindNothing, SaveState, Fail
  <2>5. aborted' \in {aborted, "counts", "assertion"}
    BY <1>5 DEF AbortOnCounts, FindNothing, SaveState, Fail
  <2>6. failures' = failures \/ (failures < MaxFailures /\ failures' = failures + 1)
    BY <1>5, Zenon DEF AbortOnCounts, FindNothing, SaveState, Fail
  <2>7. (state \in StateType /\ aborted \in {"no", "counts", "assertion"})'
    BY <2>4, <2>5
  <2>8. failures' \in 0 .. MaxFailures
    BY <2>6
  <2> QED  BY <2>2, <2>3, <2>7, <2>8
<1> QED
  BY <1>1, <1>2, <1>3, <1>4, <1>5 DEF RowsNext, RunStep, vars, run, consumers

(* When there are fresh rows, some of the newest rows are fresh. *)
LEMMA SomeNewestIsFresh ==
  ASSUME Types, NEW p \in Run, AtNewest(loaded[p]), Fresh(p) # {},
         NewestRows(Selected(p)) # {}
  PROVE NewestRows(Selected(p)) \ loaded[p].rows # {}
<1>1. PICK r \in Fresh(p) : TRUE
  OBVIOUS
<1>2. PICK q \in NewestRows(Selected(p)) : TRUE
  OBVIOUS
<1>3. r \in Row /\ q \in Row /\ loaded[p].newest \in Nat /\ TimeOf[r] \in Nat /\ TimeOf[q] \in Nat
  BY RowsAssumption DEF Types, StateType, Fresh, Selected, NewestRows
<1>5. loaded[p].newest <= TimeOf[r] /\ TimeOf[r] <= TimeOf[q] /\ r \in Selected(p)
  BY DEF Fresh, Selected, NewestRows, IsNewest
<1>6. CASE q \in loaded[p].rows
  <2>1. TimeOf[r] = TimeOf[q]
    BY <1>3, <1>5, <1>6 DEF AtNewest
  <2>2. r \in NewestRows(Selected(p)) /\ r \notin loaded[p].rows
    BY <1>5, <2>1 DEF NewestRows, IsNewest, Fresh
  <2> QED  BY <2>2
<1>7. CASE q \notin loaded[p].rows
  BY <1>7
<1> QED  BY <1>6, <1>7

LEMMA FreshnessPreserved ==
  Types /\ NewestIsFresh /\ AllAtNewest /\ [RowsNext]_vars => (NewestIsFresh /\ AllAtNewest)'
<1> SUFFICES ASSUME Types, NewestIsFresh, AllAtNewest, [RowsNext]_vars
             PROVE (NewestIsFresh /\ AllAtNewest)'
  OBVIOUS
<1> USE DEF Types, NewestIsFresh, AllAtNewest
<1>1. ASSUME NEW r \in Row, Add(r) \/ Withdraw(r)  PROVE (NewestIsFresh /\ AllAtNewest)'
  BY <1>1 DEF Add, Withdraw, Has, run, consumers, AtNewest
<1>2. ASSUME NEW p \in Run, LoadState(p)  PROVE (NewestIsFresh /\ AllAtNewest)'
  BY <1>2 DEF LoadState, Has, consumers, AtNewest
<1>3. ASSUME NEW p \in Run, Obtain(p)  PROVE (NewestIsFresh /\ AllAtNewest)'
  <2>1. PICK r \in NewestRows(Selected(p)) :
          new' = [new EXCEPT ![p] = [newest |-> TimeOf[r],
                                     rows |-> NewestRows(Selected(p)),
                                     count |-> Cardinality(available)]]
    BY <1>3 DEF Obtain
  <2>2. NewestRows(Selected(p)) \ loaded[p].rows # {}
    BY <1>3, <2>1, SomeNewestIsFresh DEF Obtain
  <2>3. \A q \in NewestRows(Selected(p)) : TimeOf[q] = TimeOf[r]
    BY <2>1, RowsAssumption DEF NewestRows, IsNewest, Selected
  <2> QED  BY <1>3, <2>1, <2>2, <2>3 DEF Obtain, AtNewest, consumers
<1>4. ASSUME NEW p \in Run, Publish(p)  PROVE (NewestIsFresh /\ AllAtNewest)'
  BY <1>4 DEF Publish, AtNewest
<1>5. ASSUME NEW p \in Run, AbortOnCounts(p) \/ FindNothing(p) \/ SaveState(p) \/ Fail(p)
      PROVE (NewestIsFresh /\ AllAtNewest)'
  <2>1. End(p)
    BY <1>5 DEF AbortOnCounts, FindNothing, SaveState, Fail
  <2>2. state' = state \/ state' = new[p]
    BY <1>5 DEF AbortOnCounts, FindNothing, SaveState, Fail
  <2> QED  BY <2>1, <2>2 DEF End, DefaultState, AtNewest
<1> QED
  BY <1>1, <1>2, <1>3, <1>4, <1>5 DEF RowsNext, RunStep, vars, run, consumers, AtNewest

-----------------------------------------------------------------------------
(* A state remains safe when more rows have been published. *)
LEMMA SafeIsMonotonic ==
  ASSUME NEW s, NEW P, NEW Q, P \subseteq Q, Safe(s, P)
  PROVE Safe(s, Q)
BY DEF Safe, SafeGiven

(* A state remains safe when rows come or go at the source. *)
LEMMA SafeWhateverTheSource ==
  ASSUME Types, NEW s \in StateType, NEW P \in SUBSET Collected, published \subseteq P,
         Safe(s, P), NEW r \in Row, Add(r) \/ Withdraw(r)
  PROVE SafeGiven(available', s, P)
<1> USE RowsAssumption DEF Types, StateType
<1>1. CASE Add(r) /\ r \notin published
  <2>1. \A q \in P : TimeOf[q] <= TimeOf[r]
    BY <1>1 DEF Add
  <2>2. ~(TimeOf[r] < s.newest)
    BY <2>1 DEF Safe, SafeGiven, Collected
  <2> QED  BY <1>1, <2>2 DEF Safe, SafeGiven, Add
<1>2. CASE Add(r) /\ r \in published
  BY <1>2 DEF Safe, SafeGiven, Add
<1>3. CASE Withdraw(r)
  BY <1>3 DEF Safe, SafeGiven, Withdraw
<1> QED  BY <1>1, <1>2, <1>3

(* What a run is going to save is safe once its fresh rows are published. *)
LEMMA ObtainedIsSafe ==
  ASSUME Types, NEW p \in Run, Safe(loaded[p], published), Obtain(p)
  PROVE Safe(new'[p], published \cup Fresh(p))
<1> USE RowsAssumption DEF Types, StateType
<1>1. PICK r \in NewestRows(Selected(p)) :
        new' = [new EXCEPT ![p] = [newest |-> TimeOf[r],
                                   rows |-> NewestRows(Selected(p)),
                                   count |-> Cardinality(available)]]
  BY DEF Obtain
<1>2. Selected(p) \subseteq published \cup Fresh(p)
  BY DEF Safe, SafeGiven, Fresh
<1>3. \A q \in available : q \in Selected(p) \/ TimeOf[q] < loaded[p].newest
  BY DEF Selected
<1>4. new'[p].newest = TimeOf[r] /\ new'[p].rows = NewestRows(Selected(p))
  BY <1>1
<1>5. r \in Selected(p) /\ NewestRows(Selected(p)) \subseteq Selected(p)
  BY DEF NewestRows
<1> QED  BY <1>2, <1>3, <1>4, <1>5 DEF Safe, SafeGiven

LEMMA SafetyPreserved == Types /\ AllSafe /\ [RowsNext]_vars => AllSafe'
<1> SUFFICES ASSUME Types, AllSafe, [RowsNext]_vars  PROVE AllSafe'
  OBVIOUS
<1> USE DEF Types, AllSafe
<1>1. ASSUME NEW r \in Row, Add(r) \/ Withdraw(r)  PROVE AllSafe'
  <2>1. UNCHANGED <<state, run, consumers>>
    BY <1>1 DEF Add, Withdraw, run
  <2>2. published \subseteq Collected
    BY DEF Collected
  <2>3. SafeGiven(available', state, published)
    BY <1>1, <2>2, SafeWhateverTheSource
  <2>4. ASSUME NEW p \in Run  PROVE RunIsSafe(p)'
    <3>1. published \cup fresh[p] \subseteq Collected
      BY DEF Collected
    <3>2. loaded[p] \in StateType /\ new[p] \in StateType
      OBVIOUS
    <3>3. at[p] = "obtaining" => SafeGiven(available', loaded[p], published)
      BY <1>1, <2>2, <3>2, SafeWhateverTheSource DEF RunIsSafe
    <3>4. at[p] = "publishing" => SafeGiven(available', new[p], published \cup fresh[p])
      BY <1>1, <3>1, <3>2, SafeWhateverTheSource DEF RunIsSafe
    <3>5. at[p] = "published" => SafeGiven(available', new[p], published)
      BY <1>1, <2>2, <3>2, SafeWhateverTheSource DEF RunIsSafe
    <3> QED  BY <2>1, <3>3, <3>4, <3>5 DEF RunIsSafe, Safe, run, consumers
  <2> QED  BY <2>1, <2>3, <2>4 DEF Safe, consumers
<1>2. ASSUME NEW p \in Run, LoadState(p)  PROVE AllSafe'
  BY <1>2 DEF LoadState, Has, consumers, RunIsSafe, Safe, SafeGiven
<1>3. ASSUME NEW p \in Run, Obtain(p)  PROVE AllSafe'
  <2>1. Safe(new'[p], published \cup Fresh(p))
    BY <1>3, ObtainedIsSafe DEF Obtain, RunIsSafe
  <2> QED  BY <1>3, <2>1 DEF Obtain, consumers, RunIsSafe, Safe, SafeGiven
<1>4. ASSUME NEW p \in Run, Publish(p)  PROVE AllSafe'
  <2>1. published' = published \cup fresh[p] /\ published \subseteq published'
    BY <1>4 DEF Publish
  <2>2. Safe(state, published)'
    BY <1>4, <2>1 DEF Publish, Safe, SafeGiven
  <2>3. ASSUME NEW q \in Run  PROVE RunIsSafe(q)'
    BY <1>4, <2>1 DEF Publish, RunIsSafe, Safe, SafeGiven
  <2> QED  BY <2>2, <2>3
<1>5. ASSUME NEW p \in Run, SaveState(p)  PROVE AllSafe'
  BY <1>5 DEF SaveState, End, consumers, RunIsSafe, Safe, SafeGiven
<1>6. ASSUME NEW p \in Run, AbortOnCounts(p) \/ FindNothing(p) \/ Fail(p)  PROVE AllSafe'
  <2>1. End(p) /\ state' = state
    BY <1>6 DEF AbortOnCounts, FindNothing, Fail
  <2> QED  BY <2>1 DEF End, consumers, RunIsSafe, Safe, SafeGiven
<1> QED
  BY <1>1, <1>2, <1>3, <1>4, <1>5, <1>6
  DEF RowsNext, RunStep, vars, run, consumers, RunIsSafe, Safe, SafeGiven

-----------------------------------------------------------------------------
LEMMA RowsInvariantHolds == RowsSpec => []RowsInvariant
<1>1. RowsInvariant /\ [RowsNext]_vars => RowsInvariant'
  BY TypesPreserved, FreshnessPreserved, SafetyPreserved DEF RowsInvariant
<1> QED  BY <1>1, InvariantHoldsFirst, PTL DEF RowsSpec

(* The types, and the sanity assertion that get_fresh_rows_only() makes when
   there are fresh rows. *)
THEOREM RowsTypeCorrect == RowsSpec => []RowsTypeOK
<1>1. RowsInvariant => RowsTypeOK
  BY DEF RowsInvariant, Types, NewestIsFresh, RowsTypeOK
<1> QED  BY <1>1, RowsInvariantHolds, PTL

(* No row is lost: what the next run will skip has been published. *)
THEOREM NoRowIsLost == RowsSpec => []NothingIsLost
<1>1. RowsInvariant => NothingIsLost
  BY DEF RowsInvariant, AllSafe, Safe, SafeGiven, NothingIsLost, Skipped
<1> QED  BY <1>1, RowsInvariantHolds, PTL

(* No run passes over a row that has not been published. *)
LEMMA NoRowIsPassedOver == RowsInvariant /\ RowsNext => TakesEveryRow
<1> DEFINE Taken(p) == available \subseteq published \cup fresh'[p]
<1>1. ASSUME RowsInvariant, RowsNext, NEW p \in Run,
             at[p] = "obtaining", at'[p] # "obtaining", ~AbortOnCounts(p), ~Fail(p)
      PROVE Taken(p)
  <2>1. Safe(loaded[p], published)
    BY <1>1 DEF RowsInvariant, AllSafe, RunIsSafe
  <2>2. available \subseteq published \cup Fresh(p)
    BY <1>1, <2>1, RowsAssumption
    DEF Safe, SafeGiven, Fresh, Selected, RowsInvariant, Types, StateType
  <2>3. CASE Obtain(p)
    BY <1>1, <2>2, <2>3 DEF Obtain, RowsInvariant, Types
  <2>4. CASE FindNothing(p)
    BY <1>1, <2>2, <2>4 DEF FindNothing
  <2>5. ~(\E q \in Run : Publish(q))
    BY <1>1 DEF Publish, RowsInvariant, Types
  <2>6. ~(\E q \in Run : LoadState(q))
    BY <1>1 DEF LoadState, RowsInvariant, Types
  <2>7. ~(\E q \in Run : SaveState(q))
    BY <1>1 DEF SaveState, End, RowsInvariant, Types
  <2>8. \A q \in Run \ {p} :
          ~Obtain(q) /\ ~FindNothing(q) /\ ~AbortOnCounts(q) /\ ~Fail(q)
    BY <1>1 DEF Obtain, FindNothing, AbortOnCounts, Fail, End, RowsInvariant, Types
  <2>9. ~(\E r \in Row : Add(r) \/ Withdraw(r))
    BY <1>1 DEF Add, Withdraw, run
  <2> QED
    BY <1>1, <2>3, <2>4, <2>5, <2>6, <2>7, <2>8, <2>9 DEF RowsNext, RunStep
<1> QED  BY <1>1 DEF TakesEveryRow

(* No row is lost or passed over, for any number of rows, runs and failures. *)
THEOREM RowsKept == RowsSpec => RowsAreKept
<1>1. RowsInvariant => NothingIsLost
  BY DEF RowsInvariant, AllSafe, Safe, SafeGiven, NothingIsLost, Skipped
<1>2. RowsInvariant /\ [RowsNext]_vars => [TakesEveryRow]_vars
  BY NoRowIsPassedOver
<1> QED  BY <1>1, <1>2, RowsInvariantHolds, PTL DEF RowsSpec, RowsAreKept

-----------------------------------------------------------------------------
(***************************************************************************)
(* Why rows are published twice, and why runs refuse to collect            *)
(***************************************************************************)
Passes(s, r) == TimeOf[r] < s.newest \/ r \in s.rows

Undisturbed == failures = 0 /\ unusual \cap {"overlap", "return"} = {}

OneAtATime == \A p, q \in Run : at[p] # "off" /\ at[q] # "off" => p = q

(* Unless something unusual happens, the state file passes over every row that
   has been published, and what is going to be saved does, but while a run has
   published and has not saved its state. *)
PublishedIsPassed ==
  (\A p \in Run : at[p] # "published") => \A r \in available \cap published : Passes(state, r)

RunPublishesOnce(p) ==
  /\ at[p] = "obtaining" => loaded[p] = state
  /\ at[p] = "publishing" => fresh[p] \cap published = {}
  /\ at[p] \in {"publishing", "published"} =>
       \A r \in (available \cap published) \cup fresh[p] : Passes(new[p], r)

EachOnce ==
  again = {} /\ OneAtATime /\ PublishedIsPassed /\ \A p \in Run : RunPublishesOnce(p)

(* As long as the source has dropped nothing, a state counts the rows that it
   passes over. *)
CountedIn(A, s) == s.rows \subseteq A /\ s.count = Cardinality({r \in A : Passes(s, r)})
CountsRows(s) == CountedIn(available, s)

AllCounted ==
  /\ aborted = "no"
  /\ Collected \subseteq available
  /\ CountsRows(state)
  /\ \A p \in Run :
       /\ at[p] = "obtaining" => CountsRows(loaded[p])
       /\ at[p] \in {"publishing", "published"} => CountsRows(new[p])

CausesInvariant ==
  RowsInvariant /\ (Undisturbed => EachOnce) /\ ("removal" \notin unusual => AllCounted)

LEMMA Antisymmetry == \A m, n \in Nat : m <= n /\ ~(m < n) => m = n
OBVIOUS

(* What Obtain is going to save passes over all that the source has. *)
LEMMA ObtainedPassesAll ==
  ASSUME Types, NEW p \in Run, Obtain(p)
  PROVE  /\ \A r \in available : Passes(new'[p], r)
         /\ new'[p].rows \subseteq available /\ new'[p].count = Cardinality(available)
<1> USE RowsAssumption DEF Types, StateType
<1>1. PICK r \in NewestRows(Selected(p)) :
        new' = [new EXCEPT ![p] = [newest |-> TimeOf[r],
                                   rows |-> NewestRows(Selected(p)),
                                   count |-> Cardinality(available)]]
  BY DEF Obtain
<1>2. /\ new'[p].newest = TimeOf[r] /\ new'[p].rows = NewestRows(Selected(p))
      /\ new'[p].count = Cardinality(available)
  BY <1>1
<1>3. r \in Selected(p) /\ \A q \in Selected(p) : TimeOf[q] <= TimeOf[r]
  BY DEF NewestRows, IsNewest
<1>4. ASSUME NEW q \in available  PROVE TimeOf[q] < TimeOf[r] \/ q \in NewestRows(Selected(p))
  <2>1. q \in Row /\ r \in Row /\ TimeOf[q] \in Nat /\ TimeOf[r] \in Nat /\ loaded[p].newest \in Nat
    BY <1>3 DEF Selected
  <2>2. CASE q \notin Selected(p)
    BY <1>3, <2>1, <2>2 DEF Selected
  <2>3. CASE q \in Selected(p) /\ ~(TimeOf[q] < TimeOf[r])
    <3>0. TimeOf[q] <= TimeOf[r]
      BY <1>3, <2>3
    <3>1. TimeOf[q] = TimeOf[r]
      BY Antisymmetry, <2>1, <2>3, <3>0, Zenon
    <3> QED  BY <1>3, <2>3, <3>1 DEF NewestRows, IsNewest
  <2> QED  BY <2>2, <2>3
<1>5. NewestRows(Selected(p)) \subseteq available
  BY DEF NewestRows, Selected
<1> QED  BY <1>2, <1>4, <1>5 DEF Passes

(* Rows published twice. *)
LEMMA EachOncePreserved ==
  ASSUME RowsInvariant, Undisturbed => EachOnce, [RowsNext]_vars
  PROVE  (Undisturbed => EachOnce)'
<1> SUFFICES ASSUME Undisturbed'  PROVE EachOnce'
  OBVIOUS
<1> USE DEF Types
<1>0. Types
  BY DEF RowsInvariant
<1>1. Undisturbed /\ EachOnce
  <2>1. unusual \subseteq unusual'
    BY DEF RowsNext, RunStep, Add, Withdraw, LoadState, AbortOnCounts, FindNothing, Obtain, Publish, SaveState,
           Fail, End, Has, vars
  <2>2. failures' = failures \/ failures' = failures + 1
    BY DEF RowsNext, RunStep, Add, Withdraw, LoadState, AbortOnCounts, FindNothing, Obtain, Publish, SaveState,
           Fail, End, Has, vars
  <2>3. failures \in Nat
    BY <1>0, RowsAssumption
  <2>4. failures = 0
    BY <2>2, <2>3 DEF Undisturbed
  <2> QED  BY <2>1, <2>4 DEF Undisturbed
<1>2. ASSUME NEW r \in Row, Add(r) \/ Withdraw(r)  PROVE EachOnce'
  <2>1. UNCHANGED <<state, run, consumers>>
    BY <1>2 DEF Add, Withdraw
  <2>2. available' \cap published \subseteq available
    BY <1>2, <1>1 DEF Add, Withdraw, Has, Undisturbed
  <2> QED
    BY <1>1, <2>1, <2>2 DEF EachOnce, OneAtATime, PublishedIsPassed, RunPublishesOnce, Passes, run, consumers
<1>3. ASSUME NEW p \in Run, LoadState(p)  PROVE EachOnce'
  <2>1. \A q \in Run : at[q] = "off"
    BY <1>3 DEF LoadState, Has, Undisturbed
  <2>2. \A q \in Run : at'[q] \in {"off", "obtaining"} /\ (at'[q] # "off" => q = p)
    BY <1>0, <1>3, <2>1 DEF LoadState
  <2> QED
    BY <1>0, <1>1, <1>3, <2>1, <2>2
    DEF LoadState, EachOnce, OneAtATime, PublishedIsPassed, RunPublishesOnce, Passes, consumers
<1>4. ASSUME NEW p \in Run, Obtain(p)  PROVE EachOnce'
  <2>1. \A q \in Run \ {p} : at[q] = "off"
    BY <1>1, <1>4 DEF EachOnce, OneAtATime, Obtain
  <2>2. /\ at' = [at EXCEPT ![p] = "publishing"] /\ UNCHANGED <<available, state, loaded, published, again>>
        /\ fresh'[p] = Fresh(p)
    BY <1>0, <1>4 DEF Obtain, consumers
  <2>3. \A r \in available : Passes(new'[p], r)
    BY <1>0, <1>4, ObtainedPassesAll
  <2>4. Fresh(p) \subseteq available /\ Fresh(p) \cap published = {}
    <3>1. \A r \in available \cap published : Passes(loaded[p], r)
      BY <1>1, <1>4, <2>1 DEF EachOnce, PublishedIsPassed, RunPublishesOnce, Obtain
    <3>2. \A r \in available : TimeOf[r] \in Nat
      BY <1>0, RowsAssumption
    <3>3. loaded[p].newest \in Nat
      BY <1>0 DEF StateType
    <3> QED  BY <3>1, <3>2, <3>3 DEF Fresh, Selected, Passes
  <2>5. RunPublishesOnce(p)'
    BY <1>0, <2>2, <2>3, <2>4 DEF RunPublishesOnce, Passes
  <2>6. \A q \in Run \ {p} : RunPublishesOnce(q)'
    BY <1>0, <2>1, <2>2 DEF RunPublishesOnce
  <2>7. OneAtATime'
    BY <1>0, <2>1, <2>2 DEF OneAtATime
  <2>8. PublishedIsPassed'
    BY <1>0, <1>1, <1>4, <2>1, <2>2 DEF EachOnce, PublishedIsPassed, Obtain, Passes
  <2> QED
    BY <1>1, <2>2, <2>5, <2>6, <2>7, <2>8 DEF EachOnce
<1>5. ASSUME NEW p \in Run, Publish(p)  PROVE EachOnce'
  <2>1. \A q \in Run \ {p} : at[q] = "off"
    BY <1>1, <1>5 DEF EachOnce, OneAtATime, Publish
  <2>2. /\ at' = [at EXCEPT ![p] = "published"] /\ published' = published \cup fresh[p]
        /\ UNCHANGED <<available, state, loaded, new, fresh>> /\ again' = again \cup (fresh[p] \cap published)
    BY <1>5 DEF Publish
  <2>3. again' = {}
    BY <1>1, <1>5, <2>2 DEF EachOnce, RunPublishesOnce, Publish
  <2>4. RunPublishesOnce(p)'
    BY <1>0, <1>1, <1>5, <2>2 DEF EachOnce, RunPublishesOnce, Passes, Publish
  <2>5. \A q \in Run \ {p} : RunPublishesOnce(q)'
    BY <1>0, <2>1, <2>2 DEF RunPublishesOnce
  <2>6. OneAtATime' /\ PublishedIsPassed'
    BY <1>0, <2>1, <2>2 DEF OneAtATime, PublishedIsPassed
  <2> QED
    BY <2>3, <2>4, <2>5, <2>6 DEF EachOnce
<1>6. ASSUME NEW p \in Run, SaveState(p)  PROVE EachOnce'
  <2>1. \A q \in Run \ {p} : at[q] = "off"
    BY <1>1, <1>6 DEF EachOnce, OneAtATime, SaveState
  <2>2. state' = new[p] /\ at' = [at EXCEPT ![p] = "off"] /\ UNCHANGED <<available, published, again>>
    BY <1>6 DEF SaveState, End, consumers
  <2>3. \A q \in Run : at'[q] = "off"
    BY <1>0, <2>1, <2>2
  <2>4. \A r \in available \cap published : Passes(new[p], r)
    BY <1>1, <1>6 DEF EachOnce, RunPublishesOnce, SaveState
  <2> QED
    BY <1>1, <2>2, <2>3, <2>4 DEF EachOnce, OneAtATime, PublishedIsPassed, RunPublishesOnce, Passes
<1>7. ASSUME NEW p \in Run, AbortOnCounts(p) \/ FindNothing(p)  PROVE EachOnce'
  <2>1. \A q \in Run \ {p} : at[q] = "off"
    BY <1>1, <1>7 DEF EachOnce, OneAtATime, AbortOnCounts, FindNothing
  <2>2. /\ at[p] = "obtaining" /\ at' = [at EXCEPT ![p] = "off"]
        /\ UNCHANGED <<available, published, again, state>>
    BY <1>7 DEF AbortOnCounts, FindNothing, End, consumers
  <2>3. \A q \in Run : at'[q] = "off" /\ at[q] # "published"
    BY <1>0, <2>1, <2>2
  <2> QED
    BY <1>1, <2>2, <2>3 DEF EachOnce, OneAtATime, PublishedIsPassed, RunPublishesOnce, Passes
<1>8. ASSUME NEW p \in Run, Fail(p)  PROVE EachOnce'
  BY <1>0, <1>8, RowsAssumption DEF Fail, Undisturbed
<1>9. CASE UNCHANGED vars
  BY <1>1, <1>9
  DEF vars, run, consumers, EachOnce, OneAtATime, PublishedIsPassed, RunPublishesOnce, Passes
<1> QED
  BY <1>2, <1>3, <1>4, <1>5, <1>6, <1>7, <1>8, <1>9 DEF RowsNext, RunStep

(* A new row, which is not older than any row collected, is not passed over. *)
LEMMA CountedWhenAdded ==
  ASSUME Types, NEW s \in StateType, NEW P \in SUBSET Collected, Safe(s, P), Collected \subseteq available,
         CountsRows(s), NEW r \in Row, Add(r)
  PROVE  CountsRows(s)'
<1> USE RowsAssumption DEF Types, StateType
<1>1. r \notin available /\ available' = available \cup {r} /\ r \notin published
  BY DEF Add, Collected
<1>2. \A q \in P : q \in Row /\ TimeOf[q] <= TimeOf[r]
  BY <1>1 DEF Add, Collected
<1>3. ~(TimeOf[r] < s.newest)
  BY <1>2 DEF Safe, SafeGiven
<1>4. r \notin s.rows
  BY <1>1 DEF CountsRows, CountedIn
<1>5. {q \in available' : Passes(s, q)} = {q \in available : Passes(s, q)}
  BY <1>1, <1>3, <1>4 DEF Passes
<1> QED  BY <1>1, <1>5 DEF CountsRows, CountedIn

(* What is fresh, and what is passed over, make up what the source has. *)
LEMMA CountsMatch ==
  ASSUME Types, NEW p \in Run, CountsRows(loaded[p])
  PROVE  ~CountMismatch(p)
<1> USE RowsAssumption DEF Types, StateType
<1> DEFINE S == {r \in available : Passes(loaded[p], r)}
<1>1. S \cup Fresh(p) = available /\ S \cap Fresh(p) = {}
  BY DEF Passes, Fresh, Selected
<1>2. S \subseteq Row /\ Fresh(p) \subseteq Row
  BY <1>1
<1> HIDE DEF S
<1>3. IsFiniteSet(S) /\ IsFiniteSet(Fresh(p))
  BY <1>2, FS_Subset
<1>4. Cardinality(available) = Cardinality(S) + Cardinality(Fresh(p)) - Cardinality({})
  BY <1>1, <1>3, FS_Union
<1>5. Cardinality({}) = 0 /\ Cardinality(S) \in Nat /\ Cardinality(Fresh(p)) \in Nat
  BY <1>3, FS_EmptySet, FS_CardinalityType
<1>6. Cardinality(available) = Cardinality(S) + Cardinality(Fresh(p))
  BY <1>4, <1>5
<1> QED  BY <1>6 DEF CountMismatch, CountsRows, CountedIn, S

(* Then, if nothing is fresh, the newest rows are the same as before. *)
LEMMA NewestAreAsBefore ==
  ASSUME Types, NEW p \in Run, AtNewest(loaded[p]), CountsRows(loaded[p]), Fresh(p) = {}
  PROVE  AsBefore(p)
<1> USE RowsAssumption DEF Types, StateType
<1>1. Selected(p) \subseteq loaded[p].rows
  BY DEF Fresh
<1>2. \A r \in loaded[p].rows : r \in available /\ TimeOf[r] = loaded[p].newest
  BY DEF CountsRows, CountedIn, AtNewest
<1>3. loaded[p].rows \subseteq Selected(p)
  BY <1>2 DEF Selected
<1>4. \A q, r \in loaded[p].rows : TimeOf[q] <= TimeOf[r]
  BY <1>2
<1>5. Selected(p) = loaded[p].rows
  BY <1>1, <1>3
<1> QED  BY <1>4, <1>5 DEF AsBefore, NewestRows, IsNewest

LEMMA AllCountedPreserved ==
  ASSUME RowsInvariant, "removal" \notin unusual => AllCounted, [RowsNext]_vars
  PROVE  ("removal" \notin unusual => AllCounted)'
<1> SUFFICES ASSUME ("removal" \notin unusual)'  PROVE AllCounted'
  OBVIOUS
<1> USE DEF Types
<1>0. Types /\ AllSafe /\ AllAtNewest
  BY DEF RowsInvariant
<1>1. AllCounted
  BY DEF RowsNext, RunStep, Add, Withdraw, LoadState, AbortOnCounts, FindNothing, Obtain, Publish, SaveState,
         Fail, End, Has, vars
<1>2. ASSUME NEW r \in Row, Add(r)  PROVE AllCounted'
  <2>1. UNCHANGED <<state, run, consumers, aborted>> /\ available \subseteq available'
    BY <1>2 DEF Add
  <2>2. published \subseteq Collected /\ \A p \in Run : published \cup fresh[p] \subseteq Collected
    BY DEF Collected
  <2>3. /\ Safe(state, published) /\ CountsRows(state) /\ Collected \subseteq available
        /\ state \in StateType
    BY <1>0, <1>1 DEF AllSafe, AllCounted
  <2>4. CountsRows(state)'
    BY <1>0, <1>2, <2>1, <2>2, <2>3, CountedWhenAdded
  <2>5. ASSUME NEW p \in Run
        PROVE  /\ at[p] = "obtaining" => CountsRows(loaded[p])'
               /\ at[p] \in {"publishing", "published"} => CountsRows(new[p])'
    <3>0. loaded[p] \in StateType /\ new[p] \in StateType
      BY <1>0
    <3>1. CASE at[p] = "obtaining"
      <4>1. CountsRows(loaded[p]) /\ Safe(loaded[p], published)
        BY <1>0, <1>1, <3>1 DEF AllSafe, RunIsSafe, AllCounted
      <4> QED  BY <1>0, <1>2, <2>1, <2>2, <2>3, <3>0, <3>1, <4>1, CountedWhenAdded DEF run
    <3>2. CASE at[p] \in {"publishing", "published"}
      <4>1. CountsRows(new[p]) /\ Safe(new[p], published \cup fresh[p])
        BY <1>0, <1>1, <3>2, SafeIsMonotonic DEF AllSafe, RunIsSafe, AllCounted
      <4> QED  BY <1>0, <1>2, <2>1, <2>2, <2>3, <3>0, <3>2, <4>1, CountedWhenAdded DEF run
    <3> QED  BY <3>1, <3>2
  <2>6. Collected' = Collected
    BY <2>1 DEF Collected, run, consumers
  <2> QED
    BY <1>1, <2>1, <2>3, <2>4, <2>5, <2>6 DEF AllCounted, run
<1>3. ASSUME NEW r \in Row, Withdraw(r)  PROVE FALSE
  BY <1>3 DEF Withdraw, Has
<1>4. ASSUME NEW p \in Run, LoadState(p)  PROVE AllCounted'
  BY <1>0, <1>1, <1>4 DEF LoadState, AllCounted, Collected, CountsRows, consumers
<1>5. ASSUME NEW p \in Run, Obtain(p)  PROVE AllCounted'
  <2>1. /\ at' = [at EXCEPT ![p] = "publishing"] /\ UNCHANGED <<available, state, loaded, published, aborted>>
        /\ fresh' = [fresh EXCEPT ![p] = Fresh(p)] /\ \A q \in Run \ {p} : new'[q] = new[q]
    BY <1>0, <1>5 DEF Obtain, consumers
  <2>2. Fresh(p) \subseteq available
    BY DEF Fresh, Selected
  <2>3. Collected' \subseteq available
    BY <1>0, <1>1, <2>1, <2>2 DEF Collected, AllCounted
  <2>4. /\ \A r \in available : Passes(new'[p], r)
        /\ new'[p].rows \subseteq available /\ new'[p].count = Cardinality(available)
    BY <1>0, <1>5, ObtainedPassesAll
  <2>5. CountsRows(new[p])'
    <3>1. {r \in available : Passes(new'[p], r)} = available
      BY <2>4
    <3> QED  BY <2>1, <2>4, <3>1 DEF CountsRows, CountedIn
  <2> QED
    BY <1>0, <1>1, <2>1, <2>3, <2>5 DEF AllCounted, CountsRows, Skipped
<1>6. ASSUME NEW p \in Run, Publish(p)  PROVE AllCounted'
  <2>1. Collected' \subseteq Collected
    BY <1>6 DEF Publish, Collected
  <2> QED
    BY <1>0, <1>1, <1>6, <2>1 DEF Publish, AllCounted, CountsRows
<1>7. ASSUME NEW p \in Run, AbortOnCounts(p) \/ FindNothing(p) \/ SaveState(p) \/ Fail(p)
      PROVE  AllCounted'
  <2>1. End(p)
    BY <1>7 DEF AbortOnCounts, FindNothing, SaveState, Fail
  <2>2. Collected' \subseteq Collected
    BY <1>0, <2>1 DEF End, Collected, consumers
  <2>3. CountsRows(state') /\ aborted' = aborted
    <3>1. CASE AbortOnCounts(p) \/ FindNothing(p)
      <4>1. CountsRows(loaded[p]) /\ AtNewest(loaded[p])
        BY <1>0, <1>1, <3>1 DEF AbortOnCounts, FindNothing, AllCounted, AllAtNewest
      <4>2. ~AbortOnCounts(p)
        BY <1>0, <4>1, CountsMatch DEF AbortOnCounts
      <4>3. Fresh(p) = {} => AsBefore(p)
        BY <1>0, <4>1, NewestAreAsBefore
      <4> QED  BY <1>1, <3>1, <4>2, <4>3 DEF FindNothing, AllCounted
    <3>2. CASE SaveState(p)
      BY <1>1, <3>2 DEF SaveState, AllCounted
    <3>3. CASE Fail(p)
      BY <1>1, <3>3 DEF Fail, AllCounted
    <3> QED  BY <1>7, <3>1, <3>2, <3>3
  <2> QED
    BY <1>0, <1>1, <2>1, <2>2, <2>3 DEF End, AllCounted, CountsRows
<1>8. CASE UNCHANGED vars
  BY <1>1, <1>8 DEF vars, run, consumers, AllCounted, Collected, CountsRows
<1> QED
  BY <1>2, <1>3, <1>4, <1>5, <1>6, <1>7, <1>8 DEF RowsNext, RunStep

(* Whatever the rows and however many the runs: a row is published twice only
   if a run has broken off, runs have overlapped or a row has come back, and a
   run is refused, by the comparison of the counts or by the sanity assertion,
   only if the source has dropped rows. *)
THEOREM TroubleHasCauses == RowsSpec => []TroubleHasACause
<1>1. RowsInit => CausesInvariant
  <2>1. RowsInit => AllCounted
    BY FS_EmptySet DEF RowsInit, AllCounted, Collected, CountsRows, CountedIn, DefaultState
  <2>2. RowsInit => EachOnce
    BY DEF RowsInit, EachOnce, OneAtATime, PublishedIsPassed, RunPublishesOnce
  <2> QED  BY <2>1, <2>2, InvariantHoldsFirst DEF CausesInvariant
<1>2. CausesInvariant /\ [RowsNext]_vars => CausesInvariant'
  <2>1. RowsInvariant /\ [RowsNext]_vars => RowsInvariant'
    BY TypesPreserved, FreshnessPreserved, SafetyPreserved DEF RowsInvariant
  <2> QED  BY <2>1, EachOncePreserved, AllCountedPreserved DEF CausesInvariant
<1>3. CausesInvariant => TroubleHasACause
  <2> SUFFICES ASSUME CausesInvariant  PROVE TroubleHasACause
    OBVIOUS
  <2>1. failures \in Nat
    BY RowsAssumption DEF CausesInvariant, RowsInvariant, Types
  <2>2. Undisturbed => again = {}
    BY DEF CausesInvariant, EachOnce
  <2>3. "removal" \notin unusual => aborted = "no"
    BY DEF CausesInvariant, AllCounted
  <2>4. ~Undisturbed => failures > 0 \/ unusual \cap {"overlap", "return"} # {}
    BY <2>1 DEF Undisturbed
  <2> QED  BY <2>2, <2>3, <2>4 DEF TroubleHasACause
<1> QED  BY <1>1, <1>2, <1>3, PTL DEF RowsSpec

-----------------------------------------------------------------------------
(* Part 2: AggregatorStorage. *)

(* Blocks of the payload file, handles, and the contents of the data file. *)
BlockType == [payload : Nat, block : Nat]
HandleType == {Handle(n, offset) : n \in Payload, offset \in Nat}
ContentType == [handles : Seq(HandleType), live : SUBSET (Payload \cup {0})]

StoragePhase == {"down", "maintain", "halfway", "running", "store", "corrupted"}

StorageTypes ==
  /\ dataFile \in ContentType /\ content \in ContentType
  /\ payloadFile \in Seq(BlockType) /\ buffered \in Seq(BlockType)
  /\ shrunk \in [handles : Seq(HandleType), blocks : Seq(BlockType), upto : Nat]
  /\ phase \in StoragePhase
  /\ saved \in 0 .. Len(SizeOf)
  /\ torn \in BOOLEAN
  /\ phase \in {"down", "maintain", "halfway", "store"} => buffered = <<>>
  /\ phase \in {"down", "running", "store"} => shrunk = NothingShrunk

(* The payload storage file, once its buffer will have been written out. *)
WholeFile == payloadFile \o buffered

(* Each block there is has been saved once; what is copied comes from an
   earlier place of the old file, each time a later one. *)
NothingTwice ==
  /\ IsInjective(WholeFile)
  /\ \A i \in 1 .. Len(WholeFile) : WholeFile[i].payload <= saved
  /\ phase \in {"maintain", "halfway"} =>
       /\ IsInjective(shrunk.blocks)
       /\ shrunk.upto <= Len(payloadFile)
       /\ \A i \in 1 .. Len(shrunk.blocks) :
            \E k \in 1 .. shrunk.upto : shrunk.blocks[i] = payloadFile[k]

Placed(h, file) ==
  /\ h.offset + h.size <= Len(file)
  /\ \A i \in 1 .. h.size : file[h.offset + i] = [payload |-> h.payload, block |-> i]

AllPlaced(handles, file) == \A k \in 1 .. Len(handles) : Placed(handles[k], file)

Separate(handles) ==
  \A j, k \in 1 .. Len(handles) :
    j < k => handles[j].offset + handles[j].size <= handles[k].offset

(* The data file agrees with the payload storage file; in between, with the one that
   is going to replace it. *)
FilesAgree ==
  /\ Separate(dataFile.handles)
  /\ AllPlaced(dataFile.handles, IF phase = "halfway" THEN shrunk.blocks ELSE payloadFile)

ContentAgrees ==
  /\ phase \in {"maintain", "running", "store"} =>
       Separate(content.handles) /\ AllPlaced(content.handles, WholeFile)
  /\ phase = "maintain" =>
       /\ \A k \in 1 .. Len(content.handles) : shrunk.upto <= content.handles[k].offset
       /\ Separate(shrunk.handles) /\ AllPlaced(shrunk.handles, shrunk.blocks)
  /\ phase = "halfway" => content = dataFile

NothingWrong == phase # "corrupted" /\ retrieved.got = retrieved.wanted

StorageInvariant ==
  /\ StorageTypes /\ NothingTwice
  /\ ~torn => FilesAgree /\ ContentAgrees /\ NothingWrong

-----------------------------------------------------------------------------
(* Sequences and their beginnings. *)

LEMMA Joining ==
  ASSUME NEW S, NEW s \in Seq(S), NEW t \in Seq(S)
  PROVE  /\ s \o t \in Seq(S) /\ Len(s \o t) = Len(s) + Len(t)
         /\ Len(s) \in Nat /\ Len(t) \in Nat
         /\ \A i \in 1 .. Len(s) : (s \o t)[i] = s[i]
         /\ \A i \in 1 .. Len(t) : (s \o t)[Len(s) + i] = t[i]
         /\ \A i \in 1 .. Len(s \o t) : i > Len(s) => (s \o t)[i] = t[i - Len(s)]
  OBVIOUS

LEMMA Cutting ==
  ASSUME NEW S, NEW s \in Seq(S), NEW m \in Nat, NEW n \in Nat, m <= n, n <= Len(s)
  PROVE  /\ SubSeq(s, m + 1, n) \in Seq(S) /\ Len(SubSeq(s, m + 1, n)) = n - m
         /\ \A i \in 1 .. n - m : SubSeq(s, m + 1, n)[i] = s[m + i]
<1>1. SubSeq(s, m + 1, n) = [i \in 1 .. n - m |-> s[m + i]]
  <2>1. SubSeq(s, m + 1, n) = [i \in 1 .. (1 + n) - (m + 1) |-> s[(i - 1) + (m + 1)]]
    OBVIOUS
  <2>2. (1 + n) - (m + 1) = n - m
    OBVIOUS
  <2>3. \A i \in 1 .. n - m : (i - 1) + (m + 1) = m + i
    OBVIOUS
  <2> QED  BY <2>1, <2>2, <2>3
<1> QED  BY <1>1

LEMMA Appended ==
  ASSUME NEW S, NEW s \in Seq(S), NEW e \in S
  PROVE  /\ Append(s, e) \in Seq(S) /\ Len(Append(s, e)) = Len(s) + 1 /\ Len(s) \in Nat
         /\ \A i \in 1 .. Len(s) : Append(s, e)[i] = s[i]
         /\ Append(s, e)[Len(s) + 1] = e
  OBVIOUS

LEMMA HeadAndTail ==
  ASSUME NEW S, NEW s \in Seq(S), s # <<>>
  PROVE  /\ Head(s) = s[1] /\ Head(s) \in S /\ 1 \in 1 .. Len(s)
         /\ Tail(s) \in Seq(S) /\ Len(Tail(s)) = Len(s) - 1 /\ Len(s) \in Nat \ {0}
         /\ \A i \in 1 .. Len(Tail(s)) : Tail(s)[i] = s[i + 1] /\ i + 1 \in 1 .. Len(s)
  OBVIOUS

Begins(f, g) == Len(f) <= Len(g) /\ \A i \in 1 .. Len(f) : g[i] = f[i]

LEMMA BeginningIsInjective ==
  ASSUME NEW S, NEW f \in Seq(S), NEW g \in Seq(S), Begins(f, g), IsInjective(g)
  PROVE  IsInjective(f)
  BY DEF Begins, IsInjective

-----------------------------------------------------------------------------
(* Handles and where their payloads are. *)

LEMMA HandleParts ==
  ASSUME NEW h \in HandleType
  PROVE  /\ h.payload \in Payload /\ h.payload \in Nat /\ h.offset \in Nat
         /\ h.size = SizeOf[h.payload] /\ h.size \in Nat \ {0}
         /\ \A offset \in Nat : [h EXCEPT !.offset = offset] = Handle(h.payload, offset)
         /\ \A offset \in Nat : [h EXCEPT !.offset = offset] \in HandleType
<1>1. PICK n \in Payload, o \in Nat : h = Handle(n, o)
  BY DEF HandleType
<1>2. h = [payload |-> n, offset |-> o, size |-> SizeOf[n]]
  BY <1>1 DEF Handle
<1>3. n \in Nat /\ SizeOf[n] \in Nat \ {0}
  BY <1>1, StorageAssumption DEF Payload
<1>4. \A offset \in Nat : [h EXCEPT !.offset = offset] = Handle(h.payload, offset)
  BY <1>2 DEF Handle
<1> QED  BY <1>1, <1>2, <1>3, <1>4 DEF HandleType

LEMMA PlacedInLonger ==
  ASSUME NEW h \in HandleType, NEW f \in Seq(BlockType), NEW g \in Seq(BlockType),
         Begins(f, g), Placed(h, f)
  PROVE  Placed(h, g)
<1>1. h.offset \in Nat /\ h.size \in Nat
  BY HandleParts
<1>2. Len(f) \in Nat /\ Len(g) \in Nat /\ Len(f) <= Len(g) /\ h.offset + h.size <= Len(f)
  BY DEF Begins, Placed
<1>3. ASSUME NEW i \in 1 .. h.size
      PROVE  g[h.offset + i] = [payload |-> h.payload, block |-> i]
  <2>1. h.offset + i \in 1 .. Len(f)
    BY <1>1, <1>2
  <2> QED  BY <2>1 DEF Begins, Placed
<1> QED  BY <1>1, <1>2, <1>3 DEF Placed

LEMMA AllPlacedInLonger ==
  ASSUME NEW handles \in Seq(HandleType), NEW f \in Seq(BlockType), NEW g \in Seq(BlockType),
         Begins(f, g), AllPlaced(handles, f)
  PROVE  AllPlaced(handles, g)
<1>1. \A k \in 1 .. Len(handles) : handles[k] \in HandleType
  OBVIOUS
<1> QED  BY <1>1, PlacedInLonger DEF AllPlaced

(* What reading yields. *)
LEMMA Reading ==
  ASSUME payloadFile \in Seq(BlockType), NEW h \in HandleType,
         h.offset + h.size <= Len(payloadFile)
  PROVE  /\ Bytes(h) \in Seq(BlockType) /\ Len(Bytes(h)) = h.size
         /\ \A i \in 1 .. h.size : Bytes(h)[i] = payloadFile[h.offset + i]
<1> DEFINE m == h.offset
           n == h.offset + h.size
<1>1. m \in Nat /\ n \in Nat /\ m <= n /\ n - m = h.size /\ n <= Len(payloadFile)
  BY HandleParts
<1>2. Bytes(h) = SubSeq(payloadFile, m + 1, n)
  BY DEF Bytes
<1> HIDE DEF m, n
<1>3. /\ Bytes(h) \in Seq(BlockType) /\ Len(Bytes(h)) = n - m
      /\ \A i \in 1 .. n - m : Bytes(h)[i] = payloadFile[m + i]
  BY <1>1, <1>2, Cutting
<1> QED  BY <1>1, <1>3 DEF m

(* A placed payload can be read, and it is the right one. *)
LEMMA PlacedIsReadable ==
  ASSUME payloadFile \in Seq(BlockType), NEW h \in HandleType, Placed(h, payloadFile)
  PROVE  Readable(h) /\ payloadFile[h.offset + 1] = [payload |-> h.payload, block |-> 1]
<1>1. h.offset + h.size <= Len(payloadFile) /\ 1 \in 1 .. h.size
  BY HandleParts DEF Placed
<1>2. payloadFile[h.offset + 1] = [payload |-> h.payload, block |-> 1]
  BY <1>1 DEF Placed
<1>3. Len(Bytes(h)) = h.size /\ Bytes(h)[1] = payloadFile[h.offset + 1]
  BY <1>1, Reading
<1> QED  BY <1>1, <1>2, <1>3 DEF Readable, Sound

-----------------------------------------------------------------------------
(* The whole file. *)

LEMMA SameSequence ==
  ASSUME NEW S, NEW s \in Seq(S), NEW t \in Seq(S), Len(s) = Len(t),
         \A i \in 1 .. Len(s) : s[i] = t[i]
  PROVE  s = t
  OBVIOUS

LEMMA WholeFileParts ==
  ASSUME payloadFile \in Seq(BlockType), buffered \in Seq(BlockType)
  PROVE  /\ WholeFile \in Seq(BlockType) /\ Len(WholeFile) = Len(payloadFile) + Len(buffered)
         /\ Len(payloadFile) \in Nat /\ Len(buffered) \in Nat /\ Len(WholeFile) \in Nat
         /\ \A i \in 1 .. Len(payloadFile) : WholeFile[i] = payloadFile[i]
         /\ \A i \in 1 .. Len(WholeFile) :
              i > Len(payloadFile) => WholeFile[i] = buffered[i - Len(payloadFile)]
         /\ Begins(payloadFile, WholeFile)
         /\ buffered = <<>> => WholeFile = payloadFile
<1>1. /\ WholeFile \in Seq(BlockType) /\ Len(WholeFile) = Len(payloadFile) + Len(buffered)
      /\ Len(payloadFile) \in Nat /\ Len(buffered) \in Nat
      /\ \A i \in 1 .. Len(payloadFile) : WholeFile[i] = payloadFile[i]
      /\ \A i \in 1 .. Len(WholeFile) :
           i > Len(payloadFile) => WholeFile[i] = buffered[i - Len(payloadFile)]
  BY Joining DEF WholeFile
<1>2. Begins(payloadFile, WholeFile)
  BY <1>1 DEF Begins
<1>3. ASSUME buffered = <<>>
      PROVE  WholeFile = payloadFile
  BY <1>1, <1>3, SameSequence
<1> QED  BY <1>1, <1>2, <1>3

LEMMA WritingOut ==
  ASSUME payloadFile \in Seq(BlockType), buffered \in Seq(BlockType),
         NEW n \in 0 .. Len(buffered), WriteOut(n)
  PROVE  /\ payloadFile' \in Seq(BlockType) /\ buffered' \in Seq(BlockType)
         /\ Begins(payloadFile, payloadFile')
         /\ WholeFile' = WholeFile
         /\ n = Len(buffered) => buffered' = <<>>
<1> DEFINE m == Len(buffered)
           first == SubSeq(buffered, 1, n)
           rest == SubSeq(buffered, n + 1, m)
<1>1. m \in Nat /\ n \in Nat /\ n <= m /\ Len(payloadFile) \in Nat
  OBVIOUS
<1>2. /\ first \in Seq(BlockType) /\ Len(first) = n
      /\ \A i \in 1 .. n : first[i] = buffered[i]
  <2>1. /\ SubSeq(buffered, 0 + 1, n) \in Seq(BlockType) /\ Len(SubSeq(buffered, 0 + 1, n)) = n - 0
        /\ \A i \in 1 .. n - 0 : SubSeq(buffered, 0 + 1, n)[i] = buffered[0 + i]
    BY <1>1, Cutting
  <2> QED  BY <1>1, <2>1
<1>3. /\ rest \in Seq(BlockType) /\ Len(rest) = m - n
      /\ \A i \in 1 .. m - n : rest[i] = buffered[n + i]
  BY <1>1, Cutting
<1>4. payloadFile' = payloadFile \o first /\ buffered' = rest
  BY DEF WriteOut
<1> HIDE DEF first, rest
<1>5. /\ payloadFile' \in Seq(BlockType) /\ Len(payloadFile') = Len(payloadFile) + n
      /\ \A i \in 1 .. Len(payloadFile) : payloadFile'[i] = payloadFile[i]
      /\ \A i \in 1 .. Len(payloadFile') :
           i > Len(payloadFile) => payloadFile'[i] = buffered[i - Len(payloadFile)]
  <2>1. /\ payloadFile \o first \in Seq(BlockType) /\ Len(payloadFile \o first) = Len(payloadFile) + n
        /\ \A i \in 1 .. Len(payloadFile) : (payloadFile \o first)[i] = payloadFile[i]
        /\ \A i \in 1 .. Len(payloadFile \o first) :
             i > Len(payloadFile) => (payloadFile \o first)[i] = first[i - Len(payloadFile)]
    <3>1. payloadFile \in Seq(BlockType) /\ first \in Seq(BlockType) /\ Len(first) = n
      BY <1>2 DEF StorageTypes
    <3> QED  BY <3>1, Joining
  <2>2. ASSUME NEW i \in 1 .. Len(payloadFile'), i > Len(payloadFile)
        PROVE  payloadFile'[i] = buffered[i - Len(payloadFile)]
    <3>1. payloadFile'[i] = first[i - Len(payloadFile)] /\ i - Len(payloadFile) \in 1 .. n
      BY <1>1, <1>4, <2>1, <2>2
    <3> QED  BY <1>2, <3>1
  <2> QED  BY <1>4, <2>1, <2>2
<1>6. /\ WholeFile' \in Seq(BlockType) /\ Len(WholeFile') = Len(payloadFile') + (m - n)
      /\ \A i \in 1 .. Len(payloadFile') : WholeFile'[i] = payloadFile'[i]
      /\ \A i \in 1 .. Len(WholeFile') : i > Len(payloadFile') => WholeFile'[i] = rest[i - Len(payloadFile')]
  <2>1. WholeFile' = payloadFile' \o rest
    BY <1>4 DEF WholeFile
  <2>2. payloadFile' \in Seq(BlockType) /\ rest \in Seq(BlockType)
    BY <1>3, <1>5
  <2> DEFINE file == payloadFile'
  <2> HIDE DEF file
  <2>3. /\ file \o rest \in Seq(BlockType) /\ Len(file \o rest) = Len(file) + Len(rest)
        /\ \A i \in 1 .. Len(file) : (file \o rest)[i] = file[i]
        /\ \A i \in 1 .. Len(file \o rest) : i > Len(file) => (file \o rest)[i] = rest[i - Len(file)]
    BY <2>2, Joining DEF file
  <2> QED  BY <1>3, <2>1, <2>3 DEF file
<1>7. /\ WholeFile \in Seq(BlockType) /\ Len(WholeFile) = Len(payloadFile) + m
      /\ \A i \in 1 .. Len(payloadFile) : WholeFile[i] = payloadFile[i]
      /\ \A i \in 1 .. Len(WholeFile) :
           i > Len(payloadFile) => WholeFile[i] = buffered[i - Len(payloadFile)]
  BY WholeFileParts
<1>8. Len(WholeFile') = Len(WholeFile)
  BY <1>1, <1>5, <1>6, <1>7
<1>9. ASSUME NEW i \in 1 .. Len(WholeFile')
      PROVE  WholeFile'[i] = WholeFile[i]
  <2>1. i \in Nat /\ i \in 1 .. Len(WholeFile) /\ Len(payloadFile') \in Nat
    BY <1>1, <1>5, <1>8, <1>9
  <2>2. CASE i <= Len(payloadFile)
    <3>1. i \in 1 .. Len(payloadFile) /\ i \in 1 .. Len(payloadFile')
      BY <1>1, <1>5, <2>1, <2>2
    <3> QED  BY <1>5, <1>6, <1>7, <3>1
  <2>3. CASE i > Len(payloadFile) /\ i <= Len(payloadFile')
    <3>1. i \in 1 .. Len(payloadFile')
      BY <2>1, <2>3
    <3> QED  BY <1>5, <1>6, <1>7, <2>1, <2>3, <3>1
  <2>4. CASE i > Len(payloadFile')
    <3>1. WholeFile'[i] = rest[i - Len(payloadFile')] /\ WholeFile[i] = buffered[i - Len(payloadFile)]
      BY <1>1, <1>5, <1>6, <1>7, <2>1, <2>4
    <3>2. i - Len(payloadFile') \in 1 .. m - n /\ n + (i - Len(payloadFile')) = i - Len(payloadFile)
      BY <1>1, <1>5, <1>6, <2>1, <2>4
    <3> QED  BY <1>3, <3>1, <3>2
  <2> QED  BY <1>1, <2>1, <2>2, <2>3, <2>4
<1>10. WholeFile' = WholeFile
  BY <1>6, <1>7, <1>8, <1>9, SameSequence
<1>11. Begins(payloadFile, payloadFile')
  BY <1>1, <1>5 DEF Begins
<1>12. ASSUME n = m
       PROVE  buffered' = <<>>
  BY <1>1, <1>3, <1>4, <1>12
<1> QED  BY <1>3, <1>4, <1>5, <1>10, <1>11, <1>12

-----------------------------------------------------------------------------
(* Each action keeps the types. *)

LEMMA EmptySequences ==
  /\ \A S : <<>> \in Seq(S)
  /\ Len(<<>>) = 0
  /\ Empty \in ContentType /\ NoFile \in ContentType
  /\ Empty.handles = <<>> /\ NoFile.handles = <<>>
  /\ NothingShrunk \in [handles : Seq(HandleType), blocks : Seq(BlockType), upto : Nat]
  /\ NothingShrunk.blocks = <<>> /\ NothingShrunk.handles = <<>> /\ NothingShrunk.upto = 0
<1>1. \A S : <<>> \in Seq(S)
  OBVIOUS
<1> QED  BY <1>1 DEF Empty, NoFile, ContentType, NothingShrunk

LEMMA StorageTypesInitially == StorageInit => StorageTypes
<1> SUFFICES ASSUME StorageInit
             PROVE  StorageTypes
  OBVIOUS
<1>1. Len(SizeOf) \in Nat
  BY StorageAssumption
<1>2. saved \in 0 .. Len(SizeOf)
  BY <1>1 DEF StorageInit
<1> QED  BY <1>2, EmptySequences DEF StorageInit, StorageTypes, StoragePhase

LEMMA ContentParts ==
  ASSUME NEW c \in ContentType
  PROVE  /\ c.handles \in Seq(HandleType) /\ c.live \in SUBSET (Payload \cup {0})
         /\ \A hs \in Seq(HandleType) : [c EXCEPT !.handles = hs] \in ContentType
         /\ \A hs \in Seq(HandleType) : [c EXCEPT !.handles = hs].handles = hs
         /\ \A n : [c EXCEPT !.live = @ \ {n}] \in ContentType
         /\ \A n : [c EXCEPT !.live = @ \ {n}].handles = c.handles
  BY DEF ContentType

LEMMA CopiedParts ==
  ASSUME StorageTypes, content.handles # <<>>, Readable(Head(content.handles))
  PROVE  LET h == Head(content.handles)
         IN  /\ Copied(h) \in [handles : Seq(HandleType), blocks : Seq(BlockType), upto : Nat]
             /\ Copied(h).handles = Append(shrunk.handles, Handle(h.payload, Len(shrunk.blocks)))
             /\ Handle(h.payload, Len(shrunk.blocks)) \in HandleType
             /\ Copied(h).blocks = shrunk.blocks \o Bytes(h)
             /\ Copied(h).upto = h.offset + h.size
             /\ h \in HandleType
<1> DEFINE h == Head(content.handles)
<1>1. h \in HandleType
  BY ContentParts, HeadAndTail DEF StorageTypes
<1>2. /\ shrunk.handles \in Seq(HandleType) /\ shrunk.blocks \in Seq(BlockType)
      /\ Len(shrunk.blocks) \in Nat
  BY DEF StorageTypes
<1>3. /\ [h EXCEPT !.offset = Len(shrunk.blocks)] = Handle(h.payload, Len(shrunk.blocks))
      /\ Handle(h.payload, Len(shrunk.blocks)) \in HandleType
      /\ h.offset \in Nat /\ h.size \in Nat
  BY <1>1, <1>2, HandleParts
<1>4. Bytes(h) \in Seq(BlockType)
  BY <1>1, Reading DEF StorageTypes, Readable
<1>5. Copied(h) = [handles |-> Append(shrunk.handles, Handle(h.payload, Len(shrunk.blocks))),
                   blocks |-> shrunk.blocks \o Bytes(h), upto |-> h.offset + h.size]
  BY <1>3 DEF Copied
<1>6. Append(shrunk.handles, Handle(h.payload, Len(shrunk.blocks))) \in Seq(HandleType)
  BY <1>2, <1>3, Appended
<1>7. shrunk.blocks \o Bytes(h) \in Seq(BlockType)
  BY <1>2, <1>4, Joining
<1> HIDE DEF h
<1>8. h.offset + h.size \in Nat
  BY <1>3
<1>9. /\ Copied(h) \in [handles : Seq(HandleType), blocks : Seq(BlockType), upto : Nat]
      /\ Copied(h).handles = Append(shrunk.handles, Handle(h.payload, Len(shrunk.blocks)))
      /\ Copied(h).blocks = shrunk.blocks \o Bytes(h)
      /\ Copied(h).upto = h.offset + h.size
  BY <1>5, <1>6, <1>7, <1>8
<1> QED  BY <1>1, <1>3, <1>9 DEF h

LEMMA NewBlocks ==
  ASSUME saved \in 0 .. Len(SizeOf), saved < Len(SizeOf)
  PROVE  /\ saved + 1 \in Payload /\ saved \in Nat /\ SizeOf[saved + 1] \in Nat \ {0}
         /\ Blocks(saved + 1) \in Seq(BlockType) /\ Len(Blocks(saved + 1)) = SizeOf[saved + 1]
         /\ \A i \in 1 .. SizeOf[saved + 1] :
              Blocks(saved + 1)[i] = [payload |-> saved + 1, block |-> i]
<1>1. saved + 1 \in Payload /\ saved \in Nat /\ saved + 1 \in Nat /\ SizeOf[saved + 1] \in Nat \ {0}
  BY StorageAssumption DEF Payload
<1>2. Blocks(saved + 1) = [i \in 1 .. SizeOf[saved + 1] |-> [payload |-> saved + 1, block |-> i]]
  BY DEF Blocks
<1>3. \A i \in 1 .. SizeOf[saved + 1] : [payload |-> saved + 1, block |-> i] \in BlockType
  BY <1>1 DEF BlockType
<1>4. Blocks(saved + 1) \in Seq(BlockType) /\ Len(Blocks(saved + 1)) = SizeOf[saved + 1]
  BY <1>1, <1>2, <1>3
<1> QED  BY <1>1, <1>2, <1>4

LEMMA StorageTypesKept == StorageTypes /\ StorageNext => StorageTypes'
<1> SUFFICES ASSUME StorageTypes, StorageNext
             PROVE  StorageTypes'
  OBVIOUS
<1> USE DEF StoragePhase, storageHistory
<1>1. CASE RestoreState
  BY <1>1, EmptySequences DEF RestoreState, StorageTypes
<1>2. CASE ShrinkDiskSpace
  <2> DEFINE h == Head(content.handles)
  <2>1. content' \in ContentType
    BY <1>2, ContentParts, HeadAndTail DEF ShrinkDiskSpace, StorageTypes
  <2>2. shrunk' \in [handles : Seq(HandleType), blocks : Seq(BlockType), upto : Nat]
    <3>1. CASE h.payload \in content.live /\ shrunk.upto <= h.offset /\ Readable(h)
      BY <1>2, <3>1, CopiedParts DEF ShrinkDiskSpace
    <3>2. CASE ~(h.payload \in content.live /\ shrunk.upto <= h.offset /\ Readable(h))
      BY <1>2, <3>2 DEF ShrinkDiskSpace, StorageTypes
    <3> QED  BY <3>1, <3>2
  <2>3. phase' \in {"maintain", "corrupted"} /\ phase = "maintain"
    BY <1>2 DEF ShrinkDiskSpace
  <2> QED  BY <1>2, <2>1, <2>2, <2>3 DEF ShrinkDiskSpace, StorageTypes
<1>3. CASE MaintainDataFile
  <2>1. content' \in ContentType
    BY <1>3, ContentParts DEF MaintainDataFile, StorageTypes
  <2> QED  BY <1>3, <2>1 DEF MaintainDataFile, StorageTypes
<1>4. CASE MaintainPayloadFile
  BY <1>4, EmptySequences DEF MaintainPayloadFile, StorageTypes
<1>5. CASE SavePayload
  <2> DEFINE h == Handle(saved + 1, FileEnd)
  <2>1. saved + 1 \in Payload /\ Blocks(saved + 1) \in Seq(BlockType) /\ saved' \in 0 .. Len(SizeOf)
    BY <1>5, NewBlocks, StorageAssumption DEF SavePayload, StorageTypes
  <2>2. FileEnd \in Nat
    BY DEF FileEnd, StorageTypes
  <2>3. h \in HandleType
    BY <2>1, <2>2 DEF HandleType
  <2>4. buffered' \in Seq(BlockType) /\ content' \in ContentType /\ phase' \in {"running", "corrupted"}
    <3>1. CASE Follows(content.handles, h)
      <4>1. content' = [handles |-> Append(content.handles, h), live |-> content.live \cup {saved + 1}]
        BY <1>5, <3>1 DEF SavePayload
      <4>2. Append(content.handles, h) \in Seq(HandleType) /\ content.live \cup {saved + 1} \in SUBSET (Payload \cup {0})
        BY <2>1, <2>3, ContentParts, Appended DEF StorageTypes
      <4>3. buffered' \in Seq(BlockType) /\ phase' = "running"
        <5>1. buffered' = buffered \o Blocks(saved + 1) /\ phase' = "running"
          BY <1>5, <3>1 DEF SavePayload
        <5>2. buffered \in Seq(BlockType)
          BY DEF StorageTypes
        <5> QED  BY <2>1, <5>1, <5>2, Joining
      <4> QED  BY <4>1, <4>2, <4>3 DEF ContentType
    <3>2. CASE ~Follows(content.handles, h)
      BY <1>5, <3>2 DEF SavePayload, StorageTypes
    <3> QED  BY <3>1, <3>2
  <2> QED  BY <1>5, <2>1, <2>4 DEF SavePayload, StorageTypes
<1>6. CASE BufferIsWritten
  <2>1. PICK n \in 1 .. Len(buffered) : WriteOut(n)
    BY <1>6 DEF BufferIsWritten
  <2>2. n \in 0 .. Len(buffered)
    BY <2>1 DEF StorageTypes
  <2>3. payloadFile' \in Seq(BlockType) /\ buffered' \in Seq(BlockType)
    BY <2>1, <2>2, WritingOut DEF StorageTypes
  <2> QED  BY <1>6, <2>3 DEF BufferIsWritten, StorageTypes
<1>7. CASE LoadPayload
  <2>1. phase = "running" /\ phase' \in {"running", "corrupted"}
    BY <1>7 DEF LoadPayload
  <2> QED  BY <1>7, <2>1 DEF LoadPayload, StorageTypes
<1>8. CASE ForgetGroup
  <2>1. PICK n : content' = [content EXCEPT !.live = @ \ {n}]
    BY <1>8 DEF ForgetGroup
  <2>2. content' \in ContentType
    BY <2>1, ContentParts DEF StorageTypes
  <2> QED  BY <1>8, <2>2 DEF ForgetGroup, StorageTypes
<1>9. CASE ClosePayloadFile
  <2>1. Len(buffered) \in 0 .. Len(buffered)
    BY DEF StorageTypes
  <2>2. payloadFile' \in Seq(BlockType) /\ buffered' = <<>>
    BY <1>9, <2>1, WritingOut DEF ClosePayloadFile, StorageTypes
  <2> QED  BY <1>9, <2>2, EmptySequences DEF ClosePayloadFile, StorageTypes
<1>10. CASE StoreDataFile
  BY <1>10, EmptySequences DEF StoreDataFile, Ends, StorageTypes
<1>11. CASE EndWithoutStoring
  <2>1. payloadFile' \in Seq(BlockType)
    BY <1>11, Joining DEF EndWithoutStoring, StorageTypes
  <2> QED  BY <1>11, <2>1, EmptySequences DEF EndWithoutStoring, Ends, StorageTypes
<1>12. CASE Kill
  BY <1>12, EmptySequences DEF Kill, Ends, StorageTypes
<1> QED  BY <1>1, <1>2, <1>3, <1>4, <1>5, <1>6, <1>7, <1>8, <1>9, <1>10, <1>11, <1>12 DEF StorageNext

-----------------------------------------------------------------------------
(* No block comes twice. *)

LEMMA JoiningInjections ==
  ASSUME NEW S, NEW s \in Seq(S), NEW t \in Seq(S), IsInjective(s), IsInjective(t),
         \A i \in 1 .. Len(s), j \in 1 .. Len(t) : s[i] # t[j]
  PROVE  IsInjective(s \o t)
<1> DEFINE st == s \o t
<1>1. /\ st \in Seq(S) /\ Len(st) = Len(s) + Len(t) /\ Len(s) \in Nat /\ Len(t) \in Nat
      /\ \A i \in 1 .. Len(s) : st[i] = s[i]
      /\ \A i \in 1 .. Len(st) : i > Len(s) => st[i] = t[i - Len(s)]
  BY Joining
<1> HIDE DEF st
<1>2. \A i \in 1 .. Len(st) : i \in 1 .. Len(s) \/ (i > Len(s) /\ i - Len(s) \in 1 .. Len(t))
  BY <1>1
<1>3. ASSUME NEW i \in 1 .. Len(st), NEW j \in 1 .. Len(st), st[i] = st[j]
      PROVE  i = j
  <2>1. CASE i \in 1 .. Len(s) /\ j \in 1 .. Len(s)
    BY <1>1, <1>3, <2>1 DEF IsInjective
  <2>2. CASE i > Len(s) /\ j > Len(s)
    <3>1. t[i - Len(s)] = t[j - Len(s)] /\ i - Len(s) \in 1 .. Len(t) /\ j - Len(s) \in 1 .. Len(t)
      BY <1>1, <1>2, <1>3, <2>2
    <3>2. i - Len(s) = j - Len(s)
      BY <3>1 DEF IsInjective
    <3> QED  BY <1>1, <3>2
  <2>3. CASE i \in 1 .. Len(s) /\ j > Len(s)
    BY <1>1, <1>2, <1>3, <2>3
  <2>4. CASE i > Len(s) /\ j \in 1 .. Len(s)
    BY <1>1, <1>2, <1>3, <2>4
  <2> QED  BY <1>2, <2>1, <2>2, <2>3, <2>4
<1> QED  BY <1>1, <1>3 DEF IsInjective, st

LEMMA NothingTwiceInBeginning ==
  ASSUME StorageTypes, StorageTypes', NothingTwice, saved' = saved,
         phase' \notin {"maintain", "halfway"}, Begins(WholeFile', WholeFile)
  PROVE  NothingTwice'
<1>1. WholeFile \in Seq(BlockType)
  BY WholeFileParts DEF StorageTypes
<1>2. WholeFile' \in Seq(BlockType)
  BY Joining DEF StorageTypes, WholeFile
<1> DEFINE file == WholeFile'
<1> HIDE DEF file
<1>3. IsInjective(file) /\ \A i \in 1 .. Len(file) : file[i].payload <= saved
  <2>1. file \in Seq(BlockType) /\ Begins(file, WholeFile)
    BY <1>2 DEF file
  <2>2. IsInjective(file)
    BY <1>1, <2>1, BeginningIsInjective DEF NothingTwice
  <2>3. ASSUME NEW i \in 1 .. Len(file)
        PROVE  file[i].payload <= saved
    BY <1>1, <2>1 DEF Begins, NothingTwice
  <2> QED  BY <2>2, <2>3
<1> QED  BY <1>3 DEF NothingTwice, file

LEMMA NothingTwiceKept ==
  ASSUME StorageTypes, StorageTypes', NothingTwice, StorageNext
  PROVE  NothingTwice'
<1>1. WholeFile \in Seq(BlockType) /\ Begins(payloadFile, WholeFile)
      /\ (buffered = <<>> => WholeFile = payloadFile)
  BY WholeFileParts DEF StorageTypes
<1>2. payloadFile' \in Seq(BlockType) /\ buffered' \in Seq(BlockType)
  BY DEF StorageTypes
<1>3. ASSUME buffered' = <<>>
      PROVE  WholeFile' = payloadFile'
  <2> DEFINE file == payloadFile'
  <2>1. file \in Seq(BlockType)
    BY <1>2
  <2> HIDE DEF file
  <2>2. file \o <<>> = file
    BY <2>1
  <2> QED  BY <1>3, <2>2 DEF WholeFile, file
<1>4. ASSUME payloadFile' = payloadFile, buffered' = buffered
      PROVE  WholeFile' = WholeFile
  BY <1>4 DEF WholeFile
<1>5. Begins(WholeFile, WholeFile)
  BY <1>1 DEF Begins
<1>6. CASE RestoreState
  <2>1. buffered = <<>> /\ buffered' = <<>> /\ shrunk' = NothingShrunk /\ saved' = saved
    BY <1>6 DEF RestoreState, StorageTypes
  <2>2. payloadFile' = <<>> \/ payloadFile' = payloadFile
    BY <1>6 DEF RestoreState
  <2>3. IsInjective(WholeFile') /\ \A i \in 1 .. Len(WholeFile') : WholeFile'[i].payload <= saved
    <3>1. CASE payloadFile' = <<>>
      <4>1. WholeFile' = <<>>
        BY <1>3, <2>1, <3>1
      <4> QED  BY <4>1 DEF IsInjective
    <3>2. CASE payloadFile' = payloadFile
      <4>1. WholeFile' = WholeFile
        BY <1>4, <2>1, <3>2
      <4> QED  BY <4>1 DEF NothingTwice
    <3> QED  BY <2>2, <3>1, <3>2
  <2>4. /\ IsInjective(shrunk'.blocks)
        /\ shrunk'.upto <= Len(payloadFile')
        /\ \A i \in 1 .. Len(shrunk'.blocks) :
            \E k \in 1 .. shrunk'.upto : shrunk'.blocks[i] = payloadFile'[k]
    <3>1. shrunk'.blocks = <<>> /\ shrunk'.upto = 0 /\ Len(payloadFile') \in Nat
      BY <1>2, <2>1, EmptySequences
    <3> QED  BY <3>1 DEF IsInjective
  <2> QED  BY <2>1, <2>3, <2>4 DEF NothingTwice
<1>7. CASE ShrinkDiskSpace
  <2>1. WholeFile' = WholeFile /\ saved' = saved /\ payloadFile' = payloadFile /\ phase = "maintain"
    BY <1>4, <1>7 DEF ShrinkDiskSpace
  <2>2. CASE shrunk' = shrunk
    BY <2>1, <2>2 DEF NothingTwice
  <2> DEFINE h == Head(content.handles)
  <2>3. CASE shrunk' # shrunk
    <3>1. /\ shrunk' = Copied(h) /\ shrunk.upto <= h.offset /\ Readable(h) /\ content.handles # <<>>
      BY <1>7, <2>3 DEF ShrinkDiskSpace
    <3>2. shrunk'.blocks = shrunk.blocks \o Bytes(h) /\ shrunk'.upto = h.offset + h.size /\ h \in HandleType
      BY <3>1, CopiedParts
    <3>3. /\ Bytes(h) \in Seq(BlockType) /\ Len(Bytes(h)) = h.size
          /\ \A i \in 1 .. h.size : Bytes(h)[i] = payloadFile[h.offset + i]
          /\ h.offset + h.size <= Len(payloadFile)
          /\ h.offset \in Nat /\ h.size \in Nat /\ Len(payloadFile) \in Nat
      <4>1. payloadFile \in Seq(BlockType) /\ h \in HandleType /\ h.offset + h.size <= Len(payloadFile)
        <5>1. payloadFile \in Seq(BlockType)
          BY DEF StorageTypes
        <5>2. h.offset + h.size <= Len(payloadFile)
          BY <3>1 DEF Readable
        <5> QED  BY <3>2, <5>1, <5>2
      <4> HIDE DEF h
      <4>2. h.offset \in Nat /\ h.size \in Nat /\ Len(payloadFile) \in Nat
        BY <4>1, HandleParts
      <4> QED  BY <4>1, <4>2, Reading
    <3>4. /\ IsInjective(payloadFile) /\ IsInjective(shrunk.blocks) /\ shrunk.upto \in Nat
          /\ shrunk.blocks \in Seq(BlockType)
          /\ \A i \in 1 .. Len(shrunk.blocks) :
               \E k \in 1 .. shrunk.upto : shrunk.blocks[i] = payloadFile[k]
      <4>1. buffered = <<>>
        BY <2>1 DEF StorageTypes
      <4> QED  BY <1>1, <2>1, <4>1 DEF NothingTwice, StorageTypes
    <3> DEFINE old == shrunk.blocks
               result == old \o Bytes(h)
               u == shrunk.upto
               o == h.offset
               z == h.size
    <3>5. \A k, l \in 1 .. Len(payloadFile) : payloadFile[k] = payloadFile[l] => k = l
      BY <1>2, <2>1, <3>4 DEF IsInjective
    <3>6. /\ \A i \in 1 .. Len(result) : \E k \in 1 .. o + z : result[i] = payloadFile[k]
          /\ IsInjective(result)
      <4> DEFINE copy == Bytes(h)
      <4>1. /\ old \in Seq(BlockType) /\ copy \in Seq(BlockType) /\ Len(copy) = z
            /\ o \in Nat /\ z \in Nat /\ u \in Nat /\ u <= o /\ o + z <= Len(payloadFile)
            /\ \A i \in 1 .. z : copy[i] = payloadFile[o + i]
            /\ \A i \in 1 .. Len(old) : \E k \in 1 .. u : old[i] = payloadFile[k]
            /\ IsInjective(old) /\ Len(payloadFile) \in Nat
        BY <3>1, <3>3, <3>4
      <4> HIDE DEF copy, old, u, o, z
      <4>2. /\ Len(old \o copy) = Len(old) + z /\ Len(old) \in Nat
            /\ \A i \in 1 .. Len(old) : (old \o copy)[i] = old[i]
            /\ \A i \in 1 .. Len(old \o copy) : i > Len(old) => (old \o copy)[i] = copy[i - Len(old)]
        <5>1. old \in Seq(BlockType) /\ copy \in Seq(BlockType)
          BY <4>1
        <5>2. /\ Len(old \o copy) = Len(old) + Len(copy) /\ Len(old) \in Nat
              /\ \A i \in 1 .. Len(old) : (old \o copy)[i] = old[i]
              /\ \A i \in 1 .. Len(old \o copy) : i > Len(old) => (old \o copy)[i] = copy[i - Len(old)]
          BY <5>1, Joining
        <5> QED  BY <4>1, <5>2
      <4>3. ASSUME NEW i \in 1 .. Len(old \o copy)
            PROVE  \E k \in 1 .. o + z : (old \o copy)[i] = payloadFile[k]
        <5>1. CASE i \in 1 .. Len(old)
          <6>1. PICK k \in 1 .. u : old[i] = payloadFile[k]
            BY <4>1, <5>1
          <6>2. k \in 1 .. o + z
            BY <4>1
          <6> QED  BY <4>2, <5>1, <6>1, <6>2
        <5>2. CASE i > Len(old)
          <6>1. i - Len(old) \in 1 .. z
            BY <4>1, <4>2, <5>2
          <6> DEFINE j == i - Len(old)
          <6>2. (old \o copy)[i] = copy[j] /\ j \in 1 .. z
            BY <4>2, <5>2, <6>1
          <6> HIDE DEF j
          <6>3. o + j \in 1 .. o + z /\ copy[j] = payloadFile[o + j]
            BY <4>1, <6>2
          <6> QED  BY <6>2, <6>3
        <5> QED  BY <4>2, <5>1, <5>2
      <4>4. ASSUME NEW i \in 1 .. z, NEW j \in 1 .. z, copy[i] = copy[j]
            PROVE  i = j
        <5>1. o + i \in 1 .. Len(payloadFile) /\ o + j \in 1 .. Len(payloadFile)
          BY <4>1
        <5>2. payloadFile[o + i] = payloadFile[o + j]
          BY <4>1, <4>4
        <5>3. o + i = o + j
          BY <3>5, <5>1, <5>2
        <5> QED  BY <4>1, <5>3
      <4>5. IsInjective(copy)
        BY <4>1, <4>4 DEF IsInjective
      <4>6. ASSUME NEW i \in 1 .. Len(old), NEW j \in 1 .. z
            PROVE  old[i] # copy[j]
        <5>1. PICK k \in 1 .. u : old[i] = payloadFile[k]
          BY <4>1
        <5>2. /\ k \in 1 .. Len(payloadFile) /\ o + j \in 1 .. Len(payloadFile) /\ k # o + j
              /\ copy[j] = payloadFile[o + j]
          BY <4>1
        <5> QED  BY <3>5, <5>1, <5>2
      <4>7. IsInjective(old \o copy)
        BY <4>1, <4>5, <4>6, JoiningInjections
      <4> QED  BY <4>3, <4>7 DEF copy
    <3> HIDE DEF result
    <3>7. /\ IsInjective(shrunk'.blocks)
          /\ shrunk'.upto <= Len(payloadFile)
          /\ \A i \in 1 .. Len(shrunk'.blocks) :
               \E k \in 1 .. shrunk'.upto : shrunk'.blocks[i] = payloadFile[k]
      <4>1. shrunk'.blocks = result /\ shrunk'.upto = o + z
        BY <3>2 DEF result
      <4> QED  BY <3>3, <3>6, <4>1
    <3> QED  BY <2>1, <3>7 DEF NothingTwice
  <2> QED  BY <2>2, <2>3
<1>8. CASE MaintainDataFile
  <2>1. /\ WholeFile' = WholeFile /\ saved' = saved /\ payloadFile' = payloadFile
        /\ phase = "maintain" /\ shrunk' = shrunk
    BY <1>4, <1>8 DEF MaintainDataFile
  <2> QED  BY <2>1 DEF NothingTwice
<1>9. CASE MaintainPayloadFile
  <2>1. /\ payloadFile' = shrunk.blocks /\ buffered' = <<>> /\ buffered = <<>> /\ saved' = saved
        /\ phase = "halfway" /\ phase' = "running"
    BY <1>9 DEF MaintainPayloadFile, StorageTypes
  <2>2. WholeFile' = shrunk.blocks
    BY <1>3, <2>1
  <2>3. ASSUME NEW i \in 1 .. Len(shrunk.blocks)
        PROVE  shrunk.blocks[i].payload <= saved
    <3>1. PICK k \in 1 .. shrunk.upto : shrunk.blocks[i] = payloadFile[k]
      BY <2>1 DEF NothingTwice
    <3>2. k \in 1 .. Len(payloadFile)
      <4>1. shrunk.upto \in Nat /\ Len(payloadFile) \in Nat /\ shrunk.upto <= Len(payloadFile)
        BY <2>1 DEF NothingTwice, StorageTypes
      <4> QED  BY <4>1
    <3>3. payloadFile[k].payload <= saved
      BY <1>1, <2>1, <3>2 DEF NothingTwice
    <3> QED  BY <3>1, <3>3
  <2>4. IsInjective(shrunk.blocks)
    BY <2>1 DEF NothingTwice
  <2> QED  BY <2>1, <2>2, <2>3, <2>4 DEF NothingTwice
<1>10. CASE SavePayload
  <2>1. phase = "running" /\ phase' \in {"running", "corrupted"} /\ saved' = saved + 1 /\ saved < Len(SizeOf)
        /\ payloadFile' = payloadFile
    BY <1>10 DEF SavePayload
  <2>2. saved \in 0 .. Len(SizeOf)
    BY DEF StorageTypes
  <2> DEFINE added == Blocks(saved + 1)
             z == SizeOf[saved + 1]
  <2>3. /\ added \in Seq(BlockType) /\ Len(added) = z /\ z \in Nat /\ saved \in Nat
        /\ \A i \in 1 .. z : added[i] = [payload |-> saved + 1, block |-> i]
    BY <2>1, <2>2, NewBlocks
  <2> HIDE DEF added, z
  <2>4. buffered' = buffered \/ buffered' = buffered \o added
    BY <1>10 DEF SavePayload, added
  <2>5. CASE buffered' = buffered
    <3>1. WholeFile' = WholeFile
      BY <1>4, <2>1, <2>5
    <3>2. ASSUME NEW i \in 1 .. Len(WholeFile)
          PROVE  WholeFile[i].payload \in Nat
      <4>1. WholeFile[i] \in BlockType
        BY <1>1
      <4> QED  BY <4>1 DEF BlockType
    <3>3. \A i \in 1 .. Len(WholeFile) : WholeFile[i].payload <= saved + 1
      BY <2>3, <3>2 DEF NothingTwice
    <3> QED  BY <2>1, <3>1, <3>3 DEF NothingTwice
  <2>6. CASE buffered' = buffered \o added
    <3> DEFINE f == WholeFile
               g == f \o added
    <3>1. WholeFile' = g
      <4>1. payloadFile \in Seq(BlockType) /\ buffered \in Seq(BlockType)
        BY DEF StorageTypes
      <4>2. payloadFile \o (buffered \o added) = (payloadFile \o buffered) \o added
        BY <2>3, <4>1
      <4> QED  BY <2>1, <2>6, <4>2 DEF WholeFile
    <3>2. f \in Seq(BlockType) /\ IsInjective(f) /\ \A i \in 1 .. Len(f) : f[i].payload <= saved
      BY <1>1 DEF NothingTwice
    <3> HIDE DEF f
    <3>3. /\ g \in Seq(BlockType) /\ Len(g) = Len(f) + z /\ Len(f) \in Nat
          /\ \A i \in 1 .. Len(f) : g[i] = f[i]
          /\ \A i \in 1 .. Len(g) : i > Len(f) => g[i] = added[i - Len(f)]
      <4>1. f \in Seq(BlockType) /\ added \in Seq(BlockType)
        BY <2>3, <3>2
      <4>2. /\ g \in Seq(BlockType) /\ Len(g) = Len(f) + Len(added) /\ Len(f) \in Nat
            /\ \A i \in 1 .. Len(f) : g[i] = f[i]
            /\ \A i \in 1 .. Len(g) : i > Len(f) => g[i] = added[i - Len(f)]
        BY <4>1, Joining
      <4> QED  BY <2>3, <4>2
    <3>4. ASSUME NEW i \in 1 .. Len(f)
          PROVE  f[i].payload <= saved /\ f[i].payload \in Nat
      <4>1. f[i] \in BlockType
        BY <3>2
      <4> QED  BY <3>2, <4>1 DEF BlockType
    <3>5. IsInjective(g)
      <4>1. IsInjective(added)
        BY <2>3 DEF IsInjective
      <4>2. ASSUME NEW i \in 1 .. Len(f), NEW j \in 1 .. Len(added)
            PROVE  f[i] # added[j]
        <5>1. f[i].payload <= saved /\ f[i].payload \in Nat /\ added[j].payload = saved + 1
          BY <2>3, <3>4
        <5> QED  BY <2>3, <5>1
      <4> QED  BY <2>3, <3>2, <4>1, <4>2, JoiningInjections
    <3> HIDE DEF g
    <3>6. ASSUME NEW i \in 1 .. Len(g)
          PROVE  g[i].payload <= saved + 1
      <4>1. CASE i > Len(f)
        <5>1. i - Len(f) \in 1 .. z
          BY <2>3, <3>3, <4>1
        <5>2. g[i].payload = saved + 1
          BY <2>3, <3>3, <4>1, <5>1
        <5> QED  BY <2>3, <5>2
      <4>2. CASE i \in 1 .. Len(f)
        BY <2>3, <3>3, <3>4, <4>2
      <4> QED  BY <3>3, <4>1, <4>2
    <3> QED  BY <2>1, <3>1, <3>5, <3>6 DEF NothingTwice
  <2> QED  BY <2>4, <2>5, <2>6
<1>11. CASE BufferIsWritten
  <2>1. PICK n \in 1 .. Len(buffered) : WriteOut(n)
    BY <1>11 DEF BufferIsWritten
  <2>2. n \in 0 .. Len(buffered)
    BY <2>1 DEF StorageTypes
  <2>3. WholeFile' = WholeFile
    BY <2>1, <2>2, WritingOut DEF StorageTypes
  <2> QED  BY <1>5, <1>11, <2>3, NothingTwiceInBeginning DEF BufferIsWritten
<1>12. CASE LoadPayload
  <2>1. saved' = saved /\ phase' \in {"running", "corrupted"} /\ WholeFile' = WholeFile
    BY <1>4, <1>12 DEF LoadPayload
  <2> QED  BY <1>5, <2>1, NothingTwiceInBeginning
<1>13. CASE ForgetGroup
  <2>1. saved' = saved /\ phase' = "running" /\ WholeFile' = WholeFile
    BY <1>4, <1>13 DEF ForgetGroup
  <2> QED  BY <1>5, <2>1, NothingTwiceInBeginning
<1>14. CASE ClosePayloadFile
  <2>1. Len(buffered) \in 0 .. Len(buffered)
    BY DEF StorageTypes
  <2>2. WholeFile' = WholeFile
    BY <1>14, <2>1, WritingOut DEF ClosePayloadFile, StorageTypes
  <2> QED  BY <1>5, <1>14, <2>2, NothingTwiceInBeginning DEF ClosePayloadFile
<1>15. CASE StoreDataFile \/ Kill
  <2>1. saved' = saved /\ phase' = "down" /\ payloadFile' = payloadFile /\ buffered' = <<>>
    BY <1>15 DEF StoreDataFile, Kill, Ends
  <2>2. Begins(WholeFile', WholeFile)
    BY <1>1, <1>3, <2>1
  <2> QED  BY <2>1, <2>2, NothingTwiceInBeginning
<1>16. CASE EndWithoutStoring
  <2>1. saved' = saved /\ phase' = "down" /\ payloadFile' = WholeFile /\ buffered' = <<>>
    BY <1>16 DEF EndWithoutStoring, Ends, WholeFile
  <2>2. Begins(WholeFile', WholeFile)
    BY <1>3, <1>5, <2>1
  <2> QED  BY <2>1, <2>2, NothingTwiceInBeginning
<1> QED  BY <1>6, <1>7, <1>8, <1>9, <1>10, <1>11, <1>12, <1>13, <1>14, <1>15, <1>16 DEF StorageNext

-----------------------------------------------------------------------------
(* Handles and payloads agree. *)

LEMMA AgreementInitially ==
  ASSUME StorageInit
  PROVE  FilesAgree /\ ContentAgrees /\ NothingWrong
<1>1. dataFile.handles = <<>> /\ content.handles = <<>> /\ phase = "down"
  BY EmptySequences DEF StorageInit
<1> QED  BY <1>1 DEF StorageInit, FilesAgree, ContentAgrees, NothingWrong, Separate, AllPlaced

LEMMA ShrinkingKeepsAgreement ==
  ASSUME StorageInvariant, ~torn, ShrinkDiskSpace
  PROVE  FilesAgree' /\ ContentAgrees' /\ NothingWrong'
<1>1. /\ phase = "maintain" /\ content.handles # <<>>
      /\ UNCHANGED <<dataFile, payloadFile, buffered, retrieved>>
      /\ WholeFile' = WholeFile
  BY DEF ShrinkDiskSpace, WholeFile
<1>2. StorageTypes /\ FilesAgree /\ ContentAgrees /\ NothingWrong
  BY DEF StorageInvariant
<1>3. WholeFile = payloadFile
  BY <1>1, <1>2, WholeFileParts DEF StorageTypes
<1> DEFINE hs == content.handles
           h == Head(hs)
<1>4. /\ hs \in Seq(HandleType) /\ hs # <<>> /\ h \in HandleType /\ h = hs[1] /\ 1 \in 1 .. Len(hs)
      /\ Tail(hs) \in Seq(HandleType) /\ Len(Tail(hs)) = Len(hs) - 1 /\ Len(hs) \in Nat \ {0}
      /\ \A i \in 1 .. Len(Tail(hs)) : Tail(hs)[i] = hs[i + 1] /\ i + 1 \in 1 .. Len(hs)
  BY <1>1, <1>2, ContentParts, HeadAndTail DEF StorageTypes
<1>5. /\ Separate(hs) /\ AllPlaced(hs, payloadFile)
      /\ \A k \in 1 .. Len(hs) : shrunk.upto <= hs[k].offset
      /\ Separate(shrunk.handles) /\ AllPlaced(shrunk.handles, shrunk.blocks)
  BY <1>1, <1>2, <1>3 DEF ContentAgrees
<1>6. content'.handles = Tail(hs)
  <2>1. content' = [content EXCEPT !.handles = Tail(hs)] /\ content \in ContentType
    BY <1>2 DEF ShrinkDiskSpace, StorageTypes
  <2> QED  BY <1>4, <2>1, ContentParts
<1> HIDE DEF hs
<1>7. Separate(Tail(hs)) /\ AllPlaced(Tail(hs), payloadFile)
  <2>1. ASSUME NEW j \in 1 .. Len(Tail(hs)), NEW k \in 1 .. Len(Tail(hs)), j < k
        PROVE  Tail(hs)[j].offset + Tail(hs)[j].size <= Tail(hs)[k].offset
    <3>1. j + 1 \in 1 .. Len(hs) /\ k + 1 \in 1 .. Len(hs) /\ j + 1 < k + 1
          /\ Tail(hs)[j] = hs[j + 1] /\ Tail(hs)[k] = hs[k + 1]
      BY <1>4, <2>1
    <3> QED  BY <1>5, <3>1 DEF Separate
  <2>2. AllPlaced(Tail(hs), payloadFile)
    BY <1>4, <1>5 DEF AllPlaced
  <2> QED  BY <2>1, <2>2 DEF Separate
<1>8. Readable(h) /\ shrunk.upto <= h.offset /\ Placed(h, payloadFile)
  <2>1. Placed(h, payloadFile)
    BY <1>4, <1>5 DEF AllPlaced
  <2> QED  BY <1>2, <1>4, <1>5, <2>1, PlacedIsReadable DEF StorageTypes
<1>9. phase' = "maintain" /\ (shrunk' = shrunk \/ shrunk' = Copied(h))
  BY <1>1, <1>8 DEF ShrinkDiskSpace, hs
<1>10. FilesAgree' /\ NothingWrong'
  <2>1. FilesAgree'
    BY <1>1, <1>2, <1>9 DEF FilesAgree
  <2> QED  BY <1>1, <1>2, <1>9, <2>1 DEF NothingWrong
<1>11. CASE shrunk' = shrunk
  <2>1. \A k \in 1 .. Len(Tail(hs)) : shrunk.upto <= Tail(hs)[k].offset
    BY <1>4, <1>5
  <2> QED  BY <1>1, <1>3, <1>5, <1>6, <1>7, <1>9, <1>10, <1>11, <2>1 DEF ContentAgrees
<1>12. CASE shrunk' = Copied(h)
  <2> DEFINE z == Handle(h.payload, Len(shrunk.blocks))
             old == shrunk.blocks
             result == old \o Bytes(h)
             kept == shrunk.handles
  <2>1. /\ shrunk'.handles = Append(kept, z) /\ z \in HandleType
        /\ shrunk'.blocks = result /\ shrunk'.upto = h.offset + h.size
    BY <1>1, <1>2, <1>8, <1>12, CopiedParts DEF hs
  <2>2. /\ kept \in Seq(HandleType) /\ old \in Seq(BlockType) /\ Len(old) \in Nat
    BY <1>2 DEF StorageTypes
  <2>3. /\ z.payload = h.payload /\ z.offset = Len(old) /\ z.size = h.size /\ h.size \in Nat
        /\ h.offset \in Nat
    BY <1>4, HandleParts DEF Handle
  <2>4. /\ Bytes(h) \in Seq(BlockType) /\ Len(Bytes(h)) = h.size
        /\ \A i \in 1 .. h.size : Bytes(h)[i] = [payload |-> h.payload, block |-> i]
    <3>1. h.offset + h.size <= Len(payloadFile)
      BY <1>8 DEF Placed
    <3>2. /\ Bytes(h) \in Seq(BlockType) /\ Len(Bytes(h)) = h.size
          /\ \A i \in 1 .. h.size : Bytes(h)[i] = payloadFile[h.offset + i]
      BY <1>2, <1>4, <3>1, Reading DEF StorageTypes
    <3> QED  BY <1>8, <3>2 DEF Placed
  <2> HIDE DEF z, old, kept
  <2>5. /\ result \in Seq(BlockType) /\ Len(result) = Len(old) + h.size
        /\ \A i \in 1 .. Len(old) : result[i] = old[i]
        /\ \A i \in 1 .. h.size : result[Len(old) + i] = [payload |-> h.payload, block |-> i]
    <3> DEFINE copy == Bytes(h)
    <3>1. copy \in Seq(BlockType) /\ Len(copy) = h.size
          /\ \A i \in 1 .. h.size : copy[i] = [payload |-> h.payload, block |-> i]
      BY <2>4
    <3> HIDE DEF copy
    <3>2. /\ old \o copy \in Seq(BlockType) /\ Len(old \o copy) = Len(old) + Len(copy)
          /\ \A i \in 1 .. Len(old) : (old \o copy)[i] = old[i]
          /\ \A i \in 1 .. Len(copy) : (old \o copy)[Len(old) + i] = copy[i]
      BY <2>2, <3>1, Joining
    <3>3. \A i \in 1 .. h.size : (old \o copy)[Len(old) + i] = [payload |-> h.payload, block |-> i]
      BY <3>1, <3>2
    <3> QED  BY <3>1, <3>2, <3>3 DEF copy
  <2> HIDE DEF result
  <2>6. Placed(z, result) /\ Begins(old, result)
    BY <2>2, <2>3, <2>5 DEF Placed, Begins
  <2>7. AllPlaced(kept, result)
    BY <1>5, <2>2, <2>5, <2>6, AllPlacedInLonger DEF kept, old
  <2>8. /\ Append(kept, z) \in Seq(HandleType) /\ Len(Append(kept, z)) = Len(kept) + 1 /\ Len(kept) \in Nat
        /\ \A i \in 1 .. Len(kept) : Append(kept, z)[i] = kept[i]
        /\ Append(kept, z)[Len(kept) + 1] = z
    BY <2>1, <2>2, Appended
  <2>9. \A k \in 1 .. Len(Append(kept, z)) : k \in 1 .. Len(kept) \/ k = Len(kept) + 1
    BY <2>8
  <2>10. AllPlaced(Append(kept, z), result)
    BY <2>6, <2>7, <2>8, <2>9 DEF AllPlaced
  <2>11. Separate(Append(kept, z))
    <3>1. ASSUME NEW j \in 1 .. Len(Append(kept, z)), NEW k \in 1 .. Len(Append(kept, z)), j < k
          PROVE  Append(kept, z)[j].offset + Append(kept, z)[j].size <= Append(kept, z)[k].offset
      <4>1. j \in 1 .. Len(kept)
        BY <2>8, <3>1
      <4>2. CASE k \in 1 .. Len(kept)
        BY <1>5, <2>8, <3>1, <4>1, <4>2 DEF Separate, kept
      <4>3. CASE k = Len(kept) + 1
        <5>1. kept[j].offset + kept[j].size <= Len(old)
          BY <1>5, <4>1 DEF AllPlaced, Placed, kept, old
        <5> QED  BY <2>3, <2>8, <4>1, <4>3, <5>1
      <4> QED  BY <2>9, <4>2, <4>3
    <3> QED  BY <3>1 DEF Separate
  <2>12. \A k \in 1 .. Len(Tail(hs)) : h.offset + h.size <= Tail(hs)[k].offset
    <3>1. ASSUME NEW k \in 1 .. Len(Tail(hs))
          PROVE  h.offset + h.size <= Tail(hs)[k].offset
      <4>1. k + 1 \in 1 .. Len(hs) /\ 1 < k + 1 /\ Tail(hs)[k] = hs[k + 1]
        BY <1>4
      <4> QED  BY <1>4, <1>5, <4>1 DEF Separate
    <3> QED  BY <3>1
  <2> QED  BY <1>1, <1>3, <1>6, <1>7, <1>9, <1>10, <2>1, <2>10, <2>11, <2>12 DEF ContentAgrees
<1> QED  BY <1>9, <1>11, <1>12

LEMMA SavingKeepsAgreement ==
  ASSUME StorageInvariant, ~torn, SavePayload
  PROVE  FilesAgree' /\ ContentAgrees' /\ NothingWrong'
<1>1. /\ phase = "running" /\ saved < Len(SizeOf)
      /\ UNCHANGED <<dataFile, payloadFile, retrieved>>
  BY DEF SavePayload
<1>2. StorageTypes /\ FilesAgree /\ ContentAgrees /\ NothingWrong
  BY DEF StorageInvariant
<1> DEFINE hs == content.handles
           h == Handle(saved + 1, FileEnd)
           f == WholeFile
           added == Blocks(saved + 1)
           z == SizeOf[saved + 1]
<1>3. /\ hs \in Seq(HandleType) /\ f \in Seq(BlockType) /\ Len(f) \in Nat /\ FileEnd = Len(f)
      /\ Begins(payloadFile, f)
  BY <1>2, ContentParts, WholeFileParts DEF FileEnd, StorageTypes
<1>4. /\ added \in Seq(BlockType) /\ Len(added) = z /\ z \in Nat \ {0} /\ saved + 1 \in Payload
      /\ \A i \in 1 .. z : added[i] = [payload |-> saved + 1, block |-> i]
  BY <1>1, <1>2, NewBlocks DEF StorageTypes
<1>5. h \in HandleType /\ h.payload = saved + 1 /\ h.offset = Len(f) /\ h.size = z
  BY <1>3, <1>4 DEF Handle, HandleType
<1>6. Separate(hs) /\ AllPlaced(hs, f)
  BY <1>1, <1>2 DEF ContentAgrees
<1>7. Follows(hs, h)
  <2>1. CASE hs = <<>>
    BY <2>1 DEF Follows
  <2>2. CASE hs # <<>>
    <3>1. Last(hs) = hs[Len(hs)] /\ Len(hs) \in 1 .. Len(hs)
      BY <1>3, <2>2 DEF Last
    <3>2. Last(hs).offset + Last(hs).size <= Len(f)
      BY <1>6, <3>1 DEF AllPlaced, Placed
    <3> QED  BY <1>5, <3>2 DEF Follows
  <2> QED  BY <2>1, <2>2
<1>8. content'.handles = Append(hs, h) /\ buffered' = buffered \o added /\ phase' = "running"
  BY <1>1, <1>7 DEF SavePayload
<1> DEFINE g == f \o added
<1>9. WholeFile' = g
  <2>1. payloadFile \in Seq(BlockType) /\ buffered \in Seq(BlockType)
    BY <1>2 DEF StorageTypes
  <2> HIDE DEF added
  <2>2. payloadFile \o (buffered \o added) = (payloadFile \o buffered) \o added
    BY <1>4, <2>1
  <2> QED  BY <1>1, <1>8, <2>2 DEF WholeFile
<1> HIDE DEF h, f, added, z, hs
<1>10. /\ g \in Seq(BlockType) /\ Len(g) = Len(f) + z
       /\ \A i \in 1 .. Len(f) : g[i] = f[i]
       /\ \A i \in 1 .. z : g[Len(f) + i] = [payload |-> saved + 1, block |-> i]
  <2>1. /\ g \in Seq(BlockType) /\ Len(g) = Len(f) + Len(added)
        /\ \A i \in 1 .. Len(f) : g[i] = f[i]
        /\ \A i \in 1 .. Len(added) : g[Len(f) + i] = added[i]
    <3>1. f \in Seq(BlockType) /\ added \in Seq(BlockType)
      BY <1>3, <1>4
    <3> QED  BY <3>1, Joining
  <2> QED  BY <1>4, <2>1
<1> HIDE DEF g
<1>11. Placed(h, g) /\ Begins(f, g)
  <2>1. h.offset + h.size <= Len(g) /\ Len(f) <= Len(g)
    BY <1>3, <1>4, <1>5, <1>10
  <2>2. \A i \in 1 .. h.size : g[h.offset + i] = [payload |-> h.payload, block |-> i]
    BY <1>5, <1>10
  <2> QED  BY <1>10, <2>1, <2>2 DEF Placed, Begins
<1>12. /\ Append(hs, h) \in Seq(HandleType) /\ Len(Append(hs, h)) = Len(hs) + 1 /\ Len(hs) \in Nat
       /\ \A i \in 1 .. Len(hs) : Append(hs, h)[i] = hs[i]
       /\ Append(hs, h)[Len(hs) + 1] = h
  BY <1>3, <1>5, Appended
<1>13. \A k \in 1 .. Len(Append(hs, h)) : k \in 1 .. Len(hs) \/ k = Len(hs) + 1
  BY <1>12
<1>14. AllPlaced(Append(hs, h), g)
  <2>1. AllPlaced(hs, g)
    BY <1>3, <1>6, <1>10, <1>11, AllPlacedInLonger
  <2> QED  BY <1>11, <1>12, <1>13, <2>1 DEF AllPlaced
<1>15. Separate(Append(hs, h))
  <2>1. ASSUME NEW j \in 1 .. Len(Append(hs, h)), NEW k \in 1 .. Len(Append(hs, h)), j < k
        PROVE  Append(hs, h)[j].offset + Append(hs, h)[j].size <= Append(hs, h)[k].offset
    <3>1. j \in 1 .. Len(hs)
      BY <1>12, <2>1
    <3>2. CASE k \in 1 .. Len(hs)
      BY <1>6, <1>12, <2>1, <3>1, <3>2 DEF Separate
    <3>3. CASE k = Len(hs) + 1
      <4>1. hs[j].offset + hs[j].size <= Len(f)
        BY <1>6, <3>1 DEF AllPlaced, Placed
      <4> QED  BY <1>5, <1>12, <3>1, <3>3, <4>1
    <3> QED  BY <1>13, <3>2, <3>3
  <2> QED  BY <2>1 DEF Separate
<1>16. ContentAgrees'
  BY <1>8, <1>9, <1>14, <1>15 DEF ContentAgrees
<1>17. FilesAgree'
  BY <1>1, <1>2, <1>8 DEF FilesAgree
<1>18. NothingWrong'
  BY <1>1, <1>2, <1>8 DEF NothingWrong
<1> QED  BY <1>16, <1>17, <1>18

LEMMA LoadingKeepsAgreement ==
  ASSUME StorageInvariant, ~torn, LoadPayload
  PROVE  FilesAgree' /\ ContentAgrees' /\ NothingWrong'
<1>1. /\ phase = "running" /\ buffered = <<>>
      /\ UNCHANGED <<dataFile, payloadFile, content, buffered, shrunk>>
      /\ WholeFile' = WholeFile
  BY DEF LoadPayload, WholeFile
<1>2. StorageTypes /\ FilesAgree /\ ContentAgrees /\ NothingWrong
  BY DEF StorageInvariant
<1> DEFINE found(h) == payloadFile[h.offset + 1].payload
<1>3. PICK i \in DOMAIN content.handles :
        LET h == content.handles[i]
        IN  IF Readable(h) /\ SizeOf[found(h)] <= h.size
              THEN retrieved' = [wanted |-> h.payload, got |-> found(h)] /\ phase' = phase
              ELSE phase' = "corrupted" /\ UNCHANGED retrieved
  BY DEF LoadPayload
<1> DEFINE h == content.handles[i]
<1>4. h \in HandleType /\ Placed(h, payloadFile)
  <2>1. content.handles \in Seq(HandleType) /\ i \in 1 .. Len(content.handles)
    BY <1>2, ContentParts DEF StorageTypes
  <2>2. AllPlaced(content.handles, payloadFile)
    BY <1>1, <1>2, WholeFileParts DEF ContentAgrees, StorageTypes
  <2> QED  BY <2>1, <2>2 DEF AllPlaced
<1>5. Readable(h) /\ found(h) = h.payload /\ SizeOf[found(h)] = h.size /\ h.size \in Nat
  <2>1. Readable(h) /\ payloadFile[h.offset + 1] = [payload |-> h.payload, block |-> 1]
    <3>1. payloadFile \in Seq(BlockType)
      BY <1>2 DEF StorageTypes
    <3> HIDE DEF h
    <3> QED  BY <1>4, <3>1, PlacedIsReadable
  <2> QED  BY <1>4, <2>1, HandleParts
<1>6. retrieved' = [wanted |-> h.payload, got |-> h.payload] /\ phase' = phase
  BY <1>3, <1>5
<1>7. FilesAgree' /\ ContentAgrees'
  BY <1>1, <1>2, <1>6 DEF FilesAgree, ContentAgrees
<1>8. NothingWrong'
  BY <1>1, <1>6 DEF NothingWrong
<1> QED  BY <1>7, <1>8

(* The payload storage file gets longer, and nothing else changes. *)
LEMMA WritingKeepsAgreement ==
  ASSUME StorageInvariant, ~torn, BufferIsWritten \/ ClosePayloadFile
  PROVE  FilesAgree' /\ ContentAgrees' /\ NothingWrong'
<1>1. /\ phase = "running" /\ phase' \in {"running", "store"}
      /\ UNCHANGED <<dataFile, content, retrieved>>
      /\ \E n \in 0 .. Len(buffered) : WriteOut(n)
  <2>1. CASE BufferIsWritten
    BY <2>1 DEF BufferIsWritten
  <2>2. CASE ClosePayloadFile
    <3>1. Len(buffered) \in 0 .. Len(buffered)
      BY DEF StorageInvariant, StorageTypes
    <3> QED  BY <2>2, <3>1 DEF ClosePayloadFile
  <2> QED  BY <2>1, <2>2
<1>2. StorageTypes /\ FilesAgree /\ ContentAgrees /\ NothingWrong
  BY DEF StorageInvariant
<1>3. /\ WholeFile' = WholeFile /\ payloadFile' \in Seq(BlockType) /\ Begins(payloadFile, payloadFile')
  BY <1>1, <1>2, WritingOut DEF StorageTypes
<1>4. AllPlaced(dataFile.handles, payloadFile')
  <2>1. dataFile.handles \in Seq(HandleType) /\ payloadFile \in Seq(BlockType)
    BY <1>2, ContentParts DEF StorageTypes
  <2>2. AllPlaced(dataFile.handles, payloadFile)
    BY <1>1, <1>2 DEF FilesAgree
  <2> QED  BY <1>3, <2>1, <2>2, AllPlacedInLonger
<1>5. FilesAgree'
  BY <1>1, <1>2, <1>4 DEF FilesAgree
<1>6. ContentAgrees'
  BY <1>1, <1>2, <1>3 DEF ContentAgrees
<1>7. NothingWrong'
  BY <1>1, <1>2 DEF NothingWrong
<1> QED  BY <1>5, <1>6, <1>7

(* However the aggregator ends. *)
LEMMA EndingKeepsAgreement ==
  ASSUME StorageInvariant, ~torn', StoreDataFile \/ EndWithoutStoring \/ Kill
  PROVE  ~torn /\ FilesAgree' /\ ContentAgrees' /\ NothingWrong'
<1>1. ~torn /\ phase # "halfway" /\ phase' = "down" /\ retrieved' = retrieved
  BY DEF StoreDataFile, EndWithoutStoring, Kill, Ends
<1>2. StorageTypes /\ FilesAgree /\ ContentAgrees /\ NothingWrong
  BY <1>1 DEF StorageInvariant
<1>3. Separate(dataFile'.handles) /\ AllPlaced(dataFile'.handles, payloadFile')
  <2>1. CASE StoreDataFile
    <3>1. phase = "store" /\ dataFile' = content /\ payloadFile' = payloadFile
      BY <2>1 DEF StoreDataFile
    <3>2. WholeFile = payloadFile
      BY <1>2, <3>1, WholeFileParts DEF StorageTypes
    <3> QED  BY <1>2, <3>1, <3>2 DEF ContentAgrees
  <2>2. CASE EndWithoutStoring
    <3>1. dataFile' = dataFile /\ payloadFile' = WholeFile
      BY <2>2 DEF EndWithoutStoring, WholeFile
    <3>2. dataFile.handles \in Seq(HandleType) /\ Begins(payloadFile, WholeFile) /\ WholeFile \in Seq(BlockType)
          /\ payloadFile \in Seq(BlockType)
      BY <1>2, ContentParts, WholeFileParts DEF StorageTypes
    <3>3. AllPlaced(dataFile.handles, WholeFile)
      BY <1>1, <1>2, <3>2, AllPlacedInLonger DEF FilesAgree
    <3> QED  BY <1>2, <3>1, <3>3 DEF FilesAgree
  <2>3. CASE Kill
    <3>1. dataFile' = dataFile /\ payloadFile' = payloadFile
      BY <2>3 DEF Kill
    <3> QED  BY <1>1, <1>2, <3>1 DEF FilesAgree
  <2> QED  BY <2>1, <2>2, <2>3
<1>4. FilesAgree'
  BY <1>1, <1>3 DEF FilesAgree
<1>5. ContentAgrees'
  BY <1>1 DEF ContentAgrees
<1>6. NothingWrong'
  BY <1>1, <1>2 DEF NothingWrong
<1> QED  BY <1>1, <1>4, <1>5, <1>6

LEMMA AgreementKept ==
  ASSUME StorageInvariant, StorageTypes', StorageNext, ~torn'
  PROVE  FilesAgree' /\ ContentAgrees' /\ NothingWrong'
<1>1. CASE StoreDataFile \/ EndWithoutStoring \/ Kill
  BY <1>1, EndingKeepsAgreement
<1>2. CASE ShrinkDiskSpace
  BY <1>2, ShrinkingKeepsAgreement DEF ShrinkDiskSpace, storageHistory
<1>3. CASE SavePayload
  BY <1>3, SavingKeepsAgreement DEF SavePayload, storageHistory
<1>4. CASE LoadPayload
  BY <1>4, LoadingKeepsAgreement DEF LoadPayload, storageHistory
<1>5. CASE BufferIsWritten \/ ClosePayloadFile
  BY <1>5, WritingKeepsAgreement DEF BufferIsWritten, ClosePayloadFile, storageHistory
<1>6. CASE RestoreState
  <2>1. ~torn /\ phase = "down" /\ phase' = "maintain" /\ dataFile' = dataFile /\ retrieved' = retrieved
        /\ buffered' = buffered /\ shrunk' = shrunk
    BY <1>6 DEF RestoreState, storageHistory
  <2>2. StorageTypes /\ FilesAgree /\ NothingWrong
    BY <2>1 DEF StorageInvariant
  <2>3. Separate(dataFile.handles) /\ AllPlaced(dataFile.handles, payloadFile)
    BY <2>1, <2>2 DEF FilesAgree
  <2>4. /\ content'.handles = dataFile.handles
        /\ AllPlaced(dataFile.handles, payloadFile')
    <3>1. CASE dataFile = NoFile
      <4>1. content'.handles = <<>> /\ dataFile.handles = <<>>
        BY <1>6, <3>1, EmptySequences DEF RestoreState
      <4> QED  BY <4>1 DEF AllPlaced
    <3>2. CASE dataFile # NoFile
      BY <1>6, <2>3, <3>2 DEF RestoreState
    <3> QED  BY <3>1, <3>2
  <2>5. WholeFile' = payloadFile'
    <3> DEFINE file == payloadFile'
    <3>1. file \in Seq(BlockType) /\ buffered' = <<>>
      BY <2>1, <2>2 DEF StorageTypes
    <3> HIDE DEF file
    <3>2. file \o <<>> = file
      BY <3>1
    <3> QED  BY <3>1, <3>2 DEF WholeFile, file
  <2>6. /\ shrunk'.handles = <<>> /\ shrunk'.upto = 0
        /\ \A k \in 1 .. Len(dataFile.handles) : dataFile.handles[k].offset \in Nat
    <3>1. shrunk = NothingShrunk
      BY <2>1, <2>2 DEF StorageTypes
    <3>2. dataFile.handles \in Seq(HandleType)
      BY <2>2, ContentParts DEF StorageTypes
    <3> QED  BY <2>1, <3>1, <3>2, EmptySequences, HandleParts
  <2>7. ContentAgrees'
    BY <2>1, <2>3, <2>4, <2>5, <2>6 DEF ContentAgrees, Separate, AllPlaced
  <2> QED  BY <2>1, <2>2, <2>3, <2>4, <2>7 DEF FilesAgree, NothingWrong
<1>7. CASE MaintainDataFile
  <2>1. ~torn /\ phase = "maintain" /\ phase' = "halfway" /\ shrunk' = shrunk /\ retrieved' = retrieved
        /\ content' = [content EXCEPT !.handles = shrunk.handles] /\ dataFile' = content'
    BY <1>7 DEF MaintainDataFile, storageHistory
  <2>2. StorageTypes /\ ContentAgrees /\ NothingWrong
    BY <2>1 DEF StorageInvariant
  <2>3. dataFile'.handles = shrunk.handles
    BY <2>1, <2>2, ContentParts DEF StorageTypes
  <2>4. Separate(shrunk.handles) /\ AllPlaced(shrunk.handles, shrunk.blocks)
    BY <2>1, <2>2 DEF ContentAgrees
  <2> QED  BY <2>1, <2>2, <2>3, <2>4 DEF FilesAgree, ContentAgrees, NothingWrong
<1>8. CASE MaintainPayloadFile
  <2>1. ~torn /\ phase = "halfway" /\ phase' = "running" /\ payloadFile' = shrunk.blocks
        /\ UNCHANGED <<dataFile, content, buffered, retrieved>>
    BY <1>8 DEF MaintainPayloadFile, storageHistory
  <2>2. StorageTypes /\ FilesAgree /\ ContentAgrees /\ NothingWrong
    BY <2>1 DEF StorageInvariant
  <2>3. Separate(dataFile.handles) /\ AllPlaced(dataFile.handles, shrunk.blocks) /\ content = dataFile
    BY <2>1, <2>2 DEF FilesAgree, ContentAgrees
  <2>4. WholeFile' = shrunk.blocks
    <3> DEFINE file == shrunk.blocks
    <3>1. file \in Seq(BlockType) /\ buffered' = <<>>
      BY <2>1, <2>2 DEF StorageTypes
    <3> HIDE DEF file
    <3>2. file \o <<>> = file
      BY <3>1
    <3> QED  BY <2>1, <3>1, <3>2 DEF WholeFile, file
  <2> QED  BY <2>1, <2>2, <2>3, <2>4 DEF FilesAgree, ContentAgrees, NothingWrong
<1>9. CASE ForgetGroup
  <2>1. ~torn /\ phase = "running" /\ phase' = "running" /\ WholeFile' = WholeFile
        /\ UNCHANGED <<dataFile, payloadFile, shrunk, retrieved>>
    BY <1>9 DEF ForgetGroup, WholeFile, storageHistory
  <2>2. StorageTypes /\ FilesAgree /\ ContentAgrees /\ NothingWrong
    BY <2>1 DEF StorageInvariant
  <2>3. content'.handles = content.handles
    <3>1. PICK n : content' = [content EXCEPT !.live = @ \ {n}]
      BY <1>9 DEF ForgetGroup
    <3> QED  BY <2>2, <3>1, ContentParts DEF StorageTypes
  <2> QED  BY <2>1, <2>2, <2>3 DEF FilesAgree, ContentAgrees, NothingWrong
<1> QED  BY <1>1, <1>2, <1>3, <1>4, <1>5, <1>6, <1>7, <1>8, <1>9 DEF StorageNext

-----------------------------------------------------------------------------

LEMMA StorageInvariantHolds == StorageSpec => []StorageInvariant
<1>1. StorageInit => StorageInvariant
  <2> SUFFICES ASSUME StorageInit
               PROVE  StorageInvariant
    OBVIOUS
  <2>1. StorageTypes
    BY StorageTypesInitially
  <2>2. NothingTwice
    <3>1. WholeFile = <<>> /\ phase = "down"
      BY <2>1, WholeFileParts DEF StorageInit, StorageTypes
    <3> QED  BY <3>1 DEF NothingTwice, IsInjective
  <2> QED  BY <2>1, <2>2, AgreementInitially DEF StorageInvariant
<1>2. StorageInvariant /\ [StorageNext]_storageVars => StorageInvariant'
  <2> SUFFICES ASSUME StorageInvariant, [StorageNext]_storageVars
               PROVE  StorageInvariant'
    OBVIOUS
  <2>1. CASE StorageNext
    <3>1. StorageTypes' /\ StorageTypes /\ NothingTwice
      BY <2>1, StorageTypesKept DEF StorageInvariant
    <3>2. NothingTwice'
      BY <2>1, <3>1, NothingTwiceKept
    <3>3. ~torn' => (FilesAgree /\ ContentAgrees /\ NothingWrong)'
      BY <2>1, <3>1, AgreementKept
    <3> QED  BY <3>1, <3>2, <3>3 DEF StorageInvariant
  <2>2. CASE UNCHANGED storageVars
    <3>1. WholeFile' = WholeFile
      BY <2>2 DEF WholeFile, storageVars
    <3> QED  BY <2>2, <3>1 DEF storageVars, StorageInvariant, StorageTypes, NothingTwice,
                FilesAgree, ContentAgrees, NothingWrong
  <2> QED  BY <2>1, <2>2
<1> QED  BY <1>1, <1>2, PTL DEF StorageSpec

(* Unless the aggregator has been killed between the two writes of a start, its next
   start finds files that agree with each other, and what it loads for a group is the
   payload of that group; and no block of the payload file comes twice.  This holds
   for any sizes of payloads and any number of ends, however the buffer is written. *)
THEOREM FilesAlwaysAgree == StorageSpec => []FilesAgreeUnlessTorn
<1>1. StorageInvariant => FilesAgreeUnlessTorn
  <2> SUFFICES ASSUME StorageInvariant
               PROVE  FilesAgreeUnlessTorn
    OBVIOUS
  <2>1. payloadFile \in Seq(BlockType) /\ WholeFile \in Seq(BlockType) /\ Begins(payloadFile, WholeFile)
    BY WholeFileParts DEF StorageInvariant, StorageTypes
  <2>2. IsInjective(payloadFile)
    BY <2>1, BeginningIsInjective DEF StorageInvariant, NothingTwice
  <2> QED  BY <2>2 DEF StorageInvariant, NothingWrong, FilesAgreeUnlessTorn
<1> QED  BY <1>1, StorageInvariantHolds, PTL

-----------------------------------------------------------------------------
(* Part 3: SourceAggregation. *)

EntryType == [group : Group, first : Nat, until : Nat, count : Nat \ {0}, last : Nat,
              announced : BOOLEAN, outOfOrder : BOOLEAN]
MessageType == [group : Group, time : Nat]

AggregationStep == {"idle", "process", "announce", "generate", "flush", "again", "inactive"}

AggregationTypes ==
  /\ tolerance \in Nat /\ time \in Nat
  /\ groups \in Seq(EntryType) /\ buffer \in Seq(EntryType)
  /\ step \in AggregationStep
  /\ step \notin {"idle", "inactive"} => msg \in MessageType
  /\ done \in Nat /\ failedOutputs \in Nat
  /\ accepted \in [Group -> Nat] /\ reported \in [Group -> Nat]

(* A dict has one entry for a group. *)
OneEach(dict) == \A i, j \in 1 .. Len(dict) : dict[i].group = dict[j].group => i = j

(* Where the first second of the day of t is. *)
DayStart(t) == Day * Date(t)

LEMMA Dates ==
  /\ \A t \in Nat : Date(t) \in Nat /\ DayStart(t) \in Nat
  /\ \A t \in Nat : DayStart(t) <= t /\ t < DayStart(t) + Day
  /\ \A s, t \in Nat : Date(s) <= Date(t) => DayStart(s) <= DayStart(t)
  /\ \A s, t \in Nat : s <= t => Date(s) <= Date(t)
<1>1. Day \in Nat /\ Day > 0
  BY AggregationAssumption
<1>2. \A t \in Nat : t \div Day \in Nat /\ t % Day \in 0 .. Day - 1 /\ t = Day * (t \div Day) + (t % Day)
  BY <1>1
<1> QED  BY <1>1, <1>2 DEF Date, DayStart

-----------------------------------------------------------------------------
(* Ordered dicts. *)

LEMMA PositionIs ==
  ASSUME NEW d \in Seq(EntryType), OneEach(d), NEW p \in 1 .. Len(d)
  PROVE  HasGroup(d, d[p].group) /\ Position(d, d[p].group) = p /\ Entry(d, d[p].group) = d[p]
<1>1. DOMAIN d = 1 .. Len(d)
  OBVIOUS
<1>2. \E i \in DOMAIN d : d[i].group = d[p].group
  BY <1>1
<1>3. Position(d, d[p].group) \in DOMAIN d /\ d[Position(d, d[p].group)].group = d[p].group
  BY <1>2 DEF Position
<1>4. Position(d, d[p].group) = p
  BY <1>1, <1>3 DEF OneEach
<1> QED  BY <1>2, <1>4 DEF HasGroup, Entry

LEMMA HasPosition ==
  ASSUME NEW d \in Seq(EntryType), OneEach(d), NEW g
  PROVE  /\ HasGroup(d, g) <=> \E p \in 1 .. Len(d) : d[p].group = g
         /\ HasGroup(d, g) =>
              /\ Position(d, g) \in 1 .. Len(d) /\ d[Position(d, g)].group = g
              /\ Entry(d, g) = d[Position(d, g)] /\ Entry(d, g) \in EntryType
              /\ Entry(d, g).group = g
<1>1. DOMAIN d = 1 .. Len(d)
  OBVIOUS
<1>2. ASSUME HasGroup(d, g)
      PROVE  Position(d, g) \in 1 .. Len(d) /\ d[Position(d, g)].group = g
  BY <1>1, <1>2 DEF HasGroup, Position
<1> QED  BY <1>1, <1>2 DEF HasGroup, Entry

IsAssignedAt(result, d, p, e) ==
  /\ result \in Seq(EntryType) /\ Len(result) = Len(d) /\ OneEach(result)
  /\ result[p] = e /\ \A i \in 1 .. Len(d) : i # p => result[i] = d[i]

LEMMA AssigningInPlace ==
  ASSUME NEW d \in Seq(EntryType), OneEach(d), NEW p \in 1 .. Len(d),
         NEW e \in EntryType, e.group = d[p].group
  PROVE  IsAssignedAt(Assigned(d, e), d, p, e)
<1>1. Assigned(d, e) = [d EXCEPT ![p] = e]
  BY PositionIs DEF Assigned
<1>2. Len([d EXCEPT ![p] = e]) = Len(d) /\ [d EXCEPT ![p] = e] \in Seq(EntryType)
  OBVIOUS
<1>3. [d EXCEPT ![p] = e][p] = e /\ \A i \in 1 .. Len(d) : i # p => [d EXCEPT ![p] = e][i] = d[i]
  OBVIOUS
<1>4. \A i \in 1 .. Len(d) : [d EXCEPT ![p] = e][i].group = d[i].group
  BY <1>3
<1>5. OneEach([d EXCEPT ![p] = e])
  BY <1>2, <1>4 DEF OneEach
<1> QED  BY <1>1, <1>2, <1>3, <1>5 DEF IsAssignedAt

IsAdded(result, d, e) ==
  /\ result \in Seq(EntryType) /\ Len(result) = Len(d) + 1 /\ OneEach(result)
  /\ result[Len(d) + 1] = e /\ \A i \in 1 .. Len(d) : result[i] = d[i]

LEMMA Adding ==
  ASSUME NEW d \in Seq(EntryType), OneEach(d), NEW e \in EntryType, ~HasGroup(d, e.group)
  PROVE  IsAdded(Append(d, e), d, e) /\ Assigned(d, e) = Append(d, e)
<1>1. Append(d, e) \in Seq(EntryType) /\ Len(Append(d, e)) = Len(d) + 1 /\ Len(d) \in Nat
  OBVIOUS
<1>2. Append(d, e)[Len(d) + 1] = e /\ \A i \in 1 .. Len(d) : Append(d, e)[i] = d[i]
  OBVIOUS
<1>3. \A i \in 1 .. Len(d) : d[i].group # e.group
  BY HasPosition
<1>4. OneEach(Append(d, e))
  BY <1>1, <1>2, <1>3 DEF OneEach
<1> QED  BY <1>1, <1>2, <1>4 DEF Assigned, IsAdded

(* In either case. *)
IsAssigned(result, d, e) ==
  /\ result \in Seq(EntryType) /\ OneEach(result) /\ Len(result) \in Nat
  /\ \E p \in 1 .. Len(result) : result[p] = e
  /\ \A i \in 1 .. Len(result) :
       \/ result[i] = e
       \/ result[i].group # e.group /\ \E j \in 1 .. Len(d) : result[i] = d[j]
  /\ \A j \in 1 .. Len(d) : d[j].group # e.group => \E i \in 1 .. Len(result) : result[i] = d[j]

LEMMA Assigning ==
  ASSUME NEW d \in Seq(EntryType), OneEach(d), NEW e \in EntryType
  PROVE  IsAssigned(Assigned(d, e), d, e)
<1>1. CASE HasGroup(d, e.group)
  <2>1. PICK p \in 1 .. Len(d) : d[p].group = e.group
    BY <1>1, HasPosition
  <2>2. /\ Assigned(d, e) \in Seq(EntryType) /\ OneEach(Assigned(d, e))
        /\ Len(Assigned(d, e)) = Len(d) /\ Assigned(d, e)[p] = e
        /\ \A i \in 1 .. Len(d) : i # p => Assigned(d, e)[i] = d[i]
    BY <2>1, AssigningInPlace DEF IsAssignedAt
  <2>3. \A i \in 1 .. Len(d) : i # p => d[i].group # e.group
    BY <2>1 DEF OneEach
  <2> QED  BY <2>1, <2>2, <2>3 DEF IsAssigned
<1>2. CASE ~HasGroup(d, e.group)
  <2>1. \A i \in 1 .. Len(d) : d[i].group # e.group
    BY <1>2, HasPosition
  <2> DEFINE result == Append(d, e)
  <2>2. /\ Assigned(d, e) = result /\ result \in Seq(EntryType) /\ OneEach(result)
        /\ Len(result) = Len(d) + 1 /\ Len(d) \in Nat
        /\ result[Len(result)] = e /\ \A i \in 1 .. Len(d) : result[i] = d[i]
    BY <1>2, Adding DEF IsAdded
  <2>3. \A i \in 1 .. Len(result) : i = Len(result) \/ i \in 1 .. Len(d)
    BY <2>2
  <2>4. Len(result) \in 1 .. Len(result) /\ \A j \in 1 .. Len(d) : j \in 1 .. Len(result)
    BY <2>2
  <2> HIDE DEF result
  <2> QED  BY <2>1, <2>2, <2>3, <2>4 DEF IsAssigned
<1> QED  BY <1>1, <1>2

IsMovedToEnd(result, d, p, e) ==
  /\ result \in Seq(EntryType) /\ Len(result) = Len(d) /\ OneEach(result)
  /\ result[Len(d)] = e
  /\ \A i \in 1 .. Len(d) - 1 : (i < p => result[i] = d[i]) /\ (i >= p => result[i] = d[i + 1])

LEMMA MovingToEnd ==
  ASSUME NEW d \in Seq(EntryType), OneEach(d), NEW p \in 1 .. Len(d),
         NEW e \in EntryType, e.group = d[p].group
  PROVE  IsMovedToEnd(MovedToEnd(d, e), d, p, e)
<1>1. MovedToEnd(d, e) = Append(RemoveAt(d, p), e)
  BY PositionIs DEF MovedToEnd
<1> DEFINE a == SubSeq(d, 1, p - 1)
           b == SubSeq(d, p + 1, Len(d))
           rest == a \o b
<1>2. a = [i \in 1 .. p - 1 |-> d[i]]
  <2>1. a = [i \in 1 .. (1 + (p - 1)) - 1 |-> d[(i - 1) + 1]]
    OBVIOUS
  <2> QED  BY <2>1
<1>3. b = [i \in 1 .. Len(d) - p |-> d[p + i]]
  <2>1. b = [i \in 1 .. (1 + Len(d)) - (p + 1) |-> d[(i - 1) + (p + 1)]]
    OBVIOUS
  <2> QED  BY <2>1
<1>4. a \in Seq(EntryType) /\ Len(a) = p - 1
  BY <1>2
<1>5. b \in Seq(EntryType) /\ Len(b) = Len(d) - p
  BY <1>3
<1>6. rest \in Seq(EntryType) /\ Len(rest) = Len(d) - 1 /\ Len(d) \in Nat \ {0}
  <2> HIDE DEF a, b
  <2>1. rest \in Seq(EntryType) /\ Len(rest) = Len(a) + Len(b)
    BY <1>4, <1>5, Joining
  <2> QED  BY <1>4, <1>5, <2>1
<1>7. ASSUME NEW i \in 1 .. Len(d) - 1
      PROVE  (i < p => rest[i] = d[i]) /\ (i >= p => rest[i] = d[i + 1])
  <2>1. CASE i < p
    <3>1. i \in 1 .. Len(a) /\ a[i] = d[i]
      BY <1>2, <1>4, <2>1
    <3>2. rest[i] = a[i]
      <4> HIDE DEF a, b
      <4> QED  BY <1>4, <1>5, <3>1, Joining
    <3> QED  BY <2>1, <3>1, <3>2
  <2>2. CASE i >= p
    <3>1. i - (p - 1) \in 1 .. Len(d) - p /\ p + (i - (p - 1)) = i + 1
      BY <2>2
    <3>2. b[i - (p - 1)] = d[i + 1]
      BY <1>3, <3>1
    <3>3. i \in 1 .. Len(rest) /\ i > Len(a)
      <4> HIDE DEF a, b, rest
      <4> QED  BY <1>4, <1>6, <2>2
    <3>4. rest[i] = b[i - Len(a)]
      <4> HIDE DEF a, b
      <4> QED  BY <1>4, <1>5, <3>3, Joining
    <3>5. rest[i] = b[i - (p - 1)]
      BY <1>4, <3>4
    <3> HIDE DEF a, b, rest
    <3> QED  BY <2>2, <3>2, <3>5
  <2>3. i < p \/ i >= p
    OBVIOUS
  <2> HIDE DEF a, b, rest
  <2> QED  BY <2>1, <2>2, <2>3
<1> HIDE DEF rest
<1>8. /\ Append(rest, e) \in Seq(EntryType) /\ Len(Append(rest, e)) = Len(d)
      /\ Append(rest, e)[Len(d)] = e
      /\ \A i \in 1 .. Len(d) - 1 : Append(rest, e)[i] = rest[i]
  BY <1>6
<1>9. OneEach(Append(rest, e))
  <2>1. \A i \in 1 .. Len(d) - 1 : rest[i].group # e.group
    BY <1>7 DEF OneEach
  <2>2. \A i, j \in 1 .. Len(d) - 1 : rest[i].group = rest[j].group => i = j
    BY <1>7 DEF OneEach
  <2> QED  BY <1>6, <1>8, <2>1, <2>2 DEF OneEach
<1>10. MovedToEnd(d, e) = Append(rest, e)
  BY <1>1 DEF RemoveAt, rest
<1> QED  BY <1>7, <1>8, <1>9, <1>10 DEF IsMovedToEnd

IsCutFrom(result, d, n) ==
  /\ result \in Seq(EntryType) /\ Len(result) = Len(d) - n /\ OneEach(result)
  /\ \A i \in 1 .. Len(result) : result[i] = d[n + i] /\ n + i \in 1 .. Len(d)

LEMMA CuttingFrom ==
  ASSUME NEW d \in Seq(EntryType), OneEach(d), NEW n \in 0 .. Len(d)
  PROVE  IsCutFrom(From(d, n), d, n)
<1>1. From(d, n) = [i \in 1 .. Len(d) - n |-> d[n + i]]
  <2>1. From(d, n) = [i \in 1 .. (1 + Len(d)) - (n + 1) |-> d[(i - 1) + (n + 1)]]
    BY DEF From
  <2> QED  BY <2>1
<1>2. From(d, n) \in Seq(EntryType) /\ Len(From(d, n)) = Len(d) - n
  BY <1>1
<1>3. \A i \in 1 .. Len(From(d, n)) : From(d, n)[i] = d[n + i] /\ n + i \in 1 .. Len(d)
  BY <1>1, <1>2
<1>4. OneEach(From(d, n))
  <2> SUFFICES ASSUME NEW i \in 1 .. Len(From(d, n)), NEW j \in 1 .. Len(From(d, n)),
                      From(d, n)[i].group = From(d, n)[j].group
               PROVE  i = j
    BY DEF OneEach
  <2>1. n + i \in 1 .. Len(d) /\ n + j \in 1 .. Len(d) /\ d[n + i].group = d[n + j].group
    BY <1>3
  <2>2. n + i = n + j
    BY <2>1 DEF OneEach
  <2> QED  BY <1>2, <2>2
<1> QED  BY <1>2, <1>3, <1>4 DEF IsCutFrom

LEMMA CountAfterIsNat ==
  ASSUME NEW d \in Seq(EntryType), OneEach(d), NEW n \in Int, NEW g
  PROVE  CountAfter(d, n, g) \in Nat
<1>1. CASE HasGroup(d, g)
  <2>1. PICK e \in EntryType : e = Entry(d, g)
    BY <1>1, HasPosition
  <2>2. e.count \in Nat
    BY DEF EntryType
  <2> QED  BY <2>1, <2>2 DEF CountAfter
<1>2. CASE ~HasGroup(d, g)
  BY <1>2 DEF CountAfter
<1> QED  BY <1>1, <1>2

LEMMA CountAfterIs ==
  ASSUME NEW d \in Seq(EntryType), OneEach(d), NEW n \in Int
  PROVE  /\ \A p \in 1 .. Len(d) :
              CountAfter(d, n, d[p].group) = IF p > n THEN d[p].count ELSE 0
         /\ \A g : ~HasGroup(d, g) => CountAfter(d, n, g) = 0
         /\ \A g : CountAfter(d, n, g) \in Nat
<1>1. \A p \in 1 .. Len(d) : CountAfter(d, n, d[p].group) = IF p > n THEN d[p].count ELSE 0
  BY PositionIs DEF CountAfter
<1>2. \A g : CountAfter(d, n, g) \in Nat
  BY CountAfterIsNat
<1> QED  BY <1>1, <1>2 DEF CountAfter

LEMMA CountAt ==
  ASSUME NEW d \in Seq(EntryType), OneEach(d), NEW n \in Int, NEW p \in 1 .. Len(d),
         NEW g, g = d[p].group
  PROVE  /\ p > n => CountAfter(d, n, g) = d[p].count
         /\ p <= n => CountAfter(d, n, g) = 0
<1>1. CountAfter(d, n, d[p].group) = IF p > n THEN d[p].count ELSE 0
  BY CountAfterIs
<1>2. p <= n => ~(p > n)
  OBVIOUS
<1> QED  BY <1>1, <1>2

-----------------------------------------------------------------------------
(* The invariant. *)

(* How far a loop can have come. *)
LoopsAreInRange ==
  /\ step \notin {"generate", "flush", "inactive"} => done = 0
  /\ step = "generate" => done <= Len(groups)
  /\ step = "flush" => done <= Len(buffer)
  /\ step = "inactive" => done <= Len(buffer) + Len(groups)

Timely(e) == e.first <= e.until /\ e.until <= time
AllTimely ==
  /\ \A i \in 1 .. Len(groups) : Timely(groups[i])
  /\ \A i \in 1 .. Len(buffer) : Timely(buffer[i])

Short(e) == e.until < e.first + Day + tolerance
AllShort ==
  /\ \A i \in 1 .. Len(groups) : Short(groups[i])
  /\ \A i \in 1 .. Len(buffer) : Short(buffer[i])

AllEndWithLast ==
  /\ \A i \in 1 .. Len(groups) : groups[i].until = groups[i].last
  /\ \A i \in 1 .. Len(buffer) : buffer[i].until = buffer[i].last

Basics ==
  /\ AggregationTypes /\ LoopsAreInRange
  /\ OneEach(groups) /\ OneEach(buffer)
  /\ AllTimely
  /\ step = "announce" => HasGroup(groups, msg.group) /\ msg.time + tolerance >= time

(* Only as far as late events are waited for does a group date from before today,
   except while the first event of today is being processed. *)
OfToday(e) == DayStart(time) <= e.first + tolerance
AllOfToday == \A i \in 1 .. Len(groups) : OfToday(groups[i])

DayHasBegun ==
  /\ step \in {"announce", "generate", "again"} /\ msg.time = time
  /\ groups # <<>>
  /\ LET e == groups[Len(groups)] IN e.group = msg.group /\ e.first = time /\ e.until = time
  /\ \A i \in 1 .. Len(groups) : i < Len(groups) => Date(groups[i].until) < Date(time)
  /\ step = "generate" => done < Len(groups)

DatesAgree ==
  /\ AllShort
  /\ AllOfToday \/ DayHasBegun

PartsInOrder ==
  \A i \in 1 .. Len(buffer), j \in 1 .. Len(groups) :
    j > Moved /\ buffer[i].group = groups[j].group => buffer[i].until <= groups[j].first

(* If late events are not waited for. *)
GroupsInOrder ==
  \A i, j \in 1 .. Len(groups) :
    i < j => groups[i].outOfOrder \/ groups[i].until <= groups[j].until

NoneIsForgotten ==
  \/ \A i \in 1 .. Len(groups) : StillWaited(groups[i])
  \/ groups # <<>> /\ groups[1].outOfOrder

MovedBecauseFinished == step = "generate" => \A i \in 1 .. done : ~Stop(i)

Prompt ==
  /\ AllEndWithLast
  /\ GroupsInOrder
  /\ \/ step \in {"idle", "process", "flush", "inactive"}
     \/ step = "again" /\ msg.time < time
     => NoneIsForgotten

(* As long as no publication has failed. *)
BufferIsFlushed ==
  /\ step \in {"idle", "process", "inactive"} => buffer = <<>>
  /\ \A i \in 1 .. Len(buffer) : buffer[i].until < time
  /\ \A i \in 1 .. Len(buffer), j \in 1 .. Len(groups) :
       j > Moved /\ buffer[i].group = groups[j].group => groups[j].until = time

Balance(g) ==
  /\ reported[g] + Pending(g) <= accepted[g]
  /\ tolerance = 0 => reported[g] + Pending(g) = accepted[g]

Counting ==
  /\ step # "again"
  /\ \A g \in Group : Balance(g)
  /\ tolerance = 0 => BufferIsFlushed

AggregationInvariant ==
  /\ Basics /\ DatesAgree /\ PartsInOrder /\ MovedBecauseFinished
  /\ tolerance = 0 => Prompt
  /\ failedOutputs = 0 => Counting

-----------------------------------------------------------------------------
(* Entries. *)

LEMMA EntryParts ==
  ASSUME NEW e \in EntryType
  PROVE  /\ e.group \in Group /\ e.first \in Nat /\ e.until \in Nat /\ e.last \in Nat
         /\ e.count \in Nat \ {0} /\ e.announced \in BOOLEAN /\ e.outOfOrder \in BOOLEAN
BY DEF EntryType

LEMMA NewEntry ==
  ASSUME NEW g \in Group, NEW t \in Nat
  PROVE  LET e == HiFreqEventData(g, t) IN
         /\ e \in EntryType /\ e.group = g /\ e.first = t /\ e.until = t /\ e.last = t
         /\ e.count = 1 /\ e.outOfOrder = FALSE
BY DEF HiFreqEventData, EntryType

LEMMA CountedEntry ==
  ASSUME NEW e \in EntryType, NEW t \in Nat
  PROVE  LET f == Counted(e, t) IN
         /\ f \in EntryType /\ f.group = e.group /\ f.first = e.first /\ f.until = e.until
         /\ f.count = e.count + 1 /\ f.outOfOrder = e.outOfOrder
         /\ f.last = IF t > e.last THEN t ELSE e.last
<1>1. e.last \in Nat /\ e.count + 1 \in Nat \ {0}
  BY DEF EntryType
<1>2. PICK l \in Nat : l = IF t > e.last THEN t ELSE e.last
  BY <1>1
<1>3. Counted(e, t) = [[e EXCEPT !.count = e.count + 1] EXCEPT !.last = l]
  BY <1>2 DEF Counted, EntryType
<1> QED  BY <1>1, <1>2, <1>3 DEF EntryType

LEMMA ExtendedEntry ==
  ASSUME NEW e \in EntryType, NEW t \in Nat, NEW b \in BOOLEAN
  PROVE  LET f == [Counted(Extended(e, t), t) EXCEPT !.outOfOrder = b] IN
         /\ f \in EntryType /\ f.group = e.group /\ f.first = e.first
         /\ f.count = e.count + 1 /\ f.outOfOrder = b
         /\ f.until = IF t > e.until THEN t ELSE e.until
         /\ f.last = IF t > e.last THEN t ELSE e.last
<1>1. e.until \in Nat
  BY DEF EntryType
<1>2. PICK u \in Nat : u = IF t > e.until THEN t ELSE e.until
  BY <1>1
<1>3. Extended(e, t) = [e EXCEPT !.until = u]
  BY <1>2 DEF Extended, EntryType
<1>4. /\ Extended(e, t) \in EntryType /\ Extended(e, t).until = u
      /\ Extended(e, t).group = e.group /\ Extended(e, t).first = e.first
      /\ Extended(e, t).count = e.count /\ Extended(e, t).last = e.last
  BY <1>3 DEF EntryType
<1> DEFINE x == Extended(e, t)
<1>5. /\ Counted(x, t) \in EntryType /\ Counted(x, t).group = x.group
      /\ Counted(x, t).first = x.first /\ Counted(x, t).until = x.until
      /\ Counted(x, t).count = x.count + 1
      /\ Counted(x, t).last = IF t > x.last THEN t ELSE x.last
  BY <1>4, CountedEntry
<1>6. /\ Counted(x, t) \in EntryType /\ Counted(x, t).group = e.group
      /\ Counted(x, t).first = e.first /\ Counted(x, t).until = u
      /\ Counted(x, t).count = e.count + 1
      /\ Counted(x, t).last = IF t > e.last THEN t ELSE e.last
  BY <1>4, <1>5
<1> HIDE DEF x
<1>7. LET f == [Counted(x, t) EXCEPT !.outOfOrder = b] IN
      /\ f \in EntryType /\ f.group = e.group /\ f.first = e.first
      /\ f.count = e.count + 1 /\ f.outOfOrder = b /\ f.until = u
      /\ f.last = IF t > e.last THEN t ELSE e.last
  BY <1>6 DEF EntryType
<1> QED  BY <1>2, <1>7 DEF x

LEMMA AnnouncedEntry ==
  ASSUME NEW e \in EntryType
  PROVE  LET f == [e EXCEPT !.announced = TRUE] IN
         /\ f \in EntryType /\ f.group = e.group /\ f.first = e.first /\ f.until = e.until
         /\ f.last = e.last /\ f.count = e.count /\ f.outOfOrder = e.outOfOrder
BY DEF EntryType

LEMMA Initially == AggregationInit => AggregationInvariant
<1> SUFFICES ASSUME AggregationInit  PROVE AggregationInvariant
  OBVIOUS
<1> USE AggregationAssumption DEF AggregationInit
<1>1. Len(groups) = 0 /\ Len(buffer) = 0 /\ groups \in Seq(EntryType) /\ buffer \in Seq(EntryType)
  OBVIOUS
<1>2. Basics
  BY <1>1 DEF Basics, AggregationTypes, AggregationStep, LoopsAreInRange, OneEach, AllTimely
<1>3. DatesAgree /\ PartsInOrder /\ MovedBecauseFinished
  BY <1>1 DEF DatesAgree, AllShort, AllOfToday, PartsInOrder, MovedBecauseFinished
<1>4. Prompt
  BY <1>1 DEF Prompt, AllEndWithLast, GroupsInOrder, NoneIsForgotten
<1>5. Counting
  <2>1. \A n : \A g : CountAfter(<<>>, n, g) = 0
    BY DEF CountAfter, HasGroup
  <2>2. \A g \in Group : Pending(g) = 0
    BY <2>1 DEF Pending
  <2> QED  BY <1>1, <2>2 DEF Counting, Balance, BufferIsFlushed
<1> QED  BY <1>2, <1>3, <1>4, <1>5 DEF AggregationInvariant

(* Steps that leave the dicts and the time alone. *)
LEMMA ReceiveKeeps ==
  ASSUME AggregationInvariant, tolerance' = tolerance, NEW g \in Group, NEW t \in Times,
         Receive(g, t)
  PROVE  AggregationInvariant'
<1> USE DEF Receive, AggregationInvariant, dicts, history
<1>1. Basics'
  BY AggregationAssumption DEF Basics, AggregationTypes, AggregationStep, MessageType,
    LoopsAreInRange, AllTimely, Timely, OneEach
<1>2. DatesAgree'
  BY DEF DatesAgree, AllShort, Short, AllOfToday, OfToday, DayHasBegun
<1>3. PartsInOrder' /\ MovedBecauseFinished'
  BY DEF PartsInOrder, MovedBecauseFinished, Moved
<1>4. (tolerance = 0 => Prompt)'
  BY DEF Prompt, AllEndWithLast, GroupsInOrder, NoneIsForgotten, StillWaited
<1>5. (failedOutputs = 0 => Counting)'
  BY DEF Counting, Balance, BufferIsFlushed, Pending, BufferReported, GroupsReported, Moved
<1> QED  BY <1>1, <1>2, <1>3, <1>4, <1>5

LEMMA TickFindsInactiveKeeps ==
  ASSUME AggregationInvariant, tolerance' = tolerance, TickFindsInactive
  PROVE  AggregationInvariant'
<1> USE DEF TickFindsInactive, AggregationInvariant, dicts, history
<1>1. Basics'
  BY DEF Basics, AggregationTypes, AggregationStep, LoopsAreInRange, AllTimely, Timely, OneEach
<1>2. DatesAgree'
  BY DEF DatesAgree, AllShort, Short, AllOfToday, OfToday, DayHasBegun
<1>3. PartsInOrder' /\ MovedBecauseFinished'
  BY DEF PartsInOrder, MovedBecauseFinished, Moved
<1>4. (tolerance = 0 => Prompt)'
  BY DEF Prompt, AllEndWithLast, GroupsInOrder, NoneIsForgotten, StillWaited
<1>5. (failedOutputs = 0 => Counting)'
  <2> SUFFICES ASSUME failedOutputs = 0  PROVE Counting'
    OBVIOUS
  <2>1. ASSUME NEW g \in Group  PROVE Pending(g)' = Pending(g)
    <3>1. Len(buffer) \in Nat /\ OneEach(buffer) /\ OneEach(groups)
          /\ buffer \in Seq(EntryType) /\ groups \in Seq(EntryType)
      BY DEF Basics, AggregationTypes
    <3>2. Pending(g) = CountAfter(buffer, 0, g) + CountAfter(groups, 0, g)
      BY DEF Pending, BufferReported, GroupsReported, Moved
    <3>3. Pending(g)' = CountAfter(buffer, 0, g) + CountAfter(groups, 0 - Len(buffer), g)
      BY DEF Pending, BufferReported, GroupsReported, Moved, CountAfter, Entry, HasGroup, Position
    <3>4. CountAfter(groups, 0 - Len(buffer), g) = CountAfter(groups, 0, g)
      <4>1. CASE HasGroup(groups, g)
        <5>1. Position(groups, g) > 0 /\ Position(groups, g) > 0 - Len(buffer)
          BY <3>1, <4>1, HasPosition
        <5> QED  BY <4>1, <5>1 DEF CountAfter
      <4>2. CASE ~HasGroup(groups, g)
        BY <4>2 DEF CountAfter
      <4> QED  BY <4>1, <4>2
    <3> QED  BY <3>2, <3>3, <3>4
  <2> QED  BY <2>1 DEF Counting, Balance, BufferIsFlushed, Moved
<1> QED  BY <1>1, <1>2, <1>3, <1>4, <1>5

LEMMA RejectOutOfOrderKeeps ==
  ASSUME AggregationInvariant, tolerance' = tolerance, RejectOutOfOrder
  PROVE  AggregationInvariant'
<1> USE DEF RejectOutOfOrder, Processing, AggregationInvariant, dicts, history
<1>0. tolerance \in Nat /\ time \in Nat /\ msg.time \in Nat /\ msg.time < time
  BY DEF Basics, AggregationTypes, OutOfOrder, MessageType
<1>1. Basics'
  BY DEF Basics, AggregationTypes, AggregationStep, LoopsAreInRange, AllTimely, Timely, OneEach
<1>2. DatesAgree'
  BY <1>0 DEF DatesAgree, AllShort, Short, AllOfToday, OfToday, DayHasBegun
<1>3. PartsInOrder' /\ MovedBecauseFinished'
  BY DEF PartsInOrder, MovedBecauseFinished, Moved
<1>4. (tolerance = 0 => Prompt)'
  BY <1>0 DEF Prompt, AllEndWithLast, GroupsInOrder, NoneIsForgotten, StillWaited
<1>5. (failedOutputs = 0 => Counting)'
  BY DEF Counting, Balance, BufferIsFlushed, Pending, BufferReported, GroupsReported, Moved
<1> QED  BY <1>1, <1>2, <1>3, <1>4, <1>5

LEMMA PublicationFailsKeeps ==
  ASSUME AggregationInvariant, tolerance' = tolerance, PublicationFails
  PROVE  AggregationInvariant'
<1> USE DEF PublicationFails, AggregationInvariant, dicts, history
<1>1. Basics'
  BY DEF Basics, AggregationTypes, AggregationStep, LoopsAreInRange, AllTimely, Timely, OneEach
<1>2. DatesAgree'
  BY DEF DatesAgree, AllShort, Short, AllOfToday, OfToday, DayHasBegun
<1>3. PartsInOrder' /\ MovedBecauseFinished'
  BY DEF PartsInOrder, MovedBecauseFinished, Moved
<1>4. (tolerance = 0 => Prompt)'
  <2>1. tolerance = 0 /\ step = "announce" => ~(msg.time < time)
    BY DEF Basics, AggregationTypes, MessageType
  <2> QED  BY <2>1 DEF Prompt, AllEndWithLast, GroupsInOrder, NoneIsForgotten, StillWaited
<1>5. (failedOutputs = 0 => Counting)'
  BY DEF Basics, AggregationTypes
<1> QED  BY <1>1, <1>2, <1>3, <1>4, <1>5

(* What the operations on a dict do to the counts. *)
LEMMA SameCount ==
  ASSUME NEW d \in Seq(EntryType), OneEach(d), NEW f \in Seq(EntryType), OneEach(f),
         NEW g, NEW m \in Int, NEW n \in Int,
         \A p \in 1 .. Len(d) : d[p].group = g =>
           \E q \in 1 .. Len(f) : f[q].group = g /\ f[q].count = d[p].count /\ (p > m <=> q > n),
         \A q \in 1 .. Len(f) : f[q].group = g => \E p \in 1 .. Len(d) : d[p].group = g
  PROVE  CountAfter(f, n, g) = CountAfter(d, m, g)
<1>1. CASE HasGroup(d, g)
  <2>1. PICK p \in 1 .. Len(d) : d[p].group = g
    BY <1>1, HasPosition
  <2>2. PICK q \in 1 .. Len(f) : f[q].group = g /\ f[q].count = d[p].count /\ (p > m <=> q > n)
    BY <2>1
  <2>3. CASE p > m
    <3>1. CountAfter(d, m, g) = d[p].count
      BY <2>1, <2>3, CountAt
    <3>2. q > n /\ g = f[q].group
      BY <2>2, <2>3
    <3>3. CountAfter(f, n, g) = f[q].count
      BY <3>2, CountAt
    <3> QED  BY <2>2, <3>1, <3>3
  <2>4. CASE p <= m
    <3>1. CountAfter(d, m, g) = 0
      BY <2>1, <2>4, CountAt
    <3>2. q <= n /\ g = f[q].group
      BY <2>2, <2>4
    <3>3. CountAfter(f, n, g) = 0
      BY <3>2, CountAt
    <3> QED  BY <3>1, <3>3
  <2>5. p > m \/ p <= m
    OBVIOUS
  <2> QED  BY <2>3, <2>4, <2>5
<1>2. CASE ~HasGroup(d, g)
  <2>1. ~HasGroup(f, g)
    BY <1>2, HasPosition
  <2> QED  BY <1>2, <2>1, CountAfterIs
<1> QED  BY <1>1, <1>2

LEMMA CountsAssigning ==
  ASSUME NEW d \in Seq(EntryType), OneEach(d), NEW e \in EntryType
  PROVE  /\ CountAfter(Assigned(d, e), 0, e.group) = e.count
         /\ \A g : g # e.group => CountAfter(Assigned(d, e), 0, g) = CountAfter(d, 0, g)
<1> DEFINE f == Assigned(d, e)
<1>1. /\ f \in Seq(EntryType) /\ OneEach(f)
      /\ \E p \in 1 .. Len(f) : f[p] = e
      /\ \A i \in 1 .. Len(f) :
           \/ f[i] = e
           \/ f[i].group # e.group /\ \E j \in 1 .. Len(d) : f[i] = d[j]
      /\ \A j \in 1 .. Len(d) : d[j].group # e.group => \E i \in 1 .. Len(f) : f[i] = d[j]
  <2>1. IsAssigned(f, d, e)
    BY Assigning
  <2> QED  BY <2>1 DEF IsAssigned
<1> HIDE DEF f
<1>2. CountAfter(f, 0, e.group) = e.count
  <2>1. PICK p \in 1 .. Len(f) : f[p] = e
    BY <1>1
  <2>2. CountAfter(f, 0, e.group) = f[p].count
    <3>1. p > 0 /\ 0 \in Int /\ e.group = f[p].group
      BY <1>1, <2>1
    <3> QED  BY <1>1, <3>1, CountAt
  <2> QED  BY <2>1, <2>2
<1>3. ASSUME NEW g, g # e.group  PROVE CountAfter(f, 0, g) = CountAfter(d, 0, g)
  <2>1. \A p \in 1 .. Len(d) : d[p].group = g =>
          \E q \in 1 .. Len(f) : f[q].group = g /\ f[q].count = d[p].count /\ (p > 0 <=> q > 0)
    BY <1>1, <1>3
  <2>2. \A q \in 1 .. Len(f) : f[q].group = g => \E p \in 1 .. Len(d) : d[p].group = g
    BY <1>1, <1>3
  <2> QED  BY <1>1, <2>1, <2>2, SameCount
<1> QED  BY <1>2, <1>3 DEF f

LEMMA CountsMovingToEnd ==
  ASSUME NEW d \in Seq(EntryType), OneEach(d), NEW p \in 1 .. Len(d),
         NEW e \in EntryType, e.group = d[p].group
  PROVE  /\ CountAfter(MovedToEnd(d, e), 0, e.group) = e.count
         /\ \A g : g # e.group => CountAfter(MovedToEnd(d, e), 0, g) = CountAfter(d, 0, g)
<1> DEFINE f == MovedToEnd(d, e)
<1>1. /\ f \in Seq(EntryType) /\ Len(f) = Len(d) /\ OneEach(f) /\ f[Len(d)] = e
      /\ \A i \in 1 .. Len(d) - 1 : (i < p => f[i] = d[i]) /\ (i >= p => f[i] = d[i + 1])
  <2>1. IsMovedToEnd(f, d, p, e)
    BY MovingToEnd
  <2> QED  BY <2>1 DEF IsMovedToEnd
<1> HIDE DEF f
<1>2. CountAfter(f, 0, e.group) = e.count
  <2>1. Len(d) \in 1 .. Len(f) /\ Len(d) > 0
    BY <1>1
  <2>2. CountAfter(f, 0, e.group) = f[Len(d)].count
    BY <1>1, <2>1, CountAt
  <2> QED  BY <1>1, <2>2
<1>3. ASSUME NEW g, g # e.group  PROVE CountAfter(f, 0, g) = CountAfter(d, 0, g)
  <2>1. ASSUME NEW i \in 1 .. Len(d), d[i].group = g
        PROVE  \E q \in 1 .. Len(f) :
                 f[q].group = g /\ f[q].count = d[i].count /\ (i > 0 <=> q > 0)
    <3>1. CASE i < p
      BY <1>1, <2>1, <3>1
    <3>2. CASE i > p
      <4>1. i - 1 \in 1 .. Len(d) - 1 /\ i - 1 \in 1 .. Len(f) /\ f[i - 1] = d[i]
        BY <1>1, <3>2
      <4> QED  BY <2>1, <4>1
    <3>3. i # p
      BY <1>3, <2>1
    <3> QED  BY <3>1, <3>2, <3>3
  <2>2. ASSUME NEW q \in 1 .. Len(f), f[q].group = g  PROVE \E i \in 1 .. Len(d) : d[i].group = g
    <3>1. q \in 1 .. Len(d) - 1
      BY <1>1, <1>3, <2>2
    <3>2. q + 1 \in 1 .. Len(d) /\ q \in 1 .. Len(d) /\ (f[q] = d[q] \/ f[q] = d[q + 1])
      BY <1>1, <3>1
    <3> QED  BY <2>2, <3>2
  <2> QED  BY <1>1, <2>1, <2>2, SameCount
<1> QED  BY <1>2, <1>3 DEF f

LEMMA CountsFrom ==
  ASSUME NEW d \in Seq(EntryType), OneEach(d), NEW n \in 0 .. Len(d), NEW g
  PROVE  CountAfter(From(d, n), 0, g) = CountAfter(d, n, g)
<1> DEFINE f == From(d, n)
<1>1. /\ f \in Seq(EntryType) /\ Len(f) = Len(d) - n /\ OneEach(f)
      /\ \A i \in 1 .. Len(f) : f[i] = d[n + i] /\ n + i \in 1 .. Len(d)
  <2>1. IsCutFrom(f, d, n)
    BY CuttingFrom
  <2> QED  BY <2>1 DEF IsCutFrom
<1> HIDE DEF f
<1>2. CASE \E i \in 1 .. Len(f) : f[i].group = g
  <2>1. PICK i \in 1 .. Len(f) : f[i].group = g
    BY <1>2
  <2>2. n + i \in 1 .. Len(d) /\ d[n + i].group = g /\ d[n + i] = f[i] /\ n + i > n /\ i > 0
    BY <1>1, <2>1
  <2>3. CountAfter(d, n, g) = d[n + i].count
    <3>1. n \in Int /\ g = d[n + i].group
      BY <2>2
    <3> QED  BY <2>2, <3>1, CountAt
  <2>4. CountAfter(f, 0, g) = f[i].count
    <3>1. 0 \in Int /\ g = f[i].group
      BY <2>1
    <3> QED  BY <1>1, <2>1, <2>2, <3>1, CountAt
  <2> QED  BY <2>2, <2>3, <2>4 DEF f
<1>3. CASE ~\E i \in 1 .. Len(f) : f[i].group = g
  <2>1. CountAfter(f, 0, g) = 0
    BY <1>1, <1>3, CountAfterIs, HasPosition
  <2>2. CountAfter(d, n, g) = 0
    <3>1. CASE HasGroup(d, g)
      <4>1. PICK p \in 1 .. Len(d) : d[p].group = g
        BY <3>1, HasPosition
      <4>2. ~(p > n)
        <5> SUFFICES ASSUME p > n  PROVE FALSE
          OBVIOUS
        <5>1. p - n \in 1 .. Len(f) /\ n + (p - n) = p
          BY <1>1
        <5>2. f[p - n] = d[p]
          BY <1>1, <5>1
        <5> QED  BY <1>3, <4>1, <5>1, <5>2
      <4> HIDE DEF f
      <4>3. p <= n /\ n \in Int
        BY <4>2
      <4> QED  BY <4>1, <4>3, CountAt
    <3>2. CASE ~HasGroup(d, g)
      BY <3>2, CountAfterIs
    <3> QED  BY <3>1, <3>2
  <2> QED  BY <2>1, <2>2 DEF f
<1> QED  BY <1>2, <1>3

(* The number of the messages taken into account. *)
LEMMA Accounting ==
  ASSUME AggregationInvariant, Processing, Account
  PROVE  /\ accepted' \in [Group -> Nat]
         /\ step = "process" =>
              /\ accepted'[msg.group] = accepted[msg.group] + 1
              /\ \A g \in Group : g # msg.group => accepted'[g] = accepted[g]
BY DEF Processing, Account, AggregationInvariant, Basics, AggregationTypes, MessageType

LEMMA WhenProcessing ==
  ASSUME AggregationInvariant, Processing
  PROVE  /\ tolerance \in Nat /\ time \in Nat /\ msg \in MessageType /\ msg.time \in Nat
         /\ msg.group \in Group /\ done = 0
         /\ groups \in Seq(EntryType) /\ buffer \in Seq(EntryType)
         /\ OneEach(groups) /\ OneEach(buffer) /\ Len(groups) \in Nat /\ Len(buffer) \in Nat
         /\ \A i \in 1 .. Len(groups) :
              groups[i] \in EntryType /\ groups[i].first \in Nat /\ groups[i].until \in Nat
         /\ \A i \in 1 .. Len(buffer) :
              buffer[i] \in EntryType /\ buffer[i].first \in Nat /\ buffer[i].until \in Nat
         /\ Moved = 0
<1>1. /\ tolerance \in Nat /\ time \in Nat /\ msg \in MessageType /\ done = 0
      /\ groups \in Seq(EntryType) /\ buffer \in Seq(EntryType)
      /\ OneEach(groups) /\ OneEach(buffer) /\ Moved = 0
  BY DEF AggregationInvariant, Basics, AggregationTypes, LoopsAreInRange, Processing, Moved
<1>2. msg.time \in Nat /\ msg.group \in Group
  BY <1>1 DEF MessageType
<1> QED  BY <1>1, <1>2, EntryParts

(* What the dicts count of a group. *)
Total(g) == CountAfter(buffer, 0, g) + CountAfter(groups, 0, g)

LEMMA TotalIsNat ==
  AggregationInvariant => \A g : Total(g) \in Nat
BY CountAfterIs DEF AggregationInvariant, Basics, AggregationTypes, Total

(* One more message is taken into account, and counted. *)
LEMMA OneMoreCounted ==
  ASSUME AggregationInvariant, Processing, Account, Counting,
         tolerance' = tolerance, reported' = reported, done' = done,
         step' \in {"announce", "generate"},
         \A g \in Group : g # msg.group => Total(g)' = Total(g),
         \A g \in Group : g = msg.group =>
           /\ Total(g)' \in Nat /\ Total(g)' <= Total(g) + 1
           /\ tolerance = 0 => Total(g)' = Total(g) + 1
  PROVE  \A g \in Group : Balance(g)'
<1> SUFFICES ASSUME NEW g \in Group  PROVE Balance(g)'
  OBVIOUS
<1>1. step = "process" /\ done = 0
  BY WhenProcessing DEF Counting, Processing
<1>3. Pending(g) = Total(g)
  BY <1>1 DEF Pending, BufferReported, GroupsReported, Moved, Total
<1>4. Pending(g)' = Total(g)'
  BY <1>1 DEF Pending, BufferReported, GroupsReported, Moved, Total
<1>5. accepted[g] \in Nat /\ reported[g] \in Nat /\ Total(g) \in Nat
  BY TotalIsNat DEF AggregationInvariant, Basics, AggregationTypes
<1>6. accepted'[g] = accepted[g] + IF g = msg.group THEN 1 ELSE 0
  BY <1>1, <1>5, Accounting
<1>7. Balance(g)
  BY DEF Counting
<1>8. CASE g = msg.group
  <2>1. /\ Total(g)' \in Nat /\ Total(g)' <= Total(g) + 1
        /\ tolerance = 0 => Total(g)' = Total(g) + 1
    BY <1>8
  <2> QED  BY <1>3, <1>4, <1>5, <1>6, <1>7, <1>8, <2>1 DEF Balance
<1>9. CASE g # msg.group
  <2>1. Total(g)' = Total(g)
    BY <1>9
  <2> QED  BY <1>3, <1>4, <1>5, <1>6, <1>7, <1>9, <2>1 DEF Balance
<1> QED  BY <1>8, <1>9

LEMMA CountOutOfOrderKeeps ==
  ASSUME AggregationInvariant, tolerance' = tolerance, CountOutOfOrder
  PROVE  AggregationInvariant'
<1>0. /\ Processing /\ Account /\ InGroups /\ step' = "generate"
      /\ UNCHANGED <<time, buffer, msg, done, failedOutputs, reported>>
  BY DEF CountOutOfOrder
<1>1. PICK p \in 1 .. Len(groups), c \in EntryType :
        groups[p] = c /\ Current = c /\ c.group = msg.group
  BY <1>0, WhenProcessing, HasPosition DEF InGroups, Current
<1>2. PICK e \in EntryType :
        /\ groups' = Assigned(groups, e)
        /\ e.group = msg.group /\ e.first = c.first
        /\ e.count = c.count + 1 /\ e.outOfOrder = TRUE
        /\ e.until = IF msg.time > c.until THEN msg.time ELSE c.until
        /\ e.last = IF msg.time > c.last THEN msg.time ELSE c.last
  <2> DEFINE x == [Counted(Extended(c, msg.time), msg.time) EXCEPT !.outOfOrder = TRUE]
  <2>1. groups' = Assigned(groups, x)
    BY <1>1 DEF CountOutOfOrder
  <2>2. /\ x \in EntryType /\ x.group = c.group /\ x.first = c.first
        /\ x.count = c.count + 1 /\ x.outOfOrder = TRUE
        /\ x.until = IF msg.time > c.until THEN msg.time ELSE c.until
        /\ x.last = IF msg.time > c.last THEN msg.time ELSE c.last
    BY <1>0, WhenProcessing, ExtendedEntry
  <2> HIDE DEF x
  <2> QED  BY <1>1, <2>1, <2>2
<1>3. e.group = groups[p].group
  BY <1>1, <1>2
<1>4. /\ groups' \in Seq(EntryType) /\ Len(groups') = Len(groups) /\ OneEach(groups')
      /\ groups'[p] = e /\ \A i \in 1 .. Len(groups) : i # p => groups'[i] = groups[i]
  <2>1. IsAssignedAt(groups', groups, p, e)
    BY <1>0, <1>2, <1>3, WhenProcessing, AssigningInPlace
  <2> QED  BY <2>1 DEF IsAssignedAt
<1>5. /\ tolerance \in Nat /\ time \in Nat /\ msg.time \in Nat /\ msg.time < time /\ done = 0
      /\ msg \in MessageType /\ Moved = 0
      /\ Len(groups) \in Nat /\ groups \in Seq(EntryType) /\ OneEach(groups)
      /\ Len(buffer) \in Nat /\ buffer \in Seq(EntryType) /\ OneEach(buffer)
  BY <1>0, WhenProcessing DEF CountOutOfOrder, OutOfOrder
<1>6. Timely(c) /\ c.first \in Nat /\ c.until \in Nat /\ c.count \in Nat /\ c.last \in Nat
  BY <1>0, <1>1, <1>5, EntryParts DEF AggregationInvariant, Basics, AllTimely
<1>7. Basics'
  <2>1. AggregationTypes'
    BY <1>0, <1>4, <1>5, Accounting DEF AggregationInvariant, Basics, AggregationTypes, AggregationStep
  <2>2. AllTimely'
    <3>1. e.first <= e.until /\ e.until <= time
      BY <1>2, <1>5, <1>6 DEF Timely
    <3>2. \A i \in 1 .. Len(groups') : groups'[i].first <= groups'[i].until /\ groups'[i].until <= time
      BY <1>4, <3>1 DEF AggregationInvariant, Basics, AllTimely, Timely
    <3> QED  BY <1>0, <3>2 DEF AggregationInvariant, Basics, AllTimely, Timely
  <2> QED  BY <1>0, <1>4, <1>5, <2>1, <2>2 DEF Basics, LoopsAreInRange, OneEach
<1>8. DatesAgree'
  <2>1. AllOfToday
    BY <1>0, <1>5 DEF AggregationInvariant, DatesAgree, DayHasBegun
  <2>2. Short(e)'
    <3>1. DayStart(time) \in Nat /\ time < DayStart(time) + Day /\ Day \in Nat
      BY <1>0, <1>5, Dates, AggregationAssumption
    <3>2. DayStart(time) <= c.first + tolerance /\ Short(c)
      BY <1>0, <1>1, <1>5, <2>1 DEF AllOfToday, OfToday, AggregationInvariant, DatesAgree, AllShort
    <3>3. DayStart(time) + Day <= c.first + Day + tolerance /\ c.until < c.first + Day + tolerance
      BY <1>5, <1>6, <3>1, <3>2 DEF Short
    <3>4. e.until < c.first + Day + tolerance
      <4>1. CASE msg.time > c.until
        <5>1. e.until = msg.time /\ msg.time < DayStart(time) + Day
          BY <1>2, <1>5, <3>1, <4>1
        <5>2. /\ msg.time \in Nat /\ c.first \in Nat /\ tolerance \in Nat /\ Day \in Nat
              /\ DayStart(time) \in Nat
          BY <1>5, <1>6, <3>1
        <5> QED  BY <3>3, <5>1, <5>2
      <4>2. CASE ~(msg.time > c.until)
        BY <1>2, <3>3, <4>2
      <4> QED  BY <4>1, <4>2
    <3> QED  BY <1>0, <1>2, <1>5, <3>4 DEF Short
  <2>3. AllShort'
    BY <1>0, <1>4, <1>5, <2>2 DEF AggregationInvariant, DatesAgree, AllShort, Short
  <2>4. AllOfToday'
    BY <1>0, <1>1, <1>2, <1>4, <1>5, <2>1 DEF AllOfToday, OfToday, DayStart, Date
  <2> QED  BY <2>3, <2>4 DEF DatesAgree
<1>9. PartsInOrder'
  BY <1>0, <1>1, <1>2, <1>4, <1>5 DEF AggregationInvariant, PartsInOrder, Moved
<1>10. MovedBecauseFinished'
  BY <1>0, <1>5 DEF MovedBecauseFinished
<1>11. (tolerance = 0 => Prompt)'
  <2> SUFFICES ASSUME tolerance = 0  PROVE Prompt'
    OBVIOUS
  <2>1. AllEndWithLast'
    BY <1>0, <1>1, <1>2, <1>4, <1>5 DEF AggregationInvariant, Prompt, AllEndWithLast
  <2>2. e.until >= c.until /\ e.until \in Nat
    BY <1>0, <1>1, <1>2, <1>5, <1>6
  <2>3. \A i \in 1 .. Len(groups) : groups[i].until \in Nat
    BY <1>0, <1>5, EntryParts
  <2>4. ASSUME NEW i \in 1 .. Len(groups'), NEW j \in 1 .. Len(groups'), i < j
        PROVE  groups'[i].outOfOrder \/ groups'[i].until <= groups'[j].until
    <3>1. groups[i].outOfOrder \/ groups[i].until <= groups[j].until
      BY <1>0, <1>4, <1>5, <2>4 DEF AggregationInvariant, Prompt, GroupsInOrder
    <3>2. CASE i = p
      BY <1>0, <1>2, <1>4, <1>5, <3>2
    <3>3. CASE i # p /\ j = p
      BY <1>0, <1>1, <1>2, <1>4, <1>5, <2>2, <2>3, <3>1, <3>3
    <3>4. CASE i # p /\ j # p
      BY <1>0, <1>4, <1>5, <3>1, <3>4
    <3> QED  BY <3>2, <3>3, <3>4
  <2> QED  BY <1>0, <1>5, <2>1, <2>4 DEF Prompt, GroupsInOrder
<1>12. (failedOutputs = 0 => Counting)'
  <2> SUFFICES ASSUME failedOutputs = 0  PROVE Counting'
    BY <1>0, <1>5
  <2>1. Counting /\ step = "process"
    BY <1>0, <1>5 DEF AggregationInvariant, Counting, Processing
  <2>2. \A g \in Group : g # msg.group => Total(g)' = Total(g)
    <3>1. \A g \in Group : g # msg.group => CountAfter(groups', 0, g) = CountAfter(groups, 0, g)
      BY <1>0, <1>2, <1>5, CountsAssigning
    <3> QED  BY <1>0, <1>5, <3>1 DEF Total, CountAfter, HasGroup, Position, Entry
  <2>3. ASSUME NEW g \in Group, g = msg.group  PROVE Total(g)' = Total(g) + 1
    <3>1. CountAfter(groups, 0, g) = c.count
      <4>1. p > 0 /\ g = groups[p].group /\ 0 \in Int
        BY <1>0, <1>1, <1>5, <2>3
      <4>2. CountAfter(groups, 0, g) = groups[p].count
        BY <1>0, <1>5, <4>1, CountAt
      <4> QED  BY <1>0, <1>1, <1>5, <4>2
    <3>2. CountAfter(groups', 0, g) = e.count
      BY <1>0, <1>2, <1>5, <2>3, CountsAssigning
    <3>3. CountAfter(buffer, 0, g)' = CountAfter(buffer, 0, g)
      BY <1>0, <1>5 DEF CountAfter, HasGroup, Position, Entry
    <3>4. CountAfter(buffer, 0, g) \in Nat
      <4>1. 0 \in Int
        OBVIOUS
      <4> QED  BY <1>0, <1>5, <4>1, CountAfterIsNat
    <3> QED  BY <1>0, <1>2, <1>5, <1>6, <3>1, <3>2, <3>3, <3>4 DEF Total
  <2>4. \A g \in Group : Total(g) \in Nat
    BY TotalIsNat
  <2>5. \A g \in Group : Balance(g)'
    BY <1>0, <1>5, <2>1, <2>2, <2>3, <2>4, OneMoreCounted
  <2>6. (tolerance = 0 => BufferIsFlushed)'
    BY <1>0, <1>5, <2>1 DEF Counting, BufferIsFlushed
  <2> QED  BY <1>0, <1>5, <2>5, <2>6 DEF Counting
<1> QED  BY <1>7, <1>8, <1>9, <1>10, <1>11, <1>12 DEF AggregationInvariant

LEMMA CountInBufferKeeps ==
  ASSUME AggregationInvariant, tolerance' = tolerance, CountInBuffer
  PROVE  AggregationInvariant'
<1>0. /\ Processing /\ Account /\ ~InGroups /\ InBuffer /\ step' = "generate"
      /\ UNCHANGED <<time, groups, msg, done, failedOutputs, reported>>
  BY DEF CountInBuffer
<1>1. PICK p \in 1 .. Len(buffer), c \in EntryType :
        buffer[p] = c /\ Entry(buffer, msg.group) = c /\ c.group = msg.group
  BY <1>0, WhenProcessing, HasPosition DEF InBuffer
<1>2. PICK e \in EntryType :
        /\ buffer' = Assigned(buffer, e)
        /\ e.group = msg.group /\ e.first = c.first /\ e.until = c.until
        /\ e.count = c.count + 1
  <2> DEFINE x == Counted(c, msg.time)
  <2>1. buffer' = Assigned(buffer, x)
    BY <1>1 DEF CountInBuffer
  <2>2. /\ x \in EntryType /\ x.group = c.group /\ x.first = c.first /\ x.until = c.until
        /\ x.count = c.count + 1
    BY <1>0, WhenProcessing, CountedEntry
  <2> HIDE DEF x
  <2> QED  BY <1>1, <2>1, <2>2
<1>3. e.group = buffer[p].group
  BY <1>1, <1>2
<1>4. /\ buffer' \in Seq(EntryType) /\ Len(buffer') = Len(buffer) /\ OneEach(buffer')
      /\ buffer'[p] = e /\ \A i \in 1 .. Len(buffer) : i # p => buffer'[i] = buffer[i]
  <2>1. IsAssignedAt(buffer', buffer, p, e)
    BY <1>0, <1>2, <1>3, WhenProcessing, AssigningInPlace
  <2> QED  BY <2>1 DEF IsAssignedAt
<1>5. /\ tolerance \in Nat /\ tolerance # 0 /\ time \in Nat /\ msg.time \in Nat /\ done = 0
      /\ msg \in MessageType /\ msg.time # time /\ Moved = 0
      /\ Len(groups) \in Nat /\ groups \in Seq(EntryType) /\ OneEach(groups)
      /\ Len(buffer) \in Nat /\ buffer \in Seq(EntryType) /\ OneEach(buffer)
  BY <1>0, WhenProcessing DEF CountInBuffer, OutOfOrder, Late
<1>6. Timely(c) /\ c.first \in Nat /\ c.until \in Nat /\ c.count \in Nat
  BY <1>1, EntryParts DEF AggregationInvariant, Basics, AllTimely
<1>7. Basics'
  <2>1. AggregationTypes'
    BY <1>0, <1>4, <1>5, Accounting DEF AggregationInvariant, Basics, AggregationTypes, AggregationStep
  <2>2. AllTimely'
    BY <1>0, <1>1, <1>2, <1>4, <1>5, <1>6 DEF AggregationInvariant, Basics, AllTimely, Timely
  <2> QED  BY <1>0, <1>4, <1>5, <2>1, <2>2 DEF Basics, LoopsAreInRange, OneEach
<1>8. DatesAgree'
  <2>1. AllOfToday
    BY <1>0, <1>5 DEF AggregationInvariant, DatesAgree, DayHasBegun
  <2>2. AllShort'
    BY <1>0, <1>1, <1>2, <1>4, <1>5 DEF AggregationInvariant, DatesAgree, AllShort, Short
  <2>3. AllOfToday'
    BY <1>0, <2>1 DEF AllOfToday, OfToday, DayStart, Date
  <2> QED  BY <2>2, <2>3 DEF DatesAgree
<1>9. PartsInOrder'
  BY <1>0, <1>1, <1>2, <1>4, <1>5 DEF AggregationInvariant, PartsInOrder, Moved
<1>10. MovedBecauseFinished'
  BY <1>0, <1>5 DEF MovedBecauseFinished
<1>11. (failedOutputs = 0 => Counting)'
  <2> SUFFICES ASSUME failedOutputs = 0  PROVE Counting'
    BY <1>0
  <2>1. Counting
    BY DEF AggregationInvariant
  <2>2. \A g \in Group : g # msg.group => Total(g)' = Total(g)
    <3>1. \A g \in Group : g # msg.group => CountAfter(buffer', 0, g) = CountAfter(buffer, 0, g)
      BY <1>2, <1>5, CountsAssigning
    <3> QED  BY <1>0, <3>1 DEF Total, CountAfter, HasGroup, Position, Entry
  <2>3. ASSUME NEW g \in Group, g = msg.group  PROVE Total(g)' = Total(g) + 1
    <3>1. CountAfter(buffer, 0, g) = c.count
      <4>1. p > 0 /\ g = buffer[p].group /\ 0 \in Int
        BY <1>1, <1>5, <2>3
      <4>2. CountAfter(buffer, 0, g) = buffer[p].count
        BY <1>5, <4>1, CountAt
      <4> QED  BY <1>1, <4>2
    <3>2. CountAfter(buffer', 0, g) = e.count
      BY <1>2, <1>5, <2>3, CountsAssigning
    <3>3. CountAfter(groups, 0, g)' = CountAfter(groups, 0, g)
      BY <1>0 DEF CountAfter, HasGroup, Position, Entry
    <3>4. CountAfter(groups, 0, g) \in Nat
      BY <1>5, CountAfterIs
    <3> QED  BY <1>2, <1>6, <3>1, <3>2, <3>3, <3>4 DEF Total
  <2>4. \A g \in Group : Total(g) \in Nat
    BY TotalIsNat
  <2>5. \A g \in Group : Balance(g)'
    BY <1>0, <2>1, <2>2, <2>3, <2>4, OneMoreCounted
  <2> QED  BY <1>0, <1>5, <2>5 DEF Counting
<1> QED  BY <1>5, <1>7, <1>8, <1>9, <1>10, <1>11 DEF AggregationInvariant

(* Time goes on to that of the message. *)
LEMMA TimePasses ==
  ASSUME AggregationInvariant, Processing, UpdateTime, ~OutOfOrder
  PROVE  /\ time' \in Nat /\ time' >= time /\ time' >= msg.time
         /\ time' = msg.time \/ time' = time
         /\ msg.time > time => time' = msg.time
         /\ msg.time + tolerance >= time'
         /\ tolerance = 0 => time' = msg.time
BY WhenProcessing DEF UpdateTime, OutOfOrder

(* The groups are still those of today, or those of yesterday with one that has
   begun just now. *)
LEMMA TodayOrNewDay ==
  ASSUME AggregationInvariant, Processing, UpdateTime, ~OutOfOrder, AllOfToday,
         tolerance' = tolerance, msg' = msg, step' = "announce",
         groups' \in Seq(EntryType), groups' # <<>>,
         groups'[Len(groups')].group = msg.group,
         groups'[Len(groups')].first = msg.time, groups'[Len(groups')].until = msg.time,
         \A i \in 1 .. Len(groups') : i = Len(groups') \/ \E k \in 1 .. Len(groups) : groups'[i] = groups[k]
  PROVE  (AllOfToday \/ DayHasBegun)'
<1>1. /\ tolerance \in Nat /\ time \in Nat /\ msg.time \in Nat
      /\ \A i \in 1 .. Len(groups) : groups[i].first \in Nat /\ groups[i].until \in Nat
      /\ Len(groups') \in Nat
  BY WhenProcessing
<1>2. \A i \in 1 .. Len(groups) : Timely(groups[i])
  BY DEF AggregationInvariant, Basics, AllTimely
<1>3. CASE Date(time') = Date(time)
  <2>1. DayStart(time)' = DayStart(time) /\ DayStart(time) \in Nat /\ DayStart(time) <= time
    BY <1>1, <1>3, Dates DEF DayStart
  <2>2. DayStart(time) <= msg.time + tolerance
    BY <1>1, <2>1 DEF OutOfOrder
  <2> QED  BY <1>1, <2>1, <2>2 DEF AllOfToday, OfToday
<1>4. CASE Date(time') # Date(time)
  <2>1. msg.time > time /\ time' = msg.time
    BY <1>1, <1>4, TimePasses
  <2>2. \A i \in 1 .. Len(groups) : Date(groups[i].until) < Date(msg.time)
    <3> SUFFICES ASSUME NEW i \in 1 .. Len(groups)  PROVE Date(groups[i].until) < Date(msg.time)
      OBVIOUS
    <3>1. Date(groups[i].until) <= Date(time) /\ Date(time) <= Date(msg.time)
      <4>1. groups[i].until \in Nat /\ groups[i].until <= time /\ time <= msg.time
        BY <1>1, <1>2, <2>1 DEF Timely
      <4> QED  BY <1>1, <4>1, Dates
    <3>2. Date(time) # Date(msg.time)
      BY <1>4, <2>1
    <3>3. Date(groups[i].until) \in Nat /\ Date(time) \in Nat /\ Date(msg.time) \in Nat
      BY <1>1, Dates
    <3> QED  BY <3>1, <3>2, <3>3
  <2>3. \A i \in 1 .. Len(groups') : i < Len(groups') => Date(groups'[i].until) < Date(time')
    BY <1>1, <2>1, <2>2
  <2>4. (\A i \in 1 .. Len(groups) : i < Len(groups) => Date(groups[i].until) < Date(time))'
    BY <2>3 DEF Date
  <2> QED  BY <2>1, <2>4 DEF DayHasBegun
<1> QED  BY <1>3, <1>4

LEMMA BeginGroupKeeps ==
  ASSUME AggregationInvariant, tolerance' = tolerance, BeginGroup
  PROVE  AggregationInvariant'
<1>0. /\ Processing /\ Account /\ UpdateTime /\ ~OutOfOrder /\ ~InGroups /\ step' = "announce"
      /\ UNCHANGED <<buffer, msg, done, failedOutputs, reported>>
  BY DEF BeginGroup
<1>1. /\ tolerance \in Nat /\ time \in Nat /\ msg.time \in Nat /\ done = 0
      /\ msg \in MessageType /\ msg.group \in Group /\ Moved = 0
      /\ Len(groups) \in Nat /\ groups \in Seq(EntryType) /\ OneEach(groups)
      /\ Len(buffer) \in Nat /\ buffer \in Seq(EntryType) /\ OneEach(buffer)
  BY <1>0, WhenProcessing
<1>2. PICK e \in EntryType :
        /\ groups' = Append(groups, e)
        /\ e.group = msg.group /\ e.first = msg.time /\ e.until = msg.time /\ e.last = msg.time
        /\ e.count = 1
  <2> DEFINE x == HiFreqEventData(msg.group, msg.time)
  <2>1. groups' = Append(groups, x)
    BY DEF BeginGroup
  <2>2. /\ x \in EntryType /\ x.group = msg.group /\ x.first = msg.time /\ x.until = msg.time
        /\ x.last = msg.time /\ x.count = 1
    <3>1. msg.group \in Group /\ msg.time \in Nat
      BY <1>1
    <3> QED  BY <3>1, NewEntry
  <2> HIDE DEF x
  <2> QED  BY <2>1, <2>2
<1>3. ~HasGroup(groups, e.group)
  BY <1>0, <1>2 DEF InGroups
<1>4. /\ groups' \in Seq(EntryType) /\ Len(groups') = Len(groups) + 1 /\ OneEach(groups')
      /\ groups'[Len(groups) + 1] = e /\ \A i \in 1 .. Len(groups) : groups'[i] = groups[i]
      /\ groups' = Assigned(groups, e)
  <2>1. IsAdded(groups', groups, e) /\ groups' = Assigned(groups, e)
    BY <1>1, <1>2, <1>3, Adding
  <2> QED  BY <2>1 DEF IsAdded
<1>5. /\ time' \in Nat /\ time' >= time /\ time' >= msg.time /\ msg.time + tolerance >= time'
      /\ tolerance = 0 => time' = msg.time
  BY <1>0, TimePasses
<1>6. Len(groups') \in 1 .. Len(groups') /\ groups'[Len(groups')] = e
      /\ \A i \in 1 .. Len(groups') : i = Len(groups') \/ i \in 1 .. Len(groups)
  BY <1>1, <1>4
<1>7. \A i \in 1 .. Len(groups) : groups[i].until \in Nat /\ groups[i].first \in Nat /\ Timely(groups[i])
  BY <1>0, WhenProcessing DEF AggregationInvariant, Basics, AllTimely
<1>8. \A i \in 1 .. Len(buffer) : buffer[i].until \in Nat /\ buffer[i].first \in Nat /\ Timely(buffer[i])
  BY <1>0, WhenProcessing DEF AggregationInvariant, Basics, AllTimely
<1>9. Basics'
  <2>1. AggregationTypes'
    BY <1>0, <1>1, <1>4, <1>5, Accounting DEF AggregationInvariant, Basics, AggregationTypes, AggregationStep
  <2>2. AllTimely'
    <3>1. e.first <= e.until /\ e.until <= time'
      BY <1>1, <1>2, <1>5
    <3>2. ASSUME NEW i \in 1 .. Len(groups')
          PROVE  groups'[i].first <= groups'[i].until /\ groups'[i].until <= time'
      <4>1. CASE i = Len(groups')
        BY <1>6, <3>1, <4>1
      <4>2. CASE i \in 1 .. Len(groups)
        <5>1. groups'[i] = groups[i] /\ groups[i].first <= groups[i].until
              /\ groups[i].until <= time /\ groups[i].until \in Nat
          BY <1>4, <1>7, <4>2 DEF Timely
        <5> QED  BY <1>1, <1>5, <5>1
      <4> QED  BY <1>6, <4>1, <4>2
    <3>3. \A i \in 1 .. Len(buffer) : buffer[i].first <= buffer[i].until /\ buffer[i].until <= time'
      BY <1>1, <1>5, <1>8 DEF Timely
    <3> QED  BY <1>0, <3>2, <3>3 DEF AllTimely, Timely
  <2>3. HasGroup(groups', msg.group)
    BY <1>2, <1>4, <1>6, HasPosition
  <2>4. (step = "announce" => HasGroup(groups, msg.group) /\ msg.time + tolerance >= time)'
    BY <1>0, <1>5, <2>3 DEF HasGroup
  <2> QED  BY <1>0, <1>1, <1>4, <2>1, <2>2, <2>4 DEF Basics, LoopsAreInRange, OneEach
<1>10. DatesAgree'
  <2>1. AllOfToday
    BY <1>0, <1>1, HasPosition DEF AggregationInvariant, DatesAgree, DayHasBegun, InGroups
  <2>2. (AllOfToday \/ DayHasBegun)'
    BY <1>0, <1>1, <1>2, <1>4, <1>6, <2>1, TodayOrNewDay
  <2>3. AllShort'
    <3>1. e.until < e.first + Day + tolerance
      BY <1>1, <1>2, AggregationAssumption
    <3>2. \A i \in 1 .. Len(groups') : groups'[i].until < groups'[i].first + Day + tolerance
      BY <1>4, <1>6, <3>1 DEF AggregationInvariant, DatesAgree, AllShort, Short
    <3> QED  BY <1>0, <3>2 DEF AggregationInvariant, DatesAgree, AllShort, Short
  <2> QED  BY <2>2, <2>3 DEF DatesAgree
<1>11. PartsInOrder'
  <2> SUFFICES ASSUME NEW i \in 1 .. Len(buffer), NEW j \in 1 .. Len(groups'),
                      buffer[i].group = groups'[j].group
               PROVE  buffer[i].until <= groups'[j].first
    BY <1>0 DEF PartsInOrder
  <2>1. CASE j \in 1 .. Len(groups)
    BY <1>1, <1>4, <2>1 DEF AggregationInvariant, PartsInOrder
  <2>2. CASE j = Len(groups')
    <3>1. buffer[i].group = msg.group
      BY <1>2, <1>6, <2>2
    <3>2. InBuffer
      BY <1>1, <3>1, HasPosition DEF InBuffer
    <3>3. ~(msg.time < time)
      BY <1>0, <3>2 DEF BeginGroup, Late
    <3> QED  BY <1>1, <1>2, <1>6, <1>8, <2>2, <3>3 DEF Timely
  <2> QED  BY <1>6, <2>1, <2>2
<1>12. MovedBecauseFinished'
  BY <1>0 DEF MovedBecauseFinished
<1>13. (tolerance = 0 => Prompt)'
  <2> SUFFICES ASSUME tolerance = 0  PROVE Prompt'
    OBVIOUS
  <2>1. AllEndWithLast'
    BY <1>0, <1>2, <1>4, <1>6 DEF AggregationInvariant, Prompt, AllEndWithLast
  <2>2. GroupsInOrder'
    <3> SUFFICES ASSUME NEW i \in 1 .. Len(groups'), NEW j \in 1 .. Len(groups'), i < j
                 PROVE  groups'[i].outOfOrder \/ groups'[i].until <= groups'[j].until
      BY DEF GroupsInOrder
    <3>1. i \in 1 .. Len(groups) /\ groups'[i] = groups[i]
      BY <1>1, <1>4, <1>6
    <3>2. CASE j = Len(groups')
      <4>1. groups[i].until <= time /\ time' = msg.time
        BY <1>5, <1>7, <3>1 DEF Timely
      <4> QED  BY <1>1, <1>2, <1>5, <1>6, <1>7, <3>1, <3>2, <4>1
    <3>3. CASE j \in 1 .. Len(groups)
      BY <1>4, <3>1, <3>3 DEF AggregationInvariant, Prompt, GroupsInOrder
    <3> QED  BY <1>6, <3>2, <3>3
  <2> QED  BY <1>0, <2>1, <2>2 DEF Prompt
<1>14. (failedOutputs = 0 => Counting)'
  <2> SUFFICES ASSUME failedOutputs = 0  PROVE Counting'
    BY <1>0
  <2>1. Counting /\ step = "process"
    BY <1>0 DEF AggregationInvariant, Counting, Processing
  <2>2. \A g \in Group : g # msg.group => Total(g)' = Total(g)
    <3>1. \A g \in Group : g # msg.group => CountAfter(groups', 0, g) = CountAfter(groups, 0, g)
      BY <1>1, <1>2, <1>4, CountsAssigning
    <3> QED  BY <1>0, <3>1 DEF Total, CountAfter, HasGroup, Position, Entry
  <2>3. ASSUME NEW g \in Group, g = msg.group  PROVE Total(g)' = Total(g) + 1
    <3>1. CountAfter(groups, 0, g) = 0
      BY <1>0, <1>1, <2>3, CountAfterIs DEF InGroups
    <3>2. CountAfter(groups', 0, g) = 1
      BY <1>1, <1>2, <1>4, <2>3, CountsAssigning
    <3>3. CountAfter(buffer, 0, g)' = CountAfter(buffer, 0, g)
      BY <1>0 DEF CountAfter, HasGroup, Position, Entry
    <3>4. CountAfter(buffer, 0, g) \in Nat
      BY <1>1, CountAfterIs
    <3> QED  BY <3>1, <3>2, <3>3, <3>4 DEF Total
  <2>4. \A g \in Group : Total(g) \in Nat
    BY TotalIsNat
  <2>5. \A g \in Group : Balance(g)'
    BY <1>0, <2>1, <2>2, <2>3, <2>4, OneMoreCounted
  <2>6. (tolerance = 0 => BufferIsFlushed)'
    BY <1>0, <2>1 DEF Counting, BufferIsFlushed
  <2> QED  BY <1>0, <2>5, <2>6 DEF Counting
<1> QED  BY <1>9, <1>10, <1>11, <1>12, <1>13, <1>14 DEF AggregationInvariant

(* All but the entry that is moved to the end stay as they were, in their order. *)
LEMMA TheOthersStay ==
  ASSUME NEW d \in Seq(EntryType), OneEach(d), NEW p \in 1 .. Len(d),
         NEW e \in EntryType, NEW result, IsMovedToEnd(result, d, p, e)
  PROVE  /\ Len(d) \in Nat /\ Len(d) > 0
         /\ \A i \in 1 .. Len(d) :
              i # Len(d) => i < Len(d) /\ \E k \in 1 .. Len(d) : k # p /\ result[i] = d[k]
         /\ \A i, j \in 1 .. Len(d) : i < j /\ j # Len(d) =>
              \E k, l \in 1 .. Len(d) : k < l /\ result[i] = d[k] /\ result[j] = d[l]
<1>1. Len(d) \in Nat /\ Len(d) > 0
  OBVIOUS
<1>2. \A i \in 1 .. Len(d) - 1 : (i < p => result[i] = d[i]) /\ (i >= p => result[i] = d[i + 1])
  BY DEF IsMovedToEnd
<1>3. ASSUME NEW i \in 1 .. Len(d), i # Len(d)
      PROVE  i < Len(d) /\ \E k \in 1 .. Len(d) : k # p /\ result[i] = d[k]
  <2>1. i \in 1 .. Len(d) - 1 /\ i + 1 \in 1 .. Len(d)
    BY <1>1, <1>3
  <2>2. CASE i < p
    BY <1>2, <2>1, <2>2
  <2>3. CASE i >= p
    <3>1. result[i] = d[i + 1] /\ i + 1 # p
      BY <1>2, <2>1, <2>3
    <3> QED  BY <2>1, <3>1
  <2> QED  BY <1>1, <2>1, <2>2, <2>3
<1>4. ASSUME NEW i \in 1 .. Len(d), NEW j \in 1 .. Len(d), i < j, j # Len(d)
      PROVE  \E k, l \in 1 .. Len(d) : k < l /\ result[i] = d[k] /\ result[j] = d[l]
  <2>1. i \in 1 .. Len(d) - 1 /\ i + 1 \in 1 .. Len(d) /\ j \in 1 .. Len(d) - 1 /\ j + 1 \in 1 .. Len(d)
        /\ i < j + 1 /\ i + 1 < j + 1
    BY <1>1, <1>4
  <2>2. CASE j < p
    <3>1. result[i] = d[i] /\ result[j] = d[j]
      BY <1>2, <1>4, <2>1, <2>2
    <3> QED  BY <1>4, <3>1
  <2>3. CASE j >= p /\ i < p
    <3>1. result[i] = d[i] /\ result[j] = d[j + 1]
      BY <1>2, <2>1, <2>3
    <3> QED  BY <2>1, <3>1
  <2>4. CASE i >= p
    <3>1. result[i] = d[i + 1] /\ result[j] = d[j + 1]
      BY <1>2, <1>4, <2>1, <2>4
    <3> QED  BY <2>1, <3>1
  <2> QED  BY <1>1, <2>2, <2>3, <2>4
<1> QED  BY <1>1, <1>3, <1>4

LEMMA FinishGroupKeeps ==
  ASSUME AggregationInvariant, tolerance' = tolerance, FinishGroup
  PROVE  AggregationInvariant'
<1>0. /\ Processing /\ Account /\ UpdateTime /\ ~OutOfOrder /\ InGroups /\ step' = "announce"
      /\ UNCHANGED <<msg, done, failedOutputs, reported>>
  BY DEF FinishGroup
<1>1. /\ tolerance \in Nat /\ time \in Nat /\ msg.time \in Nat /\ done = 0
      /\ msg \in MessageType /\ msg.group \in Group /\ Moved = 0
      /\ Len(groups) \in Nat /\ groups \in Seq(EntryType) /\ OneEach(groups)
      /\ Len(buffer) \in Nat /\ buffer \in Seq(EntryType) /\ OneEach(buffer)
  BY <1>0, WhenProcessing
<1>2. PICK p \in 1 .. Len(groups), c \in EntryType :
        groups[p] = c /\ Current = c /\ c.group = msg.group
  BY <1>0, <1>1, HasPosition DEF InGroups, Current
<1>3. PICK e \in EntryType :
        /\ groups' = MovedToEnd(groups, e)
        /\ e.group = msg.group /\ e.first = msg.time /\ e.until = msg.time /\ e.last = msg.time
        /\ e.count = 1
  <2> DEFINE x == HiFreqEventData(msg.group, msg.time)
  <2>1. groups' = MovedToEnd(groups, x)
    BY DEF FinishGroup
  <2>2. /\ x \in EntryType /\ x.group = msg.group /\ x.first = msg.time /\ x.until = msg.time
        /\ x.last = msg.time /\ x.count = 1
    <3>1. msg.group \in Group /\ msg.time \in Nat
      BY <1>1
    <3> QED  BY <3>1, NewEntry
  <2> HIDE DEF x
  <2> QED  BY <2>1, <2>2
<1>4. e.group = groups[p].group
  BY <1>2, <1>3
<1>5. IsMovedToEnd(groups', groups, p, e)
  BY <1>1, <1>3, <1>4, MovingToEnd
<1>6. /\ groups' \in Seq(EntryType) /\ Len(groups') = Len(groups) /\ OneEach(groups')
      /\ groups'[Len(groups)] = e /\ Len(groups) \in 1 .. Len(groups)
  BY <1>1, <1>5 DEF IsMovedToEnd
<1>7. /\ \A i \in 1 .. Len(groups) :
           i # Len(groups) => i < Len(groups) /\ \E k \in 1 .. Len(groups) : k # p /\ groups'[i] = groups[k]
      /\ \A i, j \in 1 .. Len(groups) : i < j /\ j # Len(groups) =>
           \E k, l \in 1 .. Len(groups) : k < l /\ groups'[i] = groups[k] /\ groups'[j] = groups[l]
  BY <1>1, <1>5, TheOthersStay
<1>8. buffer' = Assigned(buffer, c)
  BY <1>2 DEF FinishGroup
<1>9. /\ buffer' \in Seq(EntryType) /\ OneEach(buffer') /\ Len(buffer') \in Nat
      /\ \A i \in 1 .. Len(buffer') :
           \/ buffer'[i] = c
           \/ buffer'[i].group # msg.group /\ \E j \in 1 .. Len(buffer) : buffer'[i] = buffer[j]
  <2>1. IsAssigned(buffer', buffer, c)
    BY <1>1, <1>8, Assigning
  <2> QED  BY <1>2, <2>1 DEF IsAssigned
<1>10. /\ time' \in Nat /\ time' >= time /\ time' >= msg.time /\ msg.time + tolerance >= time'
       /\ tolerance = 0 => time' = msg.time
  BY <1>0, TimePasses
<1>11. /\ \A i \in 1 .. Len(groups) : groups[i].until \in Nat /\ groups[i].first \in Nat /\ Timely(groups[i])
       /\ \A i \in 1 .. Len(buffer) : buffer[i].until \in Nat /\ buffer[i].first \in Nat /\ Timely(buffer[i])
  BY <1>0, WhenProcessing DEF AggregationInvariant, Basics, AllTimely
<1>12. Timely(c) /\ c.first \in Nat /\ c.until \in Nat /\ c.count \in Nat
  BY <1>2, <1>11, EntryParts
<1>13. c.until < msg.time
  <2>1. CASE msg.time > c.until + Wait
    BY <1>1, <1>12, <2>1, AggregationAssumption
  <2>2. CASE Date(msg.time) > Date(time)
    <3>1. ~(msg.time <= time)
      <4>1. msg.time <= time => Date(msg.time) <= Date(time)
        BY <1>1, Dates
      <4>2. Date(msg.time) \in Nat /\ Date(time) \in Nat
        BY <1>1, Dates
      <4> QED  BY <2>2, <4>1, <4>2
    <3> QED  BY <1>1, <1>12, <3>1 DEF Timely
  <2> QED  BY <1>2, <2>1, <2>2 DEF FinishGroup, Finished
<1>14. AllOfToday
  <2> SUFFICES ASSUME DayHasBegun  PROVE FALSE
    BY DEF AggregationInvariant, DatesAgree
  <2>1. /\ msg.time = time /\ groups[Len(groups)].group = msg.group /\ groups[Len(groups)].until = time
    BY DEF DayHasBegun
  <2>2. p = Len(groups)
    BY <1>1, <1>2, <1>6, <2>1 DEF OneEach
  <2> QED  BY <1>1, <1>2, <1>12, <1>13, <2>1, <2>2
<1>15. Basics'
  <2>1. AggregationTypes'
    BY <1>0, <1>1, <1>6, <1>9, <1>10, Accounting DEF AggregationInvariant, Basics, AggregationTypes, AggregationStep
  <2>2. AllTimely'
    <3>1. ASSUME NEW x \in EntryType, Timely(x)  PROVE x.first <= x.until /\ x.until <= time'
      <4>1. x.first <= x.until /\ x.until <= time /\ x.until \in Nat
        BY <3>1, EntryParts DEF Timely
      <4> QED  BY <1>1, <1>10, <4>1
    <3>2. e.first <= e.until /\ e.until <= time'
      BY <1>1, <1>3, <1>10
    <3>3. \A i \in 1 .. Len(groups') : groups'[i].first <= groups'[i].until /\ groups'[i].until <= time'
      BY <1>1, <1>6, <1>7, <1>11, <3>1, <3>2
    <3>4. \A i \in 1 .. Len(buffer') : buffer'[i].first <= buffer'[i].until /\ buffer'[i].until <= time'
      BY <1>1, <1>9, <1>11, <1>12, <3>1
    <3> QED  BY <3>3, <3>4 DEF AllTimely, Timely
  <2>3. HasGroup(groups', msg.group)
    BY <1>3, <1>6, HasPosition
  <2>4. (step = "announce" => HasGroup(groups, msg.group) /\ msg.time + tolerance >= time)'
    BY <1>0, <1>10, <2>3 DEF HasGroup
  <2> QED  BY <1>0, <1>1, <1>6, <1>9, <2>1, <2>2, <2>4 DEF Basics, LoopsAreInRange, OneEach
<1>16. DatesAgree'
  <2>1. (AllOfToday \/ DayHasBegun)'
    <3>1. groups' # <<>>
      BY <1>6
    <3> QED  BY <1>0, <1>3, <1>6, <1>7, <1>14, <3>1, TodayOrNewDay
  <2>2. AllShort'
    <3>1. e.until < e.first + Day + tolerance
      BY <1>1, <1>3, AggregationAssumption
    <3>2. Short(c)
      BY <1>2 DEF AggregationInvariant, DatesAgree, AllShort
    <3>3. \A i \in 1 .. Len(groups') : groups'[i].until < groups'[i].first + Day + tolerance
      BY <1>6, <1>7, <3>1 DEF AggregationInvariant, DatesAgree, AllShort, Short
    <3>4. \A i \in 1 .. Len(buffer') : buffer'[i].until < buffer'[i].first + Day + tolerance
      BY <1>9, <3>2 DEF AggregationInvariant, DatesAgree, AllShort, Short
    <3> QED  BY <3>3, <3>4 DEF AllShort, Short
  <2> QED  BY <2>1, <2>2 DEF DatesAgree
<1>17. PartsInOrder'
  <2> SUFFICES ASSUME NEW i \in 1 .. Len(buffer'), NEW j \in 1 .. Len(groups'),
                      buffer'[i].group = groups'[j].group
               PROVE  buffer'[i].until <= groups'[j].first
    BY DEF PartsInOrder
  <2>1. CASE j = Len(groups)
    <3>1. buffer'[i] = c
      BY <1>3, <1>6, <1>9, <2>1
    <3> QED  BY <1>1, <1>3, <1>6, <1>12, <1>13, <2>1, <3>1
  <2>2. CASE j # Len(groups)
    <3>1. PICK k \in 1 .. Len(groups) : k # p /\ groups'[j] = groups[k]
      BY <1>6, <1>7, <2>2
    <3>2. groups[k].group # msg.group
      BY <1>1, <1>2, <3>1 DEF OneEach
    <3>3. PICK l \in 1 .. Len(buffer) : buffer'[i] = buffer[l]
      BY <1>2, <1>9, <3>1, <3>2
    <3> QED  BY <1>1, <3>1, <3>3 DEF AggregationInvariant, PartsInOrder
  <2> QED  BY <2>1, <2>2
<1>18. MovedBecauseFinished'
  BY <1>0 DEF MovedBecauseFinished
<1>19. (tolerance = 0 => Prompt)'
  <2> SUFFICES ASSUME tolerance = 0  PROVE Prompt'
    OBVIOUS
  <2>1. AllEndWithLast'
    <3>1. c.until = c.last
      BY <1>2 DEF AggregationInvariant, Prompt, AllEndWithLast
    <3>2. ASSUME NEW i \in 1 .. Len(groups')  PROVE groups'[i].until = groups'[i].last
      <4>1. CASE i = Len(groups)
        BY <1>3, <1>6, <4>1
      <4>2. CASE i # Len(groups)
        BY <1>6, <1>7, <4>2 DEF AggregationInvariant, Prompt, AllEndWithLast
      <4> QED  BY <4>1, <4>2
    <3>3. \A i \in 1 .. Len(buffer') : buffer'[i].until = buffer'[i].last
      BY <1>9, <3>1 DEF AggregationInvariant, Prompt, AllEndWithLast
    <3> QED  BY <3>2, <3>3 DEF AllEndWithLast
  <2>2. GroupsInOrder'
    <3> SUFFICES ASSUME NEW i \in 1 .. Len(groups), NEW j \in 1 .. Len(groups), i < j
                 PROVE  groups'[i].outOfOrder \/ groups'[i].until <= groups'[j].until
      BY <1>6 DEF GroupsInOrder
    <3>1. CASE j = Len(groups)
      <4>1. PICK k \in 1 .. Len(groups) : groups'[i] = groups[k]
        BY <1>1, <1>7, <3>1
      <4>2. groups[k].until <= time /\ groups[k].until \in Nat /\ time' = msg.time
        BY <1>10, <1>11 DEF Timely
      <4>3. groups[k].until <= e.until
        BY <1>1, <1>3, <1>10, <4>2
      <4> QED  BY <1>6, <3>1, <4>1, <4>3
    <3>2. CASE j # Len(groups)
      <4>1. PICK k \in 1 .. Len(groups), l \in 1 .. Len(groups) :
              k < l /\ groups'[i] = groups[k] /\ groups'[j] = groups[l]
        BY <1>7, <3>2
      <4> QED  BY <4>1 DEF AggregationInvariant, Prompt, GroupsInOrder
    <3> QED  BY <3>1, <3>2
  <2> QED  BY <1>0, <2>1, <2>2 DEF Prompt
<1>20. (failedOutputs = 0 => Counting)'
  <2> SUFFICES ASSUME failedOutputs = 0  PROVE Counting'
    BY <1>0
  <2>1. Counting /\ step = "process"
    BY <1>0 DEF AggregationInvariant, Counting, Processing
  <2>2. \A g \in Group : g # msg.group => Total(g)' = Total(g)
    <3>1. \A g \in Group : g # msg.group =>
            /\ CountAfter(groups', 0, g) = CountAfter(groups, 0, g)
            /\ CountAfter(buffer', 0, g) = CountAfter(buffer, 0, g)
      <4>1. \A g \in Group : g # msg.group => CountAfter(groups', 0, g) = CountAfter(groups, 0, g)
        BY <1>1, <1>3, <1>4, CountsMovingToEnd
      <4>2. \A g \in Group : g # msg.group => CountAfter(buffer', 0, g) = CountAfter(buffer, 0, g)
        BY <1>1, <1>2, <1>8, CountsAssigning
      <4> QED  BY <4>1, <4>2
    <3> QED  BY <3>1 DEF Total, CountAfter, HasGroup, Position, Entry
  <2>3. ASSUME NEW g \in Group, g = msg.group
        PROVE  /\ Total(g)' = 1 + c.count
               /\ Total(g) = CountAfter(buffer, 0, g) + c.count
    <3>1. CountAfter(groups, 0, g) = c.count
      <4>1. p > 0 /\ g = groups[p].group /\ 0 \in Int
        BY <1>1, <1>2, <2>3
      <4>2. CountAfter(groups, 0, g) = groups[p].count
        BY <1>1, <4>1, CountAt
      <4> QED  BY <1>2, <4>2
    <3>2. CountAfter(groups', 0, g) = 1
      BY <1>1, <1>3, <1>4, <2>3, CountsMovingToEnd
    <3>3. CountAfter(buffer', 0, g) = c.count
      BY <1>1, <1>2, <1>8, <2>3, CountsAssigning
    <3>4. Total(g)' = CountAfter(buffer', 0, g) + CountAfter(groups', 0, g)
      BY DEF Total, CountAfter, HasGroup, Position, Entry
    <3> QED  BY <1>12, <3>1, <3>2, <3>3, <3>4 DEF Total
  <2>4. \A g \in Group : Total(g) \in Nat /\ CountAfter(buffer, 0, g) \in Nat
    BY <1>1, TotalIsNat, CountAfterIs
  <2>5. tolerance = 0 => \A g \in Group : CountAfter(buffer, 0, g) = 0
    <3>1. tolerance = 0 => buffer = <<>>
      BY <2>1 DEF Counting, BufferIsFlushed
    <3> QED  BY <3>1 DEF CountAfter, HasGroup
  <2>6. \A g \in Group : g = msg.group =>
          /\ Total(g)' \in Nat /\ Total(g)' <= Total(g) + 1
          /\ tolerance = 0 => Total(g)' = Total(g) + 1
    BY <1>12, <2>3, <2>4, <2>5
  <2>7. \A g \in Group : Balance(g)'
    BY <1>0, <2>1, <2>2, <2>6, OneMoreCounted
  <2>8. (tolerance = 0 => BufferIsFlushed)'
    <3> SUFFICES ASSUME tolerance = 0  PROVE BufferIsFlushed'
      OBVIOUS
    <3>1. buffer = <<>> /\ Len(buffer) = 0
      BY <2>1 DEF Counting, BufferIsFlushed
    <3>2. \A i \in 1 .. Len(buffer') : buffer'[i] = c
      BY <1>9, <3>1
    <3>3. time' = msg.time /\ c.until < time'
      BY <1>10, <1>13
    <3>4. \A i \in 1 .. Len(buffer'), j \in 1 .. Len(groups') :
            buffer'[i].group = groups'[j].group => groups'[j].until = time'
      <4> SUFFICES ASSUME NEW i \in 1 .. Len(buffer'), NEW j \in 1 .. Len(groups'),
                          buffer'[i].group = groups'[j].group
                   PROVE  groups'[j].until = time'
        OBVIOUS
      <4>1. groups'[j].group = msg.group
        BY <1>2, <3>2
      <4>2. j = Len(groups)
        BY <1>3, <1>6, <4>1 DEF OneEach
      <4> QED  BY <1>3, <1>6, <3>3, <4>2
    <3> QED  BY <1>0, <3>2, <3>3, <3>4 DEF BufferIsFlushed
  <2> QED  BY <1>0, <2>7, <2>8 DEF Counting
<1> QED  BY <1>15, <1>16, <1>17, <1>18, <1>19, <1>20 DEF AggregationInvariant

LEMMA CountInGroupKeeps ==
  ASSUME AggregationInvariant, tolerance' = tolerance, CountInGroup
  PROVE  AggregationInvariant'
<1>0. /\ Processing /\ Account /\ UpdateTime /\ ~OutOfOrder /\ InGroups /\ ~Finished
      /\ step' = "generate"
      /\ UNCHANGED <<buffer, msg, done, failedOutputs, reported>>
  BY DEF CountInGroup
<1>1. /\ tolerance \in Nat /\ time \in Nat /\ msg.time \in Nat /\ done = 0
      /\ msg \in MessageType /\ msg.group \in Group /\ Moved = 0
      /\ Len(groups) \in Nat /\ groups \in Seq(EntryType) /\ OneEach(groups)
      /\ Len(buffer) \in Nat /\ buffer \in Seq(EntryType) /\ OneEach(buffer)
  BY <1>0, WhenProcessing
<1>2. PICK p \in 1 .. Len(groups), c \in EntryType :
        groups[p] = c /\ Current = c /\ c.group = msg.group
  BY <1>0, <1>1, HasPosition DEF InGroups, Current
<1>3. PICK e \in EntryType :
        /\ groups' = MovedToEnd(groups, e)
        /\ e.group = msg.group /\ e.first = c.first
        /\ e.count = c.count + 1 /\ e.outOfOrder = FALSE
        /\ e.until = IF msg.time > c.until THEN msg.time ELSE c.until
        /\ e.last = IF msg.time > c.last THEN msg.time ELSE c.last
  <2> DEFINE x == [Counted(Extended(c, msg.time), msg.time) EXCEPT !.outOfOrder = FALSE]
  <2>1. groups' = MovedToEnd(groups, x)
    BY <1>2 DEF CountInGroup
  <2>2. /\ x \in EntryType /\ x.group = c.group /\ x.first = c.first
        /\ x.count = c.count + 1 /\ x.outOfOrder = FALSE
        /\ x.until = IF msg.time > c.until THEN msg.time ELSE c.until
        /\ x.last = IF msg.time > c.last THEN msg.time ELSE c.last
    BY <1>1, ExtendedEntry
  <2> HIDE DEF x
  <2> QED  BY <1>2, <2>1, <2>2
<1>4. e.group = groups[p].group
  BY <1>2, <1>3
<1>5. IsMovedToEnd(groups', groups, p, e)
  BY <1>1, <1>3, <1>4, MovingToEnd
<1>6. /\ groups' \in Seq(EntryType) /\ Len(groups') = Len(groups) /\ OneEach(groups')
      /\ groups'[Len(groups)] = e /\ Len(groups) \in 1 .. Len(groups)
  BY <1>1, <1>5 DEF IsMovedToEnd
<1>7. /\ \A i \in 1 .. Len(groups) :
           i # Len(groups) => i < Len(groups) /\ \E k \in 1 .. Len(groups) : k # p /\ groups'[i] = groups[k]
      /\ \A i, j \in 1 .. Len(groups) : i < j /\ j # Len(groups) =>
           \E k, l \in 1 .. Len(groups) : k < l /\ groups'[i] = groups[k] /\ groups'[j] = groups[l]
  BY <1>1, <1>5, TheOthersStay
<1>8. /\ time' \in Nat /\ time' >= time /\ time' >= msg.time /\ msg.time + tolerance >= time'
      /\ tolerance = 0 => time' = msg.time
      /\ time' = msg.time \/ time' = time
  BY <1>0, TimePasses
<1>9. /\ \A i \in 1 .. Len(groups) : groups[i].until \in Nat /\ groups[i].first \in Nat /\ Timely(groups[i])
      /\ \A i \in 1 .. Len(buffer) : buffer[i].until \in Nat /\ buffer[i].first \in Nat /\ Timely(buffer[i])
  BY <1>0, WhenProcessing DEF AggregationInvariant, Basics, AllTimely
<1>10. /\ Timely(c) /\ c.first \in Nat /\ c.until \in Nat /\ c.count \in Nat /\ c.last \in Nat
       /\ e.first \in Nat /\ e.until \in Nat
  BY <1>2, <1>9, EntryParts
<1>11. e.until >= c.until /\ e.first <= e.until /\ e.until <= time'
  <2>1. c.first <= c.until /\ c.until <= time'
    BY <1>1, <1>8, <1>10 DEF Timely
  <2>2. CASE msg.time > c.until
    <3>1. e.until = msg.time
      BY <1>3, <2>2
    <3> QED  BY <1>1, <1>3, <1>8, <1>10, <2>1, <2>2, <3>1
  <2>3. CASE ~(msg.time > c.until)
    <3>1. e.until = c.until
      BY <1>3, <2>3
    <3> QED  BY <1>3, <1>10, <2>1, <3>1
  <2> QED  BY <2>2, <2>3
<1>12. Date(time') = Date(time) /\ DayStart(time)' = DayStart(time) /\ msg.time < DayStart(time) + Day
  <2>1. Date(msg.time) <= Date(time) /\ Date(msg.time) \in Nat /\ Date(time) \in Nat
    <3>1. ~(Date(msg.time) > Date(time))
      BY <1>0 DEF Finished
    <3>2. Date(msg.time) \in Nat /\ Date(time) \in Nat
      BY <1>1, Dates
    <3> QED  BY <3>1, <3>2
  <2>2. Date(time') = Date(time)
    <3>1. CASE time' = time
      BY <3>1
    <3>2. CASE time' = msg.time
      <4>1. Date(time) <= Date(msg.time)
        BY <1>1, <1>8, <3>2, Dates
      <4> QED  BY <2>1, <3>2, <4>1
    <3> QED  BY <1>8, <3>1, <3>2
  <2>4. msg.time < DayStart(time) + Day
    <3>1. msg.time < DayStart(msg.time) + Day /\ DayStart(msg.time) <= DayStart(time)
      BY <1>1, <2>1, Dates
    <3>2. DayStart(msg.time) \in Nat /\ DayStart(time) \in Nat
      BY <1>1, Dates
    <3> QED  BY <1>1, <3>1, <3>2, AggregationAssumption
  <2>5. DayStart(time)' = DayStart(time)
    BY <2>2 DEF DayStart, Date
  <2> QED  BY <2>2, <2>4, <2>5
<1>13. DayHasBegun => p = Len(groups) /\ c.first = time /\ c.until = time /\ msg.time = time
  <2> SUFFICES ASSUME DayHasBegun  PROVE p = Len(groups) /\ c.first = time /\ c.until = time /\ msg.time = time
    OBVIOUS
  <2>1. /\ msg.time = time /\ groups[Len(groups)].group = msg.group
        /\ groups[Len(groups)].first = time /\ groups[Len(groups)].until = time
    BY DEF DayHasBegun
  <2>2. p = Len(groups)
    BY <1>1, <1>2, <1>6, <2>1 DEF OneEach
  <2> QED  BY <1>2, <2>1, <2>2
<1>14. Basics'
  <2>1. AggregationTypes'
    BY <1>0, <1>1, <1>6, <1>8, Accounting DEF AggregationInvariant, Basics, AggregationTypes, AggregationStep
  <2>2. AllTimely'
    <3>1. ASSUME NEW x \in EntryType, Timely(x)  PROVE x.first <= x.until /\ x.until <= time'
      <4>1. x.first <= x.until /\ x.until <= time /\ x.until \in Nat
        BY <3>1, EntryParts DEF Timely
      <4> QED  BY <1>1, <1>8, <4>1
    <3>3. ASSUME NEW i \in 1 .. Len(groups')
          PROVE  groups'[i].first <= groups'[i].until /\ groups'[i].until <= time'
      <4>1. CASE i = Len(groups)
        BY <1>6, <1>11, <4>1
      <4>2. CASE i # Len(groups)
        <5>1. PICK k \in 1 .. Len(groups) : groups'[i] = groups[k]
          BY <1>6, <1>7, <4>2
        <5> QED  BY <1>1, <1>9, <3>1, <5>1
      <4> QED  BY <4>1, <4>2
    <3>4. \A i \in 1 .. Len(buffer) : buffer[i].first <= buffer[i].until /\ buffer[i].until <= time'
      BY <1>1, <1>9, <3>1
    <3> QED  BY <1>0, <3>3, <3>4 DEF AllTimely, Timely
  <2> QED  BY <1>0, <1>1, <1>6, <2>1, <2>2 DEF Basics, LoopsAreInRange, OneEach
<1>15. DatesAgree'
  <2>1. e.until < e.first + Day + tolerance
    <3>1. Short(c)
      BY <1>2 DEF AggregationInvariant, DatesAgree, AllShort
    <3>2. CASE msg.time > c.until
      <4>1. AllOfToday
        BY <1>1, <1>13, <3>2 DEF AggregationInvariant, DatesAgree
      <4>2. DayStart(time) <= c.first + tolerance /\ DayStart(time) \in Nat
        BY <1>1, <1>2, <4>1, Dates DEF AllOfToday, OfToday
      <4>3. e.until = msg.time /\ msg.time < DayStart(time) + Day /\ Day \in Nat
        BY <1>3, <1>12, <3>2, AggregationAssumption
      <4>4. e.first = c.first /\ c.first \in Nat /\ tolerance \in Nat /\ msg.time \in Nat
        BY <1>1, <1>3, <1>10
      <4> QED  BY <4>2, <4>3, <4>4
    <3>3. CASE ~(msg.time > c.until)
      BY <1>3, <3>1, <3>3 DEF Short
    <3> QED  BY <3>2, <3>3
  <2>2. AllShort'
    <3>1. \A i \in 1 .. Len(groups') : groups'[i].until < groups'[i].first + Day + tolerance
      BY <1>6, <1>7, <2>1 DEF AggregationInvariant, DatesAgree, AllShort, Short
    <3> QED  BY <1>0, <3>1 DEF AggregationInvariant, DatesAgree, AllShort, Short
  <2>3. CASE AllOfToday
    <3>1. \A i \in 1 .. Len(groups') : DayStart(time)' <= groups'[i].first + tolerance
      BY <1>2, <1>3, <1>6, <1>7, <1>12, <2>3 DEF AllOfToday, OfToday
    <3>2. AllOfToday'
      BY <3>1 DEF AllOfToday, OfToday, DayStart, Date
    <3> QED  BY <2>2, <3>2 DEF DatesAgree
  <2>4. CASE DayHasBegun
    <3>1. p = Len(groups) /\ c.first = time /\ c.until = time /\ msg.time = time /\ time' = time
      BY <1>8, <1>13, <2>4
    <3>2. \A i \in 1 .. Len(groups) : i < Len(groups) => Date(groups[i].until) < Date(time)
      BY <2>4 DEF DayHasBegun
    <3>3. \A i \in 1 .. Len(groups') : i < Len(groups') => Date(groups'[i].until) < Date(time')
      <4> SUFFICES ASSUME NEW i \in 1 .. Len(groups), i < Len(groups)
                   PROVE  Date(groups'[i].until) < Date(time')
        BY <1>6
      <4>1. PICK k \in 1 .. Len(groups) : k # p /\ groups'[i] = groups[k]
        BY <1>1, <1>7
      <4>2. k < Len(groups)
        BY <1>1, <3>1, <4>1
      <4> QED  BY <1>12, <3>2, <4>1, <4>2
    <3>4. e.first = time' /\ e.until = time' /\ groups' # <<>> /\ 0 < Len(groups')
      BY <1>1, <1>3, <1>6, <3>1
    <3>5. DayHasBegun'
      <4>1. (\A i \in 1 .. Len(groups) : i < Len(groups) => Date(groups[i].until) < Date(time))'
        BY <3>3 DEF Date
      <4> QED  BY <1>0, <1>1, <1>3, <1>6, <3>1, <3>4, <4>1 DEF DayHasBegun
    <3> QED  BY <2>2, <3>5 DEF DatesAgree
  <2> QED  BY <2>3, <2>4 DEF AggregationInvariant, DatesAgree
<1>16. PartsInOrder'
  <2> SUFFICES ASSUME NEW i \in 1 .. Len(buffer), NEW j \in 1 .. Len(groups),
                      buffer[i].group = groups'[j].group
               PROVE  buffer[i].until <= groups'[j].first
    BY <1>0, <1>6 DEF PartsInOrder
  <2>1. PICK k \in 1 .. Len(groups) : groups'[j].group = groups[k].group /\ groups'[j].first = groups[k].first
    <3>1. CASE j = Len(groups)
      BY <1>2, <1>3, <1>4, <1>6, <3>1
    <3>2. CASE j # Len(groups)
      BY <1>7, <3>2
    <3> QED  BY <3>1, <3>2
  <2> QED  BY <1>1, <2>1 DEF AggregationInvariant, PartsInOrder
<1>17. MovedBecauseFinished'
  BY <1>0, <1>1 DEF MovedBecauseFinished
<1>18. (tolerance = 0 => Prompt)'
  <2> SUFFICES ASSUME tolerance = 0  PROVE Prompt'
    OBVIOUS
  <2>1. AllEndWithLast'
    <3>1. e.until = e.last
      BY <1>2, <1>3 DEF AggregationInvariant, Prompt, AllEndWithLast
    <3>2. \A i \in 1 .. Len(groups') : groups'[i].until = groups'[i].last
      BY <1>6, <1>7, <3>1 DEF AggregationInvariant, Prompt, AllEndWithLast
    <3> QED  BY <1>0, <3>2 DEF AggregationInvariant, Prompt, AllEndWithLast
  <2>2. GroupsInOrder'
    <3> SUFFICES ASSUME NEW i \in 1 .. Len(groups), NEW j \in 1 .. Len(groups), i < j
                 PROVE  groups'[i].outOfOrder \/ groups'[i].until <= groups'[j].until
      BY <1>6 DEF GroupsInOrder
    <3>1. CASE j = Len(groups)
      <4>1. PICK k \in 1 .. Len(groups) : groups'[i] = groups[k]
        BY <1>1, <1>7, <3>1
      <4>2. groups[k].until <= time /\ groups[k].until \in Nat /\ time' = msg.time
        BY <1>8, <1>9 DEF Timely
      <4>3. groups[k].until <= e.until
        BY <1>1, <1>3, <1>8, <1>10, <4>2
      <4> QED  BY <1>6, <3>1, <4>1, <4>3
    <3>2. CASE j # Len(groups)
      <4>1. PICK k \in 1 .. Len(groups), l \in 1 .. Len(groups) :
              k < l /\ groups'[i] = groups[k] /\ groups'[j] = groups[l]
        BY <1>7, <3>2
      <4> QED  BY <4>1 DEF AggregationInvariant, Prompt, GroupsInOrder
    <3> QED  BY <3>1, <3>2
  <2> QED  BY <1>0, <2>1, <2>2 DEF Prompt
<1>19. (failedOutputs = 0 => Counting)'
  <2> SUFFICES ASSUME failedOutputs = 0  PROVE Counting'
    BY <1>0
  <2>1. Counting /\ step = "process"
    BY <1>0 DEF AggregationInvariant, Counting, Processing
  <2>2. \A g \in Group : g # msg.group => Total(g)' = Total(g)
    <3>1. \A g \in Group : g # msg.group => CountAfter(groups', 0, g) = CountAfter(groups, 0, g)
      BY <1>1, <1>3, <1>4, CountsMovingToEnd
    <3> QED  BY <1>0, <3>1 DEF Total, CountAfter, HasGroup, Position, Entry
  <2>3. ASSUME NEW g \in Group, g = msg.group  PROVE Total(g)' = Total(g) + 1
    <3>1. CountAfter(groups, 0, g) = c.count
      <4>1. p > 0 /\ g = groups[p].group /\ 0 \in Int
        BY <1>1, <1>2, <2>3
      <4>2. CountAfter(groups, 0, g) = groups[p].count
        BY <1>1, <4>1, CountAt
      <4> QED  BY <1>2, <4>2
    <3>2. CountAfter(groups', 0, g) = e.count
      BY <1>1, <1>3, <1>4, <2>3, CountsMovingToEnd
    <3>3. CountAfter(buffer, 0, g) \in Nat
      BY <1>1, CountAfterIs
    <3>4. Total(g)' = CountAfter(buffer, 0, g) + CountAfter(groups', 0, g)
      BY <1>0 DEF Total, CountAfter, HasGroup, Position, Entry
    <3> QED  BY <1>3, <1>10, <3>1, <3>2, <3>3, <3>4 DEF Total
  <2>4. \A g \in Group : Total(g) \in Nat
    BY TotalIsNat
  <2>5. \A g \in Group : Balance(g)'
    BY <1>0, <2>1, <2>2, <2>3, <2>4, OneMoreCounted
  <2>6. (tolerance = 0 => BufferIsFlushed)'
    BY <1>0, <2>1 DEF Counting, BufferIsFlushed
  <2> QED  BY <1>0, <2>5, <2>6 DEF Counting
<1> QED  BY <1>14, <1>15, <1>16, <1>17, <1>18, <1>19 DEF AggregationInvariant

LEMMA PublishFirstKeeps ==
  ASSUME AggregationInvariant, tolerance' = tolerance, PublishFirst
  PROVE  AggregationInvariant'
<1>0. /\ step = "announce" /\ step' = "generate"
      /\ UNCHANGED <<time, buffer, msg, done, failedOutputs, accepted, reported>>
  BY DEF PublishFirst, history
<1>1. /\ tolerance \in Nat /\ time \in Nat /\ done = 0 /\ msg \in MessageType
      /\ Len(groups) \in Nat /\ groups \in Seq(EntryType) /\ OneEach(groups)
      /\ Len(buffer) \in Nat /\ buffer \in Seq(EntryType) /\ OneEach(buffer)
      /\ InGroups /\ Moved = 0
  BY <1>0 DEF AggregationInvariant, Basics, AggregationTypes, LoopsAreInRange, InGroups, Moved
<1>2. PICK p \in 1 .. Len(groups), c \in EntryType :
        groups[p] = c /\ Current = c /\ c.group = msg.group
  BY <1>1, HasPosition DEF InGroups, Current
<1>3. PICK e \in EntryType :
        /\ groups' = Assigned(groups, e)
        /\ e.group = c.group /\ e.first = c.first /\ e.until = c.until
        /\ e.last = c.last /\ e.count = c.count /\ e.outOfOrder = c.outOfOrder
  <2> DEFINE x == [c EXCEPT !.announced = TRUE]
  <2>1. groups' = Assigned(groups, x)
    BY <1>2 DEF PublishFirst
  <2>2. /\ x \in EntryType /\ x.group = c.group /\ x.first = c.first /\ x.until = c.until
        /\ x.last = c.last /\ x.count = c.count /\ x.outOfOrder = c.outOfOrder
    BY AnnouncedEntry
  <2> HIDE DEF x
  <2> QED  BY <2>1, <2>2
<1>4. /\ groups' \in Seq(EntryType) /\ Len(groups') = Len(groups) /\ OneEach(groups')
      /\ groups'[p] = e /\ \A i \in 1 .. Len(groups) : i # p => groups'[i] = groups[i]
  <2>1. IsAssignedAt(groups', groups, p, e)
    BY <1>1, <1>2, <1>3, AssigningInPlace
  <2> QED  BY <2>1 DEF IsAssignedAt
<1>5. \A i \in 1 .. Len(groups) :
        /\ groups'[i].group = groups[i].group /\ groups'[i].first = groups[i].first
        /\ groups'[i].until = groups[i].until /\ groups'[i].last = groups[i].last
        /\ groups'[i].count = groups[i].count /\ groups'[i].outOfOrder = groups[i].outOfOrder
  BY <1>2, <1>3, <1>4
<1>6. Basics'
  <2>1. AggregationTypes'
    BY <1>0, <1>1, <1>4 DEF AggregationInvariant, Basics, AggregationTypes, AggregationStep
  <2>2. AllTimely'
    BY <1>0, <1>4, <1>5 DEF AggregationInvariant, Basics, AllTimely, Timely
  <2> QED  BY <1>0, <1>1, <1>4, <2>1, <2>2 DEF Basics, LoopsAreInRange, OneEach
<1>7. DatesAgree'
  <2>1. AllShort'
    BY <1>0, <1>4, <1>5 DEF AggregationInvariant, DatesAgree, AllShort, Short
  <2>2. CASE AllOfToday
    <3>1. AllOfToday'
      BY <1>0, <1>4, <1>5, <2>2 DEF AllOfToday, OfToday, DayStart, Date
    <3> QED  BY <2>1, <3>1 DEF DatesAgree
  <2>3. CASE DayHasBegun
    <3>1. Len(groups) \in 1 .. Len(groups) /\ groups' # <<>> /\ done < Len(groups)
      BY <1>1, <1>4
    <3>2. \A i \in 1 .. Len(groups') : i < Len(groups') => Date(groups'[i].until) < Date(time)
      BY <1>4, <1>5, <2>3 DEF DayHasBegun
    <3>3. DayHasBegun'
      <4>1. (\A i \in 1 .. Len(groups) : i < Len(groups) => Date(groups[i].until) < Date(time))'
        BY <1>0, <3>2 DEF Date
      <4> QED  BY <1>0, <1>4, <1>5, <2>3, <3>1, <4>1 DEF DayHasBegun
    <3> QED  BY <2>1, <3>3 DEF DatesAgree
  <2> QED  BY <2>2, <2>3 DEF AggregationInvariant, DatesAgree
<1>8. PartsInOrder'
  BY <1>0, <1>1, <1>4, <1>5 DEF AggregationInvariant, PartsInOrder, Moved
<1>9. MovedBecauseFinished'
  BY <1>0, <1>1 DEF MovedBecauseFinished
<1>10. (tolerance = 0 => Prompt)'
  <2> SUFFICES ASSUME tolerance = 0  PROVE Prompt'
    OBVIOUS
  <2>1. AllEndWithLast'
    BY <1>0, <1>4, <1>5 DEF AggregationInvariant, Prompt, AllEndWithLast
  <2>2. GroupsInOrder'
    BY <1>4, <1>5 DEF AggregationInvariant, Prompt, GroupsInOrder
  <2> QED  BY <1>0, <2>1, <2>2 DEF Prompt
<1>11. (failedOutputs = 0 => Counting)'
  <2> SUFFICES ASSUME failedOutputs = 0  PROVE Counting'
    BY <1>0
  <2>1. Counting
    BY DEF AggregationInvariant
  <2>2. ASSUME NEW g \in Group  PROVE Pending(g)' = Pending(g)
    <3>1. CountAfter(groups', 0, g) = CountAfter(groups, 0, g)
      <4>1. \A i \in 1 .. Len(groups) : groups[i].group = g =>
              \E q \in 1 .. Len(groups') :
                groups'[q].group = g /\ groups'[q].count = groups[i].count /\ (i > 0 <=> q > 0)
        BY <1>4, <1>5
      <4>2. \A q \in 1 .. Len(groups') : groups'[q].group = g => \E i \in 1 .. Len(groups) : groups[i].group = g
        BY <1>4, <1>5
      <4> QED  BY <1>1, <1>4, <4>1, <4>2, SameCount
    <3>2. Pending(g) = CountAfter(buffer, 0, g) + CountAfter(groups, 0, g)
      BY <1>0 DEF Pending, BufferReported, GroupsReported, Moved
    <3>3. Pending(g)' = CountAfter(buffer, 0, g) + CountAfter(groups', 0, g)
      BY <1>0, <1>1 DEF Pending, BufferReported, GroupsReported, Moved, CountAfter, Entry, HasGroup, Position
    <3> QED  BY <3>1, <3>2, <3>3
  <2>3. \A g \in Group : Balance(g)'
    BY <1>0, <2>1, <2>2 DEF Counting, Balance
  <2>4. (tolerance = 0 => BufferIsFlushed)'
    BY <1>0, <1>1, <1>4, <1>5, <2>1 DEF Counting, BufferIsFlushed, Moved
  <2> QED  BY <1>0, <2>3, <2>4 DEF Counting
<1> QED  BY <1>6, <1>7, <1>8, <1>9, <1>10, <1>11 DEF AggregationInvariant

LEMMA MoveFinishedGroupKeeps ==
  ASSUME AggregationInvariant, tolerance' = tolerance, MoveFinishedGroup
  PROVE  AggregationInvariant'
<1>0. /\ step = "generate" /\ done < Len(groups) /\ ~Stop(done + 1) /\ done' = done + 1
      /\ UNCHANGED <<time, groups, msg, step, failedOutputs, accepted, reported>>
  BY DEF MoveFinishedGroup, history
<1>1. /\ tolerance \in Nat /\ time \in Nat /\ done \in Nat
      /\ Len(groups) \in Nat /\ groups \in Seq(EntryType) /\ OneEach(groups)
      /\ Len(buffer) \in Nat /\ buffer \in Seq(EntryType) /\ OneEach(buffer)
      /\ Moved = done /\ Moved' = done + 1
  BY <1>0 DEF AggregationInvariant, Basics, AggregationTypes, Moved
<1>2. done + 1 \in 1 .. Len(groups)
  BY <1>0, <1>1
<1>3. PICK c \in EntryType : groups[done + 1] = c /\ buffer' = Assigned(buffer, c)
  BY <1>1, <1>2 DEF MoveFinishedGroup
<1>4. /\ buffer' \in Seq(EntryType) /\ OneEach(buffer') /\ Len(buffer') \in Nat
      /\ \A i \in 1 .. Len(buffer') :
           \/ buffer'[i] = c
           \/ buffer'[i].group # c.group /\ \E j \in 1 .. Len(buffer) : buffer'[i] = buffer[j]
  <2>1. IsAssigned(buffer', buffer, c)
    BY <1>1, <1>3, Assigning
  <2> QED  BY <2>1 DEF IsAssigned
<1>5. Timely(c) /\ c.until \in Nat /\ c.count \in Nat
  BY <1>2, <1>3, EntryParts DEF AggregationInvariant, Basics, AllTimely
<1>6. c.until < time
  <2>1. CASE ~StillWaited(groups[done + 1])
    BY <1>1, <1>3, <1>5, <2>1, AggregationAssumption DEF StillWaited
  <2>2. CASE StillWaited(groups[done + 1])
    <3>1. Date(c.until) # Date(time)
      BY <1>0, <1>1, <1>3, <2>2 DEF Stop
    <3> QED  BY <1>1, <1>5, <3>1 DEF Timely
  <2> QED  BY <2>1, <2>2
<1>7. \A j \in 1 .. Len(groups) : groups[j].group = c.group => j = done + 1
  BY <1>2, <1>3, <1>1 DEF OneEach
<1>8. Basics'
  <2>1. AggregationTypes'
    BY <1>0, <1>1, <1>4 DEF AggregationInvariant, Basics, AggregationTypes, AggregationStep
  <2>2. AllTimely'
    BY <1>0, <1>4, <1>5 DEF AggregationInvariant, Basics, AllTimely, Timely
  <2> QED  BY <1>0, <1>1, <1>4, <2>1, <2>2 DEF AggregationInvariant, Basics, LoopsAreInRange, OneEach
<1>9. DatesAgree'
  <2>1. AllShort'
    <3>1. Short(c)
      BY <1>2, <1>3 DEF AggregationInvariant, DatesAgree, AllShort
    <3> QED  BY <1>0, <1>4, <3>1 DEF AggregationInvariant, DatesAgree, AllShort, Short
  <2>2. CASE AllOfToday
    <3>1. AllOfToday'
      BY <1>0, <2>2 DEF AllOfToday, OfToday, DayStart, Date
    <3> QED  BY <2>1, <3>1 DEF DatesAgree
  <2>3. CASE DayHasBegun
    <3>1. groups[Len(groups)].until = time
      BY <2>3 DEF DayHasBegun
    <3>2. done + 1 # Len(groups)
      BY <1>1, <1>3, <1>5, <1>6, <3>1
    <3>3. done + 1 < Len(groups)
      BY <1>1, <1>2, <3>2
    <3>4. DayHasBegun'
      BY <1>0, <2>3, <3>3 DEF DayHasBegun, Date
    <3> QED  BY <2>1, <3>4 DEF DatesAgree
  <2> QED  BY <2>2, <2>3 DEF AggregationInvariant, DatesAgree
<1>10. PartsInOrder'
  <2> SUFFICES ASSUME NEW i \in 1 .. Len(buffer'), NEW j \in 1 .. Len(groups), j > done + 1,
                      buffer'[i].group = groups[j].group
               PROVE  buffer'[i].until <= groups[j].first
    BY <1>0, <1>1 DEF PartsInOrder
  <2>1. groups[j].group # c.group /\ j > done
    BY <1>1, <1>7
  <2>2. PICK k \in 1 .. Len(buffer) : buffer'[i] = buffer[k]
    BY <1>4, <2>1
  <2> QED  BY <1>1, <2>1, <2>2 DEF AggregationInvariant, PartsInOrder
<1>11. MovedBecauseFinished'
  <2> SUFFICES ASSUME NEW i \in 1 .. done + 1  PROVE ~Stop(i)'
    BY <1>0 DEF MovedBecauseFinished
  <2>1. ~Stop(i)
    <3>1. i = done + 1 \/ i \in 1 .. done
      BY <1>1
    <3> QED  BY <1>0, <3>1 DEF AggregationInvariant, MovedBecauseFinished
  <2> QED  BY <1>0, <2>1 DEF Stop, StillWaited, Date
<1>12. (tolerance = 0 => Prompt)'
  <2> SUFFICES ASSUME tolerance = 0  PROVE Prompt'
    OBVIOUS
  <2>1. AllEndWithLast'
    <3>1. c.until = c.last
      BY <1>2, <1>3 DEF AggregationInvariant, Prompt, AllEndWithLast
    <3> QED  BY <1>0, <1>4, <3>1 DEF AggregationInvariant, Prompt, AllEndWithLast
  <2> QED  BY <1>0, <2>1 DEF AggregationInvariant, Prompt, GroupsInOrder
<1>13. (failedOutputs = 0 => Counting)'
  <2> SUFFICES ASSUME failedOutputs = 0  PROVE Counting'
    BY <1>0
  <2>1. Counting
    BY DEF AggregationInvariant
  <2>2. \A g \in Group :
          /\ Pending(g) = CountAfter(buffer, 0, g) + CountAfter(groups, done, g)
          /\ Pending(g)' = CountAfter(buffer', 0, g) + CountAfter(groups, done + 1, g)
    <3>1. \A g \in Group : Pending(g) = CountAfter(buffer, 0, g) + CountAfter(groups, done + 0, g)
      BY <1>0 DEF Pending, BufferReported, GroupsReported, Moved
    <3>2. \A g \in Group : Pending(g)' = CountAfter(buffer', 0, g) + CountAfter(groups, (done + 1) + 0, g)
      BY <1>0 DEF Pending, BufferReported, GroupsReported, Moved, CountAfter, Entry, HasGroup, Position
    <3>3. done + 0 = done /\ (done + 1) + 0 = done + 1
      BY <1>1
    <3> QED  BY <3>1, <3>2, <3>3
  <2>3. ASSUME NEW g \in Group, g # c.group  PROVE Pending(g)' = Pending(g)
    <3>1. CountAfter(buffer', 0, g) = CountAfter(buffer, 0, g)
      BY <1>1, <1>3, <2>3, CountsAssigning
    <3>2. CountAfter(groups, done + 1, g) = CountAfter(groups, done, g)
      <4>1. \A i \in 1 .. Len(groups) : groups[i].group = g => i # done + 1
        BY <1>3, <2>3
      <4>2. \A i \in 1 .. Len(groups) : groups[i].group = g =>
              \E q \in 1 .. Len(groups) :
                groups[q].group = g /\ groups[q].count = groups[i].count /\ (i > done <=> q > done + 1)
        BY <1>1, <4>1
      <4>3. done \in Int /\ done + 1 \in Int
        BY <1>1
      <4> QED  BY <1>1, <4>2, <4>3, SameCount
    <3> QED  BY <2>2, <3>1, <3>2
  <2>4. ASSUME NEW g \in Group, g = c.group
        PROVE  /\ Pending(g) = CountAfter(buffer, 0, g) + c.count
               /\ Pending(g)' = c.count
    <3>1. CountAfter(buffer', 0, g) = c.count
      BY <1>1, <1>3, <2>4, CountsAssigning
    <3>2. CountAfter(groups, done, g) = c.count /\ CountAfter(groups, done + 1, g) = 0
      <4>1. done \in Int /\ done + 1 \in Int /\ done + 1 > done /\ done + 1 <= done + 1
            /\ g = groups[done + 1].group
        BY <1>1, <1>3, <2>4
      <4>2. CountAfter(groups, done, g) = groups[done + 1].count
        BY <1>1, <1>2, <4>1, CountAt
      <4>3. CountAfter(groups, done + 1, g) = 0
        BY <1>1, <1>2, <4>1, CountAt
      <4> QED  BY <1>3, <4>2, <4>3
    <3> QED  BY <1>5, <2>2, <3>1, <3>2
  <2>5. \A g \in Group : CountAfter(buffer, 0, g) \in Nat
    BY <1>1, CountAfterIs
  <2>6. tolerance = 0 => \A g \in Group : g = c.group => CountAfter(buffer, 0, g) = 0
    <3> SUFFICES ASSUME tolerance = 0, HasGroup(buffer, c.group)  PROVE FALSE
      BY DEF CountAfter
    <3>1. PICK i \in 1 .. Len(buffer) : buffer[i].group = c.group
      BY <1>1, HasPosition
    <3>2. groups[done + 1].until = time
      BY <1>1, <1>2, <1>3, <2>1, <3>1 DEF Counting, BufferIsFlushed
    <3> QED  BY <1>1, <1>3, <1>5, <1>6, <3>2
  <2>7. ASSUME NEW g \in Group  PROVE Balance(g)'
    <3>1. Balance(g) /\ accepted[g] \in Nat /\ reported[g] \in Nat
      BY <2>1 DEF Counting, AggregationInvariant, Basics, AggregationTypes
    <3>2. CASE g = c.group
      <4>1. Pending(g)' \in Nat /\ Pending(g) \in Nat /\ Pending(g)' <= Pending(g)
            /\ (tolerance = 0 => Pending(g)' = Pending(g))
        BY <1>5, <2>4, <2>5, <2>6, <3>2
      <4> QED  BY <1>0, <3>1, <4>1 DEF Balance
    <3>3. CASE g # c.group
      BY <1>0, <2>3, <3>1, <3>3 DEF Balance
    <3> QED  BY <3>2, <3>3
  <2>8. (tolerance = 0 => BufferIsFlushed)'
    <3> SUFFICES ASSUME tolerance = 0  PROVE BufferIsFlushed'
      OBVIOUS
    <3>1. \A i \in 1 .. Len(buffer') : buffer'[i].until < time
      BY <1>4, <1>6, <2>1 DEF Counting, BufferIsFlushed
    <3>2. ASSUME NEW i \in 1 .. Len(buffer'), NEW j \in 1 .. Len(groups), j > done + 1,
                 buffer'[i].group = groups[j].group
          PROVE  groups[j].until = time
      <4>1. groups[j].group # c.group /\ j > done
        BY <1>1, <1>7, <3>2
      <4>2. PICK k \in 1 .. Len(buffer) : buffer'[i] = buffer[k]
        BY <1>4, <3>2, <4>1
      <4> QED  BY <1>1, <2>1, <3>2, <4>1, <4>2 DEF Counting, BufferIsFlushed
    <3> QED  BY <1>0, <1>1, <3>1, <3>2 DEF BufferIsFlushed
  <2> QED  BY <1>0, <2>1, <2>7, <2>8 DEF Counting
<1> QED  BY <1>8, <1>9, <1>10, <1>11, <1>12, <1>13 DEF AggregationInvariant

LEMMA DropFinishedGroupsKeeps ==
  ASSUME AggregationInvariant, tolerance' = tolerance, DropFinishedGroups
  PROVE  AggregationInvariant'
<1>0. /\ step = "generate" /\ (done < Len(groups) => Stop(done + 1)) /\ step' = "flush" /\ done' = 0
      /\ groups' = From(groups, done)
      /\ UNCHANGED <<time, buffer, msg, failedOutputs, accepted, reported>>
  BY DEF DropFinishedGroups, history
<1>1. /\ tolerance \in Nat /\ time \in Nat /\ done \in Nat /\ done \in 0 .. Len(groups)
      /\ Len(groups) \in Nat /\ groups \in Seq(EntryType) /\ OneEach(groups)
      /\ Len(buffer) \in Nat /\ buffer \in Seq(EntryType) /\ OneEach(buffer)
      /\ Moved = done /\ Moved' = 0
  BY <1>0 DEF AggregationInvariant, Basics, AggregationTypes, LoopsAreInRange, Moved
<1>2. /\ groups' \in Seq(EntryType) /\ Len(groups') = Len(groups) - done /\ OneEach(groups')
      /\ Len(groups') \in Nat
      /\ \A i \in 1 .. Len(groups') : groups'[i] = groups[done + i] /\ done + i \in 1 .. Len(groups)
  <2>1. IsCutFrom(groups', groups, done)
    BY <1>0, <1>1, CuttingFrom
  <2> QED  BY <1>1, <2>1 DEF IsCutFrom
<1>3. \A i \in 1 .. Len(groups) : groups[i].until \in Nat /\ groups[i].first \in Nat /\ Timely(groups[i])
  BY <1>1, EntryParts DEF AggregationInvariant, Basics, AllTimely
<1>4. Basics'
  <2>1. AggregationTypes'
    BY <1>0, <1>1, <1>2 DEF AggregationInvariant, Basics, AggregationTypes, AggregationStep
  <2>2. AllTimely'
    BY <1>0, <1>2 DEF AggregationInvariant, Basics, AllTimely, Timely
  <2> QED  BY <1>0, <1>1, <1>2, <2>1, <2>2 DEF AggregationInvariant, Basics, LoopsAreInRange, OneEach
<1>5. DatesAgree'
  <2>1. AllShort'
    BY <1>0, <1>2 DEF AggregationInvariant, DatesAgree, AllShort, Short
  <2>2. CASE AllOfToday
    <3>1. \A i \in 1 .. Len(groups') : DayStart(time) <= groups'[i].first + tolerance
      BY <1>2, <2>2 DEF AllOfToday, OfToday
    <3>2. AllOfToday'
      BY <1>0, <3>1 DEF AllOfToday, OfToday, DayStart, Date
    <3> QED  BY <2>1, <3>2 DEF DatesAgree
  <2>3. CASE DayHasBegun
    <3>1. done < Len(groups) /\ groups[Len(groups)].first = time
      BY <1>0, <2>3 DEF DayHasBegun
    <3>2. Date(groups[done + 1].until) = Date(time) /\ done + 1 \in 1 .. Len(groups)
      BY <1>0, <1>1, <3>1 DEF Stop
    <3>3. Date(time) \in Nat
      BY <1>1, Dates
    <3>4. done + 1 = Len(groups)
      BY <1>1, <2>3, <3>2, <3>3 DEF DayHasBegun
    <3>5. DayStart(time) <= time /\ DayStart(time) \in Nat
      BY <1>1, Dates
    <3>6. \A i \in 1 .. Len(groups') : groups'[i].first = time
      BY <1>1, <1>2, <3>1, <3>4
    <3>7. \A i \in 1 .. Len(groups') : DayStart(time) <= groups'[i].first + tolerance
      BY <1>1, <3>5, <3>6
    <3>8. AllOfToday'
      BY <1>0, <3>7 DEF AllOfToday, OfToday, DayStart, Date
    <3> QED  BY <2>1, <3>8 DEF DatesAgree
  <2> QED  BY <2>2, <2>3 DEF AggregationInvariant, DatesAgree
<1>6. PartsInOrder'
  <2> SUFFICES ASSUME NEW i \in 1 .. Len(buffer), NEW j \in 1 .. Len(groups'),
                      buffer[i].group = groups'[j].group
               PROVE  buffer[i].until <= groups'[j].first
    BY <1>0 DEF PartsInOrder
  <2>1. groups'[j] = groups[done + j] /\ done + j \in 1 .. Len(groups) /\ done + j > done
    BY <1>1, <1>2
  <2> QED  BY <1>1, <2>1 DEF AggregationInvariant, PartsInOrder
<1>7. MovedBecauseFinished'
  BY <1>0 DEF MovedBecauseFinished
<1>8. (tolerance = 0 => Prompt)'
  <2> SUFFICES ASSUME tolerance = 0  PROVE Prompt'
    OBVIOUS
  <2>1. AllEndWithLast'
    BY <1>0, <1>2 DEF AggregationInvariant, Prompt, AllEndWithLast
  <2>2. GroupsInOrder
    BY DEF AggregationInvariant, Prompt
  <2>3. GroupsInOrder'
    <3> SUFFICES ASSUME NEW i \in 1 .. Len(groups'), NEW j \in 1 .. Len(groups'), i < j
                 PROVE  groups'[i].outOfOrder \/ groups'[i].until <= groups'[j].until
      BY DEF GroupsInOrder
    <3>1. done + i < done + j
      BY <1>1
    <3> QED  BY <1>2, <2>2, <3>1 DEF GroupsInOrder
  <2>4. NoneIsForgotten'
    <3>1. CASE done = Len(groups)
      <4>1. Len(groups') = 0
        BY <1>1, <1>2, <3>1
      <4> QED  BY <4>1 DEF NoneIsForgotten
    <3>2. CASE done < Len(groups)
      <4>1. done + 1 \in 1 .. Len(groups) /\ 1 \in 1 .. Len(groups') /\ groups' # <<>>
        BY <1>1, <1>2, <3>2
      <4> DEFINE c == groups[done + 1]
      <4>2. c.until + Wait >= time
        <5>1. PICK j \in 1 .. done + 1 : StillWaited(groups[j])
          BY <1>0, <3>2 DEF Stop
        <5>2. CASE j = done + 1
          BY <5>1, <5>2 DEF StillWaited
        <5>3. CASE j \in 1 .. done
          <6>1. Date(groups[j].until) # Date(time)
            BY <1>0, <5>1, <5>3 DEF AggregationInvariant, MovedBecauseFinished, Stop
          <6>2. Date(c.until) = Date(time)
            BY <1>0, <3>2 DEF Stop
          <6>3. j \in 1 .. Len(groups)
            BY <1>1, <5>3
          <6>4. groups[j].until <= time
            BY <1>3, <6>3 DEF Timely
          <6>5. Date(groups[j].until) <= Date(time) /\ Date(groups[j].until) \in Nat /\ Date(time) \in Nat
            BY <1>1, <1>3, <6>3, <6>4, Dates
          <6>6. ~(c.until <= groups[j].until)
            <7>1. c.until <= groups[j].until => Date(c.until) <= Date(groups[j].until)
              BY <1>3, <4>1, <6>3, Dates
            <7> QED  BY <6>1, <6>2, <6>5, <7>1
          <6>7. c.until \in Nat /\ groups[j].until \in Nat /\ Wait \in Nat
            BY <1>3, <4>1, <6>3, AggregationAssumption
          <6> HIDE DEF c
          <6> QED  BY <1>1, <5>1, <6>6, <6>7 DEF StillWaited
        <5>4. j = done + 1 \/ j \in 1 .. done
          BY <1>1
        <5> QED  BY <5>2, <5>3, <5>4
      <4>3. groups'[1] = c
        BY <1>2, <4>1
      <4>4. ASSUME ~c.outOfOrder, NEW i \in 1 .. Len(groups')
            PROVE  groups'[i].until + Wait >= time
        <5>1. CASE i = 1
          BY <4>2, <4>3, <5>1
        <5>2. CASE i # 1
          <6>1. 1 < i
            BY <1>2, <5>2
          <6>2. c.until <= groups'[i].until
            BY <2>3, <4>1, <4>3, <4>4, <6>1 DEF GroupsInOrder
          <6>3. groups'[i].until \in Nat /\ c.until \in Nat /\ Wait \in Nat
            BY <1>2, <1>3, <4>1, AggregationAssumption
          <6> HIDE DEF c
          <6> QED  BY <1>1, <4>2, <6>2, <6>3
        <5> QED  BY <5>1, <5>2
      <4> QED  BY <1>0, <4>1, <4>3, <4>4 DEF NoneIsForgotten, StillWaited
    <3> QED  BY <1>1, <3>1, <3>2
  <2> QED  BY <2>1, <2>3, <2>4 DEF Prompt
<1>9. (failedOutputs = 0 => Counting)'
  <2> SUFFICES ASSUME failedOutputs = 0  PROVE Counting'
    BY <1>0
  <2>1. Counting
    BY DEF AggregationInvariant
  <2>2. ASSUME NEW g \in Group  PROVE Pending(g)' = Pending(g)
    <3>1. CountAfter(groups', 0, g) = CountAfter(groups, done, g)
      BY <1>0, <1>1, CountsFrom
    <3>2. Pending(g) = CountAfter(buffer, 0, g) + CountAfter(groups, done + 0, g)
      BY <1>0 DEF Pending, BufferReported, GroupsReported, Moved
    <3>3. Pending(g)' = CountAfter(buffer, 0, g) + CountAfter(groups', 0, g)
      BY <1>0 DEF Pending, BufferReported, GroupsReported, Moved, CountAfter, Entry, HasGroup, Position
    <3>4. done + 0 = done
      BY <1>1
    <3> QED  BY <3>1, <3>2, <3>3, <3>4
  <2>3. \A g \in Group : Balance(g)'
    BY <1>0, <2>1, <2>2 DEF Counting, Balance
  <2>4. (tolerance = 0 => BufferIsFlushed)'
    <3> SUFFICES ASSUME tolerance = 0  PROVE BufferIsFlushed'
      OBVIOUS
    <3>1. ASSUME NEW i \in 1 .. Len(buffer), NEW j \in 1 .. Len(groups'),
                 buffer[i].group = groups'[j].group
          PROVE  groups'[j].until = time
      <4>1. groups'[j] = groups[done + j] /\ done + j \in 1 .. Len(groups) /\ done + j > done
        BY <1>1, <1>2
      <4> QED  BY <1>1, <2>1, <3>1, <4>1 DEF Counting, BufferIsFlushed
    <3> QED  BY <1>0, <2>1, <3>1 DEF Counting, BufferIsFlushed
  <2> QED  BY <1>0, <2>3, <2>4 DEF Counting
<1> QED  BY <1>4, <1>5, <1>6, <1>7, <1>8, <1>9 DEF AggregationInvariant

(* The loops over the entries, one entry at a time. *)
LEMMA CountsNext ==
  ASSUME NEW d \in Seq(EntryType), OneEach(d), NEW n \in Int
  PROVE  /\ n + 1 \in 1 .. Len(d) =>
              /\ CountAfter(d, n, d[n + 1].group) = d[n + 1].count
              /\ CountAfter(d, n + 1, d[n + 1].group) = 0
              /\ \A g : g # d[n + 1].group => CountAfter(d, n + 1, g) = CountAfter(d, n, g)
         /\ n + 1 \notin 1 .. Len(d) => \A g : CountAfter(d, n + 1, g) = CountAfter(d, n, g)
         /\ n >= Len(d) => \A g : CountAfter(d, n, g) = 0
<1>0. n + 1 \in Int /\ n + 1 > n /\ n + 1 <= n + 1 /\ Len(d) \in Nat
  OBVIOUS
<1>1. ASSUME NEW g, n + 1 \in 1 .. Len(d) => g # d[n + 1].group
      PROVE  CountAfter(d, n + 1, g) = CountAfter(d, n, g)
  <2>1. \A i \in 1 .. Len(d) : d[i].group = g => i # n + 1
    BY <1>1
  <2>2. \A i \in 1 .. Len(d) : d[i].group = g =>
          \E q \in 1 .. Len(d) : d[q].group = g /\ d[q].count = d[i].count /\ (i > n <=> q > n + 1)
    BY <1>0, <2>1
  <2> QED  BY <1>0, <2>2, SameCount
<1>2. ASSUME n + 1 \in 1 .. Len(d)
      PROVE  /\ CountAfter(d, n, d[n + 1].group) = d[n + 1].count
             /\ CountAfter(d, n + 1, d[n + 1].group) = 0
  BY <1>0, <1>2, CountAt
<1>3. ASSUME n >= Len(d), NEW g  PROVE CountAfter(d, n, g) = 0
  <2>1. CASE HasGroup(d, g)
    <3>1. PICK p \in 1 .. Len(d) : d[p].group = g
      BY <2>1, HasPosition
    <3>2. p <= n
      BY <1>0, <1>3
    <3> QED  BY <3>1, <3>2, CountAt
  <2>2. CASE ~HasGroup(d, g)
    BY <2>2 DEF CountAfter
  <2> QED  BY <2>1, <2>2
<1> QED  BY <1>1, <1>2, <1>3

(* An entry is reported: what was pending is not any more. *)
LEMMA EntryIsReported ==
  ASSUME AggregationInvariant, Counting, NEW e \in EntryType,
         tolerance' = tolerance, accepted' = accepted, Report(e),
         \A g \in Group : Pending(g) \in Nat /\ Pending(g)' \in Nat,
         Pending(e.group) = Pending(e.group)' + e.count,
         \A g \in Group : g # e.group => Pending(g)' = Pending(g)
  PROVE  \A g \in Group : Balance(g)'
<1> SUFFICES ASSUME NEW g \in Group  PROVE Balance(g)'
  OBVIOUS
<1>1. Balance(g) /\ accepted[g] \in Nat /\ reported[g] \in Nat
  BY DEF Counting, AggregationInvariant, Basics, AggregationTypes
<1>2. e.group \in Group /\ e.count \in Nat /\ reported \in [Group -> Nat]
  BY EntryParts DEF AggregationInvariant, Basics, AggregationTypes
<1>3. reported' = [reported EXCEPT ![e.group] = reported[e.group] + e.count]
  BY DEF Report
<1>4. CASE g = e.group
  <2>1. reported'[g] = reported[g] + e.count
    BY <1>2, <1>3, <1>4
  <2>2. reported'[g] + Pending(g)' = reported[g] + Pending(g)
    BY <1>1, <1>2, <1>4, <2>1
  <2> QED  BY <1>1, <2>2 DEF Balance
<1>5. CASE g # e.group
  <2>1. reported'[g] = reported[g]
    BY <1>2, <1>3, <1>5
  <2> QED  BY <1>1, <1>5, <2>1 DEF Balance
<1> QED  BY <1>4, <1>5

(* Steps of a loop that only report. *)
LEMMA ReportingKeeps ==
  ASSUME AggregationInvariant, NEW e \in EntryType, Report(e),
         step \in {"flush", "inactive"}, done' = done + 1,
         step = "flush" => done < Len(buffer),
         step = "inactive" => done < Len(buffer) + Len(groups),
         tolerance' = tolerance,
         UNCHANGED <<time, groups, buffer, msg, step, failedOutputs, accepted>>,
         \A g \in Group : Pending(g) \in Nat /\ Pending(g)' \in Nat,
         Pending(e.group) = Pending(e.group)' + e.count,
         \A g \in Group : g # e.group => Pending(g)' = Pending(g)
  PROVE  AggregationInvariant'
<1>0. done \in Nat /\ Len(groups) \in Nat /\ Len(buffer) \in Nat
  BY DEF AggregationInvariant, Basics, AggregationTypes
<1>1. Basics'
  <2>1. reported' \in [Group -> Nat]
    <3>1. e.group \in Group /\ e.count \in Nat /\ reported \in [Group -> Nat]
      BY EntryParts DEF AggregationInvariant, Basics, AggregationTypes
    <3>2. reported[e.group] + e.count \in Nat
      BY <3>1
    <3> QED  BY <3>1, <3>2 DEF Report
  <2>2. AggregationTypes'
    BY <1>0, <2>1 DEF AggregationInvariant, Basics, AggregationTypes, AggregationStep
  <2>3. LoopsAreInRange'
    BY <1>0 DEF LoopsAreInRange
  <2> QED  BY <2>2, <2>3 DEF AggregationInvariant, Basics, AllTimely, Timely, OneEach
<1>2. DatesAgree'
  <2>1. AllOfToday
    BY DEF AggregationInvariant, DatesAgree, DayHasBegun
  <2>2. AllOfToday'
    BY <2>1 DEF AllOfToday, OfToday, DayStart, Date
  <2>3. AllShort'
    BY DEF AggregationInvariant, DatesAgree, AllShort, Short
  <2> QED  BY <2>2, <2>3 DEF DatesAgree
<1>3. PartsInOrder' /\ MovedBecauseFinished'
  BY DEF AggregationInvariant, PartsInOrder, MovedBecauseFinished, Moved
<1>4. (tolerance = 0 => Prompt)'
  BY DEF AggregationInvariant, Prompt, AllEndWithLast, GroupsInOrder, NoneIsForgotten, StillWaited
<1>5. (failedOutputs = 0 => Counting)'
  <2> SUFFICES ASSUME failedOutputs = 0  PROVE Counting'
    OBVIOUS
  <2>1. Counting
    BY DEF AggregationInvariant
  <2>2. \A g \in Group : Balance(g)'
    BY <2>1, EntryIsReported
  <2>3. (tolerance = 0 => BufferIsFlushed)'
    BY <2>1 DEF Counting, BufferIsFlushed, Moved
  <2> QED  BY <2>1, <2>2, <2>3 DEF Counting
<1> QED  BY <1>1, <1>2, <1>3, <1>4, <1>5 DEF AggregationInvariant

LEMMA ReportBufferedKeeps ==
  ASSUME AggregationInvariant, tolerance' = tolerance, ReportBuffered
  PROVE  AggregationInvariant'
<1>0. /\ step = "flush" /\ done + 1 <= Len(buffer) /\ done' = done + 1
      /\ Report(buffer[done + 1])
      /\ UNCHANGED <<time, groups, buffer, msg, step, failedOutputs, accepted>>
  BY DEF ReportBuffered, Flushable, dicts
<1>1. /\ done \in Nat /\ done + 1 \in 1 .. Len(buffer) /\ done \in Int
      /\ groups \in Seq(EntryType) /\ OneEach(groups)
      /\ Len(buffer) \in Nat /\ buffer \in Seq(EntryType) /\ OneEach(buffer)
  BY <1>0 DEF AggregationInvariant, Basics, AggregationTypes
<1>2. PICK e \in EntryType : e = buffer[done + 1]
  BY <1>1
<1>3. \A g \in Group :
        /\ Pending(g) = CountAfter(buffer, done, g) + CountAfter(groups, 0, g)
        /\ Pending(g)' = CountAfter(buffer, done + 1, g) + CountAfter(groups, 0, g)
  BY <1>0 DEF Pending, BufferReported, GroupsReported, Moved, CountAfter, Entry, HasGroup, Position
<1>4. \A g \in Group : CountAfter(buffer, done, g) \in Nat /\ CountAfter(buffer, done + 1, g) \in Nat
                       /\ CountAfter(groups, 0, g) \in Nat
  BY <1>1, CountAfterIs
<1>5. /\ CountAfter(buffer, done, e.group) = e.count /\ CountAfter(buffer, done + 1, e.group) = 0
      /\ \A g : g # e.group => CountAfter(buffer, done + 1, g) = CountAfter(buffer, done, g)
  BY <1>1, <1>2, CountsNext
<1>6. \A g \in Group : Pending(g) \in Nat /\ Pending(g)' \in Nat
  BY <1>3, <1>4
<1>7. Pending(e.group) = Pending(e.group)' + e.count
  BY <1>3, <1>4, <1>5, EntryParts
<1>8. \A g \in Group : g # e.group => Pending(g)' = Pending(g)
  BY <1>3, <1>5
<1>9. Report(e) /\ done < Len(buffer)
  BY <1>0, <1>1, <1>2
<1> QED  BY <1>0, <1>6, <1>7, <1>8, <1>9, ReportingKeeps

LEMMA ReportInactiveKeeps ==
  ASSUME AggregationInvariant, tolerance' = tolerance, ReportInactive
  PROVE  AggregationInvariant'
<1>0. /\ step = "inactive" /\ done < Len(All) /\ done' = done + 1
      /\ Report(All[done + 1])
      /\ UNCHANGED <<time, groups, buffer, msg, step, failedOutputs, accepted>>
  BY DEF ReportInactive, dicts
<1>1. /\ done \in Nat /\ done \in Int /\ done - Len(buffer) \in Int
      /\ Len(groups) \in Nat /\ groups \in Seq(EntryType) /\ OneEach(groups)
      /\ Len(buffer) \in Nat /\ buffer \in Seq(EntryType) /\ OneEach(buffer)
      /\ Len(All) = Len(buffer) + Len(groups)
  BY <1>0 DEF AggregationInvariant, Basics, AggregationTypes, All
<1> DEFINE m == done - Len(buffer)
<1>2. \A g \in Group :
        /\ Pending(g) = CountAfter(buffer, done, g) + CountAfter(groups, m, g)
        /\ Pending(g)' = CountAfter(buffer, done + 1, g) + CountAfter(groups, m + 1, g)
  <2>1. 0 + (done - Len(buffer)) = m /\ 0 + ((done + 1) - Len(buffer)) = m + 1
    BY <1>1
  <2>2. \A g \in Group :
        /\ Pending(g) = CountAfter(buffer, done, g) + CountAfter(groups, 0 + (done - Len(buffer)), g)
        /\ Pending(g)' = CountAfter(buffer, done + 1, g) + CountAfter(groups, 0 + ((done + 1) - Len(buffer)), g)
    BY <1>0 DEF Pending, BufferReported, GroupsReported, Moved, CountAfter, Entry, HasGroup, Position
  <2> QED  BY <2>1, <2>2
<1>3. m \in Int /\ m + 1 \in Int
  BY <1>1
<1>4. \A g \in Group : /\ CountAfter(buffer, done, g) \in Nat /\ CountAfter(buffer, done + 1, g) \in Nat
                       /\ CountAfter(groups, m, g) \in Nat /\ CountAfter(groups, m + 1, g) \in Nat
  <2> SUFFICES ASSUME NEW g \in Group
               PROVE  /\ CountAfter(buffer, done, g) \in Nat /\ CountAfter(buffer, done + 1, g) \in Nat
                      /\ CountAfter(groups, m, g) \in Nat /\ CountAfter(groups, m + 1, g) \in Nat
    OBVIOUS
  <2>1. done + 1 \in Int
    BY <1>1
  <2> HIDE DEF m
  <2>2. CountAfter(buffer, done, g) \in Nat /\ CountAfter(buffer, done + 1, g) \in Nat
    BY <1>1, <2>1, CountAfterIsNat
  <2>3. CountAfter(groups, m, g) \in Nat /\ CountAfter(groups, m + 1, g) \in Nat
    BY <1>1, <1>3, CountAfterIsNat
  <2> QED  BY <2>2, <2>3
<1>5. \A g \in Group : Pending(g) \in Nat /\ Pending(g)' \in Nat
  BY <1>2, <1>4
<1>6. PICK e \in EntryType :
        /\ e = All[done + 1]
        /\ Pending(e.group) = Pending(e.group)' + e.count
        /\ \A g \in Group : g # e.group => Pending(g)' = Pending(g)
  <2>1. CASE done < Len(buffer)
    <3>1. done + 1 \in 1 .. Len(buffer) /\ m + 1 \notin 1 .. Len(groups)
      BY <1>1, <2>1
    <3>2. PICK e \in EntryType : e = buffer[done + 1] /\ e.group \in Group /\ e.count \in Nat
      BY <1>1, <3>1, EntryParts
    <3>3. e = All[done + 1]
      BY <1>1, <3>1, <3>2, Joining DEF All
    <3>4. /\ CountAfter(buffer, done, e.group) = e.count /\ CountAfter(buffer, done + 1, e.group) = 0
          /\ \A g : g # e.group => CountAfter(buffer, done + 1, g) = CountAfter(buffer, done, g)
      BY <1>1, <3>1, <3>2, CountsNext
    <3> HIDE DEF m
    <3>5. \A g : CountAfter(groups, m + 1, g) = CountAfter(groups, m, g)
      BY <1>1, <1>3, <3>1, CountsNext
    <3>6. Pending(e.group) = Pending(e.group)' + e.count
      BY <1>2, <1>4, <3>2, <3>4, <3>5
    <3>7. \A g \in Group : g # e.group => Pending(g)' = Pending(g)
      BY <1>2, <3>4, <3>5
    <3> QED  BY <3>3, <3>6, <3>7
  <2>2. CASE done >= Len(buffer)
    <3>1. m + 1 \in 1 .. Len(groups) /\ done + 1 \in 1 .. Len(All) /\ done + 1 > Len(buffer)
          /\ (done + 1) - Len(buffer) = m + 1 /\ done + 1 >= Len(buffer) /\ done + 1 \in Int
      BY <1>0, <1>1, <2>2
    <3>2. PICK e \in EntryType : e = groups[m + 1] /\ e.group \in Group /\ e.count \in Nat
      BY <1>1, <3>1, EntryParts
    <3>3. e = All[done + 1]
      <4>1. All[done + 1] = groups[(done + 1) - Len(buffer)]
        BY <1>1, <3>1, Joining DEF All
      <4> QED  BY <3>1, <3>2, <4>1
    <3> HIDE DEF m
    <3>4. /\ CountAfter(groups, m, e.group) = e.count /\ CountAfter(groups, m + 1, e.group) = 0
          /\ \A g : g # e.group => CountAfter(groups, m + 1, g) = CountAfter(groups, m, g)
      BY <1>1, <1>3, <3>1, <3>2, CountsNext
    <3>5. \A g : CountAfter(buffer, done, g) = 0 /\ CountAfter(buffer, done + 1, g) = 0
      BY <1>1, <2>2, <3>1, CountsNext
    <3>6. Pending(e.group) = Pending(e.group)' + e.count
      BY <1>2, <1>4, <3>2, <3>4, <3>5
    <3>7. \A g \in Group : g # e.group => Pending(g)' = Pending(g)
      BY <1>2, <3>4, <3>5
    <3> QED  BY <3>3, <3>6, <3>7
  <2> QED  BY <1>1, <2>1, <2>2
<1>7. Report(e) /\ done < Len(buffer) + Len(groups)
  BY <1>0, <1>1, <1>6
<1> QED  BY <1>0, <1>5, <1>6, <1>7, ReportingKeeps

LEMMA CleanBufferKeeps ==
  ASSUME AggregationInvariant, tolerance' = tolerance, CleanBuffer
  PROVE  AggregationInvariant'
<1>0. /\ step = "flush" /\ ~Flushable(done + 1) /\ step' = "idle" /\ done' = 0
      /\ buffer' = From(buffer, done)
      /\ UNCHANGED <<time, groups, failedOutputs, accepted, reported>>
  BY DEF CleanBuffer, history
<1>1. /\ tolerance \in Nat /\ time \in Nat /\ done \in Nat /\ done \in 0 .. Len(buffer)
      /\ groups \in Seq(EntryType) /\ OneEach(groups)
      /\ Len(buffer) \in Nat /\ buffer \in Seq(EntryType) /\ OneEach(buffer)
      /\ Moved = 0 /\ Moved' = 0
  BY <1>0 DEF AggregationInvariant, Basics, AggregationTypes, LoopsAreInRange, Moved
<1>2. /\ buffer' \in Seq(EntryType) /\ Len(buffer') = Len(buffer) - done /\ OneEach(buffer')
      /\ Len(buffer') \in Nat
      /\ \A i \in 1 .. Len(buffer') : buffer'[i] = buffer[done + i] /\ done + i \in 1 .. Len(buffer)
  <2>1. IsCutFrom(buffer', buffer, done)
    BY <1>0, <1>1, CuttingFrom
  <2> QED  BY <1>1, <2>1 DEF IsCutFrom
<1>3. Basics'
  <2>1. AggregationTypes'
    BY <1>0, <1>1, <1>2 DEF AggregationInvariant, Basics, AggregationTypes, AggregationStep
  <2>2. AllTimely'
    BY <1>0, <1>2 DEF AggregationInvariant, Basics, AllTimely, Timely
  <2> QED  BY <1>0, <1>1, <1>2, <2>1, <2>2 DEF AggregationInvariant, Basics, LoopsAreInRange, OneEach
<1>4. DatesAgree'
  <2>1. AllShort'
    BY <1>0, <1>2 DEF AggregationInvariant, DatesAgree, AllShort, Short
  <2>2. AllOfToday
    BY <1>0 DEF AggregationInvariant, DatesAgree, DayHasBegun
  <2>3. AllOfToday'
    BY <1>0, <2>2 DEF AllOfToday, OfToday, DayStart, Date
  <2> QED  BY <2>1, <2>3 DEF DatesAgree
<1>5. PartsInOrder'
  <2> SUFFICES ASSUME NEW i \in 1 .. Len(buffer'), NEW j \in 1 .. Len(groups), j > 0,
                      buffer'[i].group = groups[j].group
               PROVE  buffer'[i].until <= groups[j].first
    BY <1>0, <1>1 DEF PartsInOrder
  <2>1. PICK k \in 1 .. Len(buffer) : buffer'[i] = buffer[k]
    BY <1>2
  <2> QED  BY <1>1, <2>1 DEF AggregationInvariant, PartsInOrder
<1>6. MovedBecauseFinished'
  BY <1>0 DEF MovedBecauseFinished
<1>7. (tolerance = 0 => Prompt)'
  <2> SUFFICES ASSUME tolerance = 0  PROVE Prompt'
    OBVIOUS
  <2>1. AllEndWithLast'
    BY <1>0, <1>2 DEF AggregationInvariant, Prompt, AllEndWithLast
  <2>2. GroupsInOrder'
    BY <1>0 DEF AggregationInvariant, Prompt, GroupsInOrder
  <2>3. NoneIsForgotten'
    BY <1>0 DEF AggregationInvariant, Prompt, NoneIsForgotten, StillWaited
  <2> QED  BY <2>1, <2>2, <2>3 DEF Prompt
<1>8. (failedOutputs = 0 => Counting)'
  <2> SUFFICES ASSUME failedOutputs = 0  PROVE Counting'
    BY <1>0
  <2>1. Counting
    BY DEF AggregationInvariant
  <2>2. ASSUME NEW g \in Group  PROVE Pending(g)' = Pending(g)
    <3>1. CountAfter(buffer', 0, g) = CountAfter(buffer, done, g)
      BY <1>0, <1>1, CountsFrom
    <3>2. Pending(g) = CountAfter(buffer, done, g) + CountAfter(groups, 0, g)
      BY <1>0 DEF Pending, BufferReported, GroupsReported, Moved
    <3>3. Pending(g)' = CountAfter(buffer', 0, g) + CountAfter(groups, 0, g)
      BY <1>0 DEF Pending, BufferReported, GroupsReported, Moved, CountAfter, Entry, HasGroup, Position
    <3> QED  BY <3>1, <3>2, <3>3
  <2>3. \A g \in Group : Balance(g)'
    BY <1>0, <2>1, <2>2 DEF Counting, Balance
  <2>4. (tolerance = 0 => BufferIsFlushed)'
    <3> SUFFICES ASSUME tolerance = 0  PROVE BufferIsFlushed'
      OBVIOUS
    <3>1. Len(buffer') = 0
      <4>1. \A i \in 1 .. Len(buffer) : buffer[i].until < time /\ buffer[i].until \in Nat
        BY <1>1, <2>1, EntryParts DEF Counting, BufferIsFlushed
      <4>2. ~(done + 1 <= Len(buffer))
        <5> SUFFICES ASSUME done + 1 <= Len(buffer)  PROVE FALSE
          OBVIOUS
        <5>1. done + 1 \in 1 .. Len(buffer)
          BY <1>1
        <5> QED  BY <1>0, <4>1, <5>1 DEF Flushable
      <4> QED  BY <1>1, <1>2, <4>2
    <3>2. buffer' = <<>>
      BY <1>2, <3>1
    <3> QED  BY <3>1, <3>2 DEF BufferIsFlushed
  <2> QED  BY <1>0, <2>3, <2>4 DEF Counting
<1> QED  BY <1>3, <1>4, <1>5, <1>6, <1>7, <1>8 DEF AggregationInvariant

LEMMA ClearInactiveKeeps ==
  ASSUME AggregationInvariant, tolerance' = tolerance, ClearInactive
  PROVE  AggregationInvariant'
<1>0. /\ step = "inactive" /\ done = Len(All) /\ step' = "idle" /\ done' = 0
      /\ groups' = <<>> /\ buffer' = <<>>
      /\ UNCHANGED <<time, msg, failedOutputs, accepted, reported>>
  BY DEF ClearInactive, history
<1>1. /\ done \in Nat /\ done \in Int
      /\ Len(groups) \in Nat /\ groups \in Seq(EntryType) /\ OneEach(groups)
      /\ Len(buffer) \in Nat /\ buffer \in Seq(EntryType) /\ OneEach(buffer)
      /\ Len(All) = Len(buffer) + Len(groups)
  BY <1>0 DEF AggregationInvariant, Basics, AggregationTypes, All
<1>2. Len(groups') = 0 /\ Len(buffer') = 0 /\ groups' \in Seq(EntryType) /\ buffer' \in Seq(EntryType)
  BY <1>0
<1>3. Basics'
  <2>1. AggregationTypes'
    BY <1>0, <1>2 DEF AggregationInvariant, Basics, AggregationTypes, AggregationStep
  <2> QED  BY <1>0, <1>2, <2>1 DEF Basics, LoopsAreInRange, OneEach, AllTimely
<1>4. DatesAgree' /\ PartsInOrder' /\ MovedBecauseFinished'
  BY <1>0, <1>2 DEF DatesAgree, AllShort, AllOfToday, PartsInOrder, MovedBecauseFinished
<1>5. Prompt'
  BY <1>2 DEF Prompt, AllEndWithLast, GroupsInOrder, NoneIsForgotten
<1>6. (failedOutputs = 0 => Counting)'
  <2> SUFFICES ASSUME failedOutputs = 0  PROVE Counting'
    BY <1>0
  <2>1. Counting
    BY DEF AggregationInvariant
  <2>2. ASSUME NEW g \in Group  PROVE Pending(g)' = Pending(g)
    <3>1. done >= Len(buffer) /\ done - Len(buffer) >= Len(groups) /\ done - Len(buffer) \in Int
          /\ 0 + (done - Len(buffer)) = done - Len(buffer)
      BY <1>0, <1>1
    <3>2. CountAfter(buffer, done, g) = 0 /\ CountAfter(groups, done - Len(buffer), g) = 0
      BY <1>1, <3>1, CountsNext
    <3>3. Pending(g) = 0
      BY <1>0, <3>1, <3>2 DEF Pending, BufferReported, GroupsReported, Moved
    <3>4. \A n : CountAfter(<<>>, n, g) = 0
      BY DEF CountAfter, HasGroup
    <3>5. Pending(g)' = 0
      BY <1>0, <3>4 DEF Pending, BufferReported, GroupsReported, Moved, CountAfter, Entry, HasGroup, Position
    <3> QED  BY <3>3, <3>5
  <2>3. \A g \in Group : Balance(g)'
    BY <1>0, <2>1, <2>2 DEF Counting, Balance
  <2>4. BufferIsFlushed'
    BY <1>0, <1>2 DEF BufferIsFlushed
  <2> QED  BY <1>0, <2>3, <2>4 DEF Counting
<1> QED  BY <1>3, <1>4, <1>5, <1>6 DEF AggregationInvariant

LEMMA AggregationStuttering ==
  ASSUME AggregationInvariant, UNCHANGED aggregationVars
  PROVE  AggregationInvariant'
<1> USE DEF aggregationVars, AggregationInvariant
<1>1. Basics'
  BY DEF Basics, AggregationTypes, LoopsAreInRange, AllTimely, Timely, OneEach, HasGroup
<1>2. DatesAgree'
  BY DEF DatesAgree, AllShort, Short, AllOfToday, OfToday, DayHasBegun, DayStart, Date
<1>3. PartsInOrder' /\ MovedBecauseFinished'
  BY DEF PartsInOrder, MovedBecauseFinished, Moved, Stop, StillWaited, Date
<1>4. (tolerance = 0 => Prompt)'
  BY DEF Prompt, AllEndWithLast, GroupsInOrder, NoneIsForgotten, StillWaited
<1>5. (failedOutputs = 0 => Counting)'
  BY DEF Counting, Balance, BufferIsFlushed, Pending, BufferReported, GroupsReported, Moved,
    CountAfter, HasGroup, Position, Entry
<1> QED  BY <1>1, <1>2, <1>3, <1>4, <1>5

LEMMA AggregationKeeps ==
  AggregationInvariant /\ [AggregationNext]_aggregationVars => AggregationInvariant'
<1> SUFFICES ASSUME AggregationInvariant, [AggregationNext]_aggregationVars
             PROVE  AggregationInvariant'
  OBVIOUS
<1>1. CASE AggregationNext
  <2>0. tolerance' = tolerance
    BY <1>1 DEF AggregationNext
  <2>1. CASE \E g \in Group, t \in Times : Receive(g, t)
    BY <2>0, <2>1, ReceiveKeeps
  <2>2. CASE ProcessEvent
    <3>1. CASE RejectOutOfOrder  BY <2>0, <3>1, RejectOutOfOrderKeeps
    <3>2. CASE CountOutOfOrder   BY <2>0, <3>2, CountOutOfOrderKeeps
    <3>3. CASE CountInBuffer     BY <2>0, <3>3, CountInBufferKeeps
    <3>4. CASE BeginGroup        BY <2>0, <3>4, BeginGroupKeeps
    <3>5. CASE FinishGroup       BY <2>0, <3>5, FinishGroupKeeps
    <3>6. CASE CountInGroup      BY <2>0, <3>6, CountInGroupKeeps
    <3> QED  BY <2>2, <3>1, <3>2, <3>3, <3>4, <3>5, <3>6 DEF ProcessEvent
  <2>3. CASE PublishFirst        BY <2>0, <2>3, PublishFirstKeeps
  <2>4. CASE MoveFinishedGroup   BY <2>0, <2>4, MoveFinishedGroupKeeps
  <2>5. CASE DropFinishedGroups  BY <2>0, <2>5, DropFinishedGroupsKeeps
  <2>6. CASE ReportBuffered      BY <2>0, <2>6, ReportBufferedKeeps
  <2>7. CASE CleanBuffer         BY <2>0, <2>7, CleanBufferKeeps
  <2>8. CASE TickFindsInactive   BY <2>0, <2>8, TickFindsInactiveKeeps
  <2>9. CASE ReportInactive      BY <2>0, <2>9, ReportInactiveKeeps
  <2>10. CASE ClearInactive      BY <2>0, <2>10, ClearInactiveKeeps
  <2>11. CASE PublicationFails   BY <2>0, <2>11, PublicationFailsKeeps
  <2> QED  BY <1>1, <2>1, <2>2, <2>3, <2>4, <2>5, <2>6, <2>7, <2>8, <2>9, <2>10, <2>11
             DEF AggregationNext
<1>2. CASE UNCHANGED aggregationVars
  BY <1>2, AggregationStuttering
<1> QED  BY <1>1, <1>2

LEMMA AggregationIsRight == AggregationInvariant => GroupsAreRight
<1> SUFFICES ASSUME AggregationInvariant  PROVE GroupsAreRight
  OBVIOUS
<1>1. /\ tolerance \in Nat /\ groups \in Seq(EntryType) /\ buffer \in Seq(EntryType)
      /\ Len(groups) \in Nat /\ Len(buffer) \in Nat
      /\ DOMAIN groups = 1 .. Len(groups) /\ DOMAIN buffer = 1 .. Len(buffer)
      /\ Moved \in Nat /\ Day \in Nat
  BY AggregationAssumption DEF AggregationInvariant, Basics, AggregationTypes, Moved
<1>2. EverythingCounted
  BY DEF EverythingCounted, AggregationInvariant, Counting, Balance
<1>3. \A b \in Range(buffer) : \A i \in DOMAIN groups :
        i > Moved /\ b.group = groups[i].group => b.until <= groups[i].first
  BY <1>1 DEF Range, AggregationInvariant, PartsInOrder
<1>4. ASSUME NEW e \in Range(buffer) \cup Range(groups)
      PROVE  e.until - e.first < Day + tolerance /\ (tolerance = 0 => e.until = e.last)
  <2>1. e \in EntryType /\ Short(e) /\ (tolerance = 0 => e.until = e.last)
    BY <1>1 DEF Range, AggregationInvariant, DatesAgree, AllShort, Prompt, AllEndWithLast
  <2>2. e.until \in Nat /\ e.first \in Nat
    BY <2>1, EntryParts
  <2> QED  BY <1>1, <2>1, <2>2 DEF Short
<1>5. ASSUME Idle, tolerance = 0
      PROVE  (\A e \in Range(groups) : StillWaited(e)) \/ (groups # <<>> /\ Head(groups).outOfOrder)
  <2>1. NoneIsForgotten
    BY <1>5 DEF Idle, AggregationInvariant, Prompt
  <2>2. groups # <<>> => Head(groups) = groups[1]
    BY <1>1
  <2> QED  BY <1>1, <2>1, <2>2 DEF NoneIsForgotten, Range
<1> QED  BY <1>2, <1>3, <1>4, <1>5 DEF GroupsAreRight, PartsOfGroups

(* The groups are right, whatever comes when: as long as no publication fails, each
   event is counted in one group and reported once (all of them, if no late events
   are waited for); the parts of a group follow each other and are no longer than a
   day; and no group is kept too long, except behind one in which an event out of
   order was counted (aggregator.py, SourceData.process_event(),
   generate_suppressed_events() and generate_suppressed_events_after_inactive()). *)
THEOREM GroupsStayRight == AggregationSpec => []GroupsAreRight
<1>1. AggregationInit => AggregationInvariant
  BY Initially
<1>2. AggregationInvariant /\ [AggregationNext]_aggregationVars => AggregationInvariant'
  BY AggregationKeeps
<1>3. AggregationInvariant => GroupsAreRight
  BY AggregationIsRight
<1> QED  BY <1>1, <1>2, <1>3, PTL DEF AggregationSpec
=============================================================================
