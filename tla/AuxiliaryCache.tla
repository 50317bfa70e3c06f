--------------------------- MODULE AuxiliaryCache ---------------------------
(***************************************************************************)
(* The advisories shown by the portal: the general-purpose cache in the    *)
(* Auth DB (N6Lib/n6lib/auth_db/auxiliary_cache.py and api.py), what it is *)
(* used for (moje_cve_advisories_retriever.py), and the client of the      *)
(* service that has the advisories (moje_api_client.py).                   *)
(*                                                                         *)
(* Each request of the portal that needs the advisories reads the cache    *)
(* entry in a transaction and locks its row; if the entry is too old, it   *)
(* asks the service, page by page, what has changed, merges that into the  *)
(* entry and stores it.  The service changes all the time, and knows       *)
(* nothing of the locks.                                                   *)
(***************************************************************************)
EXTENDS Naturals, FiniteSets, FiniteSetsExt

CONSTANTS
  Request,   (* The requests of the portal that are served at a time.       *)
  Advisory,  (* The advisories, numbers in the order in which the service
                lists them.                                                 *)
  CVE,       (* The CVE ids.                                                *)
  Validity,  (* moje_data_cache_validity_period_seconds.                    *)
  MaxClock,  (* When the model ends.                                        *)
  MaxUpdates (* How many times the service's advisories change at most.     *)

ASSUME AuxiliaryCacheAssumption == 
  /\ Advisory \subseteq Nat /\ IsFiniteSet(Advisory)
  /\ {Validity, MaxClock, MaxUpdates} \subseteq Nat

VARIABLES
  clock,    (* The time of the n6 host.                                     *)
  service,  (* service[a]: the CVEs of an advisory, and its cve_updated_at;
               0 until it is published.                                     *)
  entry,    (* The cache entry.                                             *)
  request,  (* request[p]: what request p is doing.                         *)
  missed,   (* The advisories that were changed after they had been read,
               in a fetch that brought a later change of another one.       *)
  asked     (* When the service last told all that had been asked for.
               These two are history variables.                             *)

cacheVars == <<clock, service, entry, request, missed, asked>>

NoEntry == [updatedAt |-> 0]

(* A request reads the time, waits for the lock on the row, reads the list of
   the advisories that have changed, then those of every CVE in question. *)
NotAsking == [step |-> "out", now |-> 0, list |-> <<>>, pages |-> 0, count |-> 0, found |-> <<>>]

CacheInit ==
  /\ clock = 1
  /\ service = [a \in Advisory |-> [time |-> 0, cves |-> {}]]
  /\ entry = NoEntry
  /\ request = [p \in Request |-> NotAsking]
  /\ missed = {} /\ asked = 0

Step(p, step) == request[p].step = step
AtWork(p) == request[p].step \in {"listing", "searching", "storing"}
Becomes(p, r) == request' = [request EXCEPT ![p] = r]
Answered(p) == Becomes(p, NotAsking)

-----------------------------------------------------------------------------
(* Around. *)

Tick ==
  /\ clock < MaxClock
  /\ clock' = clock + 1
  /\ UNCHANGED <<service, entry, request, missed, asked>>

LastChange == Max({service[a].time : a \in Advisory})

(* An advisory is published, or is about other CVEs (or none) from now on. *)
ServiceUpdate(a, cves) ==
  /\ LastChange < MaxUpdates
  /\ service[a].time = 0 \/ service[a].cves # cves
  /\ service' = [service EXCEPT ![a] = [time |-> LastChange + 1, cves |-> cves]]
  /\ UNCHANGED <<clock, entry, request, missed, asked>>

-----------------------------------------------------------------------------
(* retrieve(), and the transaction around it. *)

ReadTime(p) ==
  /\ Step(p, "out")
  /\ Becomes(p, [NotAsking EXCEPT !.step = "querying", !.now = clock])
  /\ UNCHANGED <<clock, service, entry, missed, asked>>

(* SELECT ... FOR UPDATE.  A row can be locked by one; a gap where there is no
   row, by all who have found none. *)
LockIsFree == entry = NoEntry \/ \A q \in Request : ~AtWork(q)

Expired(now) == now > entry.updatedAt + Validity

Query(p) ==
  /\ Step(p, "querying") /\ LockIsFree
  /\ IF entry = NoEntry \/ Expired(request[p].now)
       THEN Becomes(p, [request[p] EXCEPT !.step = "listing"])
       ELSE Answered(p)
  /\ UNCHANGED <<clock, service, entry, missed, asked>>

-----------------------------------------------------------------------------
(* _fetch_and_validate(): the list of all advisories, or of those updated after
   what is cached.  Each page has one of them, and their total number. *)

Since == IF entry = NoEntry THEN 0 ELSE entry.since
Listed == {a \in Advisory : service[a].time > Since}

Fetched(p) == DOMAIN request[p].list

(* The n-th page. *)
IsOnPage(a, n) == a \in Listed /\ Cardinality({b \in Listed : b <= a}) = n

(* "Value of `count` changed... let's fetch all data from the beginning!" *)
CountChanged(p) == Fetched(p) # {} /\ request[p].count # Cardinality(Listed)

FetchPage(p, a) ==
  /\ Step(p, "listing")
  /\ ~CountChanged(p)
  /\ IsOnPage(a, request[p].pages + 1)
  /\ LET pages == request[p].pages + 1
     IN  Becomes(p, [request[p] EXCEPT
                       !.list = [b \in Fetched(p) \cup {a} |-> IF b = a THEN service[a] ELSE @[b]],
                       !.pages = pages, !.count = Cardinality(Listed),
                       !.step = IF pages < Cardinality(Listed) THEN "listing"
                                ELSE IF entry = NoEntry THEN "storing" ELSE "searching"])
  /\ UNCHANGED <<clock, service, entry, missed, asked>>

FetchFromBeginning(p) ==
  /\ Step(p, "listing")
  /\ CountChanged(p)
  /\ Becomes(p, [request[p] EXCEPT !.list = <<>>, !.pages = 0, !.count = 0])
  /\ UNCHANGED <<clock, service, entry, missed, asked>>

(* Nothing has changed: get_updated() returns what it has been given, and
   prescribe_new_raw_content() what is in the database.  For an attribute that
   is set to an equal value there is no UPDATE, so the column `updated_at`
   (onupdate) keeps its value, too. *)
NothingNew(p) ==
  /\ Step(p, "listing") /\ entry # NoEntry
  /\ Listed = {}
  /\ Answered(p)
  /\ asked' = clock
  /\ UNCHANGED <<clock, service, entry, missed>>

(* _fetch_all_advisory_urls_for_cve(), in one page. *)
Encountered(p) == UNION {request[p].list[a].cves : a \in Fetched(p)}
ToSearch(p) == Encountered(p) \ DOMAIN request[p].found

FetchCVE(p, c) ==
  /\ Step(p, "searching") /\ c \in ToSearch(p)
  /\ LET urls == {a \in Advisory : service[a].time > 0 /\ c \in service[a].cves}
     IN  Becomes(p, [request[p] EXCEPT
                       !.found = [d \in DOMAIN @ \cup {c} |-> IF d = c THEN urls ELSE @[d]]])
  /\ UNCHANGED <<clock, service, entry, missed, asked>>

SearchDone(p) ==
  /\ Step(p, "searching") /\ ToSearch(p) = {}
  /\ Becomes(p, [request[p] EXCEPT !.step = "storing"])
  /\ UNCHANGED <<clock, service, entry, missed, asked>>

-----------------------------------------------------------------------------
(* What is cached: for every CVE its advisories; and the latest change known. *)

InitialURLs(p) == [c \in CVE |-> {a \in Fetched(p) : c \in request[p].list[a].cves}]

(* Only for the CVEs that have been encountered: not for one that an advisory
   is not about any more. *)
URLsOfEncountered(p) ==
  [c \in CVE |-> IF c \in Encountered(p) THEN request[p].found[c] ELSE entry.urls[c]]

(* _get_updated_cve_id_to_urls_set() *)
UpdatedURLs(p) ==
  [c \in CVE |->
    {a \in entry.urls[c] : a \in Fetched(p) => c \in request[p].list[a].cves}
      \cup (IF c \in Encountered(p) THEN request[p].found[c] ELSE {})]

LatestFetched(p) == Max({request[p].list[a].time : a \in Fetched(p)})

Stored(p, urls) ==
  /\ entry' = [urls |-> urls, since |-> LatestFetched(p), updatedAt |-> clock]
  /\ missed' = (missed \ Fetched(p))
                 \cup {a \in Fetched(p) : /\ service[a].time # request[p].list[a].time
                                          /\ service[a].time <= LatestFetched(p)}
  /\ asked' = clock
  /\ Answered(p)
  /\ UNCHANGED <<clock, service>>

(* An insertion into the gap waits for those who have locked it, too. *)
InsertEntry(p) ==
  /\ Step(p, "storing") /\ entry = NoEntry
  /\ \A q \in Request \ {p} : ~AtWork(q)
  /\ Stored(p, InitialURLs(p))

UpdateEntry(p) ==
  /\ Step(p, "storing") /\ entry # NoEntry
  /\ Stored(p, UpdatedURLs(p))

(* Whatever goes wrong (the service does not answer, or has no advisory at all;
   two insertions wait for each other) is logged, and the transaction is rolled
   back. *)
FailRequest(p) ==
  /\ ~Step(p, "out")
  /\ Answered(p)
  /\ UNCHANGED <<clock, service, entry, missed, asked>>

Serve(p) ==
  \/ ReadTime(p) \/ Query(p)
  \/ (\E a \in Advisory : FetchPage(p, a)) \/ FetchFromBeginning(p) \/ NothingNew(p)
  \/ (\E c \in CVE : FetchCVE(p, c)) \/ SearchDone(p)
  \/ InsertEntry(p) \/ UpdateEntry(p) \/ FailRequest(p)

CacheNext ==
  \/ Tick
  \/ \E a \in Advisory, cves \in SUBSET CVE : ServiceUpdate(a, cves)
  \/ \E p \in Request : Serve(p)

CacheSpec == CacheInit /\ [][CacheNext]_cacheVars

-----------------------------------------------------------------------------
(* Properties. *)

(* What is cached is what the service has: an advisory that has not been changed
   after the latest change known is shown for exactly those CVEs that it is
   about -- whatever was changed while the lists were being read, with requests
   waiting for each other, and although the updates mention only advisories, not
   the CVEs from which they are gone.  Not included are advisories that were
   changed behind the back of a fetch without a change of the number of
   results (moje_api_client.py:161). *)
CachedIsTrue ==
  entry # NoEntry =>
    \A a \in Advisory :
      (a \notin missed /\ 0 < service[a].time /\ service[a].time <= entry.since) =>
        \A c \in CVE : a \in entry.urls[c] <=> c \in service[a].cves

(* "...for how many seconds should that data be kept in our ... cache
   before trying to fetch another update" (N6Portal/n6portal/__init__.py:124):
   the service is not asked again until that time has passed since it gave
   its last answer.  VIOLATED: if the answer is that nothing is new, the next
   request asks again at once. *)
UpdatesAreSpaced ==
  \A p \in Request :
    (entry # NoEntry /\ Step(p, "listing")) => request[p].now > asked + Validity

=============================================================================
