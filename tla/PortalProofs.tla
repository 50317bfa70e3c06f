---------------------------- MODULE PortalProofs ----------------------------
(***************************************************************************)
(* The theorems about what the portal keeps: first about AuxiliaryCache,   *)
(* for any advisories, vulnerabilities and requests; then about            *)
(* PortalLogin, for any users, times, ages of tokens and a clock that goes *)
(* back by no more than the margin; and about OrgRequests, whatever the    *)
(* organizations, users, requests and the number of handlers.              *)
(***************************************************************************)
EXTENDS AuxiliaryCache, PortalLogin, OrgRequests, FiniteSetTheorems, WellFoundedInduction, TLAPS

(***************************************************************************)
(* The advisories                                                          *)
(***************************************************************************)
Asking == {"listing", "searching", "storing"}
Phase == {"out", "querying"} \cup Asking

AdvisoryState == [time : 0 .. MaxUpdates, cves : SUBSET CVE]

Lists == UNION {[S -> AdvisoryState] : S \in SUBSET Advisory}
Findings == UNION {[S -> SUBSET Advisory] : S \in SUBSET CVE}

RequestState ==
  [step : Phase, now : Nat, list : Lists, pages : Nat, count : Nat, found : Findings]

EntryState == [urls : [CVE -> SUBSET Advisory], since : Nat, updatedAt : Nat]

CacheTypes ==
  /\ clock \in Nat
  /\ service \in [Advisory -> AdvisoryState]
  /\ entry = NoEntry \/ entry \in EntryState
  /\ request \in [Request -> RequestState]

(* Whoever works on an entry has its row locked. *)
OneAtWork ==
  entry # NoEntry => \A p, q \in Request : AtWork(p) /\ AtWork(q) => p = q

(* The latest change known was told by the service. *)
SinceIsKnown == Since = 0 \/ \E a \in Advisory : Since <= service[a].time

-----------------------------------------------------------------------------
(* What a request has *)

Unread(p) ==
  request[p].list = <<>> /\ request[p].pages = 0 /\ request[p].count = 0 /\ request[p].found = <<>>

(* What has been read was so, and, if it has not changed since, is so. *)
ListIsRight(p) ==
  \A a \in Fetched(p) :
    /\ Since < request[p].list[a].time /\ request[p].list[a].time <= service[a].time
    /\ request[p].list[a].time = service[a].time => request[p].list[a] = service[a]

(* If the number of results is the same as on the last page, the pages read are
   the first ones. *)
PagesAgree(p) ==
  /\ Cardinality(Fetched(p)) = request[p].pages
  /\ request[p].count <= Cardinality(Listed)
  /\ request[p].count = Cardinality(Listed) =>
       \A a \in Listed, b \in Fetched(p) : a <= b => a \in Fetched(p)

(* What is not in the list has not changed, or has changed later. *)
ListIsWhole(p) ==
  /\ Fetched(p) # {}
  /\ \A a \in Advisory \ Fetched(p) :
       service[a].time <= Since \/ \A b \in Fetched(p) : request[p].list[b].time < service[a].time

(* a is now as it was when the list was read. *)
AsListed(p, a) ==
  IF a \in Fetched(p) THEN request[p].list[a].time = service[a].time ELSE service[a].time <= Since

IsAbout(a, c) == 0 < service[a].time /\ c \in service[a].cves

FoundIsRight(p) ==
  \A c \in DOMAIN request[p].found, a \in Advisory :
    AsListed(p, a) => (a \in request[p].found[c] <=> IsAbout(a, c))

WorkIsRight(p) ==
  /\ Step(p, "querying") => Unread(p)
  /\ AtWork(p) => ListIsRight(p)
  /\ Step(p, "listing") => PagesAgree(p) /\ request[p].found = <<>>
  /\ Step(p, "searching") \/ Step(p, "storing") => ListIsWhole(p) /\ FoundIsRight(p)
  /\ Step(p, "storing") /\ entry # NoEntry => Encountered(p) \subseteq DOMAIN request[p].found

CacheInvariant ==
  /\ CacheTypes /\ OneAtWork /\ SinceIsKnown
  /\ \A p \in Request : WorkIsRight(p)
  /\ CachedIsTrue

-----------------------------------------------------------------------------
(* A set of numbers that has a bound has a greatest element, and Max is it. *)
LEMMA BoundedMax ==
  ASSUME NEW S, S \subseteq Nat, S # {}, NEW b \in Nat, \A x \in S : x <= b
  PROVE  Max(S) \in S /\ \A x \in S : x <= Max(S)
<1> DEFINE T == {n \in Nat : \A x \in S : x <= n}
<1>1. T \subseteq Nat /\ b \in T
  OBVIOUS
<1>2. PICK m \in T : \A n \in T : ~(n < m)
  <2>1. PICK m \in T : \A n \in T : <<n, m>> \notin OpToRel(<, Nat)
    BY <1>1, WFMin, NatLessThanWellFounded
  <2>2. \A n \in T : n < m => <<n, m>> \in OpToRel(<, Nat)
    BY <1>1 DEF OpToRel
  <2> QED  BY <2>1, <2>2
<1>3. m \in S
  <2> SUFFICES ASSUME m \notin S  PROVE FALSE
    OBVIOUS
  <2>1. \A x \in S : x <= m - 1
    BY <1>1
  <2>2. m # 0
    <3>1. PICK x \in S : TRUE
      OBVIOUS
    <3>2. x \in Nat /\ x <= m /\ x # m
      BY <3>1
    <3> QED  BY <3>2
  <2>3. m - 1 \in T
    BY <1>1, <2>1, <2>2
  <2> QED  BY <1>2, <2>3
<1>4. \E x \in S : \A y \in S : x >= y
  BY <1>3
<1> QED
  BY <1>4 DEF Max

-----------------------------------------------------------------------------
(* What the service has *)

LEMMA Nothing == <<>> \in Lists /\ <<>> \in Findings /\ DOMAIN <<>> = {}
<1>1. \A T : <<>> \in [{} -> T]
  OBVIOUS
<1>2. {} \in SUBSET Advisory /\ {} \in SUBSET CVE
  OBVIOUS
<1>3. <<>> \in Lists
  BY <1>1, <1>2 DEF Lists
<1>4. <<>> \in Findings
  BY <1>1, <1>2 DEF Findings
<1> QED  BY <1>3, <1>4

LEMMA Facts ==
  ASSUME CacheTypes
  PROVE  /\ \A a \in Advisory : /\ service[a] \in AdvisoryState
                                /\ service[a].time \in 0 .. MaxUpdates /\ service[a].time \in Nat
                                /\ service[a].cves \subseteq CVE
         /\ MaxUpdates \in Nat /\ Advisory \subseteq Nat /\ IsFiniteSet(Advisory) /\ Since \in Nat
         /\ \A p \in Request : /\ request[p] \in RequestState
                               /\ request[p].list \in Lists /\ request[p].found \in Findings
                               /\ request[p].pages \in Nat /\ request[p].count \in Nat
<1>1. MaxUpdates \in Nat /\ Advisory \subseteq Nat /\ IsFiniteSet(Advisory)
  BY AuxiliaryCacheAssumption
<1>2. \A a \in Advisory : service[a] \in AdvisoryState /\ service[a].time \in 0 .. MaxUpdates /\ service[a].cves \subseteq CVE
  BY DEF CacheTypes, AdvisoryState
<1>3. \A n \in 0 .. MaxUpdates : n \in Nat
  BY <1>1
<1>4. Since \in Nat
  BY DEF Since, CacheTypes, EntryState
<1>5. \A p \in Request : /\ request[p] \in RequestState
                         /\ request[p].list \in Lists /\ request[p].found \in Findings
                         /\ request[p].pages \in Nat /\ request[p].count \in Nat
  BY DEF CacheTypes, RequestState
<1> QED  BY <1>1, <1>2, <1>3, <1>4, <1>5

LEMMA ListFacts ==
  ASSUME CacheTypes, NEW p \in Request
  PROVE  /\ Fetched(p) \subseteq Advisory
         /\ request[p].list \in [Fetched(p) -> AdvisoryState]
         /\ \A a \in Fetched(p) : /\ request[p].list[a] \in AdvisoryState
                                  /\ request[p].list[a].time \in 0 .. MaxUpdates
                                  /\ request[p].list[a].time \in Nat
                                  /\ request[p].list[a].cves \subseteq CVE
         /\ DOMAIN request[p].found \subseteq CVE
         /\ request[p].found \in [DOMAIN request[p].found -> SUBSET Advisory]
<1>1. PICK S \in SUBSET Advisory : request[p].list \in [S -> AdvisoryState]
  BY Facts DEF Lists
<1>2. PICK C \in SUBSET CVE : request[p].found \in [C -> SUBSET Advisory]
  BY Facts DEF Findings
<1>3. Fetched(p) = S /\ DOMAIN request[p].found = C
  BY <1>1, <1>2 DEF Fetched
<1>4. \A a \in S : request[p].list[a] \in AdvisoryState
  BY <1>1
<1>5. \A x \in AdvisoryState : x.time \in 0 .. MaxUpdates /\ x.cves \subseteq CVE /\ x.time \in Nat
  BY Facts DEF AdvisoryState
<1> QED  BY <1>1, <1>2, <1>3, <1>4, <1>5

(* A change of the service is later than all before. *)
LEMMA ServiceMoves ==
  ASSUME CacheTypes, SinceIsKnown, NEW a \in Advisory, NEW cves \in SUBSET CVE, ServiceUpdate(a, cves)
  PROVE  /\ \A b \in Advisory : service[b].time < service'[a].time
         /\ \A b \in Advisory : b # a => service'[b] = service[b]
         /\ \A b \in Advisory : service[b].time <= service'[b].time
         /\ Since < service'[a].time /\ Since' = Since
         /\ UNCHANGED <<entry, request, missed, clock>>
         /\ CacheTypes' /\ SinceIsKnown'
<1> DEFINE S == {service[b].time : b \in Advisory}
<1>1. /\ LastChange < MaxUpdates /\ UNCHANGED <<entry, request, missed, clock>>
      /\ service' = [service EXCEPT ![a] = [time |-> LastChange + 1, cves |-> cves]]
  BY DEF ServiceUpdate
<1>2. S \subseteq Nat /\ S # {} /\ MaxUpdates \in Nat /\ \A x \in S : x <= MaxUpdates
  BY Facts
<1>3. LastChange \in S /\ \A x \in S : x <= LastChange
  <2> HIDE DEF S
  <2>1. Max(S) \in S /\ \A x \in S : x <= Max(S)
    BY <1>2, BoundedMax
  <2> QED  BY <2>1 DEF LastChange, S
<1>4. LastChange \in Nat /\ LastChange + 1 \in 0 .. MaxUpdates
  BY <1>1, <1>2, <1>3
<1>5. \A b \in Advisory : service[b].time <= LastChange /\ service[b].time \in Nat
  BY <1>3, Facts
<1>6. service'[a].time = LastChange + 1 /\ \A b \in Advisory : b # a => service'[b] = service[b]
  BY <1>1 DEF CacheTypes
<1>7. \A b \in Advisory : service[b].time < service'[a].time
  BY <1>4, <1>5, <1>6
<1>8. \A b \in Advisory : service[b].time <= service'[b].time
  BY <1>5, <1>6, <1>7, <1>4
<1>9. Since' = Since
  BY <1>1 DEF Since
<1>10. Since < service'[a].time
  BY <1>4, <1>5, <1>6, Facts DEF SinceIsKnown
<1>11. CacheTypes'
  <2>1. [time |-> LastChange + 1, cves |-> cves] \in AdvisoryState
    BY <1>4 DEF AdvisoryState
  <2> QED  BY <1>1, <2>1 DEF CacheTypes, NoEntry
<1>12. SinceIsKnown'
  <2>1. Since <= service'[a].time
    BY <1>10, <1>6, <1>4, Facts
  <2> QED  BY <1>9, <2>1 DEF SinceIsKnown
<1> QED  BY <1>1, <1>6, <1>7, <1>8, <1>9, <1>10, <1>11, <1>12

LEMMA ListedIsFinite ==
  ASSUME CacheTypes
  PROVE  /\ Listed \subseteq Advisory /\ IsFiniteSet(Listed) /\ Cardinality(Listed) \in Nat
         /\ \A S \in SUBSET Advisory : IsFiniteSet(S) /\ Cardinality(S) \in Nat
<1>1. Listed \subseteq Advisory /\ IsFiniteSet(Advisory)
  BY Facts DEF Listed
<1>2. \A S \in SUBSET Advisory : IsFiniteSet(S)
  BY <1>1, FS_Subset
<1>3. \A S \in SUBSET Advisory : Cardinality(S) \in Nat
  BY <1>2, FS_CardinalityType
<1> QED  BY <1>1, <1>2, <1>3

(* The list only gets longer, and if its length is the same it is the same. *)
LEMMA ListedGrows ==
  ASSUME CacheTypes, SinceIsKnown, NEW a \in Advisory, NEW cves \in SUBSET CVE, ServiceUpdate(a, cves)
  PROVE  /\ Cardinality(Listed) <= Cardinality(Listed')
         /\ Cardinality(Listed) = Cardinality(Listed') => Listed' = Listed
<1>1. Listed \subseteq Listed'
  <2>1. \A b \in Advisory : service[b].time > Since => service'[b].time > Since
    <3>1. \A b \in Advisory : service[b].time \in Nat /\ service'[b].time \in Nat /\ Since \in Nat
      BY Facts, ServiceMoves DEF CacheTypes, AdvisoryState
    <3>2. \A b \in Advisory : service[b].time <= service'[b].time
      BY ServiceMoves
    <3> QED  BY <3>1, <3>2
  <2> QED  BY <2>1, ServiceMoves DEF Listed
<1>2. Listed' \subseteq Advisory
  BY DEF Listed
<1>3. IsFiniteSet(Listed')
  BY <1>2, ListedIsFinite
<1> QED  BY <1>1, <1>3, FS_Subset

LEMMA ServiceKeepsWork ==
  ASSUME CacheInvariant, NEW a \in Advisory, NEW cves \in SUBSET CVE, ServiceUpdate(a, cves), NEW p \in Request
  PROVE  WorkIsRight(p)'
<1>0. CacheTypes /\ SinceIsKnown /\ WorkIsRight(p)
  BY DEF CacheInvariant
<1>1. /\ Fetched(p)' = Fetched(p) /\ AtWork(p)' = AtWork(p) /\ request' = request /\ entry' = entry
      /\ Since' = Since /\ \A step : Step(p, step)' = Step(p, step)
      /\ Encountered(p)' = Encountered(p)
  BY <1>0, ServiceMoves DEF Fetched, AtWork, Step, Encountered
<1>2. /\ \A b \in Advisory : service[b].time < service'[a].time /\ service[b].time <= service'[b].time
      /\ \A b \in Advisory : b # a => service'[b] = service[b]
      /\ Since < service'[a].time /\ Since \in Nat
      /\ \A b \in Advisory : service[b].time \in Nat /\ service'[b].time \in Nat
  <2>1. \A b \in Advisory : service[b].time \in Nat
    BY <1>0, Facts
  <2>2. service' \in [Advisory -> AdvisoryState] /\ MaxUpdates \in Nat
    BY <1>0, Facts, ServiceMoves DEF CacheTypes
  <2>3. \A b \in Advisory : service'[b].time \in Nat
    BY <2>2 DEF AdvisoryState
  <2> QED  BY <1>0, <2>1, <2>3, ServiceMoves, Facts
<1>3. /\ Fetched(p) \subseteq Advisory
      /\ \A b \in Fetched(p) : request[p].list[b].time \in Nat
  BY <1>0, ListFacts
<1>4. ListIsRight(p) => ListIsRight(p)'
  <2> SUFFICES ASSUME ListIsRight(p), NEW b \in Fetched(p)
               PROVE  /\ request[p].list[b].time <= service'[b].time
                      /\ request[p].list[b].time = service'[b].time => request[p].list[b] = service'[b]
    BY <1>1 DEF ListIsRight
  <2>1. request[p].list[b].time <= service[b].time
    BY DEF ListIsRight
  <2>2. b # a /\ request[p].list[b].time = service'[b].time
            => request[p].list[b] = service'[b]
    BY <1>2, <1>3 DEF ListIsRight
  <2>3. b = a => request[p].list[b].time < service'[b].time
    BY <1>2, <1>3, <2>1
  <2> QED  BY <1>2, <1>3, <2>1, <2>2, <2>3
<1>5. PagesAgree(p) => PagesAgree(p)'
  <2>1. /\ Cardinality(Listed) \in Nat /\ Cardinality(Listed') \in Nat /\ request[p].count \in Nat
        /\ Cardinality(Listed) <= Cardinality(Listed')
        /\ Cardinality(Listed) = Cardinality(Listed') => Listed' = Listed
    <3>1. Cardinality(Listed') \in Nat
      BY <1>0, ListedIsFinite DEF Listed
    <3> QED  BY <1>0, <3>1, ListedIsFinite, ListedGrows, Facts
  <2> SUFFICES ASSUME PagesAgree(p)
               PROVE  /\ request[p].count <= Cardinality(Listed')
                      /\ request[p].count = Cardinality(Listed') =>
                           Listed' = Listed /\ request[p].count = Cardinality(Listed)
    BY <1>1 DEF PagesAgree
  <2>2. request[p].count <= Cardinality(Listed)
    BY DEF PagesAgree
  <2>3. request[p].count <= Cardinality(Listed')
        /\ (request[p].count = Cardinality(Listed') => Cardinality(Listed) = Cardinality(Listed'))
    BY <2>1, <2>2
  <2> QED  BY <2>1, <2>3
<1>6. ListIsRight(p) /\ ListIsWhole(p) => ListIsWhole(p)'
  <2> SUFFICES ASSUME ListIsRight(p), ListIsWhole(p), NEW b \in Advisory \ Fetched(p)
               PROVE  service'[b].time <= Since \/ \A d \in Fetched(p) : request[p].list[d].time < service'[b].time
    BY <1>1 DEF ListIsWhole
  <2>1. CASE b = a
    <3>1. \A d \in Fetched(p) : request[p].list[d].time <= service[d].time
      BY DEF ListIsRight
    <3> QED  BY <1>2, <1>3, <2>1, <3>1
  <2>2. CASE b # a
    BY <1>2, <2>2 DEF ListIsWhole
  <2> QED  BY <2>1, <2>2
<1>7. ListIsRight(p) /\ FoundIsRight(p) => FoundIsRight(p)'
  <2> SUFFICES ASSUME ListIsRight(p), FoundIsRight(p), NEW c \in DOMAIN request[p].found, NEW b \in Advisory,
                      AsListed(p, b)'
               PROVE  (b \in request[p].found[c] <=> IsAbout(b, c)')
    BY <1>1 DEF FoundIsRight
  <2>1. b # a
    <3>1. CASE a \in Fetched(p)
      <4>1. request[p].list[a].time < service'[a].time
        BY <1>2, <1>3, <3>1 DEF ListIsRight
      <4> QED  BY <1>1, <1>2, <1>3, <3>1, <4>1 DEF AsListed
    <3>2. CASE a \notin Fetched(p)
      <4>1. ~(service'[a].time <= Since)
        BY <1>2
      <4> QED  BY <1>1, <3>2, <4>1 DEF AsListed
    <3> QED  BY <3>1, <3>2
  <2>2. service'[b] = service[b]
    BY <1>2, <2>1
  <2> QED  BY <1>1, <2>2 DEF FoundIsRight, AsListed, IsAbout
<1>8. Unread(p) => Unread(p)'
  BY <1>1 DEF Unread
<1>9. AtWork(p) <=> Step(p, "listing") \/ Step(p, "searching") \/ Step(p, "storing")
  BY DEF AtWork, Step
<1> QED
  BY <1>0, <1>1, <1>4, <1>5, <1>6, <1>7, <1>8, <1>9 DEF WorkIsRight

LEMMA ServiceUpdateKeeps ==
  ASSUME CacheInvariant, NEW a \in Advisory, NEW cves \in SUBSET CVE, ServiceUpdate(a, cves)
  PROVE  CacheInvariant'
<1>0. CacheTypes /\ SinceIsKnown /\ OneAtWork /\ CachedIsTrue
  BY DEF CacheInvariant
<1>1. CacheTypes' /\ SinceIsKnown' /\ UNCHANGED <<entry, request, missed>> /\ Since' = Since
  BY <1>0, ServiceMoves
<1>2. OneAtWork'
  BY <1>0, <1>1 DEF OneAtWork, AtWork
<1>3. \A p \in Request : WorkIsRight(p)'
  BY ServiceKeepsWork
<1>4. CachedIsTrue'
  <2> SUFFICES ASSUME entry # NoEntry, NEW b \in Advisory, b \notin missed, 0 < service'[b].time,
                      service'[b].time <= entry.since, NEW c \in CVE
               PROVE  b \in entry.urls[c] <=> c \in service'[b].cves
    BY <1>1 DEF CachedIsTrue
  <2>1. Since = entry.since /\ Since < service'[a].time
    BY <1>0, ServiceMoves DEF Since
  <2>2. Since \in Nat /\ service'[a].time \in Nat
    <3>1. service' \in [Advisory -> AdvisoryState]
      BY <1>1 DEF CacheTypes
    <3> QED  BY <1>0, <3>1, Facts DEF AdvisoryState
  <2>3. b # a
    BY <2>1, <2>2
  <2>4. service'[b] = service[b]
    BY <1>0, <2>3, ServiceMoves
  <2> QED  BY <1>0, <2>4 DEF CachedIsTrue
<1> QED  BY <1>0, <1>1, <1>2, <1>3, <1>4 DEF CacheInvariant

-----------------------------------------------------------------------------
(* The steps of the requests *)

(* The others are not concerned as long as nothing is stored. *)
LEMMA OthersKeepWork ==
  ASSUME CacheTypes, UNCHANGED <<service, entry>>, NEW p \in Request, NEW r, Becomes(p, r),
         NEW q \in Request, q # p, WorkIsRight(q)
  PROVE  WorkIsRight(q)'
<1>1. request'[q] = request[q]
  BY DEF Becomes, CacheTypes
<1>2. Since' = Since /\ Listed' = Listed
  BY DEF Since, Listed
<1>3. /\ Fetched(q)' = Fetched(q) /\ AtWork(q)' = AtWork(q)
      /\ \A step : Step(q, step)' = Step(q, step)
      /\ Encountered(q)' = Encountered(q) /\ Unread(q)' = Unread(q)
  BY <1>1 DEF Fetched, AtWork, Step, Encountered, Unread
<1>4. ListIsRight(q)' = ListIsRight(q) /\ PagesAgree(q)' = PagesAgree(q) /\ ListIsWhole(q)' = ListIsWhole(q)
  BY <1>1, <1>2, <1>3 DEF ListIsRight, PagesAgree, ListIsWhole
<1>5. FoundIsRight(q)' = FoundIsRight(q)
  BY <1>1, <1>2, <1>3 DEF FoundIsRight, AsListed, IsAbout
<1> QED
  BY <1>1, <1>3, <1>4, <1>5 DEF WorkIsRight

(* What has to be shown of a step of a request that stores nothing. *)
LEMMA RequestKeeps ==
  ASSUME CacheInvariant, NEW p \in Request, NEW r \in RequestState, Becomes(p, r),
         UNCHANGED <<service, entry, missed>>, clock' \in Nat, WorkIsRight(p)',
         entry # NoEntry /\ r.step \in Asking => \A q \in Request \ {p} : ~AtWork(q)
  PROVE  CacheInvariant'
<1>0. CacheTypes /\ SinceIsKnown /\ OneAtWork /\ CachedIsTrue /\ \A q \in Request : WorkIsRight(q)
  BY DEF CacheInvariant
<1>1. CacheTypes'
  BY <1>0 DEF CacheTypes, Becomes, NoEntry
<1>2. SinceIsKnown' /\ CachedIsTrue'
  BY <1>0 DEF SinceIsKnown, Since, CachedIsTrue
<1>3. OneAtWork'
  <2>1. AtWork(p)' => r.step \in Asking
    BY <1>0 DEF AtWork, Becomes, CacheTypes, Asking
  <2>2. \A q \in Request \ {p} : AtWork(q)' = AtWork(q)
    BY <1>0 DEF AtWork, Becomes, CacheTypes
  <2> SUFFICES ASSUME entry # NoEntry, NEW x \in Request, NEW y \in Request, AtWork(x)', AtWork(y)'
               PROVE  x = y
    BY DEF OneAtWork
  <2> QED  BY <1>0, <2>1, <2>2 DEF OneAtWork
<1>4. \A q \in Request : WorkIsRight(q)'
  BY <1>0, OthersKeepWork
<1> QED  BY <1>1, <1>2, <1>3, <1>4 DEF CacheInvariant

LEMMA OthersWait ==
  ASSUME CacheInvariant, NEW p \in Request, AtWork(p), entry # NoEntry
  PROVE  \A q \in Request \ {p} : ~AtWork(q)
BY DEF CacheInvariant, OneAtWork

LEMMA StartAndEndKeep ==
  ASSUME CacheInvariant, NEW p \in Request, ReadTime(p) \/ Query(p) \/ NothingNew(p) \/ FailRequest(p)
  PROVE  CacheInvariant'
<1>0. CacheTypes /\ WorkIsRight(p)
  BY DEF CacheInvariant
<1>1. NotAsking \in RequestState
  BY Nothing DEF NotAsking, RequestState, Phase, Asking
<1>2. request \in [Request -> RequestState] /\ clock \in Nat
  BY <1>0 DEF CacheTypes
<1>3. CASE NothingNew(p) \/ FailRequest(p) \/ (Query(p) /\ Answered(p))
  <2>1. Becomes(p, NotAsking) /\ UNCHANGED <<service, entry, missed, clock>>
    BY <1>3 DEF NothingNew, FailRequest, Query, Answered
  <2>2. NotAsking.step = "out" /\ "out" \notin Asking
    BY DEF NotAsking, Asking
  <2>3. request'[p].step = "out"
    BY <1>2, <2>1, <2>2 DEF Becomes
  <2>4. WorkIsRight(p)'
    BY <2>3 DEF WorkIsRight, Step, AtWork
  <2> QED  BY <1>1, <1>2, <2>1, <2>2, <2>4, RequestKeeps
<1>4. CASE ReadTime(p)
  <2> DEFINE r == [NotAsking EXCEPT !.step = "querying", !.now = clock]
  <2>1. Becomes(p, r) /\ UNCHANGED <<service, entry, missed, clock>>
    BY <1>4 DEF ReadTime
  <2>2. r \in RequestState
    BY <1>1, <1>2 DEF RequestState, Phase
  <2>3. /\ r.step = "querying" /\ "querying" \notin Asking
        /\ r.list = <<>> /\ r.found = <<>> /\ r.pages = 0 /\ r.count = 0
    BY DEF NotAsking, Asking
  <2> HIDE DEF r
  <2>4. request'[p] = r
    BY <1>2, <2>1 DEF Becomes
  <2>5. WorkIsRight(p)'
    BY <2>3, <2>4 DEF WorkIsRight, Step, AtWork, Unread
  <2> QED  BY <1>2, <2>1, <2>2, <2>3, <2>5, RequestKeeps
<1>5. CASE Query(p) /\ ~Answered(p)
  <2> DEFINE r == [request[p] EXCEPT !.step = "listing"]
  <2>1. Becomes(p, r) /\ UNCHANGED <<service, entry, missed, clock>> /\ Step(p, "querying") /\ LockIsFree
    BY <1>5 DEF Query
  <2>2. r \in RequestState /\ r.step = "listing"
    BY <1>2 DEF RequestState, Phase, Asking
  <2>3. Unread(p)
    BY <1>0, <2>1 DEF WorkIsRight
  <2>4. r.list = <<>> /\ r.found = <<>> /\ r.pages = 0 /\ r.count = 0
    BY <1>2, <2>3 DEF Unread, RequestState
  <2> HIDE DEF r
  <2>5. request'[p] = r
    BY <1>2, <2>1 DEF Becomes
  <2>6. Fetched(p)' = {}
    BY <2>4, <2>5, Nothing DEF Fetched
  <2>7. ListIsRight(p)'
    BY <2>6 DEF ListIsRight
  <2>8. PagesAgree(p)'
    <3>1. Cardinality(Listed') \in Nat
      BY <1>0, <2>1, ListedIsFinite DEF Listed, Since
    <3> QED  BY <2>4, <2>5, <2>6, <3>1, FS_EmptySet DEF PagesAgree
  <2>9. WorkIsRight(p)'
    BY <2>2, <2>4, <2>5, <2>7, <2>8 DEF WorkIsRight, Step, AtWork
  <2>10. entry # NoEntry => \A q \in Request \ {p} : ~AtWork(q)
    BY <2>1 DEF LockIsFree
  <2> QED  BY <1>2, <2>1, <2>2, <2>9, <2>10, RequestKeeps
<1> QED
  BY <1>3, <1>4, <1>5 DEF Query

(* The page after those that have been read. *)
LEMMA NextPage ==
  ASSUME CacheTypes, NEW p \in Request, ListIsRight(p), PagesAgree(p), NEW a \in Advisory, FetchPage(p, a)
  PROVE  /\ a \in Listed /\ a \notin Fetched(p)
         /\ Fetched(p) \cup {a} = {b \in Listed : b <= a}
         /\ Cardinality(Fetched(p) \cup {a}) = request[p].pages + 1
         /\ request[p].pages + 1 >= Cardinality(Listed) => Fetched(p) \cup {a} = Listed
<1> DEFINE F == Fetched(p)
           D == {b \in Listed : b <= a}
<1>1. /\ a \in Listed /\ Cardinality(D) = request[p].pages + 1
      /\ F = {} \/ request[p].count = Cardinality(Listed)
  BY DEF FetchPage, IsOnPage, CountChanged
<1>2. /\ Listed \subseteq Advisory /\ F \subseteq Advisory /\ D \subseteq Listed /\ Advisory \subseteq Nat
      /\ request[p].pages \in Nat /\ Since \in Nat
  BY ListedIsFinite, ListFacts, Facts
<1>3. /\ IsFiniteSet(F) /\ IsFiniteSet(D) /\ IsFiniteSet(Listed) /\ Cardinality(F) = request[p].pages
      /\ Cardinality(Listed) \in Nat
  BY <1>2, ListedIsFinite DEF PagesAgree
<1>4. F \subseteq Listed
  <2> SUFFICES ASSUME NEW b \in F  PROVE service[b].time > Since
    BY <1>2 DEF Listed
  <2>1. Since < request[p].list[b].time /\ request[p].list[b].time <= service[b].time
    BY DEF ListIsRight
  <2>2. request[p].list[b].time \in Nat /\ service[b].time \in Nat
    BY <1>2, ListFacts, Facts
  <2> QED  BY <1>2, <2>1, <2>2
<1>5. \A x \in Listed, b \in F : x <= b => x \in F
  BY <1>1 DEF PagesAgree
<1> HIDE DEF F
<1>6. a \notin F
  <2> SUFFICES ASSUME a \in F  PROVE FALSE
    OBVIOUS
  <2>1. D \subseteq F
    BY <1>5
  <2>2. Cardinality(D) <= Cardinality(F)
    BY <1>3, <2>1, FS_Subset
  <2> QED  BY <1>1, <1>2, <1>3, <2>2
<1>7. F \cup {a} \subseteq D
  <2>0. a \in D
    BY <1>1, <1>2
  <2> SUFFICES ASSUME NEW b \in F  PROVE b \in Listed /\ b <= a
    BY <2>0
  <2>1. ~(a <= b)
    BY <1>1, <1>5, <1>6
  <2> QED  BY <1>1, <1>2, <1>4, <2>1
<1>8. Cardinality(F \cup {a}) = request[p].pages + 1
  BY <1>3, <1>6, FS_AddElement
<1> HIDE DEF D
<1>9. F \cup {a} = D
  BY <1>1, <1>3, <1>7, <1>8, FS_Subset
<1>10. request[p].pages + 1 >= Cardinality(Listed) => D = Listed
  <2>1. Cardinality(D) <= Cardinality(Listed) /\ (Cardinality(Listed) = Cardinality(D) => Listed = D)
    BY <1>2, <1>3, FS_Subset
  <2> QED  BY <1>1, <1>2, <1>3, <2>1
<1> QED  BY <1>1, <1>6, <1>8, <1>9, <1>10 DEF F, D

LEMMA FetchPageKeeps ==
  ASSUME CacheInvariant, NEW p \in Request, NEW a \in Advisory, FetchPage(p, a)
  PROVE  CacheInvariant'
<1> DEFINE pages == request[p].pages + 1
           list == [b \in Fetched(p) \cup {a} |-> IF b = a THEN service[a] ELSE request[p].list[b]]
           step == IF pages < Cardinality(Listed) THEN "listing"
                   ELSE IF entry = NoEntry THEN "storing" ELSE "searching"
           r == [request[p] EXCEPT !.list = list, !.pages = pages, !.count = Cardinality(Listed), !.step = step]
<1>0. CacheTypes /\ WorkIsRight(p)
  BY DEF CacheInvariant
<1>1. Step(p, "listing") /\ AtWork(p) /\ UNCHANGED <<clock, service, entry, missed>> /\ clock \in Nat
  BY <1>0 DEF FetchPage, Step, AtWork, CacheTypes
<1>2. Becomes(p, r)
  BY DEF FetchPage
<1>3. ListIsRight(p) /\ PagesAgree(p) /\ request[p].found = <<>>
  BY <1>0, <1>1 DEF WorkIsRight
<1>4. /\ a \in Listed /\ a \notin Fetched(p)
      /\ Fetched(p) \cup {a} = {b \in Listed : b <= a}
      /\ Cardinality(Fetched(p) \cup {a}) = pages
      /\ pages >= Cardinality(Listed) => Fetched(p) \cup {a} = Listed
  BY <1>0, <1>3, NextPage
<1>5. /\ Cardinality(Listed) \in Nat /\ pages \in Nat /\ request[p] \in RequestState /\ Fetched(p) \subseteq Advisory
      /\ Advisory \subseteq Nat /\ Listed \subseteq Advisory
  BY <1>0, ListedIsFinite, ListFacts, Facts
<1>6. list \in Lists
  <2>1. list \in [Fetched(p) \cup {a} -> AdvisoryState]
    <3>1. service[a] \in AdvisoryState /\ \A b \in Fetched(p) : request[p].list[b] \in AdvisoryState
      BY <1>0, ListFacts, Facts
    <3> QED  BY <3>1
  <2>2. Fetched(p) \cup {a} \in SUBSET Advisory
    BY <1>5
  <2> QED  BY <2>1, <2>2 DEF Lists
<1>7. list[a] = service[a] /\ \A b \in Fetched(p) : list[b] = request[p].list[b]
  BY <1>4
<1>8. DOMAIN list = Fetched(p) \cup {a}
  OBVIOUS
<1>9. step \in Asking /\ (step = "listing" \/ pages >= Cardinality(Listed)) /\ (step = "storing" => entry = NoEntry)
      /\ step # "querying"
  BY <1>5 DEF Asking
<1> HIDE DEF list, step, pages
<1>10. r \in RequestState
  BY <1>5, <1>6, <1>9 DEF RequestState, Phase
<1>11. r.list = list /\ r.pages = pages /\ r.count = Cardinality(Listed) /\ r.step = step /\ r.found = <<>>
  BY <1>3, <1>5 DEF RequestState
<1> HIDE DEF r
<1>12. request'[p] = r
  BY <1>0, <1>2 DEF Becomes, CacheTypes
<1>13. Fetched(p)' = Fetched(p) \cup {a} /\ Since' = Since /\ Listed' = Listed
  BY <1>1, <1>8, <1>11, <1>12 DEF Fetched, Since, Listed
<1>14. ListIsRight(p)'
  <2> SUFFICES ASSUME NEW b \in Fetched(p) \cup {a}
               PROVE  /\ Since < list[b].time /\ list[b].time <= service[b].time
                      /\ list[b].time = service[b].time => list[b] = service[b]
    BY <1>1, <1>11, <1>12, <1>13 DEF ListIsRight
  <2>1. CASE b = a
    <3>1. service[a].time \in Nat /\ Since \in Nat /\ service[a].time > Since
      BY <1>0, <1>4, Facts DEF Listed
    <3> QED  BY <1>7, <2>1, <3>1
  <2>2. CASE b \in Fetched(p)
    BY <1>3, <1>7, <2>2 DEF ListIsRight
  <2> QED  BY <2>1, <2>2
<1>15. PagesAgree(p)'
  <2>1. \A x \in Listed, b \in Fetched(p) \cup {a} : x <= b => x \in Fetched(p) \cup {a}
    <3> SUFFICES ASSUME NEW x \in Listed, NEW b \in Listed, b <= a, x <= b  PROVE x <= a
      BY <1>4
    <3> QED  BY <1>5
  <2> QED  BY <1>1, <1>4, <1>5, <1>11, <1>12, <1>13, <2>1 DEF PagesAgree
<1>16. step # "listing" => ListIsWhole(p)'
  <2> SUFFICES ASSUME step # "listing", NEW b \in Advisory \ Listed  PROVE service[b].time <= Since
    BY <1>1, <1>4, <1>9, <1>13 DEF ListIsWhole
  <2>1. service[b].time \in Nat /\ Since \in Nat /\ ~(service[b].time > Since)
    BY <1>0, Facts DEF Listed
  <2> QED  BY <2>1
<1>17. FoundIsRight(p)'
  BY <1>11, <1>12, Nothing DEF FoundIsRight
<1>18. WorkIsRight(p)'
  BY <1>1, <1>9, <1>11, <1>12, <1>14, <1>15, <1>16, <1>17 DEF WorkIsRight, Step
<1> QED
  BY <1>1, <1>2, <1>10, <1>18, OthersWait, RequestKeeps

LEMMA BeginningKeeps ==
  ASSUME CacheInvariant, NEW p \in Request, FetchFromBeginning(p)
  PROVE  CacheInvariant'
<1> DEFINE r == [request[p] EXCEPT !.list = <<>>, !.pages = 0, !.count = 0]
<1>0. CacheTypes /\ WorkIsRight(p) /\ request[p] \in RequestState
  BY Facts DEF CacheInvariant
<1>1. Step(p, "listing") /\ AtWork(p) /\ UNCHANGED <<clock, service, entry, missed>> /\ clock \in Nat /\ Becomes(p, r)
  BY <1>0 DEF FetchFromBeginning, Step, AtWork, CacheTypes
<1>2. request[p].found = <<>>
  BY <1>0, <1>1 DEF WorkIsRight
<1>3. /\ r \in RequestState /\ r.list = <<>> /\ r.pages = 0 /\ r.count = 0 /\ r.found = <<>>
      /\ r.step = "listing"
  BY <1>0, <1>1, <1>2, Nothing DEF RequestState, Step
<1> HIDE DEF r
<1>4. request'[p] = r
  BY <1>0, <1>1 DEF Becomes, CacheTypes
<1>5. Fetched(p)' = {}
  BY <1>3, <1>4, Nothing DEF Fetched
<1>6. ListIsRight(p)'
  BY <1>5 DEF ListIsRight
<1>7. PagesAgree(p)'
  <2>1. Cardinality(Listed') \in Nat
    BY <1>0, <1>1, ListedIsFinite DEF Listed, Since
  <2> QED  BY <1>3, <1>4, <1>5, <2>1, FS_EmptySet DEF PagesAgree
<1>8. WorkIsRight(p)'
  BY <1>3, <1>4, <1>6, <1>7 DEF WorkIsRight, Step, AtWork
<1> QED
  BY <1>1, <1>3, <1>8, OthersWait, RequestKeeps

LEMMA FetchCVEKeeps ==
  ASSUME CacheInvariant, NEW p \in Request, NEW c \in CVE, FetchCVE(p, c)
  PROVE  CacheInvariant'
<1> DEFINE urls == {a \in Advisory : service[a].time > 0 /\ c \in service[a].cves}
           found == [d \in DOMAIN request[p].found \cup {c} |-> IF d = c THEN urls ELSE request[p].found[d]]
           r == [request[p] EXCEPT !.found = found]
<1>0. CacheTypes /\ WorkIsRight(p) /\ request[p] \in RequestState
  BY Facts DEF CacheInvariant
<1>1. Step(p, "searching") /\ AtWork(p) /\ UNCHANGED <<clock, service, entry, missed>> /\ clock \in Nat /\ Becomes(p, r)
  BY <1>0 DEF FetchCVE, Step, AtWork, CacheTypes
<1>2. ListIsRight(p) /\ ListIsWhole(p) /\ FoundIsRight(p)
  BY <1>0, <1>1 DEF WorkIsRight
<1>3. found \in Findings
  <2>1. /\ DOMAIN request[p].found \cup {c} \subseteq CVE
        /\ \A d \in DOMAIN request[p].found : request[p].found[d] \in SUBSET Advisory
    BY <1>0, ListFacts
  <2>2. urls \in SUBSET Advisory
    OBVIOUS
  <2>3. found \in [DOMAIN request[p].found \cup {c} -> SUBSET Advisory]
    BY <2>1, <2>2
  <2> QED  BY <2>1, <2>3 DEF Findings
<1>4. /\ DOMAIN found = DOMAIN request[p].found \cup {c} /\ found[c] = urls
      /\ \A d \in DOMAIN request[p].found : d # c => found[d] = request[p].found[d]
  OBVIOUS
<1>5. \A a \in Advisory : a \in urls <=> IsAbout(a, c)
  BY <1>0, Facts DEF IsAbout
<1> HIDE DEF found, urls
<1>6. /\ r \in RequestState /\ r.found = found /\ r.list = request[p].list
      /\ r.step = "searching"
  BY <1>0, <1>1, <1>3 DEF RequestState, Step
<1> HIDE DEF r
<1>7. request'[p] = r
  BY <1>0, <1>1 DEF Becomes, CacheTypes
<1>8. Fetched(p)' = Fetched(p) /\ Since' = Since
  BY <1>1, <1>6, <1>7 DEF Fetched, Since
<1>9. ListIsRight(p)' /\ ListIsWhole(p)'
  BY <1>1, <1>2, <1>6, <1>7, <1>8 DEF ListIsRight, ListIsWhole
<1>10. FoundIsRight(p)'
  <2> SUFFICES ASSUME NEW d \in DOMAIN found, NEW a \in Advisory, AsListed(p, a)
               PROVE  a \in found[d] <=> IsAbout(a, d)
    BY <1>1, <1>6, <1>7, <1>8 DEF FoundIsRight, AsListed, IsAbout
  <2>1. CASE d = c
    BY <1>4, <1>5, <2>1
  <2>2. CASE d # c
    BY <1>2, <1>4, <2>2 DEF FoundIsRight
  <2> QED  BY <2>1, <2>2
<1>11. WorkIsRight(p)'
  BY <1>6, <1>7, <1>9, <1>10 DEF WorkIsRight, Step, AtWork
<1> QED
  BY <1>1, <1>6, <1>11, OthersWait, RequestKeeps

LEMMA SearchDoneKeeps ==
  ASSUME CacheInvariant, NEW p \in Request, SearchDone(p)
  PROVE  CacheInvariant'
<1> DEFINE r == [request[p] EXCEPT !.step = "storing"]
<1>0. CacheTypes /\ WorkIsRight(p) /\ request[p] \in RequestState
  BY Facts DEF CacheInvariant
<1>1. Step(p, "searching") /\ AtWork(p) /\ UNCHANGED <<clock, service, entry, missed>> /\ clock \in Nat /\ Becomes(p, r)
  BY <1>0 DEF SearchDone, Step, AtWork, CacheTypes
<1>2. /\ ListIsRight(p) /\ ListIsWhole(p) /\ FoundIsRight(p)
      /\ Encountered(p) \subseteq DOMAIN request[p].found
  BY <1>0, <1>1 DEF WorkIsRight, SearchDone, ToSearch
<1>3. /\ r \in RequestState /\ r.found = request[p].found /\ r.list = request[p].list
      /\ r.step = "storing"
  BY <1>0, <1>1 DEF RequestState, Phase, Asking
<1> HIDE DEF r
<1>4. request'[p] = r
  BY <1>0, <1>1 DEF Becomes, CacheTypes
<1>5. Fetched(p)' = Fetched(p) /\ Since' = Since /\ Encountered(p)' = Encountered(p)
  BY <1>1, <1>3, <1>4 DEF Fetched, Since, Encountered
<1>6. ListIsRight(p)' /\ ListIsWhole(p)'
  BY <1>1, <1>2, <1>3, <1>4, <1>5 DEF ListIsRight, ListIsWhole
<1>7. FoundIsRight(p)'
  BY <1>1, <1>2, <1>3, <1>4, <1>5 DEF FoundIsRight, AsListed, IsAbout
<1>8. WorkIsRight(p)'
  BY <1>2, <1>3, <1>4, <1>5, <1>6, <1>7 DEF WorkIsRight, Step, AtWork
<1> QED
  BY <1>1, <1>3, <1>8, OthersWait, RequestKeeps

-----------------------------------------------------------------------------
(* Storing *)

LEMMA LatestIsMax ==
  ASSUME CacheTypes, NEW p \in Request, Fetched(p) # {}
  PROVE  /\ \E a \in Fetched(p) : LatestFetched(p) = request[p].list[a].time
         /\ \A a \in Fetched(p) : request[p].list[a].time <= LatestFetched(p)
         /\ LatestFetched(p) \in Nat
<1> DEFINE S == {request[p].list[a].time : a \in Fetched(p)}
<1>1. S # {} /\ S \subseteq Nat /\ MaxUpdates \in Nat /\ \A x \in S : x <= MaxUpdates
  BY ListFacts, Facts
<1> HIDE DEF S
<1>2. Max(S) \in S /\ \A x \in S : x <= Max(S)
  BY <1>1, BoundedMax
<1>3. LatestFetched(p) = Max(S)
  BY DEF LatestFetched, S
<1> QED  BY <1>1, <1>2, <1>3 DEF S

(* What is stored of an advisory that has not been changed behind the back of
   the fetch is what the service has. *)
LEMMA StoredIsTrue ==
  ASSUME CacheInvariant, NEW p \in Request, Step(p, "storing"), NEW urls \in [CVE -> SUBSET Advisory],
         Stored(p, urls),
         \A a \in Advisory, c \in CVE :
           (a \in Fetched(p) /\ request[p].list[a] = service[a])
             \/ (a \notin Fetched(p) /\ service[a].time <= Since /\ 0 < service[a].time /\ a \notin missed)
           => (a \in urls[c] <=> c \in service[a].cves)
  PROVE  CachedIsTrue'
<1>0. CacheTypes /\ WorkIsRight(p)
  BY DEF CacheInvariant
<1>1. ListIsRight(p) /\ ListIsWhole(p)
  BY <1>0 DEF WorkIsRight, AtWork, Step
<1>2. /\ entry' = [urls |-> urls, since |-> LatestFetched(p), updatedAt |-> clock] /\ service' = service
      /\ missed' = (missed \ Fetched(p))
                     \cup {a \in Fetched(p) : /\ service[a].time # request[p].list[a].time
                                              /\ service[a].time <= LatestFetched(p)}
  BY DEF Stored
<1>3. entry'.urls = urls /\ entry'.since = LatestFetched(p)
  BY <1>2
<1>4. Fetched(p) \subseteq Advisory /\ LatestFetched(p) \in Nat /\ Since \in Nat
      /\ \A a \in Advisory : service[a].time \in Nat
  BY <1>0, <1>1, ListFacts, LatestIsMax, Facts DEF ListIsWhole
<1> SUFFICES ASSUME NEW a \in Advisory, a \notin missed', 0 < service[a].time,
                    service[a].time <= LatestFetched(p), NEW c \in CVE
             PROVE  a \in urls[c] <=> c \in service[a].cves
  BY <1>2, <1>3 DEF CachedIsTrue
<1>5. CASE a \in Fetched(p)
  <2>1. request[p].list[a].time = service[a].time
    BY <1>2, <1>5
  <2> QED  BY <1>1, <1>5, <2>1 DEF ListIsRight
<1>6. CASE a \notin Fetched(p)
  <2>1. PICK b \in Fetched(p) : LatestFetched(p) = request[p].list[b].time
    BY <1>0, <1>1, LatestIsMax DEF ListIsWhole
  <2>2. ~(request[p].list[b].time < service[a].time)
    BY <1>4, <2>1
  <2>3. service[a].time <= Since
    BY <1>1, <1>6, <2>2 DEF ListIsWhole
  <2> QED  BY <1>2, <1>6, <2>3
<1> QED  BY <1>5, <1>6

LEMMA StoringKeeps ==
  ASSUME CacheInvariant, NEW p \in Request, Step(p, "storing"), NEW urls \in [CVE -> SUBSET Advisory],
         Stored(p, urls), CachedIsTrue', \A q \in Request \ {p} : ~AtWork(q)
  PROVE  CacheInvariant'
<1>0. CacheTypes /\ \A q \in Request : WorkIsRight(q)
  BY DEF CacheInvariant
<1>1. ListIsRight(p) /\ ListIsWhole(p)
  BY <1>0 DEF WorkIsRight, AtWork, Step
<1>2. /\ entry' = [urls |-> urls, since |-> LatestFetched(p), updatedAt |-> clock] /\ UNCHANGED <<service, clock>>
      /\ Becomes(p, NotAsking)
  BY DEF Stored, Answered
<1>3. LatestFetched(p) \in Nat /\ \E a \in Advisory : LatestFetched(p) <= service[a].time
  BY <1>0, <1>1, LatestIsMax, ListFacts DEF ListIsWhole, ListIsRight
<1>4. NotAsking \in RequestState /\ NotAsking.step = "out"
  BY Nothing DEF NotAsking, RequestState, Phase, Asking
<1>5. request' = [request EXCEPT ![p] = NotAsking] /\ request \in [Request -> RequestState] /\ clock \in Nat
  BY <1>0, <1>2 DEF Becomes, CacheTypes
<1>6. CacheTypes'
  <2>1. entry' \in EntryState
    BY <1>2, <1>3, <1>5 DEF EntryState
  <2> QED  BY <1>0, <1>2, <1>4, <1>5, <2>1 DEF CacheTypes
<1>7. SinceIsKnown'
  BY <1>2, <1>3 DEF SinceIsKnown, Since
<1>8. \A q \in Request : ~AtWork(q)'
  BY <1>4, <1>5 DEF AtWork
<1>9. OneAtWork'
  BY <1>8 DEF OneAtWork
<1>10. ASSUME NEW q \in Request  PROVE WorkIsRight(q)'
  <2>1. q = p => ~Step(q, "querying")'
    BY <1>4, <1>5 DEF Step
  <2>2. q # p => request'[q] = request[q]
    BY <1>5
  <2>3. Step(q, "querying")' => Unread(q)'
    BY <1>0, <2>1, <2>2 DEF WorkIsRight, Step, Unread
  <2> QED  BY <1>8, <2>3 DEF WorkIsRight, AtWork, Step
<1> QED  BY <1>6, <1>7, <1>9, <1>10 DEF CacheInvariant

LEMMA InsertEntryKeeps ==
  ASSUME CacheInvariant, NEW p \in Request, InsertEntry(p)
  PROVE  CacheInvariant'
<1>0. CacheTypes /\ WorkIsRight(p)
  BY DEF CacheInvariant
<1>1. /\ Step(p, "storing") /\ entry = NoEntry /\ Stored(p, InitialURLs(p))
      /\ \A q \in Request \ {p} : ~AtWork(q)
  BY DEF InsertEntry
<1>2. Fetched(p) \subseteq Advisory /\ Since = 0
  BY <1>0, <1>1, ListFacts DEF Since
<1>3. InitialURLs(p) \in [CVE -> SUBSET Advisory]
  BY <1>2 DEF InitialURLs
<1>4. \A a \in Advisory, c \in CVE :
        (a \in Fetched(p) /\ request[p].list[a] = service[a])
          \/ (a \notin Fetched(p) /\ service[a].time <= Since /\ 0 < service[a].time /\ a \notin missed)
        => (a \in InitialURLs(p)[c] <=> c \in service[a].cves)
  <2>1. \A a \in Advisory : service[a].time \in Nat
    BY <1>0, Facts
  <2>2. \A a \in Advisory : ~(service[a].time <= Since /\ 0 < service[a].time)
    BY <1>2, <2>1
  <2> QED  BY <2>2 DEF InitialURLs
<1>5. CachedIsTrue'
  BY <1>1, <1>3, <1>4, StoredIsTrue
<1> QED  BY <1>1, <1>3, <1>5, StoringKeeps

LEMMA UpdateEntryKeeps ==
  ASSUME CacheInvariant, NEW p \in Request, UpdateEntry(p)
  PROVE  CacheInvariant'
<1>0. CacheTypes /\ WorkIsRight(p) /\ CachedIsTrue
  BY DEF CacheInvariant
<1>1. Step(p, "storing") /\ entry # NoEntry /\ Stored(p, UpdatedURLs(p)) /\ AtWork(p)
  BY DEF UpdateEntry, AtWork, Step
<1>2. /\ FoundIsRight(p) /\ Encountered(p) \subseteq DOMAIN request[p].found
  BY <1>0, <1>1 DEF WorkIsRight
<1>3. Fetched(p) \subseteq Advisory /\ entry.urls \in [CVE -> SUBSET Advisory] /\ Since = entry.since
      /\ \A c \in DOMAIN request[p].found : request[p].found[c] \subseteq Advisory
  BY <1>0, <1>1, ListFacts DEF CacheTypes, EntryState, Since
<1>4. UpdatedURLs(p) \in [CVE -> SUBSET Advisory]
  <2>1. \A c \in CVE : {a \in entry.urls[c] : a \in Fetched(p) => c \in request[p].list[a].cves}
                         \cup (IF c \in Encountered(p) THEN request[p].found[c] ELSE {}) \in SUBSET Advisory
    BY <1>2, <1>3
  <2> QED  BY <2>1 DEF UpdatedURLs
<1>5. ASSUME NEW a \in Advisory, NEW c \in CVE,
             (a \in Fetched(p) /\ request[p].list[a] = service[a])
               \/ (a \notin Fetched(p) /\ service[a].time <= Since /\ 0 < service[a].time /\ a \notin missed)
      PROVE  a \in UpdatedURLs(p)[c] <=> c \in service[a].cves
  <2>1. a \in UpdatedURLs(p)[c] <=>
          \/ a \in entry.urls[c] /\ (a \in Fetched(p) => c \in request[p].list[a].cves)
          \/ c \in Encountered(p) /\ a \in request[p].found[c]
    BY DEF UpdatedURLs
  <2>2. AsListed(p, a) /\ 0 < service[a].time
    <3>1. CASE a \in Fetched(p)
      <4>1. Since < request[p].list[a].time /\ Since \in Nat /\ service[a].time \in Nat
        BY <1>0, <1>1, <3>1, Facts DEF WorkIsRight, ListIsRight
      <4> QED  BY <1>5, <3>1, <4>1 DEF AsListed
    <3>2. CASE a \notin Fetched(p)
      BY <1>5, <3>2 DEF AsListed
    <3> QED  BY <3>1, <3>2
  <2>3. c \in Encountered(p) => (a \in request[p].found[c] <=> c \in service[a].cves)
    BY <1>2, <2>2 DEF FoundIsRight, IsAbout
  <2>4. CASE a \in Fetched(p)
    <3>1. c \in service[a].cves => c \in Encountered(p)
      BY <1>5, <2>4 DEF Encountered
    <3> QED  BY <1>5, <2>1, <2>3, <2>4, <3>1
  <2>5. CASE a \notin Fetched(p)
    <3>1. a \in entry.urls[c] <=> c \in service[a].cves
      BY <1>0, <1>1, <1>3, <1>5, <2>5 DEF CachedIsTrue
    <3> QED  BY <2>1, <2>3, <2>5, <3>1
  <2> QED  BY <2>4, <2>5
<1>6. CachedIsTrue'
  BY <1>1, <1>4, <1>5, StoredIsTrue
<1>7. \A q \in Request \ {p} : ~AtWork(q)
  BY <1>1, OthersWait
<1> QED  BY <1>1, <1>4, <1>6, <1>7, StoringKeeps

-----------------------------------------------------------------------------
LEMMA CacheInvariantHolds == CacheSpec => []CacheInvariant
<1>1. CacheInit => CacheInvariant
  <2> SUFFICES ASSUME CacheInit  PROVE CacheInvariant
    OBVIOUS
  <2>1. /\ \A p \in Request : request[p] = NotAsking
        /\ NotAsking \in RequestState /\ NotAsking.step = "out"
    BY Nothing DEF CacheInit, NotAsking, RequestState, Phase, Asking
  <2>2. 0 \in 0 .. MaxUpdates
    BY AuxiliaryCacheAssumption
  <2>3. CacheTypes
    BY <2>1, <2>2 DEF CacheInit, CacheTypes, AdvisoryState
  <2>4. entry = NoEntry /\ Since = 0
    BY DEF CacheInit, Since
  <2>5. \A p \in Request : WorkIsRight(p)
    BY <2>1 DEF WorkIsRight, Step, AtWork
  <2> QED  BY <2>3, <2>4, <2>5 DEF CacheInvariant, OneAtWork, SinceIsKnown, CachedIsTrue
<1>2. CacheInvariant /\ [CacheNext]_cacheVars => CacheInvariant'
  <2> SUFFICES ASSUME CacheInvariant, [CacheNext]_cacheVars  PROVE CacheInvariant'
    OBVIOUS
  <2>1. CASE Tick \/ UNCHANGED cacheVars
    <3>1. UNCHANGED <<service, entry, request, missed>> /\ (clock' = clock \/ clock' = clock + 1)
      BY <2>1 DEF Tick, cacheVars
    <3>2. CacheTypes'
      BY <3>1 DEF CacheInvariant, CacheTypes
    <3>3. (OneAtWork /\ SinceIsKnown /\ CachedIsTrue)'
      BY <3>1 DEF CacheInvariant, OneAtWork, AtWork, SinceIsKnown, Since, CachedIsTrue
    <3>4. ASSUME NEW p \in Request  PROVE WorkIsRight(p)'
      <4>1. /\ Unread(p)' = Unread(p) /\ ListIsRight(p)' = ListIsRight(p) /\ PagesAgree(p)' = PagesAgree(p)
            /\ ListIsWhole(p)' = ListIsWhole(p) /\ Encountered(p)' = Encountered(p)
        BY <3>1 DEF Unread, ListIsRight, PagesAgree, ListIsWhole, Encountered, Fetched, Since, Listed
      <4>2. FoundIsRight(p)' = FoundIsRight(p)
        BY <3>1 DEF FoundIsRight, AsListed, IsAbout, Fetched, Since
      <4>3. WorkIsRight(p)
        BY DEF CacheInvariant
      <4> QED  BY <3>1, <4>1, <4>2, <4>3 DEF WorkIsRight, Step, AtWork
    <3> QED  BY <3>2, <3>3, <3>4 DEF CacheInvariant
  <2>2. ASSUME NEW a \in Advisory, NEW cves \in SUBSET CVE, ServiceUpdate(a, cves)  PROVE CacheInvariant'
    BY <2>2, ServiceUpdateKeeps
  <2>3. ASSUME NEW p \in Request, Serve(p)  PROVE CacheInvariant'
    BY <2>3, StartAndEndKeep, FetchPageKeeps, BeginningKeeps, FetchCVEKeeps, SearchDoneKeeps, InsertEntryKeeps,
       UpdateEntryKeeps DEF Serve
  <2> QED  BY <2>1, <2>2, <2>3 DEF CacheNext
<1> QED  BY <1>1, <1>2, PTL DEF CacheSpec

(* However many advisories, CVEs and requests, and whatever changes while the
   lists are read: an advisory that was not changed behind the back of a fetch
   is shown for exactly those CVEs that it is about. *)
THEOREM CachedStaysTrue == CacheSpec => []CachedIsTrue
<1>1. CacheInvariant => CachedIsTrue
  BY DEF CacheInvariant
<1> QED  BY <1>1, CacheInvariantHolds, PTL

(***************************************************************************)
(* Logging in                                                              *)
(***************************************************************************)
(* What the clock has been, and may still be put back to. *)
ClockIsNear == wallClock <= latest /\ latest - Turbulence <= wallClock

(* Each use was of a token that had been issued by then. *)
UsesAreOfTokens ==
  \A i \in DOMAIN uses : uses[i].token \in 1 .. uses[i].upto /\ uses[i].upto <= Len(issued)

(* A code that has been accepted is either in the table of spent codes, put
   there no earlier than it began to be valid, or it is not valid any more, nor
   will it be if the clock is put back. *)
Remembered(use) ==
  LET code == use.code
  IN \/ code = NoCode
     \/ \E s \in spent : /\ s.user = UserOf(use) /\ s.code = code
                         /\ FirstInstant(code.step) <= s.on
     \/ EndInstant(code.step) <= latest - Turbulence

AcceptedAreRemembered == \A i \in DOMAIN uses : Remembered(uses[i])

(* Whatever token is left is a later one than those void. *)
LeftAreLater ==
  \A i \in DOMAIN uses, k \in live :
    Type(k) = TypeOf(uses[i]) /\ Owner(k) = UserOf(uses[i]) => k > uses[i].upto

LoginInvariant ==
  /\ LoginTypeOK /\ ClockIsNear /\ UsesAreOfTokens
  /\ AcceptedAreRemembered /\ LeftAreLater
  /\ CodesAreUsedOnce /\ EarlierAreVoid

-----------------------------------------------------------------------------
(* What steps do *)

(* A code is valid for as long as CodeValidity says. *)
LEMMA ValidityOfCodes ==
  ASSUME NEW step \in Int
  PROVE  /\ FirstInstant(step) \in Int /\ EndInstant(step) \in Int
         /\ CodeValidity \in Nat /\ Delay \in Nat
         /\ EndInstant(step) = FirstInstant(step) + CodeValidity
<1> DEFINE w == Window  d == Drift
<1>1. w \in Nat /\ d \in Nat /\ Margin \in Nat
  BY LoginAssumption
<1>2. w * (step - d) \in Int /\ w * (step + d + 1) \in Int /\ w * (2 * d + 1) \in Nat
  BY <1>1
<1>3. w * (step + d + 1) = w * (step - d) + w * (2 * d + 1)
  BY <1>1
<1> QED
  BY <1>1, <1>2, <1>3 DEF FirstInstant, EndInstant, CodeValidity, Delay

(* A token is issued. *)
Issues ==
  \E u \in User, type \in TokenType :
    /\ issued' = Append(issued, [type |-> type, owner |-> u, on |-> wallClock])
    /\ live' = live \cup {Len(issued) + 1}
    /\ UNCHANGED <<spent, uses, wallClock, latest>>

(* A live token serves its purpose: with a code, or without. *)
Uses(code) ==
  \E k \in live :
    /\ live' \subseteq live \ OfOwner(Type(k), Owner(k))
    /\ uses' = Append(uses, [token |-> k, code |-> code, upto |-> Len(issued)])
    /\ IF code = NoCode THEN spent' = spent ELSE Authenticate(Owner(k), code)
    /\ UNCHANGED <<issued, wallClock, latest>>

(* Neither: tokens may vanish. *)
IsQuiet == live' \subseteq live /\ UNCHANGED <<issued, spent, uses, wallClock, latest>>

LEMMA Codes ==
  /\ \A key \in Key, step \in TimeStep : CodeOf(key, step) \in Code
  /\ \A code \in Code : code # NoCode /\ code.step \in Int
<1>1. TimeStep \subseteq Int
  BY LoginAssumption
<1>2. ASSUME NEW code \in Code  PROVE code # NoCode
  <2>1. "step" \in DOMAIN code /\ "step" \notin DOMAIN NoCode
    BY DEF Code, NoCode
  <2> QED  BY <2>1
<1> QED
  BY <1>1, <1>2 DEF CodeOf, Code

LEMMA TokensAreTyped ==
  ASSUME LoginTypeOK
  PROVE  \A k \in Token : k \in Nat /\ Owner(k) \in User /\ Type(k) \in TokenType
<1> DEFINE Row == [type : TokenType, owner : User, on : Nat]
<1>1. issued \in Seq(Row)
  BY DEF LoginTypeOK
<1>2. ASSUME NEW k \in Token  PROVE issued[k] \in Row
  <2> HIDE DEF Row
  <2> QED  BY <1>1 DEF Token
<1> QED
  BY <1>2 DEF Token, Owner, Type

LEMMA KindsOfSteps ==
  ASSUME LoginTypeOK, LoginNext
  PROVE  \/ Issues
         \/ \E code \in Code \cup {NoCode} : Uses(code)
         \/ IsQuiet
         \/ ClockTurns
<1> USE DEF time, accounts
<1>1. ASSUME NEW u \in User, LogIn(u) \/ RequestConfig(u) \/ ForgetPassword(u)  PROVE Issues
  BY <1>1 DEF LogIn, RequestConfig, ForgetPassword, Issue, Issues, TokenType
<1>2. ASSUME NEW u \in User, BlockOrUnblock(u) \/ EraseConfig(u) \/ SetPassword(u)  PROVE IsQuiet
  BY <1>2 DEF BlockOrUnblock, EraseConfig, SetPassword, IsQuiet
<1>3. ASSUME NEW k \in Token, DeleteAfterFailure(k)  PROVE IsQuiet
  BY <1>3 DEF DeleteAfterFailure, IsQuiet
<1>4. ASSUME NEW k \in Token, ResetPassword(k)  PROVE Uses(NoCode)
  BY <1>4 DEF ResetPassword, Uses, IsLegit, DeleteAll, Used
<1>5. ASSUME NEW k \in Token, NEW step \in TimeStep, LogInWithCode(k, step)
      PROVE  \E code \in Code : Uses(code)
  <2>1. k \in live /\ Type(k) = "login" /\ Owner(k) \in User
    BY <1>5, TokensAreTyped DEF LogInWithCode, IsLegit
  <2>2. CodeOf(mfaKey[Owner(k)], step) \in Code
    BY SMTT(30), <2>1, Codes DEF LoginTypeOK, Token, Key, NoKey
  <2>3. Uses(CodeOf(mfaKey[Owner(k)], step))
    BY <1>5, <2>1, <2>2, Codes
    DEF LogInWithCode, AuthenticateWithActual, Uses, DeleteAll, Used
  <2> QED  BY <2>2, <2>3
<1>6. ASSUME NEW k \in Token, NEW step \in TimeStep,
             \/ ConfirmFirstConfig(k, step)
             \/ \E u \in User : ConfirmConfig(u, k, step)
      PROVE  \E code \in Code : Uses(code)
  <2>1. k \in live /\ Type(k) = "mfa_config" /\ Authenticate(Owner(k), CodeOf(k, step))
    BY <1>6 DEF ConfirmFirstConfig, ConfirmConfig, TurnIntoActual, IsLegit
  <2>2. CodeOf(k, step) \in Code
    BY Codes DEF Token, Key
  <2>3. Uses(CodeOf(k, step))
    BY <1>6, <2>1, <2>2, Codes DEF ConfirmFirstConfig, ConfirmConfig, Uses, DeleteAll, Used
  <2> QED  BY <2>2, <2>3
<1> QED
  BY <1>1, <1>2, <1>3, <1>4, <1>5, <1>6 DEF LoginNext

-----------------------------------------------------------------------------
(* Types *)

LEMMA TypesInitially == LoginInit => LoginTypeOK
<1> SUFFICES ASSUME LoginInit  PROVE LoginTypeOK
  OBVIOUS
<1>1. wallClock \in Nat /\ 0 \in 0 .. MaxActs
  BY LoginAssumption DEF LoginInit
<1> QED
  BY <1>1 DEF LoginInit, LoginTypeOK, NoKey

LEMMA OneMore ==
  ASSUME NEW m \in Nat
  PROVE  1 .. m \subseteq 1 .. (m + 1) /\ m + 1 \in 1 .. (m + 1)
OBVIOUS

(* What is asked of the rows and the keys is kept by each kind of step. *)
LEMMA TypesOfKinds ==
  ASSUME LoginTypeOK,
         Issues \/ (\E code \in Code \cup {NoCode} : Uses(code)) \/ IsQuiet \/ ClockTurns
  PROVE  /\ issued' \in Seq([type : TokenType, owner : User, on : Nat])
         /\ Token \subseteq Token' /\ live' \subseteq Token'
         /\ spent' \subseteq [user : User, code : Code, on : Nat]
         /\ wallClock' \in Nat /\ latest' \in Nat
         /\ uses' \in Seq([token : Nat, code : Code \cup {NoCode}, upto : Nat])
<1> DEFINE Row == [type : TokenType, owner : User, on : Nat]
           Use == [token : Nat, code : Code \cup {NoCode}, upto : Nat]
<1>0. issued \in Seq(Row) /\ uses \in Seq(Use) /\ live \subseteq Token /\ Len(issued) \in Nat
  BY DEF LoginTypeOK
<1>1. CASE Issues
  <2>1. PICK u \in User, type \in TokenType :
          /\ issued' = Append(issued, [type |-> type, owner |-> u, on |-> wallClock])
          /\ live' = live \cup {Len(issued) + 1}
          /\ UNCHANGED <<spent, uses, wallClock, latest>>
    BY <1>1 DEF Issues
  <2>2. [type |-> type, owner |-> u, on |-> wallClock] \in Row
    BY DEF LoginTypeOK
  <2> HIDE DEF Row
  <2>3. issued' \in Seq(Row) /\ Len(issued') = Len(issued) + 1
    BY <1>0, <2>1, <2>2
  <2>4. Token \subseteq Token' /\ live' \subseteq Token'
    <3>1. /\ live \subseteq 1 .. Len(issued) /\ live' = live \cup {Len(issued) + 1}
          /\ Len(issued) \in Nat /\ Len(issued') = Len(issued) + 1
      BY <1>0, <2>1, <2>3 DEF Token
    <3>2. 1 .. Len(issued) \subseteq 1 .. Len(issued') /\ live' \subseteq 1 .. Len(issued')
      BY ONLY <3>1, OneMore
    <3> QED  BY <3>2 DEF Token
  <2> QED
    BY <2>1, <2>3, <2>4 DEF LoginTypeOK, Row
<1>2. ASSUME NEW code \in Code \cup {NoCode}, Uses(code)
      PROVE  /\ uses' \in Seq(Use) /\ live' \subseteq Token /\ issued' = issued
             /\ wallClock' = wallClock /\ latest' = latest
             /\ spent' \subseteq [user : User, code : Code, on : Nat]
  <2>1. PICK k \in live :
          /\ live' \subseteq live \ OfOwner(Type(k), Owner(k))
          /\ uses' = Append(uses, [token |-> k, code |-> code, upto |-> Len(issued)])
          /\ IF code = NoCode THEN spent' = spent ELSE Authenticate(Owner(k), code)
          /\ UNCHANGED <<issued, wallClock, latest>>
    BY <1>2 DEF Uses
  <2>2. k \in Nat /\ Owner(k) \in User
    BY <1>0, TokensAreTyped
  <2>3. [token |-> k, code |-> code, upto |-> Len(issued)] \in Use
    BY <2>2, <1>0
  <2>4. uses' \in Seq(Use)
    <3> HIDE DEF Use
    <3> QED  BY <1>0, <2>1, <2>3
  <2>5. spent' \subseteq [user : User, code : Code, on : Nat]
    BY <2>1, <2>2 DEF Authenticate, StillSpent, LoginTypeOK
  <2> QED
    BY <1>0, <2>1, <2>4, <2>5
<1>3. CASE \E code \in Code \cup {NoCode} : Uses(code)
  BY <1>0, <1>2, <1>3 DEF LoginTypeOK, Token
<1>4. CASE IsQuiet
  BY <1>0, <1>4 DEF IsQuiet, LoginTypeOK, Token
<1>5. CASE ClockTurns
  <2>1. wallClock' \in Nat /\ latest' \in Nat
    BY <1>5, LoginAssumption DEF ClockTurns, LoginTypeOK
  <2> QED
    BY <1>0, <1>5, <2>1 DEF ClockTurns, LoginTypeOK, Token
<1> QED
  BY <1>1, <1>3, <1>4, <1>5

(* The rest are facts about users. *)
LEMMA TypesAreKept ==
  ASSUME LoginTypeOK, [LoginNext]_loginVars
  PROVE  LoginTypeOK'
<1> USE DEF time, accounts
<1>1. ASSUME LoginNext
      PROVE  /\ password' \subseteq User /\ blocked' \subseteq User /\ loggedIn' \subseteq User
             /\ mfaKey' \in [User -> {NoKey} \cup Token]
             /\ acts' \in 0 .. MaxActs
  <2>0. \A k \in Token : Owner(k) \in User
    BY TokensAreTyped
  <2>1. CASE \E u \in User : LogIn(u) \/ RequestConfig(u) \/ ForgetPassword(u)
    BY <2>1 DEF LoginTypeOK, LogIn, RequestConfig, ForgetPassword
  <2>2. CASE \E u \in User : BlockOrUnblock(u) \/ EraseConfig(u) \/ SetPassword(u)
    <3>0. PICK u \in User : BlockOrUnblock(u) \/ EraseConfig(u) \/ SetPassword(u)
      BY <2>2
    <3>1. acts' \in 0 .. MaxActs
      BY <3>0, LoginAssumption
      DEF LoginTypeOK, BlockOrUnblock, EraseConfig, SetPassword, Act
    <3>2. password' \subseteq User /\ blocked' \subseteq User /\ loggedIn' \subseteq User
      BY <3>0 DEF LoginTypeOK, BlockOrUnblock, EraseConfig, SetPassword
    <3>3. mfaKey' \in [User -> {NoKey} \cup Token]
      BY <3>0 DEF LoginTypeOK, BlockOrUnblock, EraseConfig, SetPassword
    <3> QED  BY <3>1, <3>2, <3>3
  <2>3. CASE \E k \in Token : DeleteAfterFailure(k) \/ ResetPassword(k)
    BY <2>3, <2>0 DEF LoginTypeOK, DeleteAfterFailure, ResetPassword
  <2>4. CASE \E k \in Token, step \in TimeStep :
               \/ LogInWithCode(k, step)
               \/ ConfirmFirstConfig(k, step)
               \/ \E u \in User : ConfirmConfig(u, k, step)
    BY <2>4, <2>0
    DEF LoginTypeOK, LogInWithCode, ConfirmFirstConfig, ConfirmConfig, TurnIntoActual
  <2>5. CASE ClockTurns
    BY <2>5 DEF LoginTypeOK, ClockTurns
  <2>6. \/ \E u \in User : LogIn(u) \/ RequestConfig(u) \/ ForgetPassword(u)
        \/ \E u \in User : BlockOrUnblock(u) \/ EraseConfig(u) \/ SetPassword(u)
        \/ \E k \in Token : DeleteAfterFailure(k) \/ ResetPassword(k)
        \/ \E k \in Token, step \in TimeStep :
               \/ LogInWithCode(k, step)
               \/ ConfirmFirstConfig(k, step)
               \/ \E u \in User : ConfirmConfig(u, k, step)
        \/ ClockTurns
    BY <1>1, Zenon DEF LoginNext
  <2> QED
    BY <2>1, <2>2, <2>3, <2>4, <2>5, <2>6, Zenon
<1>2. CASE LoginNext
  BY <1>1, <1>2, KindsOfSteps, TypesOfKinds DEF LoginTypeOK
<1>3. CASE UNCHANGED loginVars
  BY <1>3 DEF loginVars, LoginTypeOK, Token
<1> QED
  BY <1>2, <1>3

(* Every variable keeps its type. *)
THEOREM LoginTypesCorrect == LoginSpec => []LoginTypeOK
<1>1. LoginInit => LoginTypeOK
  BY TypesInitially
<1>2. LoginTypeOK /\ [LoginNext]_loginVars => LoginTypeOK'
  BY TypesAreKept
<1> QED
  BY <1>1, <1>2, PTL DEF LoginSpec

-----------------------------------------------------------------------------
(* What has been issued and used does not change *)

LEMMA UsesAreTyped ==
  ASSUME LoginTypeOK
  PROVE  /\ Len(uses) \in Nat /\ DOMAIN uses = 1 .. Len(uses)
         /\ \A i \in DOMAIN uses : uses[i] \in [token : Nat, code : Code \cup {NoCode}, upto : Nat]
<1> DEFINE Use == [token : Nat, code : Code \cup {NoCode}, upto : Nat]
<1>1. uses \in Seq(Use)
  BY DEF LoginTypeOK
<1> HIDE DEF Use
<1>2. Len(uses) \in Nat /\ DOMAIN uses = 1 .. Len(uses) /\ \A i \in DOMAIN uses : uses[i] \in Use
  BY <1>1
<1> QED
  BY <1>2 DEF Use

LEMMA TokensStay ==
  ASSUME LoginTypeOK, UsesAreOfTokens,
         \/ Issues \/ issued' = issued
  PROVE  /\ Len(issued) \in Nat /\ Len(issued') \in Nat /\ Len(issued) <= Len(issued')
         /\ \A k \in Token : issued'[k] = issued[k]
         /\ \A i \in DOMAIN uses : uses[i].token \in Token
<1>0. issued \in Seq([type : TokenType, owner : User, on : Nat]) /\ Len(issued) \in Nat
  BY DEF LoginTypeOK
<1>1. \A i \in DOMAIN uses : uses[i].token \in Token
  <2> SUFFICES ASSUME NEW i \in DOMAIN uses  PROVE uses[i].token \in Token
    OBVIOUS
  <2>1. uses[i].upto \in Nat
    BY UsesAreTyped
  <2>2. uses[i].token \in 1 .. uses[i].upto /\ uses[i].upto <= Len(issued)
    BY DEF UsesAreOfTokens
  <2> QED  BY <1>0, <2>1, <2>2 DEF Token
<1>2. CASE issued' = issued
  BY <1>0, <1>1, <1>2
<1>3. CASE Issues
  <2>1. PICK row : issued' = Append(issued, row)
    BY <1>3 DEF Issues
  <2> QED  BY <1>0, <1>1, <2>1 DEF Token
<1> QED
  BY <1>2, <1>3

(* The facts about uses hold on when no token is used. *)
LEMMA UsesStay ==
  ASSUME LoginTypeOK, UsesAreOfTokens,
         \/ Issues \/ issued' = issued,
         uses' = uses
  PROVE  /\ UsesAreOfTokens'
         /\ CodesAreUsedOnce => CodesAreUsedOnce'
         /\ EarlierAreVoid => EarlierAreVoid'
         /\ \A i \in DOMAIN uses : /\ UserOf(uses[i])' = UserOf(uses[i])
                                   /\ TypeOf(uses[i])' = TypeOf(uses[i])
<1>1. \A i \in DOMAIN uses : /\ UserOf(uses[i])' = UserOf(uses[i])
                             /\ TypeOf(uses[i])' = TypeOf(uses[i])
  BY TokensStay DEF UserOf, TypeOf, Owner, Type
<1>2. UsesAreOfTokens'
  <2> SUFFICES ASSUME NEW i \in DOMAIN uses
               PROVE  uses[i].token \in 1 .. uses[i].upto /\ uses[i].upto <= Len(issued')
    BY DEF UsesAreOfTokens
  <2>1. uses[i].upto \in Nat
    BY UsesAreTyped
  <2>2. uses[i].token \in 1 .. uses[i].upto /\ uses[i].upto <= Len(issued)
    BY DEF UsesAreOfTokens
  <2> QED  BY <2>1, <2>2, TokensStay
<1>3. CodesAreUsedOnce => CodesAreUsedOnce'
  BY <1>1 DEF CodesAreUsedOnce
<1>4. EarlierAreVoid => EarlierAreVoid'
  BY <1>1 DEF EarlierAreVoid
<1> QED
  BY <1>1, <1>2, <1>3, <1>4

-----------------------------------------------------------------------------
(* The kinds of steps keep the invariant *)

LEMMA KeptByIssues ==
  ASSUME LoginInvariant, LoginTypeOK', Issues
  PROVE  LoginInvariant'
<1> USE DEF LoginInvariant
<1>1. PICK row, owner :
        /\ issued' = Append(issued, row)
        /\ live' = live \cup {Len(issued) + 1}
        /\ UNCHANGED <<spent, uses, wallClock, latest>>
  BY DEF Issues
<1>2. ClockIsNear'
  BY <1>1 DEF ClockIsNear
<1>3. AcceptedAreRemembered'
  BY <1>1, UsesStay DEF AcceptedAreRemembered, Remembered, FirstInstant, EndInstant
<1>4. LeftAreLater'
  <2> SUFFICES ASSUME NEW i \in DOMAIN uses, NEW k \in live',
                      Type(k)' = TypeOf(uses[i])', Owner(k)' = UserOf(uses[i])'
               PROVE  k > uses[i].upto
    BY <1>1 DEF LeftAreLater
  <2>1. CASE k \in live
    <3>1. Type(k)' = Type(k) /\ Owner(k)' = Owner(k)
      BY <2>1, TokensStay DEF LoginTypeOK, Type, Owner
    <3> QED  BY <2>1, <3>1, <1>1, UsesStay DEF LeftAreLater
  <2>2. CASE k = Len(issued) + 1
    BY <2>2, TokensStay, UsesAreTyped DEF UsesAreOfTokens
  <2> QED  BY <1>1, <2>1, <2>2
<1> QED
  BY <1>1, <1>2, <1>3, <1>4, UsesStay

LEMMA KeptByQuiet ==
  ASSUME LoginInvariant, LoginTypeOK', IsQuiet
  PROVE  LoginInvariant'
<1> USE DEF LoginInvariant, IsQuiet
<1>1. ClockIsNear'
  BY DEF ClockIsNear
<1>2. AcceptedAreRemembered'
  BY UsesStay DEF AcceptedAreRemembered, Remembered, FirstInstant, EndInstant
<1>3. LeftAreLater'
  BY UsesStay DEF LeftAreLater, Type, Owner
<1> QED
  BY <1>1, <1>2, <1>3, UsesStay

LEMMA LaterOfTwo ==
  ASSUME NEW a \in Nat, NEW b \in Nat, NEW t \in Nat, NEW c, a - t <= b,
         c = IF b > a THEN b ELSE a
  PROVE  b <= c /\ a <= c /\ c - t <= b
OBVIOUS

LEMMA KeptByTurns ==
  ASSUME LoginInvariant, LoginTypeOK', ClockTurns
  PROVE  LoginInvariant'
<1> USE DEF LoginInvariant, ClockTurns
<1>0. /\ wallClock \in Nat /\ latest \in Nat /\ wallClock' \in Nat /\ latest' \in Nat
      /\ Turbulence \in Nat
  BY LoginAssumption DEF LoginTypeOK
<1>1. ClockIsNear' /\ latest <= latest'
  <2>1. /\ latest - Turbulence <= wallClock'
        /\ latest' = IF wallClock' > latest THEN wallClock' ELSE latest
    OBVIOUS
  <2>2. wallClock' <= latest' /\ latest <= latest' /\ latest' - Turbulence <= wallClock'
    BY ONLY <1>0, <2>1, LaterOfTwo
  <2> QED  BY <2>2 DEF ClockIsNear
<1>2. AcceptedAreRemembered'
  <2> SUFFICES ASSUME NEW i \in DOMAIN uses  PROVE Remembered(uses[i])'
    BY DEF AcceptedAreRemembered
  <2>1. Remembered(uses[i]) /\ uses[i].code \in Code \cup {NoCode}
    BY UsesAreTyped DEF AcceptedAreRemembered
  <2>2. UserOf(uses[i])' = UserOf(uses[i])
    BY UsesStay
  <2>3. ASSUME uses[i].code # NoCode, EndInstant(uses[i].code.step) <= latest - Turbulence
        PROVE  EndInstant(uses[i].code.step) <= latest' - Turbulence
    <3>1. EndInstant(uses[i].code.step) \in Int
      BY <2>1, <2>3, Codes, ValidityOfCodes
    <3> QED  BY <3>1, <2>3, <1>0, <1>1
  <2> QED
    BY <2>1, <2>2, <2>3 DEF Remembered, FirstInstant, EndInstant
<1>3. LeftAreLater'
  BY UsesStay DEF LeftAreLater, Type, Owner
<1> QED
  BY <1>1, <1>2, <1>3, UsesStay

(* What the verification of a code that has been accepted before would say. *)
LEMMA RememberedAreRefused ==
  ASSUME LoginInvariant, NEW i \in DOMAIN uses, NEW code \in Code,
         uses[i].code = code, Authenticate(UserOf(uses[i]), code)
  PROVE  FALSE
<1> USE DEF LoginInvariant
<1>0. /\ wallClock \in Nat /\ latest \in Nat /\ Turbulence \in Nat /\ Margin \in Nat
      /\ \A s \in spent : s.on \in Nat
      /\ code # NoCode /\ code.step \in Int
  BY LoginAssumption, Codes DEF LoginTypeOK
<1>1. /\ FirstInstant(code.step) \in Int /\ EndInstant(code.step) \in Int
      /\ CodeValidity \in Nat
      /\ EndInstant(code.step) = FirstInstant(code.step) + CodeValidity
      /\ Delay = CodeValidity + Margin
  BY <1>0, ValidityOfCodes DEF Delay
<1>2. wallClock < EndInstant(code.step) /\ ~IsSpent(UserOf(uses[i]), code)
  BY DEF Authenticate, MatchesNow
<1>3. CASE EndInstant(code.step) <= latest - Turbulence
  BY <1>0, <1>1, <1>2, <1>3 DEF ClockIsNear
<1>4. ASSUME NEW s \in spent, s.user = UserOf(uses[i]), s.code = code,
             FirstInstant(code.step) <= s.on
      PROVE  FALSE
  <2>1. s.on < wallClock - Delay
    BY <1>2, <1>4 DEF IsSpent, StillSpent
  <2> QED  BY <2>1, <1>0, <1>1, <1>2, <1>4
<1> QED
  BY <1>0, <1>3, <1>4 DEF AcceptedAreRemembered, Remembered

(* The table forgets a code when it cannot be valid any more. *)
LEMMA ForgottenAreOver ==
  ASSUME LoginInvariant, NEW step \in Int, NEW s \in spent \ StillSpent,
         FirstInstant(step) <= s.on
  PROVE  EndInstant(step) <= latest - Turbulence
<1>1. /\ wallClock \in Nat /\ latest \in Nat /\ Turbulence \in Nat /\ Margin \in Nat
      /\ s.on \in Nat /\ Turbulence <= Margin /\ latest - Turbulence <= wallClock
      /\ wallClock <= latest
  BY LoginAssumption DEF LoginTypeOK, LoginInvariant, ClockIsNear
<1> QED
  BY <1>1, ValidityOfCodes DEF StillSpent, Delay

LEMMA KeptByUses ==
  ASSUME LoginInvariant, LoginTypeOK', NEW code \in Code \cup {NoCode}, Uses(code)
  PROVE  LoginInvariant'
<1> USE DEF LoginInvariant
<1>1. PICK k \in live :
        /\ live' \subseteq live \ OfOwner(Type(k), Owner(k))
        /\ uses' = Append(uses, [token |-> k, code |-> code, upto |-> Len(issued)])
        /\ IF code = NoCode THEN spent' = spent ELSE Authenticate(Owner(k), code)
        /\ UNCHANGED <<issued, wallClock, latest>>
  BY DEF Uses
<1>n. PICK n \in Nat : n = Len(uses) + 1
  BY UsesAreTyped
<1>2. /\ Len(uses) \in Nat /\ DOMAIN uses = 1 .. Len(uses) /\ DOMAIN uses' = 1 .. n
      /\ \A i \in DOMAIN uses : uses'[i] = uses[i]
      /\ uses'[n] = [token |-> k, code |-> code, upto |-> Len(issued)]
  BY <1>n, <1>1, UsesAreTyped DEF LoginTypeOK
<1>3. /\ \A l \in Token : /\ Owner(l)' = Owner(l) /\ Type(l)' = Type(l)
                          /\ issued'[l] = issued[l]
      /\ k \in Token /\ Len(issued) \in Nat
      /\ \A i \in DOMAIN uses : uses[i].token \in Token
  BY <1>1, TokensStay DEF Owner, Type, LoginTypeOK
<1>4. /\ UserOf(uses[n])' = Owner(k) /\ TypeOf(uses[n])' = Type(k)
      /\ \A i \in DOMAIN uses : /\ UserOf(uses[i])' = UserOf(uses[i])
                                /\ TypeOf(uses[i])' = TypeOf(uses[i])
  <2>1. uses'[n].token = k
    BY <1>2
  <2>2. \A i \in DOMAIN uses : uses'[i].token = uses[i].token /\ uses[i].token \in Token
    BY <1>2, <1>3
  <2> QED
    BY <1>3, <2>1, <2>2 DEF UserOf, TypeOf, Owner, Type
<1>5. ASSUME NEW i \in DOMAIN uses'  PROVE i \in DOMAIN uses \/ i = n
  BY <1>n, <1>2, <1>5
<1>6. ClockIsNear'
  BY <1>1 DEF ClockIsNear
<1>7. UsesAreOfTokens'
  BY <1>1, <1>2, <1>3, <1>5 DEF UsesAreOfTokens, Token
<1>8. AcceptedAreRemembered'
  <2> SUFFICES ASSUME NEW i \in DOMAIN uses'  PROVE Remembered(uses[i])'
    BY DEF AcceptedAreRemembered
  <2>1. CASE code = NoCode
    BY <2>1, <1>1, <1>2, <1>4, <1>5
    DEF AcceptedAreRemembered, Remembered, FirstInstant, EndInstant
  <2>2. CASE code # NoCode
    <3>1. /\ Authenticate(Owner(k), code)
          /\ spent' = StillSpent \cup {[user |-> Owner(k), code |-> code, on |-> wallClock]}
          /\ FirstInstant(code.step) <= wallClock
      BY <2>2, <1>1 DEF Authenticate, MatchesNow
    <3>2. CASE i = n
      <4> DEFINE s == [user |-> Owner(k), code |-> code, on |-> wallClock]
      <4>1. s \in spent' /\ s.user = Owner(k) /\ s.code = code /\ s.on = wallClock
        BY <3>1
      <4>2. uses'[i].code = code /\ UserOf(uses[i])' = Owner(k)
        BY <3>2, <1>2, <1>4
      <4> HIDE DEF s
      <4>3. \E e \in spent' : /\ e.user = UserOf(uses[i])' /\ e.code = uses'[i].code
                              /\ FirstInstant(uses'[i].code.step) <= e.on
        BY <4>1, <4>2, <3>1
      <4> QED  BY <4>3 DEF Remembered, FirstInstant
    <3>3. CASE i \in DOMAIN uses
      <4>1. Remembered(uses[i]) /\ uses[i].code \in Code \cup {NoCode}
        BY <3>3, UsesAreTyped DEF AcceptedAreRemembered
      <4>2. CASE uses[i].code = NoCode
        BY <3>3, <4>2, <1>2 DEF Remembered
      <4>3. CASE EndInstant(uses[i].code.step) <= latest - Turbulence
        BY <3>3, <4>3, <1>1, <1>2 DEF Remembered, EndInstant
      <4>4. ASSUME uses[i].code # NoCode,
                   NEW s \in spent, s.user = UserOf(uses[i]), s.code = uses[i].code,
                   FirstInstant(uses[i].code.step) <= s.on
            PROVE  Remembered(uses[i])'
        <5>1. CASE s \in StillSpent
          BY <5>1, <4>4, <3>1, <3>3, <1>2, <1>4 DEF Remembered, FirstInstant
        <5>2. CASE s \notin StillSpent
          <6>1. EndInstant(uses[i].code.step) <= latest - Turbulence
            BY <5>2, <4>1, <4>4, Codes, ForgottenAreOver
          <6> QED  BY <6>1, <3>3, <1>1, <1>2 DEF Remembered, EndInstant
        <5> QED  BY <5>1, <5>2
      <4> QED  BY <4>1, <4>2, <4>3, <4>4 DEF Remembered
    <3> QED  BY <3>2, <3>3, <1>5
  <2> QED  BY <2>1, <2>2
<1>9. LeftAreLater'
  <2> SUFFICES ASSUME NEW i \in DOMAIN uses', NEW l \in live',
                      Type(l)' = TypeOf(uses[i])', Owner(l)' = UserOf(uses[i])'
               PROVE  l > uses'[i].upto
    BY DEF LeftAreLater
  <2>1. l \in live /\ l \notin OfOwner(Type(k), Owner(k)) /\ Type(l)' = Type(l) /\ Owner(l)' = Owner(l)
    BY <1>1, <1>3 DEF LoginTypeOK
  <2>2. i # n
    BY <2>1, <1>4 DEF OfOwner
  <2> QED  BY <2>1, <2>2, <1>2, <1>4, <1>5 DEF LeftAreLater
<1>10. CodesAreUsedOnce'
  <2> SUFFICES ASSUME NEW i \in DOMAIN uses', NEW j \in DOMAIN uses', i < j,
                      UserOf(uses[i])' = UserOf(uses[j])', uses'[i].code = uses'[j].code
               PROVE  uses'[i].code = NoCode
    BY DEF CodesAreUsedOnce
  <2>1. CASE j # n
    <3>1. i \in DOMAIN uses /\ j \in DOMAIN uses
      BY <2>1, <1>n, <1>2, <1>5
    <3> QED  BY <3>1, <1>2, <1>4 DEF CodesAreUsedOnce
  <2>2. CASE j = n
    <3>1. i \in DOMAIN uses /\ uses[i].code = code /\ UserOf(uses[i]) = Owner(k)
      BY <2>2, <1>2, <1>4, <1>5
    <3>2. code = NoCode
      <4> SUFFICES ASSUME code # NoCode  PROVE FALSE
        OBVIOUS
      <4>1. code \in Code /\ Authenticate(UserOf(uses[i]), code)
        BY <3>1, <1>1
      <4> QED  BY <3>1, <4>1, RememberedAreRefused
    <3> QED  BY <3>1, <3>2, <1>2
  <2> QED  BY <2>1, <2>2
<1>11. EarlierAreVoid'
  <2> SUFFICES ASSUME NEW i \in DOMAIN uses', NEW j \in DOMAIN uses', i < j,
                      UserOf(uses[i])' = UserOf(uses[j])', TypeOf(uses[i])' = TypeOf(uses[j])'
               PROVE  uses'[j].token > uses'[i].upto
    BY DEF EarlierAreVoid
  <2>1. CASE j # n
    <3>1. i \in DOMAIN uses /\ j \in DOMAIN uses
      BY <2>1, <1>n, <1>2, <1>5
    <3> QED  BY <3>1, <1>2, <1>4 DEF EarlierAreVoid
  <2>2. CASE j = n
    <3>1. i \in DOMAIN uses
      BY <2>2, <1>2, <1>5
    <3> QED  BY <2>2, <3>1, <1>2, <1>4 DEF LeftAreLater
  <2> QED  BY <2>1, <2>2
<1> QED
  BY <1>6, <1>7, <1>8, <1>9, <1>10, <1>11

LEMMA InvariantIsKept ==
  ASSUME LoginInvariant, [LoginNext]_loginVars
  PROVE  LoginInvariant'
<1>1. LoginTypeOK'
  BY TypesAreKept DEF LoginInvariant
<1>2. CASE LoginNext
  BY <1>1, <1>2, KindsOfSteps, KeptByIssues, KeptByUses, KeptByQuiet, KeptByTurns
  DEF LoginInvariant
<1>3. CASE UNCHANGED loginVars
  <2>1. IsQuiet
    BY <1>3 DEF IsQuiet, loginVars, time
  <2> QED  BY <1>1, <2>1, KeptByQuiet
<1> QED
  BY <1>2, <1>3

LEMMA InvariantInitially == LoginInit => LoginInvariant
<1> SUFFICES ASSUME LoginInit  PROVE LoginInvariant
  OBVIOUS
<1>1. LoginTypeOK /\ DOMAIN uses = {}
  BY TypesInitially DEF LoginInit
<1>2. ClockIsNear
  BY LoginAssumption DEF LoginInit, ClockIsNear
<1> QED
  BY <1>1, <1>2 DEF LoginInvariant, UsesAreOfTokens, AcceptedAreRemembered, LeftAreLater,
                    CodesAreUsedOnce, EarlierAreVoid

LEMMA LoginInvariantHolds == LoginSpec => []LoginInvariant
<1>1. LoginInit => LoginInvariant
  BY InvariantInitially
<1>2. LoginInvariant /\ [LoginNext]_loginVars => LoginInvariant'
  BY InvariantIsKept
<1> QED
  BY <1>1, <1>2, PTL DEF LoginSpec

(* delete_outdated_spent_mfa_codes() forgets no code too early: no code of a
   user is accepted twice, however the clock turns. *)
THEOREM CodesUsedOnce == LoginSpec => []CodesAreUsedOnce
<1>1. LoginInvariant => CodesAreUsedOnce
  BY DEF LoginInvariant
<1> QED
  BY <1>1, LoginInvariantHolds, PTL

(* delete_web_token() with the other tokens of the owner: what has been issued
   to a user before a successful use serves nobody afterwards. *)
THEOREM EarlierVoid == LoginSpec => []EarlierAreVoid
<1>1. LoginInvariant => EarlierAreVoid
  BY DEF LoginInvariant
<1> QED
  BY <1>1, LoginInvariantHolds, PTL

(***************************************************************************)
(* The requests of organizations                                           *)
(*                                                                         *)
(* That their handling implements the serial register, with its constraint *)
(* on pending requests never needed, and that updates take effect and      *)
(* mails and tickets are true.  The heart of the argument: what a handler  *)
(* has checked is about rows that it has read, and no other handler may    *)
(* write them (Locks), so the check still holds when the handler gets to   *)
(* its commit (Checks).                                                    *)
(***************************************************************************)
AnyRequest == Registrations \cup Updates
Statuses == {"new", "being_processed", "discarded", "accepted"}
Content == [org : Orgs, email : Logins, grouped : BOOLEAN] \cup UNION {Wanted[r] : r \in Updates}

StoredRequest == [status : Statuses, pending : BOOLEAN, content : Content, ticket : BOOLEAN]

Job ==
  [step : {"checked", "inserted", "ticketed", "committed", "mailing"},
   req : AnyRequest, content : Content, target : Targets \cup {"new"},
   rows : SUBSET (Orgs \cup AnyRequest), to : SUBSET Logins]

RegisterTypes ==
  /\ users \in [DOMAIN users -> [org : Orgs, blocked : BOOLEAN]]
  /\ DOMAIN users \subseteq Logins
  /\ requests \in [DOMAIN requests -> StoredRequest]
  /\ DOMAIN requests \subseteq AnyRequest

Types ==
  /\ RegisterTypes
  /\ jobs \in [Handlers -> {Idle} \cup Job]
  /\ tickets \subseteq AnyRequest
  /\ lost \subseteq AnyRequest

(* What the database's constraints say of the requests. *)
Register ==
  \A r \in DOMAIN requests :
    /\ requests[r].pending <=> MarkerFor(requests[r].status)
    /\ r \in Updates =>
         /\ requests[r].content \in Wanted[r]
         /\ \A q \in DOMAIN requests \cap Updates :
              /\ requests[q].content.org = requests[r].content.org
              /\ requests[q].pending /\ requests[r].pending
              => q = r

(* Nobody writes what another one reads or writes. *)
Locks ==
  \A g, h \in Handlers, row \in Orgs \cup AnyRequest :
    g # h /\ Writes(h, row) => ~Reads(g, row) /\ ~Writes(g, row)

(* A request that is being posted, and its organization without any other. *)
IsPosted(j) ==
  /\ j.target = "new" /\ j.req \notin DOMAIN requests
  /\ j.req \in Updates =>
       /\ j.content \in Wanted[j.req] /\ j.content.org \in DOMAIN orgs
       /\ PendingUpdates(j.content.org) = {}
       /\ j.rows = {j.content.org}
  /\ j.req \in Registrations =>
       /\ j.step # "checked" /\ j.rows = {}
       /\ \E c \in Wanted[j.req] : j.content = [c EXCEPT !.grouped = FALSE]

(* A request on which an administrator decides. *)
IsConsidered(j) ==
  /\ j.target \in Targets /\ j.req \in DOMAIN requests /\ j.content \in Wanted[j.req]
  /\ j.rows = RowsOf(j.req, j.content)
  /\ j.req \in Updates => j.content.org = requests[j.req].content.org
  /\ j.target # "keep" => MayBecome(j.req, j.content, j.target)

Check(j) ==
  /\ j.step = "checked" => IsPosted(j) \/ IsConsidered(j)
  /\ j.step \in {"inserted", "ticketed"} => IsPosted(j)

Checks == \A h \in Handlers : Check(jobs[h])

(* Two handlers never post the same request. *)
Posts(h, r) ==
  jobs[h].step \in {"checked", "inserted", "ticketed"} /\ jobs[h].target = "new" /\ jobs[h].req = r

OwnRequests == \A g, h \in Handlers, r \in AnyRequest : Posts(g, r) /\ Posts(h, r) => g = h

(* The inductive invariant. *)
RequestsInvariant == Types /\ Register /\ Locks /\ Checks /\ OwnRequests /\ ~rejected

-----------------------------------------------------------------------------
(* The steps by what they do to the data. *)
Aside(h) ==
  \/ PostUpdate(h) \/ PostRegistration(h) \/ Insert(h) \/ CreateTicket(h) \/ Submit(h)
  \/ Reject(h) \/ LookUpRecipients(h) \/ SendMail(h) \/ Break(h)

LEMMA Steps ==
  ASSUME [Next]_vars
  PROVE \/ \E h \in Handlers : Aside(h) \/ StoreRequest(h) \/ Commit(h)
        \/ OtherTransaction
        \/ UNCHANGED vars
BY DEF Next, Handle, Aside

(* The content of any request. *)
LEMMA ContentTypes ==
  ASSUME NEW r \in AnyRequest, NEW c \in Wanted[r]
  PROVE /\ c \in Content /\ c.org \in Orgs
        /\ r \in Registrations =>
             /\ r \notin Updates /\ c.email \in Logins
             /\ [c EXCEPT !.grouped = FALSE] \in Content
        /\ r \in Updates => c.add \subseteq Logins /\ c.remove \subseteq Logins
<1>1. CASE r \in Registrations
  <2>1. c \in [org : Orgs, email : Logins, grouped : BOOLEAN] /\ r \notin Updates
    BY <1>1, OrgRegisterAssumption
  <2> QED  BY <2>1 DEF Content
<1>2. CASE r \in Updates
  BY <1>2, OrgRegisterAssumption DEF Content
<1> QED  BY <1>1, <1>2 DEF AnyRequest

(* A job that is not idle. *)
LEMMA BusyJob ==
  ASSUME Types, NEW h \in Handlers, jobs[h].step # "idle"
  PROVE jobs[h] \in Job
BY DEF Types, Idle

LEMMA StepsOfJobs ==
  ASSUME Types, NEW h \in Handlers, jobs[h] \in Job,
         NEW step \in {"inserted", "ticketed", "committed", "mailing"}, NEW to \in SUBSET Logins
  PROVE [jobs[h] EXCEPT !.step = step, !.to = to] \in Job
BY DEF Job

(* What a handler that has checked an administrator's form knows. *)
LEMMA ConsideredTypes ==
  ASSUME Types, Checks, NEW h \in Handlers, jobs[h].step = "checked", jobs[h].target # "new"
  PROVE /\ jobs[h] \in Job /\ jobs[h].content \in Wanted[jobs[h].req]
        /\ jobs[h].req \in DOMAIN requests /\ IsConsidered(jobs[h])
<1>1. jobs[h] \in Job
  BY BusyJob
<1>2. IsConsidered(jobs[h])
  BY DEF Checks, Check, IsPosted
<1> QED  BY <1>1, <1>2 DEF IsConsidered

(* Types are preserved. *)
LEMMA TypesPreserved == Types /\ Checks /\ [Next]_vars => Types'
<1> SUFFICES ASSUME Types, Checks, [Next]_vars  PROVE Types'
  OBVIOUS
<1> DEFINE JobTypes == jobs \in [Handlers -> {Idle} \cup Job]
<1>1. ASSUME NEW h \in Handlers, PostUpdate(h) \/ PostRegistration(h) \/ Submit(h)
      PROVE Types'
  <2>1. PICK step \in {"checked", "inserted"}, r \in AnyRequest, c \in Content,
             target \in Targets \cup {"new"}, rows \in SUBSET (Orgs \cup AnyRequest) :
               Start(h, step, r, c, target, rows)
    <3>1. CASE PostUpdate(h)
      BY <3>1, ContentTypes DEF PostUpdate, AnyRequest
    <3>2. CASE PostRegistration(h)
      BY <3>2, ContentTypes DEF PostRegistration, AnyRequest
    <3>3. CASE Submit(h)
      <4>1. PICK r \in DOMAIN requests : \E c \in Wanted[r], target \in Targets :
                   Start(h, "checked", r, c, target, RowsOf(r, c))
        BY <3>3 DEF Submit
      <4>2. r \in AnyRequest
        BY DEF Types, RegisterTypes
      <4>3. \A c \in Wanted[r] : c \in Content /\ RowsOf(r, c) \in SUBSET (Orgs \cup AnyRequest)
        BY <4>2, ContentTypes DEF RowsOf
      <4> QED  BY <4>1, <4>2, <4>3
    <3> QED  BY <1>1, <3>1, <3>2, <3>3
  <2>2. JobTypes'
    BY <2>1 DEF Start, Types, Job
  <2> QED  BY <1>1, <2>2 DEF PostUpdate, PostRegistration, Submit, Types, RegisterTypes, db, history
<1>2. ASSUME NEW h \in Handlers, Finish(h)  PROVE JobTypes'
  BY <1>2 DEF Finish, Types
<1>3. ASSUME NEW h \in Handlers, jobs[h].step # "idle",
             NEW step \in {"inserted", "ticketed", "committed", "mailing"},
             NEW to \in SUBSET Logins, Proceed(h, step, to)
      PROVE JobTypes'
  BY <1>3, BusyJob, StepsOfJobs DEF Proceed, Types
<1>4. ASSUME NEW h \in Handlers, jobs[h].step # "idle", NEW to \in SUBSET Logins,
             StartMailing(h, to)
      PROVE JobTypes'
  BY <1>2, <1>3, <1>4 DEF StartMailing
<1>5. \A o : NonBlocked(o) \in SUBSET Logins
  BY DEF NonBlocked, Types, RegisterTypes
<1>6. ASSUME NEW h \in Handlers, Insert(h)  PROVE Types'
  <2>1. JobTypes'
    BY <1>2, <1>3, <1>5, <1>6 DEF Insert
  <2> QED  BY <1>6, <2>1 DEF Insert, Types, RegisterTypes, db
<1>7. ASSUME NEW h \in Handlers, CreateTicket(h)  PROVE Types'
  <2>1. jobs[h] \in Job
    BY <1>7, BusyJob DEF CreateTicket
  <2>2. jobs[h].to \in SUBSET Logins /\ jobs[h].req \in AnyRequest
    BY <2>1 DEF Job
  <2>3. JobTypes'
    BY <1>3, <1>7, <2>2 DEF CreateTicket
  <2> QED  BY <1>7, <2>2, <2>3 DEF CreateTicket, Types, RegisterTypes, db, history
<1>8. ASSUME NEW h \in Handlers, LookUpRecipients(h) \/ SendMail(h)  PROVE Types'
  <2>1. jobs[h].step # "idle" /\ jobs[h] \in Job
    BY <1>8, BusyJob DEF LookUpRecipients, SendMail
  <2>2. Recipients(jobs[h].req, jobs[h].content) \in SUBSET Logins
    BY <1>5 DEF Recipients, Types, RegisterTypes
  <2>3. \A u : jobs[h].to \ {u} \in SUBSET Logins
    BY <2>1 DEF Job
  <2>4. JobTypes'
    BY <1>4, <1>8, <2>1, <2>2, <2>3 DEF LookUpRecipients, SendMail
  <2> QED  BY <1>8, <2>4 DEF LookUpRecipients, SendMail, Types, RegisterTypes, db, history
<1>9. ASSUME NEW h \in Handlers, Reject(h) \/ Break(h)  PROVE Types'
  <2>1. JobTypes'
    BY <1>2, <1>9 DEF Reject, Break
  <2>2. jobs[h].step = "ticketed" => jobs[h].req \in AnyRequest
    BY BusyJob DEF Job
  <2> QED  BY <1>9, <2>1, <2>2 DEF Reject, Break, Types, RegisterTypes, db, history
<1>10. ASSUME NEW h \in Handlers, StoreRequest(h)  PROVE Types'
  <2>1. jobs[h].step # "idle" /\ jobs[h] \in Job
    BY <1>10, BusyJob DEF StoreRequest
  <2>2. jobs[h].to \in SUBSET Logins /\ jobs[h].req \in AnyRequest /\ jobs[h].content \in Content
    BY <2>1 DEF Job
  <2>3. JobTypes'
    BY <1>4, <1>10, <2>1, <2>2 DEF StoreRequest
  <2>4. MarkerFor("new") \in BOOLEAN /\ (jobs[h].step = "ticketed") \in BOOLEAN
    BY DEF MarkerFor
  <2>5. (requests \in [DOMAIN requests -> StoredRequest] /\ DOMAIN requests \subseteq AnyRequest)'
    BY <1>10, <2>2, <2>4 DEF StoreRequest, Store, Types, RegisterTypes, StoredRequest, Statuses
  <2> QED  BY <1>10, <2>3, <2>5 DEF StoreRequest, Types, RegisterTypes
<1>11. ASSUME NEW h \in Handlers, Commit(h)  PROVE Types'
  <2> DEFINE r == jobs[h].req
             c == jobs[h].content
             target == jobs[h].target
  <2>1. /\ jobs[h] \in Job /\ c \in Wanted[r] /\ r \in DOMAIN requests /\ target \in Targets
        /\ r \in AnyRequest
    BY <1>11, ConsideredTypes DEF Commit, IsConsidered, Types, RegisterTypes
  <2>2. c \in Content /\ c.org \in Orgs
    BY <2>1, ContentTypes
  <2>3. Decide(r, c, target)
    BY <1>11 DEF Commit
  <2>4. JobTypes'
    BY <1>2, <1>3, <1>11 DEF Commit
  <2>5. StatusAfter(r, target) \in Statuses /\ MarkerFor(StatusAfter(r, target)) \in BOOLEAN
    BY <2>1 DEF StatusAfter, MarkerFor, Targets, Statuses, Types, RegisterTypes, StoredRequest
  <2>6. (requests \in [DOMAIN requests -> StoredRequest] /\ DOMAIN requests \subseteq AnyRequest)'
    BY ZenonT(40), <2>1, <2>2, <2>3, <2>5 DEF Decide, Types, RegisterTypes, StoredRequest
  <2>7. (users \in [DOMAIN users -> [org : Orgs, blocked : BOOLEAN]] /\ DOMAIN users \subseteq Logins)'
    <3>1. CASE target # "accepted"
      BY <2>3, <3>1 DEF Decide, Types, RegisterTypes
    <3>2. CASE target = "accepted" /\ r \in Updates
      <4>1. c.add \subseteq Logins /\ r \notin Registrations
        BY <2>1, <3>2, ContentTypes
      <4>2. users' = Deactivated(Activated(users, c.org, c.add), c.org, c.remove)
        <5>1. UpdateOrg(c)
          BY <2>3, <3>2, <4>1 DEF Decide
        <5> QED  BY <5>1 DEF UpdateOrg, UpdatedUsers
      <4> DEFINE us == Activated(users, c.org, c.add)
      <4>3. DOMAIN us = DOMAIN users \cup c.add
        BY DEF Activated
      <4>4. ASSUME NEW u \in DOMAIN us  PROVE us[u] \in [org : Orgs, blocked : BOOLEAN]
        BY <2>2, <4>4 DEF Activated, Types, RegisterTypes
      <4> HIDE DEF us
      <4>5. DOMAIN users' = DOMAIN us
        BY <4>2 DEF Deactivated, us
      <4>6. users' = [u \in DOMAIN us |->
                       IF u \in c.remove /\ us[u].org = c.org THEN [us[u] EXCEPT !.blocked = TRUE]
                       ELSE us[u]]
        BY <4>2 DEF Deactivated, us
      <4>7. ASSUME NEW u \in DOMAIN us  PROVE users'[u] \in [org : Orgs, blocked : BOOLEAN]
        BY <4>4, <4>6
      <4> QED  BY <4>1, <4>3, <4>5, <4>6, <4>7 DEF Types, RegisterTypes
    <3>3. CASE target = "accepted" /\ r \in Registrations
      <4>1. c.email \in Logins /\ r \notin Updates
        BY <2>1, <3>3, ContentTypes
      <4>2. AddUser(c.email, c.org)
        BY <2>3, <3>3, <4>1 DEF Decide, CreateOrg
      <4> QED  BY <2>2, <4>1, <4>2 DEF AddUser, Types, RegisterTypes
    <3> QED  BY <2>1, <3>1, <3>2, <3>3 DEF AnyRequest
  <2> QED  BY <1>11, <2>4, <2>6, <2>7 DEF Commit, Types, RegisterTypes
<1>12. CASE OtherTransaction
  <2>1. ASSUME NEW u \in Logins, NEW o \in Orgs, CreateUser(u, o)  PROVE Types'
    BY <1>12, <2>1 DEF OtherTransaction, CreateUser, AddUser, Types, RegisterTypes, history
  <2>2. ASSUME NEW u \in DOMAIN users, ToggleBlocked(u)  PROVE Types'
    BY <1>12, <2>2 DEF OtherTransaction, ToggleBlocked, Types, RegisterTypes, history
  <2> QED  BY <1>12, <2>1, <2>2 DEF OtherTransaction
<1>13. CASE UNCHANGED vars
  BY <1>13 DEF vars, db, history, Types, RegisterTypes
<1> QED
  BY Steps, <1>1, <1>6, <1>7, <1>8, <1>9, <1>10, <1>11, <1>12, <1>13 DEF Aside

-----------------------------------------------------------------------------
(* What the steps do to the data. *)
LEMMA AsideKeepsData ==
  ASSUME NEW h \in Handlers, Aside(h)
  PROVE UNCHANGED <<orgs, users, requests>>
BY DEF Aside, PostUpdate, PostRegistration, Insert, CreateTicket, Submit, Reject,
  LookUpRecipients, SendMail, Break, db

LEMMA OtherKeepsRequests ==
  ASSUME OtherTransaction
  PROVE UNCHANGED <<orgs, requests, jobs, tickets, lost, rejected>>
BY DEF OtherTransaction, CreateUser, ToggleBlocked, history

LEMMA StoreEffect ==
  ASSUME Types, Checks, NEW h \in Handlers, StoreRequest(h)
  PROVE /\ jobs[h] \in Job /\ IsPosted(jobs[h])
        /\ DOMAIN requests' = DOMAIN requests \cup {jobs[h].req}
        /\ requests'[jobs[h].req].status = "new" /\ requests'[jobs[h].req].pending
        /\ requests'[jobs[h].req].content = jobs[h].content
        /\ requests'[jobs[h].req].ticket <=> jobs[h].step = "ticketed"
        /\ \A q \in DOMAIN requests : requests'[q] = requests[q]
<1>1. jobs[h] \in Job /\ IsPosted(jobs[h])
  BY BusyJob DEF StoreRequest, Checks, Check
<1>2. jobs[h].req \notin DOMAIN requests
  BY <1>1 DEF IsPosted
<1> QED  BY <1>1, <1>2 DEF StoreRequest, Store, MarkerFor, PendingStatuses

LEMMA CommitEffect ==
  ASSUME Types, Checks, NEW h \in Handlers, Commit(h)
  PROVE LET r == jobs[h].req
            c == jobs[h].content
            target == jobs[h].target
        IN  /\ jobs[h] \in Job /\ IsConsidered(jobs[h]) /\ Decide(r, c, target)
            /\ DOMAIN requests' = DOMAIN requests
            /\ requests'[r].status = StatusAfter(r, target)
            /\ requests'[r].pending <=> MarkerFor(StatusAfter(r, target))
            /\ requests'[r].content = c /\ requests'[r].ticket = requests[r].ticket
            /\ \A q \in DOMAIN requests \ {r} : requests'[q] = requests[q]
            /\ target # "accepted" => UNCHANGED <<orgs, users>>
            /\ target = "accepted" /\ r \in Updates => UpdateOrg(c)
            /\ target = "accepted" /\ r \in Registrations => CreateOrg(c)
            /\ r \notin Updates \/ r \notin Registrations
<1> DEFINE r == jobs[h].req
           c == jobs[h].content
           target == jobs[h].target
<1>1. jobs[h] \in Job /\ IsConsidered(jobs[h]) /\ r \in DOMAIN requests
  BY ConsideredTypes DEF Commit
<1>2. Decide(r, c, target)
  BY DEF Commit
<1>3. r \notin Updates \/ r \notin Registrations
  BY OrgRegisterAssumption
<1>4. /\ target # "accepted" => UNCHANGED <<orgs, users>>
      /\ target = "accepted" /\ r \in Updates => UpdateOrg(c)
      /\ target = "accepted" /\ r \in Registrations => CreateOrg(c)
  BY <1>2, <1>3 DEF Decide
<1>5. requests' = [requests EXCEPT ![r] =
                    [@ EXCEPT !.status = StatusAfter(r, target),
                              !.pending = MarkerFor(StatusAfter(r, target)), !.content = c]]
  BY <1>2 DEF Decide
<1>6. requests[r] \in StoredRequest
  BY <1>1 DEF Types, RegisterTypes
<1>7. /\ requests'[r].status = StatusAfter(r, target)
      /\ requests'[r].pending <=> MarkerFor(StatusAfter(r, target))
      /\ requests'[r].content = c /\ requests'[r].ticket = requests[r].ticket
  BY <1>1, <1>5, <1>6 DEF StoredRequest
<1> QED  BY <1>1, <1>2, <1>3, <1>4, <1>5, <1>7

-----------------------------------------------------------------------------
(* The constraints hold whatever is written: of a second pending update the
   writer would have known, or the constraint would have rejected it. *)
LEMMA RegisterPreserved == Types /\ Checks /\ Register /\ [Next]_vars => Register'
<1> SUFFICES ASSUME Types, Checks, Register, [Next]_vars  PROVE Register'
  OBVIOUS
<1>1. CASE UNCHANGED requests
  BY <1>1 DEF Register
<1>2. ASSUME NEW h \in Handlers, StoreRequest(h)  PROVE Register'
  <2> DEFINE r == jobs[h].req
  <2>1. /\ IsPosted(jobs[h])
        /\ DOMAIN requests' = DOMAIN requests \cup {r}
        /\ requests'[r].status = "new" /\ requests'[r].pending
        /\ requests'[r].content = jobs[h].content
        /\ \A q \in DOMAIN requests : requests'[q] = requests[q]
    BY <1>2, StoreEffect
  <2>2. ASSUME r \in Updates, NEW q \in DOMAIN requests \cap Updates,
               requests[q].content.org = jobs[h].content.org
        PROVE ~requests[q].pending
    BY <2>1, <2>2 DEF IsPosted, PendingUpdates
  <2>3. r \notin DOMAIN requests /\ (r \in Updates => jobs[h].content \in Wanted[r])
    BY <2>1 DEF IsPosted
  <2>4. MarkerFor("new")
    BY DEF MarkerFor, PendingStatuses
  <2> HIDE DEF r
  <2> QED  BY <2>1, <2>2, <2>3, <2>4 DEF Register
<1>3. ASSUME NEW h \in Handlers, Commit(h)  PROVE Register'
  <2> DEFINE r == jobs[h].req
             c == jobs[h].content
             after == StatusAfter(r, jobs[h].target)
  <2>1. /\ IsConsidered(jobs[h]) /\ DOMAIN requests' = DOMAIN requests
        /\ requests'[r].status = after /\ (requests'[r].pending <=> MarkerFor(after))
        /\ requests'[r].content = c
        /\ \A q \in DOMAIN requests \ {r} : requests'[q] = requests[q]
    BY <1>3, CommitEffect
  <2>2. /\ r \in DOMAIN requests /\ c \in Wanted[r]
        /\ r \in Updates => c.org = requests[r].content.org
    BY <2>1 DEF IsConsidered
  <2>3. ASSUME r \in Updates, MarkerFor(after), NEW q \in (DOMAIN requests \cap Updates) \ {r},
               requests[q].content.org = c.org
        PROVE ~requests[q].pending
    <3>1. OthersPending(r, c) = {}
      BY <1>3, <2>3 DEF Commit, IsSecondPending
    <3> QED  BY <2>3, <3>1 DEF OthersPending, PendingUpdates
  <2> HIDE DEF r, c, after
  <2> QED  BY <2>1, <2>2, <2>3 DEF Register
<1> QED
  BY Steps, AsideKeepsData, OtherKeepsRequests, <1>1, <1>2, <1>3 DEF vars, db

-----------------------------------------------------------------------------
(* Each step is of one handler; what it does to that handler's job. *)
LEMMA JobEffect ==
  ASSUME Types, NEW h \in Handlers, Aside(h) \/ StoreRequest(h) \/ Commit(h)
  PROVE \A g \in Handlers \ {h} : jobs'[g] = jobs[g]
BY DEF Types, Aside, PostUpdate, PostRegistration, Insert, CreateTicket, Submit, Reject,
  LookUpRecipients, SendMail, Break, StoreRequest, Commit, Start, Proceed, Finish, StartMailing

LEMMA EndsOfJobs ==
  ASSUME Types, NEW h \in Handlers,
         \/ Reject(h) \/ LookUpRecipients(h) \/ SendMail(h) \/ Break(h)
         \/ StoreRequest(h) \/ Commit(h)
  PROVE jobs'[h].step \in {"idle", "committed", "mailing"}
<1>1. ASSUME Finish(h)  PROVE jobs'[h].step = "idle"
  BY <1>1 DEF Finish, Idle, Types
<1>2. ASSUME jobs[h].step # "idle", NEW step \in {"committed", "mailing"}, NEW to,
             Proceed(h, step, to)
      PROVE jobs'[h].step = step
  BY <1>2, BusyJob DEF Proceed, Types, Job
<1>3. ASSUME jobs[h].step # "idle", NEW to, StartMailing(h, to)
      PROVE jobs'[h].step \in {"idle", "mailing"}
  BY <1>1, <1>2, <1>3 DEF StartMailing
<1> QED
  BY <1>1, <1>2, <1>3 DEF Reject, LookUpRecipients, SendMail, Break, StoreRequest, Commit

(* A new request is inserted, and gets its ticket, or its insertion is rejected. *)
LEMMA PostingGoesOn ==
  ASSUME Types, NEW h \in Handlers, Insert(h) \/ CreateTicket(h)
  PROVE \/ jobs'[h] = Idle
        \/ /\ jobs[h] \in Job /\ jobs'[h].step \in {"inserted", "ticketed"}
           /\ jobs'[h].req = jobs[h].req /\ jobs'[h].content = jobs[h].content
           /\ jobs'[h].target = jobs[h].target /\ jobs'[h].rows = jobs[h].rows
           /\ CreateTicket(h) => jobs'[h].to = jobs[h].to
           /\ Insert(h) => jobs'[h].to = NonBlocked(jobs[h].content.org)
           /\ CreateTicket(h) => jobs'[h].step = "ticketed"
<1>1. jobs[h] \in Job
  BY BusyJob DEF Insert, CreateTicket
<1>2. ASSUME NEW step, NEW to, Proceed(h, step, to)
      PROVE /\ jobs'[h].step = step /\ jobs'[h].to = to /\ jobs'[h].req = jobs[h].req
            /\ jobs'[h].content = jobs[h].content /\ jobs'[h].target = jobs[h].target
            /\ jobs'[h].rows = jobs[h].rows
  BY <1>1, <1>2 DEF Proceed, Types, Job
<1>3. CASE Insert(h)
  <2>1. CASE Finish(h)
    BY <2>1 DEF Finish, Types
  <2>2. CASE Proceed(h, "inserted", NonBlocked(jobs[h].content.org))
    BY <1>1, <1>2, <1>3, <2>2 DEF Insert, CreateTicket
  <2> QED  BY <1>3, <2>1, <2>2 DEF Insert
<1>4. CASE CreateTicket(h)
  <2>1. Proceed(h, "ticketed", jobs[h].to) /\ jobs[h].step = "inserted"
    BY <1>4 DEF CreateTicket
  <2> QED  BY <1>1, <1>2, <2>1 DEF Insert
<1> QED  BY <1>3, <1>4

(* What has been read is not written, and what has been written neither read
   nor written: a handler waits, and it reads all that it is going to write. *)
LEMMA LocksPreserved == Types /\ Locks /\ [Next]_vars => Locks'
<1> SUFFICES ASSUME Types, Locks, [Next]_vars  PROVE Locks'
  OBVIOUS
<1> USE DEF Reads, Writes
<1>1. CASE UNCHANGED jobs
  BY <1>1 DEF Locks
<1>2. ASSUME NEW h \in Handlers, Aside(h) \/ StoreRequest(h) \/ Commit(h),
             \A row \in Orgs \cup AnyRequest :
               /\ Writes(h, row)' => Writes(h, row) \/ MayWrite(h, {row})
               /\ Reads(h, row)' => Reads(h, row) \/ MayRead(h, {row})
      PROVE Locks'
  <2>1. \A g \in Handlers \ {h} : jobs'[g] = jobs[g]
    BY <1>2, JobEffect
  <2> QED  BY <1>2, <2>1 DEF Locks, MayWrite, MayRead
<1>3. ASSUME NEW h \in Handlers, PostUpdate(h) \/ Submit(h)  PROVE Locks'
  <2>1. PICK r, c, target, rows : /\ Start(h, "checked", r, c, target, rows)
                                  /\ MayRead(h, rows)
    <3>1. CASE PostUpdate(h)
      BY <3>1, Zenon DEF PostUpdate
    <3>2. CASE Submit(h)
      BY <3>2, Zenon DEF Submit
    <3> QED  BY <1>3, <3>1, <3>2
  <2>2. jobs'[h].step = "checked" /\ jobs'[h].rows = rows
    BY <2>1 DEF Start, Types
  <2>3. \A row \in rows : MayRead(h, {row})
    BY <2>1 DEF MayRead
  <2> QED  BY <1>2, <1>3, <2>2, <2>3 DEF Aside
<1>4. ASSUME NEW h \in Handlers, PostRegistration(h)  PROVE Locks'
  <2>1. PICK r, c : Start(h, "inserted", r, c, "new", {})
    BY <1>4, Zenon DEF PostRegistration
  <2>2. jobs'[h].step = "inserted" /\ jobs'[h].rows = {}
    BY <2>1 DEF Start, Types
  <2> QED  BY <1>2, <1>4, <2>2 DEF Aside
<1>5. ASSUME NEW h \in Handlers, Insert(h) \/ CreateTicket(h)  PROVE Locks'
  <2>1. /\ Insert(h) => MayWrite(h, jobs[h].rows)
        /\ CreateTicket(h) => jobs[h].step = "inserted"
    BY DEF Insert, CreateTicket
  <2>2. \A row \in jobs[h].rows : Insert(h) => MayWrite(h, {row})
    BY <2>1 DEF MayWrite
  <2>3. \/ jobs'[h].step = "idle"
        \/ jobs'[h].step \in {"inserted", "ticketed"} /\ jobs'[h].rows = jobs[h].rows
    BY <1>5, PostingGoesOn DEF Idle
  <2> QED  BY <1>2, <1>5, <2>1, <2>2, <2>3 DEF Aside
<1>6. ASSUME NEW h \in Handlers,
             \/ Reject(h) \/ LookUpRecipients(h) \/ SendMail(h) \/ Break(h)
             \/ StoreRequest(h) \/ Commit(h)
      PROVE Locks'
  <2>1. jobs'[h].step \in {"idle", "committed", "mailing"}
    BY <1>6, EndsOfJobs
  <2> QED  BY <1>2, <1>6, <2>1 DEF Aside
<1> QED
  BY Steps, OtherKeepsRequests, <1>1, <1>3, <1>4, <1>5, <1>6 DEF Aside, vars

(* Nobody posts a request that another one is posting. *)
LEMMA OwnRequestsPreserved == Types /\ OwnRequests /\ [Next]_vars => OwnRequests'
<1> SUFFICES ASSUME Types, OwnRequests, [Next]_vars  PROVE OwnRequests'
  OBVIOUS
<1>1. CASE UNCHANGED jobs
  BY <1>1 DEF OwnRequests, Posts
<1>2. ASSUME NEW h \in Handlers, Aside(h) \/ StoreRequest(h) \/ Commit(h),
             \A r \in AnyRequest :
               Posts(h, r)' => Posts(h, r) \/ (\A g \in Handlers : ~Posts(g, r))
      PROVE OwnRequests'
  <2>1. \A g \in Handlers \ {h} : jobs'[g] = jobs[g]
    BY <1>2, JobEffect
  <2> QED  BY <1>2, <2>1 DEF OwnRequests, Posts
<1>3. ASSUME NEW h \in Handlers, PostUpdate(h) \/ PostRegistration(h)  PROVE OwnRequests'
  <2>1. PICK step, r, c, target, rows : Start(h, step, r, c, target, rows) /\ Unused(r)
    <3>1. CASE PostUpdate(h)
      BY <3>1, Zenon DEF PostUpdate
    <3>2. CASE PostRegistration(h)
      BY <3>2, Zenon DEF PostRegistration
    <3> QED  BY <1>3, <3>1, <3>2
  <2>2. jobs'[h].req = r
    BY <2>1 DEF Start, Types
  <2>3. \A g \in Handlers : ~Posts(g, r)
    BY <2>1 DEF Unused, Posts, Idle
  <2> QED  BY <1>2, <1>3, <2>2, <2>3 DEF Aside, Posts
<1>4. ASSUME NEW h \in Handlers, Submit(h)  PROVE OwnRequests'
  <2>1. \E r \in DOMAIN requests : \E c \in Wanted[r], target \in Targets :
          Start(h, "checked", r, c, target, RowsOf(r, c))
    BY <1>4 DEF Submit
  <2>2. jobs'[h].target # "new"
    BY <2>1 DEF Start, Types, Targets
  <2> QED  BY <1>2, <1>4, <2>2 DEF Aside, Posts
<1>5. ASSUME NEW h \in Handlers, Insert(h) \/ CreateTicket(h)  PROVE OwnRequests'
  <2>1. jobs[h].step \in {"checked", "inserted"}
    BY <1>5 DEF Insert, CreateTicket
  <2>2. \A r \in AnyRequest : Posts(h, r)' => Posts(h, r)
    BY <1>5, <2>1, PostingGoesOn DEF Posts, Idle
  <2> QED  BY <1>2, <1>5, <2>2 DEF Aside
<1>6. ASSUME NEW h \in Handlers,
             \/ Reject(h) \/ LookUpRecipients(h) \/ SendMail(h) \/ Break(h)
             \/ StoreRequest(h) \/ Commit(h)
      PROVE OwnRequests'
  <2>1. jobs'[h].step \in {"idle", "committed", "mailing"}
    BY <1>6, EndsOfJobs
  <2> QED  BY <1>2, <1>6, <2>1 DEF Aside, Posts
<1> QED
  BY Steps, OtherKeepsRequests, <1>1, <1>3, <1>4, <1>5, <1>6 DEF Aside, vars

-----------------------------------------------------------------------------
(* Who has checked something posts a request or considers one. *)
LEMMA KindsOfJobs ==
  ASSUME Checks, NEW g \in Handlers, jobs[g].step \in {"checked", "inserted", "ticketed"}
  PROVE IF jobs[g].target = "new" THEN IsPosted(jobs[g])
        ELSE jobs[g].step = "checked" /\ IsConsidered(jobs[g])
BY DEF Checks, Check, IsPosted, IsConsidered, Targets

(* What a check depends on. *)
LEMMA CheckKept ==
  ASSUME NEW g \in Handlers, jobs'[g] = jobs[g], Check(jobs[g]),
         jobs[g].step \in {"checked", "inserted", "ticketed"} =>
           /\ jobs[g].target = "new" => jobs[g].req \notin DOMAIN requests'
           /\ jobs[g].req \in DOMAIN requests =>
                /\ jobs[g].req \in DOMAIN requests'
                /\ requests'[jobs[g].req].status = requests[jobs[g].req].status
                /\ requests'[jobs[g].req].content.org = requests[jobs[g].req].content.org
           /\ jobs[g].req \in Updates =>
                PendingUpdates(jobs[g].content.org)' = PendingUpdates(jobs[g].content.org)
           /\ jobs[g].step = "checked" \/ jobs[g].req \in Updates =>
                (jobs[g].content.org \in DOMAIN orgs' <=> jobs[g].content.org \in DOMAIN orgs)
  PROVE Check(jobs[g])'
<1>1. ASSUME jobs[g].step \in {"checked", "inserted", "ticketed"}, IsPosted(jobs[g])
      PROVE IsPosted(jobs[g])'
  BY <1>1 DEF IsPosted
<1>2. ASSUME jobs[g].step = "checked", IsConsidered(jobs[g])
      PROVE IsConsidered(jobs[g])'
  <2>1. MayBecome(jobs[g].req, jobs[g].content, jobs[g].target)
          => MayBecome(jobs[g].req, jobs[g].content, jobs[g].target)'
    BY <1>2 DEF IsConsidered, MayBecome, OthersPending
  <2> QED  BY <1>2, <2>1 DEF IsConsidered
<1> QED  BY <1>1, <1>2 DEF Check

(* While a handler has not finished, what it has checked still holds: nobody
   else may write the rows that it has read. *)
LEMMA ChecksPreserved ==
  Types /\ Register /\ Locks /\ OwnRequests /\ Checks /\ [Next]_vars => Checks'
<1> SUFFICES ASSUME Types, Register, Locks, OwnRequests, Checks, [Next]_vars  PROVE Checks'
  OBVIOUS
<1>1. ASSUME UNCHANGED <<orgs, requests>>, NEW g \in Handlers, jobs'[g] = jobs[g]
      PROVE Check(jobs[g])'
  <2>1. \A o : PendingUpdates(o)' = PendingUpdates(o)
    BY <1>1 DEF PendingUpdates
  <2>2. jobs[g].step \in {"checked", "inserted", "ticketed"} /\ jobs[g].target = "new"
          => jobs[g].req \notin DOMAIN requests'
    BY <1>1, KindsOfJobs DEF IsPosted
  <2> QED  BY <1>1, <2>1, <2>2, CheckKept DEF Checks
<1>2. ASSUME NEW h \in Handlers, Aside(h), Check(jobs[h])'  PROVE Checks'
  BY <1>1, <1>2, JobEffect, AsideKeepsData DEF Checks
<1>3. ASSUME NEW h \in Handlers, PostUpdate(h)  PROVE Checks'
  <2>1. PICK r \in Updates : \E c \in Wanted[r] :
          /\ c.org \in DOMAIN orgs /\ PendingUpdates(c.org) = {} /\ Unused(r)
          /\ Start(h, "checked", r, c, "new", {c.org})
    BY <1>3 DEF PostUpdate
  <2>2. PICK c \in Wanted[r] :
          /\ c.org \in DOMAIN orgs /\ PendingUpdates(c.org) = {} /\ Unused(r)
          /\ Start(h, "checked", r, c, "new", {c.org})
    BY <2>1
  <2>3. /\ jobs'[h].step = "checked" /\ jobs'[h].req = r /\ jobs'[h].content = c
        /\ jobs'[h].target = "new" /\ jobs'[h].rows = {c.org}
    BY <2>2 DEF Start, Types
  <2>4. r \notin Registrations /\ r \notin DOMAIN requests
    BY <2>2, OrgRegisterAssumption DEF Unused
  <2>5. UNCHANGED <<orgs, requests>>
    BY <1>3, AsideKeepsData DEF Aside
  <2>6. IsPosted(jobs[h])'
    BY <2>2, <2>3, <2>4, <2>5 DEF IsPosted, PendingUpdates
  <2> QED  BY <1>2, <1>3, <2>3, <2>6 DEF Aside, Check
<1>4. ASSUME NEW h \in Handlers, PostRegistration(h)  PROVE Checks'
  <2>1. PICK r \in Registrations : \E c \in Wanted[r] :
          Unused(r) /\ Start(h, "inserted", r, [c EXCEPT !.grouped = FALSE], "new", {})
    BY <1>4 DEF PostRegistration
  <2>2. PICK c \in Wanted[r] :
          Unused(r) /\ Start(h, "inserted", r, [c EXCEPT !.grouped = FALSE], "new", {})
    BY <2>1
  <2>3. /\ jobs'[h].step = "inserted" /\ jobs'[h].req = r
        /\ jobs'[h].content = [c EXCEPT !.grouped = FALSE]
        /\ jobs'[h].target = "new" /\ jobs'[h].rows = {}
    BY <2>2 DEF Start, Types
  <2>4. r \notin Updates /\ r \notin DOMAIN requests
    BY <2>2, OrgRegisterAssumption DEF Unused
  <2>5. UNCHANGED <<orgs, requests>>
    BY <1>4, AsideKeepsData DEF Aside
  <2>6. IsPosted(jobs[h])'
    BY <2>2, <2>3, <2>4, <2>5 DEF IsPosted
  <2> QED  BY <1>2, <1>4, <2>3, <2>6 DEF Aside, Check
<1>5. ASSUME NEW h \in Handlers, Submit(h)  PROVE Checks'
  <2>1. PICK r \in DOMAIN requests : \E c \in Wanted[r], target \in Targets :
          /\ r \in Updates => c.org = requests[r].content.org
          /\ target # "keep" => MayBecome(r, c, target)
          /\ Start(h, "checked", r, c, target, RowsOf(r, c))
    BY <1>5 DEF Submit
  <2>2. PICK c \in Wanted[r], target \in Targets :
          /\ r \in Updates => c.org = requests[r].content.org
          /\ target # "keep" => MayBecome(r, c, target)
          /\ Start(h, "checked", r, c, target, RowsOf(r, c))
    BY <2>1
  <2>3. /\ jobs'[h].step = "checked" /\ jobs'[h].req = r /\ jobs'[h].content = c
        /\ jobs'[h].target = target /\ jobs'[h].rows = RowsOf(r, c)
    BY <2>2 DEF Start, Types
  <2>4. UNCHANGED <<orgs, requests>>
    BY <1>5, AsideKeepsData DEF Aside
  <2>5. MayBecome(r, c, target) => MayBecome(r, c, target)'
    BY <2>4 DEF MayBecome, OthersPending, PendingUpdates
  <2>6. IsConsidered(jobs[h])'
    BY <2>2, <2>3, <2>4, <2>5 DEF IsConsidered
  <2> QED  BY <1>2, <1>5, <2>3, <2>6 DEF Aside, Check
<1>6. ASSUME NEW h \in Handlers, Insert(h) \/ CreateTicket(h)  PROVE Checks'
  <2>1. IsPosted(jobs[h])
    BY <1>6 DEF Insert, CreateTicket, Checks, Check, IsConsidered, Targets
  <2>2. UNCHANGED <<orgs, requests>>
    BY <1>6, AsideKeepsData DEF Aside
  <2>3. CASE jobs'[h].step = "idle"
    BY <1>2, <1>6, <2>3 DEF Aside, Check
  <2>4. CASE jobs'[h].step \in {"inserted", "ticketed"}
    <3>1. /\ jobs'[h].req = jobs[h].req /\ jobs'[h].content = jobs[h].content
          /\ jobs'[h].target = jobs[h].target /\ jobs'[h].rows = jobs[h].rows
      BY <1>6, <2>4, PostingGoesOn DEF Idle
    <3>2. IsPosted(jobs[h])'
      BY <2>1, <2>2, <2>4, <3>1 DEF IsPosted, PendingUpdates
    <3> QED  BY <1>2, <1>6, <2>4, <3>2 DEF Aside, Check
  <2> QED  BY <1>6, <2>3, <2>4, PostingGoesOn DEF Idle
<1>7. ASSUME NEW h \in Handlers, Reject(h) \/ LookUpRecipients(h) \/ SendMail(h) \/ Break(h)
      PROVE Checks'
  <2>1. jobs'[h].step \in {"idle", "committed", "mailing"}
    BY <1>7, EndsOfJobs
  <2> QED  BY <1>2, <1>7, <2>1 DEF Aside, Check
<1>8. ASSUME NEW h \in Handlers, StoreRequest(h)  PROVE Checks'
  <2> DEFINE r == jobs[h].req
             o == jobs[h].content.org
  <2>1. /\ IsPosted(jobs[h])
        /\ DOMAIN requests' = DOMAIN requests \cup {r}
        /\ requests'[r].content = jobs[h].content
        /\ \A q \in DOMAIN requests : requests'[q] = requests[q]
        /\ UNCHANGED orgs /\ jobs[h] \in Job
    BY <1>8, StoreEffect DEF StoreRequest
  <2>2. jobs[h].step \in {"inserted", "ticketed"} /\ jobs[h].target = "new" /\ r \in AnyRequest
    BY <1>8, <2>1 DEF StoreRequest, IsPosted, Job
  <2>3. r \in Updates => Writes(h, o) /\ o \in Orgs
    BY <2>1, <2>2, ContentTypes DEF IsPosted, Writes
  <2>4. ASSUME NEW g \in Handlers \ {h}  PROVE Check(jobs[g])'
    <3>1. jobs'[g] = jobs[g]
      BY <1>8, JobEffect
    <3>2. ASSUME jobs[g].step \in {"checked", "inserted", "ticketed"}, jobs[g].target = "new"
          PROVE jobs[g].req \notin DOMAIN requests'
      <4>1. IsPosted(jobs[g])
        BY <3>2, KindsOfJobs
      <4>2. jobs[g].req # r
        BY <2>2, <3>2 DEF OwnRequests, Posts
      <4> QED  BY <2>1, <4>1, <4>2 DEF IsPosted
    <3>3. ASSUME jobs[g].step \in {"checked", "inserted", "ticketed"}, jobs[g].req \in Updates,
                 r \in Updates
          PROVE jobs[g].content.org # o
      <4>1. jobs[g].rows = {jobs[g].content.org}
        BY <3>3, KindsOfJobs DEF IsPosted, IsConsidered, RowsOf
      <4>2. ~Reads(g, o) /\ ~Writes(g, o)
        BY <2>3, <3>3 DEF Locks
      <4> QED  BY <3>3, <4>1, <4>2 DEF Reads, Writes
    <3>4. ASSUME jobs[g].step \in {"checked", "inserted", "ticketed"}, jobs[g].req \in Updates
          PROVE PendingUpdates(jobs[g].content.org)' = PendingUpdates(jobs[g].content.org)
      <4>1. r \notin DOMAIN requests
        BY <2>1 DEF IsPosted
      <4> HIDE DEF r, o
      <4>2. \A q : q \in PendingUpdates(jobs[g].content.org)'
                    <=> q \in PendingUpdates(jobs[g].content.org)
        BY <2>1, <3>1, <3>3, <3>4, <4>1 DEF PendingUpdates, o
      <4> QED  BY <3>1, <4>2
    <3> QED  BY <2>1, <3>1, <3>2, <3>4, CheckKept DEF Checks
  <2>5. Check(jobs[h])'
    BY <1>8, EndsOfJobs DEF Check
  <2> QED  BY <2>4, <2>5 DEF Checks
<1>9. ASSUME NEW h \in Handlers, Commit(h)  PROVE Checks'
  <2> DEFINE r == jobs[h].req
             c == jobs[h].content
  <2>1. /\ IsConsidered(jobs[h]) /\ DOMAIN requests' = DOMAIN requests
        /\ requests'[r].content = c
        /\ \A q \in DOMAIN requests \ {r} : requests'[q] = requests[q]
    BY <1>9, CommitEffect
  <2>2. /\ r \in DOMAIN requests /\ jobs[h].rows = RowsOf(r, c)
        /\ r \in Updates => c.org = requests[r].content.org
        /\ MayWrite(h, RowsOf(r, c))
    BY <1>9, <2>1 DEF IsConsidered, Commit
  <2>3. \A o : o # c.org => (o \in DOMAIN orgs' <=> o \in DOMAIN orgs)
    <3>1. jobs[h].target # "accepted" => UNCHANGED orgs
      BY <1>9, CommitEffect
    <3>2. jobs[h].target = "accepted" => UpdateOrg(c) \/ CreateOrg(c)
      <4>1. r \in AnyRequest
        BY <2>2 DEF Types, RegisterTypes
      <4> QED  BY <1>9, <4>1, CommitEffect DEF AnyRequest
    <3> HIDE DEF c
    <3>3. UpdateOrg(c) => DOMAIN orgs' = DOMAIN orgs
      BY DEF UpdateOrg
    <3>4. CreateOrg(c) => DOMAIN orgs' = DOMAIN orgs \cup {c.org}
      BY DEF CreateOrg
    <3> QED  BY <3>1, <3>2, <3>3, <3>4
  <2>4. ASSUME NEW g \in Handlers \ {h}  PROVE Check(jobs[g])'
    <3> DEFINE j == jobs[g]
    <3>1. jobs'[g] = jobs[g]
      BY <1>9, JobEffect
    <3>2. \A row \in RowsOf(r, c) :
            j.step \in {"checked", "inserted", "ticketed"} => row \notin j.rows
      BY <2>2 DEF MayWrite, Reads, Writes
    <3>3. ASSUME j.step \in {"checked", "inserted", "ticketed"}
          PROVE /\ IF j.target = "new" THEN IsPosted(j) ELSE j.step = "checked" /\ IsConsidered(j)
                /\ j.req \in AnyRequest
      BY <3>3, KindsOfJobs, BusyJob DEF Job
    <3>4. ASSUME j.step \in {"checked", "inserted", "ticketed"},
                 j.step = "checked" \/ j.req \in Updates
          PROVE j.content.org \in j.rows
      <4>1. CASE j.target = "new"
        BY <3>3, <3>4, <4>1 DEF IsPosted, AnyRequest
      <4>2. CASE j.target # "new"
        BY <3>3, <3>4, <4>2 DEF IsConsidered, RowsOf
      <4> QED  BY <4>1, <4>2
    <3>5. c.org \in RowsOf(r, c) /\ (r \notin Updates => r \in RowsOf(r, c))
      BY DEF RowsOf
    <3>6. ASSUME j.step \in {"checked", "inserted", "ticketed"},
                 j.step = "checked" \/ j.req \in Updates
          PROVE j.content.org # c.org
      BY <3>2, <3>4, <3>5, <3>6
    <3>7. ASSUME j.step \in {"checked", "inserted", "ticketed"}, j.req \in DOMAIN requests
          PROVE j.req # r
      <4>1. /\ j.step = "checked" /\ j.rows = RowsOf(j.req, j.content)
            /\ j.req \in Updates => j.content.org = requests[j.req].content.org
        BY <3>3, <3>7 DEF IsPosted, IsConsidered
      <4>2. CASE r \in Updates
        BY <2>2, <3>6, <4>1, <4>2
      <4>3. CASE r \notin Updates
        BY <3>2, <3>5, <4>1, <4>3 DEF RowsOf
      <4> QED  BY <4>2, <4>3
    <3>8. ASSUME j.step \in {"checked", "inserted", "ticketed"}, j.req \in Updates
          PROVE PendingUpdates(j.content.org)' = PendingUpdates(j.content.org)
      <4> DEFINE o == j.content.org
      <4>1. o # c.org
        BY <3>6, <3>8
      <4> HIDE DEF r, c, o
      <4>2. \A q : q \in DOMAIN requests \cap Updates =>
              (requests'[q].content.org = o /\ requests'[q].pending
                <=> requests[q].content.org = o /\ requests[q].pending)
        BY <2>1, <2>2, <4>1
      <4>3. {q \in DOMAIN requests' \cap Updates : requests'[q].content.org = o /\ requests'[q].pending}
              = {q \in DOMAIN requests \cap Updates : requests[q].content.org = o /\ requests[q].pending}
        BY <2>1, <4>2
      <4> QED  BY <3>1, <4>3 DEF PendingUpdates, o
    <3>9. ASSUME j.step \in {"checked", "inserted", "ticketed"}, j.target = "new"
          PROVE j.req \notin DOMAIN requests'
      BY <2>1, <3>3, <3>9 DEF IsPosted
    <3>10. ASSUME j.step \in {"checked", "inserted", "ticketed"}, j.req \in DOMAIN requests
           PROVE requests'[j.req] = requests[j.req] /\ j.req \in DOMAIN requests'
      BY <2>1, <3>7, <3>10
    <3> HIDE DEF r, c
    <3> QED  BY <2>3, <3>1, <3>6, <3>8, <3>9, <3>10, CheckKept DEF Checks
  <2>5. Check(jobs[h])'
    BY <1>9, EndsOfJobs DEF Check
  <2> QED  BY <2>4, <2>5 DEF Checks
<1>10. CASE OtherTransaction \/ UNCHANGED vars
  <2>1. UNCHANGED <<orgs, requests, jobs>>
    BY <1>10, OtherKeepsRequests DEF vars, db
  <2> QED  BY <1>1, <2>1 DEF Checks
<1> QED
  BY Steps, <1>3, <1>4, <1>5, <1>6, <1>7, <1>8, <1>9, <1>10 DEF Aside

-----------------------------------------------------------------------------
(* Nobody inserts a second pending request of an organization: the one that
   posts it knows of no other, and the one that decides makes a request pending
   only if there is no other, or if it is already. *)
LEMMA ConstraintNotNeeded ==
  Types /\ Register /\ Checks /\ ~rejected /\ [Next]_vars => ~rejected'
<1> SUFFICES ASSUME Types, Register, Checks, ~rejected, [Next]_vars  PROVE ~rejected'
  OBVIOUS
<1>1. ASSUME NEW h \in Handlers, Insert(h)  PROVE ~rejected'
  <2>1. IsPosted(jobs[h]) /\ jobs[h] \in Job
    BY <1>1, BusyJob DEF Insert, Checks, Check, IsConsidered, Targets
  <2>2. PendingUpdates(jobs[h].content.org) = {}
    BY <1>1, <2>1 DEF IsPosted, Insert, Job, AnyRequest
  <2> QED  BY <1>1, <2>2 DEF Insert
<1>2. ASSUME NEW h \in Handlers, Reject(h)  PROVE ~rejected'
  <2> DEFINE r == jobs[h].req
             c == jobs[h].content
             target == jobs[h].target
  <2>1. IsConsidered(jobs[h])
    BY <1>2, ConsideredTypes DEF Reject
  <2>2. ASSUME IsSecondPending(r, c, target)  PROVE FALSE
    <3>1. /\ r \in Updates /\ MarkerFor(StatusAfter(r, target)) /\ OthersPending(r, c) # {}
          /\ r \in DOMAIN requests /\ c.org = requests[r].content.org
          /\ r \notin Registrations
      BY <2>1, <2>2, OrgRegisterAssumption DEF IsSecondPending, IsConsidered
    <3>2. CASE target = "keep"
      <4>1. requests[r].pending
        BY <3>1, <3>2 DEF Register, StatusAfter
      <4> QED  BY <3>1, <4>1 DEF Register, OthersPending, PendingUpdates
    <3>3. CASE target = "being_processed"
      BY <2>1, <3>1, <3>3 DEF IsConsidered, MayBecome
    <3>4. CASE target \in {"discarded", "accepted"}
      BY <3>1, <3>4 DEF StatusAfter, MarkerFor, PendingStatuses
    <3> QED  BY <2>1, <3>2, <3>3, <3>4 DEF IsConsidered, Targets
  <2> QED  BY <1>2, <2>2 DEF Reject
<1>3. ASSUME NEW h \in Handlers,
             \/ PostUpdate(h) \/ PostRegistration(h) \/ CreateTicket(h) \/ Submit(h)
             \/ LookUpRecipients(h) \/ SendMail(h) \/ Break(h) \/ StoreRequest(h) \/ Commit(h)
      PROVE ~rejected'
  BY <1>3 DEF PostUpdate, PostRegistration, CreateTicket, Submit, LookUpRecipients, SendMail,
    Break, StoreRequest, Commit, history
<1>4. CASE OtherTransaction \/ UNCHANGED vars
  BY <1>4, OtherKeepsRequests DEF vars, history
<1> QED
  BY Steps, <1>1, <1>2, <1>3, <1>4 DEF Aside

-----------------------------------------------------------------------------
LEMMA RegisterInvariantInitially == Init => RequestsInvariant
<1> SUFFICES ASSUME Init  PROVE RequestsInvariant
  OBVIOUS
<1>1. Types
  BY OrgRegisterAssumption DEF Init, RegisterInit, Types, RegisterTypes
<1>2. Register /\ ~rejected
  BY DEF Init, RegisterInit, Register
<1>3. Locks /\ Checks /\ OwnRequests
  BY DEF Init, Idle, Locks, Checks, Check, OwnRequests, Reads, Writes, Posts
<1> QED  BY <1>1, <1>2, <1>3 DEF RequestsInvariant

LEMMA InvariantPreserved == RequestsInvariant /\ [Next]_vars => RequestsInvariant'
BY TypesPreserved, RegisterPreserved, LocksPreserved, ChecksPreserved, OwnRequestsPreserved,
  ConstraintNotNeeded DEF RequestsInvariant

(* What the handlers know of the requests they are working on stays true. *)
THEOREM InvariantHolds == Spec => []RequestsInvariant
BY RegisterInvariantInitially, InvariantPreserved, PTL DEF Spec

(* The constraint of the database never has to reject a request: the code's own
   checks (pending_config_update_request and what relies on it) suffice. *)
THEOREM ConstraintNeverNeeded == Spec => []ConstraintIsNotNeeded
<1>1. RequestsInvariant => ConstraintIsNotNeeded
  BY DEF RequestsInvariant, ConstraintIsNotNeeded
<1> QED  BY <1>1, InvariantHolds, PTL
-----------------------------------------------------------------------------
(* Each step is one of the register's, or the register does not notice it. *)
LEMMA StepImplementsRegister == RequestsInvariant /\ [Next]_vars => [RegisterNext]_db
<1> SUFFICES ASSUME RequestsInvariant, [Next]_vars  PROVE [RegisterNext]_db
  OBVIOUS
<1> USE DEF RequestsInvariant
<1>1. ASSUME NEW h \in Handlers, Aside(h)  PROVE UNCHANGED db
  BY <1>1, AsideKeepsData DEF db
<1>2. ASSUME NEW h \in Handlers, StoreRequest(h)  PROVE AskForUpdate \/ AskForRegistration
  <2> DEFINE r == jobs[h].req
             c == jobs[h].content
             ticket == (jobs[h].step = "ticketed")
  <2>1. /\ IsPosted(jobs[h]) /\ r \in AnyRequest /\ r \notin DOMAIN requests
        /\ Store(r, c, ticket) /\ UNCHANGED <<orgs, users>> /\ ticket \in BOOLEAN
    BY <1>2, StoreEffect DEF StoreRequest, IsPosted, Job
  <2>2. CASE r \in Updates
    <3>1. c \in Wanted[r] /\ c.org \in DOMAIN orgs /\ PendingUpdates(c.org) = {}
      BY <2>1, <2>2 DEF IsPosted
    <3> HIDE DEF r, c, ticket
    <3> QED  BY <2>1, <2>2, <3>1 DEF AskForUpdate
  <2>3. CASE r \in Registrations
    <3>1. PICK wanted \in Wanted[r] : c = [wanted EXCEPT !.grouped = FALSE]
      BY <2>1, <2>3 DEF IsPosted
    <3> HIDE DEF r, c, ticket
    <3> QED  BY <2>1, <2>3, <3>1, Zenon DEF AskForRegistration
  <2> QED  BY <2>1, <2>2, <2>3 DEF AnyRequest
<1>3. ASSUME NEW h \in Handlers, Commit(h)  PROVE Consider
  <2> DEFINE r == jobs[h].req
             c == jobs[h].content
             target == jobs[h].target
  <2>1. IsConsidered(jobs[h]) /\ Decide(r, c, target)
    BY <1>3, CommitEffect
  <2>2. IsCreatable(r, c, target)
    BY <1>3 DEF Commit, IsTaken, IsCreatable
  <2>3. /\ r \in DOMAIN requests /\ c \in Wanted[r] /\ target \in Targets
        /\ r \in Updates => c.org = requests[r].content.org
        /\ target # "keep" => MayBecome(r, c, target)
    BY <2>1 DEF IsConsidered
  <2> HIDE DEF r, c, target
  <2> QED  BY <2>1, <2>2, <2>3 DEF Consider
<1>4. CASE OtherTransaction
  BY <1>4 DEF OtherTransaction, RegisterNext, Types, RegisterTypes
<1>5. CASE UNCHANGED vars
  BY <1>5 DEF vars
<1> QED
  BY Steps, <1>1, <1>2, <1>3, <1>4, <1>5 DEF RegisterNext

(* The concurrent transactions of the portal and the Admin Panel implement the
   register, in which everything happens one step at a time: between the checks
   of a handler and its commit nothing becomes of what it has checked. *)
THEOREM RegisterImplemented == Spec => ImplementsRegister
<1>1. Init => RegisterInit
  BY DEF Init
<1> QED
  BY <1>1, InvariantHolds, StepImplementsRegister, PTL DEF Spec, ImplementsRegister, RegisterSpec

-----------------------------------------------------------------------------
(* What an accepted update makes of the users. *)
LEMMA UpdatedUsersEffect ==
  ASSUME Types, NEW c, c.add \subseteq Logins, users' = UpdatedUsers(c.org, c)
  PROVE /\ DOMAIN users' = DOMAIN users \cup c.add
        /\ \A u \in DOMAIN users : users'[u].org = users[u].org
        /\ \A u \in DOMAIN users : users[u].org # c.org => users'[u] = users[u]
        /\ \A u \in c.remove \cap DOMAIN users' : users'[u].org = c.org => users'[u].blocked
        /\ \A u \in c.add \ c.remove :
             u \in DOMAIN users' /\ (users'[u].org = c.org => ~users'[u].blocked)
<1> DEFINE us == Activated(users, c.org, c.add)
<1>1. DOMAIN us = DOMAIN users \cup c.add
  BY DEF Activated
<1>2. \A u \in DOMAIN us : us[u] = IF u \notin DOMAIN users THEN [org |-> c.org, blocked |-> FALSE]
                                   ELSE IF u \in c.add /\ users[u].org = c.org
                                          THEN [users[u] EXCEPT !.blocked = FALSE]
                                   ELSE users[u]
  BY DEF Activated
<1>3. \A u \in DOMAIN users : users[u] \in [org : Orgs, blocked : BOOLEAN]
  BY DEF Types, RegisterTypes
<1>4. \A u \in DOMAIN us :
        /\ DOMAIN us[u] = {"org", "blocked"}
        /\ us[u].org = (IF u \in DOMAIN users THEN users[u].org ELSE c.org)
        /\ us[u].org # c.org => us[u] = users[u]
        /\ u \in c.add /\ us[u].org = c.org => ~us[u].blocked
  <2> HIDE DEF us
  <2> SUFFICES ASSUME NEW u \in DOMAIN us
               PROVE  /\ DOMAIN us[u] = {"org", "blocked"}
                      /\ us[u].org = (IF u \in DOMAIN users THEN users[u].org ELSE c.org)
                      /\ us[u].org # c.org => us[u] = users[u]
                      /\ u \in c.add /\ us[u].org = c.org => ~us[u].blocked
    OBVIOUS
  <2>1. CASE u \notin DOMAIN users
    <3>1. us[u] = [org |-> c.org, blocked |-> FALSE]
      BY <1>2, <2>1
    <3> QED  BY <2>1, <3>1
  <2>2. CASE u \in DOMAIN users /\ u \in c.add /\ users[u].org = c.org
    <3>1. us[u] = [users[u] EXCEPT !.blocked = FALSE] /\ users[u] \in [org : Orgs, blocked : BOOLEAN]
      BY <1>2, <1>3, <2>2
    <3> QED  BY <2>2, <3>1
  <2>3. CASE u \in DOMAIN users /\ ~(u \in c.add /\ users[u].org = c.org)
    <3>1. us[u] = users[u] /\ users[u] \in [org : Orgs, blocked : BOOLEAN]
      BY <1>2, <1>3, <2>3
    <3> QED  BY <2>3, <3>1
  <2> QED  BY <2>1, <2>2, <2>3
<1>5. users' = [u \in DOMAIN us |->
                 IF u \in c.remove /\ us[u].org = c.org THEN [us[u] EXCEPT !.blocked = TRUE]
                 ELSE us[u]]
  BY DEF UpdatedUsers, Deactivated
<1> HIDE DEF us
<1>6. \A u \in DOMAIN us :
        /\ users'[u].org = us[u].org
        /\ u \in c.remove /\ us[u].org = c.org => users'[u].blocked
        /\ u \notin c.remove \/ us[u].org # c.org => users'[u] = us[u]
  BY <1>4, <1>5
<1>7. DOMAIN users' = DOMAIN us
  BY <1>5
<1> QED  BY <1>1, <1>4, <1>6, <1>7

(* Only a commit makes an update accepted, and it updates the organization. *)
LEMMA StepTakesEffect ==
  ASSUME RequestsInvariant, [Next]_vars,
         NEW r \in Updates, r \in DOMAIN requests,
         requests[r].status # "accepted", requests'[r].status = "accepted"
  PROVE LET c == requests'[r].content
        IN  c.add \subseteq Logins /\ users' = UpdatedUsers(c.org, c)
<1> USE DEF RequestsInvariant
<1>1. PICK h \in Handlers : StoreRequest(h) \/ Commit(h)
  BY Steps, AsideKeepsData, OtherKeepsRequests DEF vars, db
<1>2. ~StoreRequest(h)
  BY StoreEffect
<1>3. jobs[h].req = r
  BY <1>1, <1>2, CommitEffect
<1>4. /\ requests'[r].status = StatusAfter(r, jobs[h].target)
      /\ requests'[r].content = jobs[h].content /\ IsConsidered(jobs[h])
      /\ jobs[h].target = "accepted" => UpdateOrg(jobs[h].content)
  BY <1>1, <1>2, <1>3, CommitEffect
<1>5. jobs[h].target = "accepted"
  BY <1>4 DEF StatusAfter
<1>6. jobs[h].content.add \subseteq Logins
  BY <1>3, <1>4, ContentTypes DEF IsConsidered, AnyRequest
<1> QED  BY <1>4, <1>5, <1>6 DEF UpdateOrg

(* An accepted update has the effect that it announces. *)
THEOREM UpdatesTakeEffect == Spec => UpdateTakesEffect
<1> DEFINE Effect ==
      \A r \in Updates :
        r \in DOMAIN requests /\ requests[r].status # "accepted" /\ requests'[r].status = "accepted" =>
          LET c == requests'[r].content
          IN  /\ \A u \in c.remove \cap DOMAIN users' :
                   users'[u].org = c.org => users'[u].blocked
              /\ \A u \in c.add \ c.remove :
                   /\ u \in DOMAIN users'
                   /\ users'[u].org = c.org => ~users'[u].blocked
              /\ \A u \in DOMAIN users : users[u].org # c.org => users'[u] = users[u]
<1>1. RequestsInvariant /\ [Next]_vars => [Effect]_vars
  <2> SUFFICES ASSUME RequestsInvariant, [Next]_vars  PROVE Effect
    OBVIOUS
  <2> QED  BY StepTakesEffect, UpdatedUsersEffect DEF RequestsInvariant
<1> QED  BY <1>1, InvariantHolds, PTL DEF Spec, UpdateTakesEffect
-----------------------------------------------------------------------------
(* What a handler is going to tell, or is telling, and to whom. *)
Tells(j) ==
  /\ j.step \in {"inserted", "ticketed"} /\ j.req \in Updates =>
       \A u \in j.to : u \in DOMAIN users /\ users[u].org = j.content.org
  /\ j.step \in {"committed", "mailing"} =>
       /\ j.req \in DOMAIN requests
       /\ j.target = "accepted" => requests[j.req].status = "accepted"
       /\ j.target = "discarded" => requests[j.req].status # "new"
       /\ j.req \in Updates =>
            /\ j.content.org = requests[j.req].content.org
            /\ j.step = "mailing" =>
                 \A u \in j.to : u \in DOMAIN users /\ users[u].org = j.content.org

Mails == \A h \in Handlers : Tells(jobs[h])

(* Where a ticket comes from. *)
Tickets ==
  \A r \in tickets :
    \/ r \in lost
    \/ r \in DOMAIN requests /\ requests[r].ticket
    \/ \E h \in Handlers : jobs[h].step = "ticketed" /\ jobs[h].req = r

(* Users stay in their organizations. *)
LEMMA UsersStay ==
  ASSUME Types, Checks, [Next]_vars
  PROVE \A u \in DOMAIN users : u \in DOMAIN users' /\ users'[u].org = users[u].org
<1>1. CASE UNCHANGED users
  BY <1>1
<1>2. ASSUME NEW h \in Handlers, Commit(h)
      PROVE \A u \in DOMAIN users : u \in DOMAIN users' /\ users'[u].org = users[u].org
  <2> DEFINE r == jobs[h].req
             c == jobs[h].content
             target == jobs[h].target
  <2>1. /\ target # "accepted" => UNCHANGED users
        /\ target = "accepted" /\ r \in Updates => UpdateOrg(c)
        /\ target = "accepted" /\ r \in Registrations => CreateOrg(c)
        /\ r \in AnyRequest /\ c \in Wanted[r]
    BY <1>2, CommitEffect DEF IsConsidered, Job
  <2>2. CASE target = "accepted" /\ r \in Updates
    <3>1. c.add \subseteq Logins /\ users' = UpdatedUsers(c.org, c)
      BY <2>1, <2>2, ContentTypes DEF UpdateOrg
    <3> QED  BY <3>1, UpdatedUsersEffect
  <2>3. CASE target = "accepted" /\ r \in Registrations
    <3>1. c.email \notin DOMAIN users
      BY <1>2, <2>3 DEF Commit, IsTaken
    <3>2. AddUser(c.email, c.org)
      BY <2>1, <2>3 DEF CreateOrg
    <3> HIDE DEF c
    <3> QED  BY <3>1, <3>2 DEF AddUser
  <2> QED  BY <1>1, <2>1, <2>2, <2>3 DEF AnyRequest
<1>3. CASE OtherTransaction
  <2>1. ASSUME NEW v \in Logins, NEW o \in Orgs, CreateUser(v, o)
        PROVE \A u \in DOMAIN users : u \in DOMAIN users' /\ users'[u].org = users[u].org
    BY <2>1 DEF CreateUser, AddUser
  <2>2. ASSUME NEW v \in DOMAIN users, ToggleBlocked(v)
        PROVE \A u \in DOMAIN users : u \in DOMAIN users' /\ users'[u].org = users[u].org
    BY <2>2 DEF ToggleBlocked, Types, RegisterTypes
  <2> QED  BY <1>3, <2>1, <2>2 DEF OtherTransaction
<1> QED
  BY Steps, AsideKeepsData, <1>1, <1>2, <1>3 DEF StoreRequest, vars, db

(* A request stays, with its organization and its ticket; an accepted one
   remains accepted, and none becomes new again. *)
LEMMA RequestsStay ==
  ASSUME Types, Checks, [Next]_vars, NEW q \in DOMAIN requests
  PROVE /\ q \in DOMAIN requests'
        /\ requests[q].status = "accepted" => requests'[q].status = "accepted"
        /\ requests[q].status # "new" => requests'[q].status # "new"
        /\ requests'[q].ticket = requests[q].ticket
        /\ q \in Updates => requests'[q].content.org = requests[q].content.org
<1>1. CASE UNCHANGED requests
  BY <1>1
<1>2. ASSUME NEW h \in Handlers, StoreRequest(h)
      PROVE q \in DOMAIN requests' /\ requests'[q] = requests[q]
  BY <1>2, StoreEffect
<1>3. ASSUME NEW h \in Handlers, Commit(h), q # jobs[h].req
      PROVE q \in DOMAIN requests' /\ requests'[q] = requests[q]
  BY <1>3, CommitEffect
<1>4. ASSUME NEW h \in Handlers, Commit(h), q = jobs[h].req
      PROVE /\ q \in DOMAIN requests'
            /\ requests[q].status = "accepted" => requests'[q].status = "accepted"
            /\ requests[q].status # "new" => requests'[q].status # "new"
            /\ requests'[q].ticket = requests[q].ticket
            /\ q \in Updates => requests'[q].content.org = requests[q].content.org
  <2> DEFINE target == jobs[h].target
  <2>1. /\ IsConsidered(jobs[h]) /\ DOMAIN requests' = DOMAIN requests
        /\ requests'[q].status = StatusAfter(q, target)
        /\ requests'[q].ticket = requests[q].ticket
        /\ requests'[q].content = jobs[h].content
    BY <1>4, CommitEffect
  <2>2. /\ q \in Updates => jobs[h].content.org = requests[q].content.org
        /\ target # "keep" => requests[q].status \in LegalOldStatuses(target)
        /\ target \in Targets
    BY <1>4, <2>1 DEF IsConsidered, MayBecome
  <2>3. target # "keep" => requests[q].status # "accepted" /\ target # "new"
    BY <2>2 DEF LegalOldStatuses, Targets
  <2> QED  BY <2>1, <2>2, <2>3 DEF StatusAfter
<1> QED
  BY Steps, AsideKeepsData, OtherKeepsRequests, <1>1, <1>2, <1>3, <1>4 DEF vars, db

(* What a handler knows stays true while it does nothing. *)
LEMMA TellsKept ==
  ASSUME Types, Checks, [Next]_vars, NEW g \in Handlers, jobs'[g] = jobs[g], Tells(jobs[g])
  PROVE Tells(jobs[g])'
BY UsersStay, RequestsStay DEF Tells

(* The steps of a job that say to whom the mails go. *)
LEMMA MailingStarts ==
  ASSUME Types, NEW h \in Handlers, jobs[h] \in Job, NEW to, StartMailing(h, to)
  PROVE \/ jobs'[h] = Idle
        \/ /\ jobs'[h].step = "mailing" /\ jobs'[h].to = to /\ jobs'[h].req = jobs[h].req
           /\ jobs'[h].content = jobs[h].content /\ jobs'[h].target = jobs[h].target
<1>1. CASE Finish(h)
  BY <1>1 DEF Finish, Types
<1>2. CASE Proceed(h, "mailing", to)
  BY <1>2 DEF Proceed, Types, Job
<1> QED  BY <1>1, <1>2 DEF StartMailing

LEMMA MailsPreserved == Types /\ Checks /\ Mails /\ [Next]_vars => Mails'
<1> SUFFICES ASSUME Types, Checks, Mails, [Next]_vars  PROVE Mails'
  OBVIOUS
<1>1. CASE UNCHANGED jobs
  BY <1>1, TellsKept DEF Mails
<1>2. ASSUME NEW h \in Handlers, Aside(h) \/ StoreRequest(h) \/ Commit(h), Tells(jobs[h])'
      PROVE Mails'
  BY <1>2, JobEffect, TellsKept DEF Mails
<1>3. ASSUME NEW h \in Handlers, jobs'[h].step \in {"idle", "checked"}  PROVE Tells(jobs[h])'
  BY <1>3 DEF Tells
<1>4. ASSUME NEW h \in Handlers, PostUpdate(h) \/ PostRegistration(h) \/ Submit(h)
      PROVE Tells(jobs[h])'
  <2>1. CASE PostUpdate(h)
    <3>1. PICK r, c, target, rows : Start(h, "checked", r, c, target, rows)
      BY <2>1, Zenon DEF PostUpdate
    <3>2. jobs'[h].step = "checked"
      BY <3>1 DEF Start, Types
    <3> QED  BY <1>3, <3>2
  <2>2. CASE Submit(h)
    <3>1. PICK r, c, target, rows : Start(h, "checked", r, c, target, rows)
      BY <2>2, Zenon DEF Submit
    <3>2. jobs'[h].step = "checked"
      BY <3>1 DEF Start, Types
    <3> QED  BY <1>3, <3>2
  <2>3. CASE PostRegistration(h)
    <3>1. PICK r \in Registrations : \E c : Start(h, "inserted", r, c, "new", {})
      BY <2>3, Zenon DEF PostRegistration
    <3>2. jobs'[h].step = "inserted" /\ jobs'[h].to = {}
      BY <3>1 DEF Start, Types
    <3> QED  BY <3>2 DEF Tells
  <2> QED  BY <1>4, <2>1, <2>2, <2>3
<1>5. ASSUME NEW h \in Handlers, Insert(h) \/ CreateTicket(h)  PROVE Tells(jobs[h])'
  <2>1. Tells(jobs[h]) /\ UNCHANGED users
    BY <1>5, AsideKeepsData DEF Mails, Aside
  <2>2. CASE jobs'[h].step = "idle"
    BY <1>3, <2>2
  <2>3. CASE jobs'[h].step \in {"inserted", "ticketed"}
    <3>1. /\ jobs'[h].req = jobs[h].req /\ jobs'[h].content = jobs[h].content
          /\ CreateTicket(h) => jobs'[h].to = jobs[h].to /\ jobs[h].step = "inserted"
          /\ Insert(h) => jobs'[h].to = NonBlocked(jobs[h].content.org)
      BY <1>5, <2>3, PostingGoesOn DEF Idle, CreateTicket
    <3>2. \A u \in NonBlocked(jobs[h].content.org) :
            u \in DOMAIN users /\ users[u].org = jobs[h].content.org
      BY DEF NonBlocked
    <3> QED  BY <1>5, <2>1, <2>3, <3>1, <3>2 DEF Tells
  <2> QED  BY <1>5, <2>2, <2>3, PostingGoesOn DEF Idle
<1>6. ASSUME NEW h \in Handlers, StoreRequest(h)  PROVE Tells(jobs[h])'
  <2>1. /\ IsPosted(jobs[h]) /\ jobs[h] \in Job
        /\ jobs[h].req \in DOMAIN requests'
        /\ requests'[jobs[h].req].content = jobs[h].content
        /\ UNCHANGED users /\ Tells(jobs[h])
        /\ jobs[h].step \in {"inserted", "ticketed"} /\ jobs[h].target = "new"
    BY <1>6, StoreEffect DEF StoreRequest, Mails, IsPosted
  <2>2. \/ jobs'[h] = Idle
        \/ /\ jobs'[h].step = "mailing" /\ jobs'[h].to = jobs[h].to
           /\ jobs'[h].req = jobs[h].req
           /\ jobs'[h].content = jobs[h].content /\ jobs'[h].target = "new"
    BY <1>6, <2>1, MailingStarts DEF StoreRequest
  <2> QED  BY <1>3, <2>1, <2>2 DEF Tells, Idle
<1>7. ASSUME NEW h \in Handlers, Commit(h)  PROVE Tells(jobs[h])'
  <2> DEFINE r == jobs[h].req
             target == jobs[h].target
  <2>1. /\ jobs[h] \in Job /\ r \in DOMAIN requests'
        /\ requests'[r].status = StatusAfter(r, target)
        /\ requests'[r].content = jobs[h].content
    BY <1>7, CommitEffect DEF IsConsidered
  <2>2. CASE Finish(h)
    BY <1>3, <2>2 DEF Finish, Types, Idle
  <2>3. CASE Proceed(h, "committed", {})
    <3>1. /\ jobs'[h].step = "committed" /\ jobs'[h].req = r /\ jobs'[h].target = target
          /\ jobs'[h].content = jobs[h].content
      BY <2>1, <2>3 DEF Proceed, Types, Job
    <3> QED  BY <2>1, <3>1 DEF Tells, StatusAfter
  <2> QED  BY <1>7, <2>2, <2>3 DEF Commit
<1>8. ASSUME NEW h \in Handlers, LookUpRecipients(h) \/ SendMail(h)  PROVE Tells(jobs[h])'
  <2>1. /\ jobs[h] \in Job /\ jobs[h].step \in {"committed", "mailing"} /\ Tells(jobs[h])
        /\ UNCHANGED <<users, requests>>
    BY <1>8, BusyJob, AsideKeepsData DEF LookUpRecipients, SendMail, Mails, Aside
  <2>2. PICK to : /\ StartMailing(h, to)
                  /\ jobs[h].req \in Updates =>
                       \A u \in to : u \in DOMAIN users /\ users[u].org = jobs[h].content.org
    <3>1. CASE LookUpRecipients(h)
      BY <3>1 DEF LookUpRecipients, Recipients, NonBlocked
    <3>2. CASE SendMail(h)
      BY <2>1, <3>2 DEF SendMail, Tells
    <3> QED  BY <1>8, <3>1, <3>2
  <2>3. \/ jobs'[h] = Idle
        \/ /\ jobs'[h].step = "mailing" /\ jobs'[h].to = to /\ jobs'[h].req = jobs[h].req
           /\ jobs'[h].content = jobs[h].content /\ jobs'[h].target = jobs[h].target
    BY <2>1, <2>2, MailingStarts
  <2> QED  BY <1>3, <2>1, <2>2, <2>3 DEF Tells, Idle
<1>9. ASSUME NEW h \in Handlers, Reject(h) \/ Break(h)  PROVE Tells(jobs[h])'
  <2>1. jobs'[h] = Idle
    BY <1>9 DEF Reject, Break, Finish, Types
  <2> QED  BY <1>3, <2>1 DEF Idle
<1> QED
  BY Steps, OtherKeepsRequests, <1>1, <1>2, <1>4, <1>5, <1>6, <1>7, <1>8, <1>9 DEF Aside, vars

LEMMA TicketsPreserved == Types /\ Checks /\ Tickets /\ [Next]_vars => Tickets'
<1> SUFFICES ASSUME Types, Checks, Tickets, [Next]_vars  PROVE Tickets'
  OBVIOUS
<1>1. ASSUME NEW r \in DOMAIN requests, requests[r].ticket
      PROVE r \in DOMAIN requests' /\ requests'[r].ticket
  BY <1>1, RequestsStay
<1>2. CASE UNCHANGED <<jobs, tickets, lost>>
  BY <1>1, <1>2 DEF Tickets
<1>3. ASSUME NEW h \in Handlers, Aside(h) \/ StoreRequest(h) \/ Commit(h),
             jobs[h].step # "ticketed", UNCHANGED <<tickets, lost>>
      PROVE Tickets'
  BY <1>1, <1>3, JobEffect DEF Tickets
<1>4. ASSUME NEW h \in Handlers, CreateTicket(h)  PROVE Tickets'
  <2>1. /\ tickets' = tickets \cup {jobs[h].req} /\ UNCHANGED lost
        /\ jobs[h].step = "inserted" /\ jobs[h] \in Job
        /\ \A g \in Handlers \ {h} : jobs'[g] = jobs[g]
    BY <1>4, BusyJob, JobEffect DEF CreateTicket, history, Aside
  <2>2. jobs'[h].step = "ticketed" /\ jobs'[h].req = jobs[h].req
    BY <1>4, <2>1 DEF CreateTicket, Proceed, Types, Job
  <2> QED  BY <1>1, <2>1, <2>2 DEF Tickets
<1>5. ASSUME NEW h \in Handlers, StoreRequest(h)  PROVE Tickets'
  <2>1. /\ jobs[h].req \in DOMAIN requests'
        /\ jobs[h].step = "ticketed" => requests'[jobs[h].req].ticket
        /\ UNCHANGED <<tickets, lost>>
        /\ \A g \in Handlers \ {h} : jobs'[g] = jobs[g]
    BY <1>5, StoreEffect, JobEffect DEF StoreRequest
  <2> QED  BY <1>1, <2>1 DEF Tickets
<1>6. ASSUME NEW h \in Handlers, Break(h)  PROVE Tickets'
  <2>1. /\ jobs[h].step = "ticketed" => jobs[h].req \in lost'
        /\ lost \subseteq lost' /\ UNCHANGED tickets
        /\ \A g \in Handlers \ {h} : jobs'[g] = jobs[g]
    BY <1>6, JobEffect DEF Break, Aside
  <2> QED  BY <1>1, <2>1 DEF Tickets
<1>7. ASSUME NEW h \in Handlers,
             \/ PostUpdate(h) \/ PostRegistration(h) \/ Insert(h) \/ Submit(h) \/ Reject(h)
             \/ LookUpRecipients(h) \/ SendMail(h) \/ Commit(h)
      PROVE Tickets'
  <2>1. jobs[h].step # "ticketed" /\ UNCHANGED <<tickets, lost>>
    BY <1>7 DEF PostUpdate, PostRegistration, Insert, Submit, Reject, LookUpRecipients, SendMail,
      Commit, Idle, history
  <2> QED  BY <1>3, <1>7, <2>1 DEF Aside
<1> QED
  BY Steps, OtherKeepsRequests, <1>2, <1>4, <1>5, <1>6, <1>7 DEF Aside, vars, history

(* No mail tells of what has not been committed, or tells it to somebody else,
   and no ticket is left without its request except by a failure. *)
THEOREM MailsAndTicketsTrue == Spec => []MailsAndTicketsAreTrue
<1>1. Init => Mails /\ Tickets
  BY DEF Init, Idle, Mails, Tells, Tickets
<1>2. RequestsInvariant /\ Mails /\ Tickets /\ [Next]_vars => (Mails /\ Tickets)'
  BY MailsPreserved, TicketsPreserved DEF RequestsInvariant
<1>3. RequestsInvariant /\ Mails => MailsAreTrue
  BY DEF RequestsInvariant, Mails, Tells, MailsAreTrue
<1>4. RequestsInvariant /\ Tickets => TicketsAreBacked
  <2> SUFFICES ASSUME RequestsInvariant, NEW h \in Handlers, jobs[h].step = "ticketed"
               PROVE /\ jobs[h].req \in Updates => PendingUpdates(jobs[h].content.org) = {}
                     /\ MayWrite(h, jobs[h].rows)
    BY DEF Tickets, TicketsAreBacked
  <2>1. jobs[h] \in Job /\ IsPosted(jobs[h])
    BY BusyJob DEF RequestsInvariant, Checks, Check
  <2>2. \A row \in jobs[h].rows : row \in Orgs \cup AnyRequest
    BY <2>1 DEF Job
  <2>3. MayWrite(h, jobs[h].rows)
    BY <2>2 DEF RequestsInvariant, Locks, MayWrite, Writes
  <2> QED  BY <2>1, <2>3 DEF IsPosted
<1> QED
  BY <1>1, <1>2, <1>3, <1>4, InvariantHolds, PTL DEF Spec, MailsAndTicketsAreTrue
=============================================================================
