---------------------------- MODULE EventAccess ----------------------------
(***************************************************************************)
(* Who gets to see an event.  The Auth API (N6Lib/n6lib/auth_api.py) turns *)
(* what the Auth DB says of organizations into                             *)
(*  - criteria, by which the filter decides whose network an event is in;  *)
(*  - SQL conditions, for the REST API: prepared in several passes;        *)
(*  - predicates on events, for the Stream API (the anonymizer) and the    *)
(*    e-mail notifications (the counter).                                  *)
(* An event then runs through the pipeline: the filter, the Event DB, the  *)
(* anonymizer, the counter.                                                *)
(*                                                                         *)
(* The data of the Auth DB are the constant record `authData` of a         *)
(* behaviour; PrefetchCache is about their changes.                        *)
(***************************************************************************)
EXTENDS Conditions, Sequences

CONSTANTS Orgs,
          AuthDatas,           \* the contents of the Auth DB considered
          Events,              \* the events, as the enricher leaves them
          FqdnOnlyCategories,  \* `categories_filtered_through_fqdn_only`
          IgnoredIPs,          \* the addresses on the ignore lists
          MaxIP                \* stands for 255.255.255.255

ASSUME IPAssumption == MaxIP \in Nat \ {0} /\ IgnoredIPs \subseteq 1..MaxIP

Zones == {"inside", "threats"}

Internal == 0                  \* the restriction "internal"

(* authData.linked: <<org, subsource, zone, excluding?>>: what an          *)
(*   organization is linked with, directly or through its groups           *)
(* authData.fullAccess, .streaming, .notified, .optimizing: flags          *)
(* authData.inside[org]: networks, ASNs and domains that org is given      *)
(* A subsource: a source, containers of inclusion and exclusion criteria.  *)
(* An event: source, category, restriction, name (a set: none or one),     *)
(*   fqdn (labels, top-level last), addrs (records of ip and asn; the ASN  *)
(*   is a set, too).                                                       *)

NoEvent == [source |-> 0]

VARIABLES authData,
          todo,       \* the pairs of organization and zone to be prepared
          pair,       \* the one whose conditions are being prepared
          cond,       \* its condition so far
          stage,      \* which pass cond has been through
          ready,      \* the conditions prepared, by pair
          event,      \* the event in the pipeline
          client,     \* the item `client` of the event
          ignored,    \* the item `ignored`, as a set
          pending,    \* the components that have not dealt with it yet
          rows,       \* its rows in the Event DB
          streamed,   \* the organizations, with zones, it was sent to
          noticed     \* the organizations whose counters it increased

prepVars  == <<todo, pair, cond, stage, ready>>
eventVars == <<event, client, ignored, pending, rows, streamed, noticed>>
vars      == <<authData, prepVars, eventVars>>

-----------------------------------------------------------------------------
(* Conditions from subsources                                              *)

\* _get_org_subsource_az_tuples(): less the excluded ones.
Granted(org, zone) ==
  {l[2] : l \in {x \in authData.linked : /\ x[1] = org /\ x[3] = zone /\ ~x[4]
                                         /\ <<org, x[2], zone, TRUE>> \notin authData.linked}}

Pairs == {p \in Orgs \X Zones : Granted(p[1], p[2]) # {}}

\* ip_network_tuple_to_min_max_ip(): 0 stands for "no address" in the Event DB.
MinMaxIP(network) == <<IF network[1] <= 0 THEN 1 ELSE network[1], network[2]>>

ListKeys == {"asn", "name", "category"}

\* _iter_crit_conditions()
CritConds(container) ==
  {InCond(k, container[k]) : k \in {l \in ListKeys : container[l] # {}}}
    \cup {BetweenCond("ip", MinMaxIP(n)[1], MinMaxIP(n)[2]) : n \in container.networks}

\* _iter_container_conditions()
ContainerConds(containers) == {OrCond(CritConds(k)) : k \in {c \in containers : CritConds(c) # {}}}

NotIgnoredCond == NotCond(IsTrueCond("ignored"))

\* _get_subsource_condition() and
\* _get_condition_for_subsource_and_full_access_flag()
SubsourceCond(s, fullAccess) ==
  LET own == AndCond({EqualCond("source", s.source),
                      AndCond(ContainerConds(s.inclusion)),
                      AndCond({NotCond(c) : c \in ContainerConds(s.exclusion)})})
  IN IF fullAccess THEN own
     ELSE AndCond({own, NotCond(EqualCond("restriction", Internal)), NotIgnoredCond})

-----------------------------------------------------------------------------
(* Preparing the conditions of an organization and a zone: the passes of   *)
(* _postprocess_access_info_filtering_cond_instances().                    *)

\* A variant: a column that may be NULL is forgotten.
NonNullableColumnsAndName == {"source", "restriction", "category", "ip", "name"}

NonNullableColumns == {"source", "restriction", "category", "ip"}

\* _CondToCondWithNullSafeNegationsTransformer
RECURSIVE NullSafe(_)
NullSafe(c) ==
  CASE c.kind = "Not" ->
         IF c.sub.key \in NonNullableColumns \/ c.sub.kind \in {"IsTrue", "IsNull"}
         THEN c
         ELSE OrCond({IsNullCond(c.sub.key), c})
    [] c.kind \in MultiKinds -> MultiCond(c.kind, {NullSafe(s) : s \in c.subs})
    [] OTHER -> c

Nothing == FixedCond(FALSE)

\* _make_org_ids_to_access_infos() for the next organization and zone.
Collect ==
  /\ stage = "idle" /\ todo # {}
  /\ pair' = CHOOSE p \in todo : TRUE
  /\ todo' = todo \ {pair'}
  /\ cond' = OrCond({SubsourceCond(s, authData.fullAccess[pair'[1]]) : s \in Granted(pair'[1], pair'[2])})
  /\ stage' = "collected"
  /\ UNCHANGED <<authData, ready, eventVars>>

Pass(from, to, conds) ==
  /\ stage = from
  /\ stage' = to
  /\ cond' \in conds
  /\ UNCHANGED <<authData, todo, pair, ready, eventVars>>

FactorOut == Pass("collected", "factored", IF authData.optimizing THEN FactoredSet(cond) ELSE {cond})

MergeEqualityTests == Pass("factored", "optimized", {IF authData.optimizing THEN Merged(cond) ELSE cond})

ApplyDeMorgan == Pass("optimized", "negations pushed", {DeMorgan(cond)})

MakeNullSafe ==
  /\ stage = "negations pushed"
  /\ ready' = [p \in DOMAIN ready \cup {pair} |-> IF p = pair THEN NullSafe(cond) ELSE ready[p]]
  /\ cond' = Nothing
  /\ stage' = "idle"
  /\ UNCHANGED <<authData, todo, pair, eventVars>>

-----------------------------------------------------------------------------
(* _CondToSQLAlchemyConverter and the SQL conditions it makes: the database *)
(* has three truth values, and NULL (an empty set here) where an item is   *)
(* missing.                                                                *)

SQLNot(t) == CASE t = "true" -> "false" [] t = "false" -> "true" [] OTHER -> "unknown"

SQLTruth(b) == IF b THEN "true" ELSE "false"

RECURSIVE SQLValue(_, _)
SQLValue(c, row) ==
  LET ofSubs == IF c.kind \in MultiKinds THEN {SQLValue(s, row) : s \in c.subs} ELSE {}
  IN CASE c.kind = "Fixed"  -> SQLTruth(c.truth)
       [] c.kind = "Not"    -> SQLNot(SQLValue(c.sub, row))
       [] c.kind = "And"    -> IF "false" \in ofSubs THEN "false"
                               ELSE IF "unknown" \in ofSubs THEN "unknown" ELSE "true"
       [] c.kind = "Or"     -> IF "true" \in ofSubs THEN "true"
                               ELSE IF "unknown" \in ofSubs THEN "unknown" ELSE "false"
       [] c.kind = "IsNull" -> SQLTruth(row[c.key] = {})
       [] c.kind = "IsTrue" -> SQLTruth(TRUE \in row[c.key])
       [] OTHER             -> IF row[c.key] = {} THEN "unknown" ELSE SQLTruth(Holds(c, row))

\* query__access_filtering(), query__client_filtering()
Shows(org, zone, row, clientOfRow) ==
  /\ <<org, zone>> \in DOMAIN ready
  /\ SQLValue(ready[<<org, zone>>], row) = "true"
  /\ zone = "inside" => org \in clientOfRow

-----------------------------------------------------------------------------
(* The predicates of the Stream API and of the notifications               *)
(* (N6Lib/n6lib/db_filtering_abstractions.py)                              *)

LegacyContainerPredicate(container, rec) ==
  \/ \E k \in ListKeys : rec[k] \cap container[k] # {}
  \/ \E n \in container.networks : \E ip \in rec.ip : MinMaxIP(n)[1] <= ip /\ ip <= MinMaxIP(n)[2]

NonEmpty(containers) == {c \in containers : CritConds(c) # {}}

LegacyPredicate(s, fullAccess, rec) ==
  /\ rec.source = {s.source}
  /\ \A c \in NonEmpty(s.inclusion) : LegacyContainerPredicate(c, rec)
  /\ \A c \in NonEmpty(s.exclusion) : ~LegacyContainerPredicate(c, rec)
  /\ fullAccess \/ (rec.restriction # {Internal} /\ rec.ignored # {TRUE})

\* What RecordWrapperForPredicates (of the new conditions) makes of an event.
WrappedRecord(e, ign) ==
  [source |-> {e.source}, restriction |-> {e.restriction}, category |-> {e.category},
   name |-> e.name, ignored |-> ign,
   ip |-> {a.ip : a \in e.addrs}, asn |-> UNION {a.asn : a \in e.addrs}]

\* RecordFacadeForPredicates leaves out an ASN that Python takes for false.
LegacyRecord(e, ign) == [WrappedRecord(e, ign) EXCEPT !.asn = @ \ {0}]

-----------------------------------------------------------------------------
(* The filter: InsideCriteriaResolver, _IgnoreListsCriteriaResolver        *)

\* A network of the criteria; the one that consists of 0.0.0.0 is skipped.
EffectiveNetworks(org) ==
  {n \in authData.inside[org].networks : MinMaxIP(n) # <<1, 0>>}

BorderIPs ==
  {-1, MaxIP + 1} \cup UNION {{MinMaxIP(n)[1] : n \in EffectiveNetworks(o)}
                              \cup {MinMaxIP(n)[2] + 1 : n \in EffectiveNetworks(o)} : o \in Orgs}

\* org_id_to_unclosed_ranges_count after the border has been dealt with.
Unclosed(org, border) ==
  Cardinality({n \in EffectiveNetworks(org) : MinMaxIP(n)[1] <= border})
    - Cardinality({n \in EffectiveNetworks(org) : MinMaxIP(n)[2] + 1 <= border})

\* corresponding_id_sets[bisect_right(border_ips, ip) - 1]
OrgsOfIP(ip) ==
  LET border == CHOOSE b \in BorderIPs : b <= ip /\ \A c \in BorderIPs : c <= ip => c <= b
  IN {o \in Orgs : Unclosed(o, border) > 0}

\* The domain and those it belongs to.
Suffixes(fqdn) == {SubSeq(fqdn, i, Len(fqdn)) : i \in 1..Len(fqdn)}

\* get_client_org_ids_and_urls_matched(), without URLs
ClientOrgs(e) ==
  {o \in Orgs : authData.inside[o].fqdns \cap Suffixes(e.fqdn) # {}}
    \cup (IF e.category \in FqdnOnlyCategories THEN {}
          ELSE UNION {OrgsOfIP(a.ip) \cup {o \in Orgs : authData.inside[o].asns \cap a.asn # {}}
                        : a \in e.addrs})

\* _IgnoreListsCriteriaResolver.__call__()
ShouldBeIgnored(e) == e.addrs # {} /\ \A a \in e.addrs : a.ip \in IgnoredIPs

Recipients == {"recorder", "anonymizer", "counter"}

FilterEvent(e) ==
  /\ stage = "idle" /\ todo = {} /\ event = NoEvent
  /\ event' = e
  /\ client' = ClientOrgs(e)
  /\ ignored' = {ShouldBeIgnored(e)}
  /\ pending' = Recipients
  /\ UNCHANGED <<authData, prepVars, rows, streamed, noticed>>

-----------------------------------------------------------------------------
(* Those who get the filtered event                                        *)

\* RecordDict.iter_db_items(): a row for each address; without an address, 0
\* is stored.
RowsOf(e, ign) ==
  LET rowOf(ips, asns) == [WrappedRecord(e, ign) EXCEPT !.ip = ips, !.asn = asns]
  IN IF e.addrs = {} THEN {rowOf({0}, {})} ELSE {rowOf({a.ip}, a.asn) : a \in e.addrs}

Handle(component) ==
  /\ component \in pending
  /\ pending' = pending \ {component}
  /\ UNCHANGED <<authData, prepVars, event, client, ignored>>

Store ==
  /\ Handle("recorder")
  /\ rows' = RowsOf(event, ignored)
  /\ UNCHANGED <<streamed, noticed>>

\* Anonymizer._get_resource_to_org_ids(), with
\* _make_source_ids_to_subs_to_stream_api_access_infos(): nobody has full access
StreamOrgs(zone) ==
  {o \in Orgs : /\ authData.streaming[o]
                /\ zone = "inside" => o \in client
                /\ \E s \in Granted(o, zone) : LegacyPredicate(s, FALSE, LegacyRecord(event, ignored))}

Anonymize ==
  /\ Handle("anonymizer")
  /\ streamed' = {<<o, z>> \in Orgs \X Zones : o \in StreamOrgs(z)}
  /\ UNCHANGED <<rows, noticed>>

\* Counter._get_clients_list(), with
\* _make_source_ids_to_notification_access_info_mappings()
NoticedOrgs ==
  {o \in client : /\ authData.notified[o]
                  /\ \E s \in Granted(o, "inside") :
                       LegacyPredicate(s, authData.fullAccess[o], LegacyRecord(event, ignored))}

Count ==
  /\ Handle("counter")
  /\ noticed' = NoticedOrgs
  /\ UNCHANGED <<rows, streamed>>

NextEvent ==
  /\ event # NoEvent /\ pending = {}
  /\ event' = NoEvent /\ client' = {} /\ ignored' = {} /\ rows' = {}
  /\ streamed' = {} /\ noticed' = {}
  /\ UNCHANGED <<authData, prepVars, pending>>

-----------------------------------------------------------------------------
Init ==
  /\ authData \in AuthDatas
  /\ todo = Pairs
  /\ pair = <<>> /\ cond = Nothing /\ stage = "idle" /\ ready = <<>>
  /\ event = NoEvent /\ client = {} /\ ignored = {} /\ pending = {} /\ rows = {}
  /\ streamed = {} /\ noticed = {}

Prepare == Collect \/ FactorOut \/ MergeEqualityTests \/ ApplyDeMorgan \/ MakeNullSafe

Process == (\E e \in Events : FilterEvent(e)) \/ Store \/ Anonymize \/ Count \/ NextEvent

Next == Prepare \/ Process

Spec == Init /\ [][Next]_vars

-----------------------------------------------------------------------------
(* Properties                                                              *)

\* The records that the conditions and predicates are about.
Records == {WrappedRecord(e, ign) : e \in Events, ign \in {{}, {FALSE}, {TRUE}}}

MayAccess(org, zone, rec) ==
  \E s \in Granted(org, zone) : LegacyPredicate(s, authData.fullAccess[org], rec)

RECURSIVE NegatesItemsOnly(_)
NegatesItemsOnly(c) ==
  CASE c.kind = "Not"         -> c.sub.kind \notin MultiKinds \cup {"Fixed", "Not"}
    [] c.kind \in MultiKinds -> \A s \in c.subs : NegatesItemsOnly(s)
    [] OTHER                  -> TRUE

\* The condition being prepared is reduced as the constructors promise after
\* every pass, and once the negations have been pushed each of them is that of
\* a test of an item: the pass that follows, and the conversion to SQL, refuse
\* anything else.  And no pass changes what the condition means: after each of
\* them, it holds for an event (with whatever number of addresses) if and only
\* if one of the granted subsources lets the organization have the event.
PassesAreSound ==
  /\ IsReduced(cond)
  /\ stage = "negations pushed" => NegatesItemsOnly(cond)
  /\ stage # "idle" =>
       \A rec \in Records : Holds(cond, rec) <=> MayAccess(pair[1], pair[2], rec)

\* A row as a record: NULL is a missing item, the address 0 none.
AsRecord(row) == [row EXCEPT !.ip = @ \ {0}]

\* SQL and its third truth value give what Python gives: the REST API shows a
\* row exactly if the condition holds for it as a record.  A negated test of a
\* column that is NULL would hide the row.
SearchAgreesWithPredicates ==
  \A org \in Orgs, zone \in Zones : \A row \in rows :
    Shows(org, zone, row, client)
      <=> /\ MayAccess(org, zone, AsRecord(row))
          /\ zone = "inside" => org \in client

\* The channels differ only for events with several addresses (whose rows are
\* looked at one by one) or the ASN 0 (which the predicates drop).
Ordinary(e) == Cardinality(e.addrs) <= 1 /\ \A a \in e.addrs : 0 \notin a.asn

Searchable(org, zone) == \E row \in rows : Shows(org, zone, row, client)

\* The channels agree, though they are built from different conditions.  What an
\* organization gets by the Stream API it finds by the REST API, and the other
\* way round unless its full access opens more to it there; the notifications
\* count exactly the events that are found at /report/inside.
ChannelsAgree ==
  (event # NoEvent /\ pending = {} /\ Ordinary(event)) =>
    /\ \A org \in Orgs, zone \in Zones :
         /\ <<org, zone>> \in streamed => Searchable(org, zone)
         /\ (Searchable(org, zone) /\ authData.streaming[org] /\ ~authData.fullAccess[org])
              => <<org, zone>> \in streamed
    /\ noticed = {o \in Orgs : authData.notified[o] /\ Searchable(o, "inside")}

\* The filter, with its borders and counts of unclosed ranges, finds the
\* organizations one of whose networks an address of the event is in, or whose
\* ASN or domain the event has.
FilterFindsOwners ==
  event # NoEvent =>
    client = {o \in Orgs :
      LET has == authData.inside[o]
      IN \/ \E d \in has.fqdns, i \in 1..Len(event.fqdn) : d = SubSeq(event.fqdn, i, Len(event.fqdn))
         \/ /\ event.category \notin FqdnOnlyCategories
            /\ \E a \in event.addrs : \/ \E n \in has.networks : a.ip \in n[1]..n[2]
                                      \/ a.asn \cap has.asns # {}}

\* An organization gets the same events whichever way it is shown them, and
\* those that concern it.
AccessAgrees == SearchAgreesWithPredicates /\ ChannelsAgree /\ FilterFindsOwners
=============================================================================
