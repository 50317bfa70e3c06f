------------------------------ MODULE MCEvents ------------------------------
(***************************************************************************)
(* The ways to an event, for TLC: who may see it (EventAccess), for two    *)
(* organizations, two sources, addresses 1 to 3; and how the REST API      *)
(* finds it (EventQuery), among four events at times 0 to 3, some of which *)
(* have two rows.  The modules share no variable, and no property is about *)
(* variables of both; so in each behaviour only one of them leaves its     *)
(* initial state.                                                          *)
(***************************************************************************)
EXTENDS EventAccess, EventQuery

CONSTANTS orgA, orgB

MCOrgs == {orgA, orgB}

Container(networks, asns, names, categories) ==
  [networks |-> networks, asn |-> asns, name |-> names, category |-> categories]

Low    == Container({<<0, 1>>}, {}, {}, {})     \* a network with 0.0.0.0
Asn1   == Container({}, {1}, {}, {})
Asn2   == Container({}, {2}, {}, {})
Mixed  == Container({<<2, 3>>}, {0, 2}, {1}, {})
Named  == Container({}, {}, {1}, {})
Type2  == Container({}, {}, {}, {2})
Nought == Container({}, {}, {}, {})

Subsource(source, inclusion, exclusion) ==
  [source |-> source, inclusion |-> inclusion, exclusion |-> exclusion]

\* What can be linked with orgA in the zone "inside".
Pool == {Subsource(1, {}, {}),
         Subsource(1, {Low}, {}),
         Subsource(1, {Asn1}, {Low}),
         Subsource(1, {Asn1, Mixed}, {}),
         Subsource(1, {Nought, Type2}, {Named}),
         Subsource(1, {Mixed}, {Mixed}),
         Subsource(2, {}, {Named, Asn1}),
         Subsource(2, {Low, Asn1}, {Type2}),
         Subsource(2, {Asn1, Asn2}, {Named}),
         Subsource(2, {Asn1}, {Mixed})}

InsideOf(networks, asns, fqdns) == [networks |-> networks, asns |-> asns, fqdns |-> fqdns]

Criteria == {InsideOf({}, {}, {}),
             InsideOf({<<0, 0>>, <<3, 3>>}, {1}, {}),
             InsideOf({<<1, 3>>, <<1, 2>>}, {}, {}),
             InsideOf({<<1, 1>>, <<2, 2>>}, {}, {<<1>>}),
             InsideOf({}, {2}, {<<2, 1>>})}

\* orgB: full access, and a link that an exclusion takes back.
LinkedB == {<<orgB, Subsource(1, {}, {}), "inside", FALSE>>,
            <<orgB, Subsource(2, {}, {Type2}), "inside", FALSE>>,
            <<orgB, Subsource(2, {}, {Type2}), "inside", TRUE>>,
            <<orgB, Subsource(2, {Low}, {Named}), "threats", FALSE>>}

MCAuthData(granted, full, optimizing, insideA, insideB) ==
  [linked     |-> LinkedB \cup {<<orgA, s, "inside", FALSE>> : s \in granted},
   fullAccess |-> [o \in MCOrgs |-> o = orgB \/ full],
   streaming  |-> [o \in MCOrgs |-> o = orgA \/ ~optimizing],
   notified   |-> [o \in MCOrgs |-> o = orgA \/ optimizing],
   optimizing |-> optimizing,
   inside     |-> [o \in MCOrgs |-> IF o = orgA THEN insideA ELSE insideB]]

MCAuthDatas ==
  LET few == {g \in SUBSET Pool : Cardinality(g) \in 1..3}
      all == InsideOf({<<1, 3>>}, {}, {<<1>>})
  IN {MCAuthData(g, full, optimizing, all, all) : g \in few, full \in BOOLEAN, optimizing \in BOOLEAN}
       \cup {MCAuthData({Subsource(1, {}, {})}, FALSE, TRUE, a, b) : a \in Criteria, b \in Criteria}

Address(ip, asns) == [ip |-> ip, asn |-> asns]

MCAddrs == {{}, {Address(1, {})}, {Address(1, {1})}, {Address(2, {0})}, {Address(3, {2})},
            {Address(1, {1}), Address(3, {2})}}

Event(source, category, restriction, names, fqdn, addrs) ==
  [source |-> source, category |-> category, restriction |-> restriction,
   name |-> names, fqdn |-> fqdn, addrs |-> addrs]

MCEvents == {Event(s, c, 1, n, <<2, 1>>, a) : s \in {1, 2}, c \in {1, 2}, n \in {{}, {1}}, a \in MCAddrs}
              \cup {Event(1, 3, r, {}, <<>>, a) : r \in {Internal, 1}, a \in MCAddrs}

-----------------------------------------------------------------------------
(* Ids that follow the times, so that they matter for equal times only. *)
MCTimes == {t \in [1..4 -> 0..3] : \A i \in 1..3 : t[i] >= t[i + 1]}

MCContents ==
  {[id \in 1..4 |-> [time |-> t[id], parts |-> IF id \in twice THEN 2 ELSE 1, kept |-> id # dropped]] :
     t \in MCTimes, twice \in {{}, {1}, {3}, {2, 4}}, dropped \in 0..2}

MCRequests ==
  {[min |-> m, end |-> e, closed |-> c, limit |-> l] :
     m \in {0, 1}, e \in {1, 3}, c \in BOOLEAN, l \in {NoLimit, 1, 2}}

-----------------------------------------------------------------------------
(* For the queries it does not matter what is in the Auth DB. *)
AnyAuthData == CHOOSE d \in AuthDatas : TRUE

NothingPrepared == authData = AnyAuthData /\ todo = Pairs /\ stage = "idle"

MCInit == Init /\ QueryInit

MCNext ==
  \/ doing = "idle" /\ Next /\ UNCHANGED queryVars
  \/ NothingPrepared /\ QueryNext /\ UNCHANGED vars

MCSpec == MCInit /\ [][MCNext]_<<vars, queryVars>>
=============================================================================
