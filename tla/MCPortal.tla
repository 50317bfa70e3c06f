------------------------------ MODULE MCPortal ------------------------------
(***************************************************************************)
(* What the portal keeps in the Auth DB, for TLC, in one run: the requests *)
(* of organizations (OrgRequests), here one organization with one user,    *)
(* another one that may be registered, and two config update requests that *)
(* want different things; the cached advisories (AuxiliaryCache); and what *)
(* logging in takes (PortalLogin), of one user and of another one, who has *)
(* forgotten the password and gets one token.                              *)
(* They share no variable, and no property is about variables of two; so   *)
(* in each behaviour only one of them leaves its initial state.            *)
(***************************************************************************)
EXTENDS OrgRequests, AuxiliaryCache, PortalLogin, TLC

CONSTANTS c1, u1, u2

OneCVE == {c1}

MCFirstUsers == [u \in {"u1"} |-> "o1"]

Change(field, add, remove) ==
  [org |-> "o1", set |-> [f \in field |-> 1], add |-> add, remove |-> remove]

MCWanted ==
  [r \in {"reg1", "reg2", "upd1", "upd2"} |->
    CASE r \in {"reg1", "reg2"} -> {[org |-> "o2", email |-> "u2", grouped |-> TRUE]}
      [] r = "upd1" -> {Change({"name"}, {"u2"}, {"u1"})}
      [] r = "upd2" -> {Change({"times"}, {"u1", "u2"}, {"u2"})}]

MCMaxAge == [t \in TokenType |-> 4]

Symmetry == {d @@ e : d \in Permutations(Handlers), e \in Permutations(Request)}

MCLoginInit == LoginInit /\ password = {u1} /\ wallClock = 0

TokensOf(u, tokens) == {k \in DOMAIN tokens : tokens[k].owner = u}

MCLoginNext == LoginNext /\ Cardinality(TokensOf(u2, issued')) <= 1

MCInit == Init /\ CacheInit /\ MCLoginInit

MCNext ==
  \/ CacheInit /\ MCLoginInit /\ Next /\ UNCHANGED <<cacheVars, loginVars>>
  \/ Init /\ MCLoginInit /\ CacheNext /\ UNCHANGED <<vars, loginVars>>
  \/ Init /\ CacheInit /\ MCLoginNext /\ UNCHANGED <<vars, cacheVars>>

MCSpec == MCInit /\ [][MCNext]_<<vars, cacheVars, loginVars>>
==============================================================================
