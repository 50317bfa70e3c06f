------------------------------ MODULE MCNotices ------------------------------
(***************************************************************************)
(* Recorder and Notices for TLC.                                           *)
(***************************************************************************)
EXTENDS Notices

Msg(type, id, replaces, value, time, clients) ==
  [type |-> type, id |-> id, replaces |-> replaces, value |-> value, time |-> time, clients |-> clients]

E(id, time, clients) == Msg("event", id, NoId, 0, time, clients)

E1 == E("a", 2, {1, 2})
E2 == E("b", 1, {1})
E3 == E("c", 2, {1})

\* An aggregated event, of which the first part may have been buried.
Aggregated == <<Msg("event", "a", NoId, 0, 1, {}), Msg("suppressed", "a", NoId, 1, 1, {})>>

Listed  == Msg("bl-new", "a", NoId, 1, 1, {})
Changed == Msg("bl-change", "b", "a", 1, 1, {})

ForRecorder == {Aggregated,
                <<Listed, Changed, Msg("bl-delist", "b", NoId, 1, 1, {})>>,
                <<Listed, Changed, Msg("bl-change", "c", "b", 1, 1, {})>>,
                <<Listed, Msg("bl-update", "a", NoId, 2, 1, {}), Msg("bl-expire", "a", NoId, 2, 1, {})>>}

Scenario(ms, k, f, t, c, b) ==
  [messages |-> ms, kills |-> k, fails |-> f, ticks |-> t, cuts |-> c, breaks |-> b]

\* The recorder by itself; three events of one client; two clients.
MCScenarios == {Scenario(m, 2, 1, 0, 0, 0) : m \in ForRecorder}
                 \cup {Scenario(<<E("a", 1, {1}), E("b", 2, {1}), E("c", 3, {1})>>, 0, 0, 3, 0, 0)}
                 \cup {Scenario(<<E1, E2>>, 0, 0, 1, 1, 0), Scenario(<<E3, E2>>, 0, 0, 2, 1, 0),
                       Scenario(<<E2, E1>>, 0, 0, 2, 0, 1),
                       Scenario(<<E2>>, 1, 0, 1, 1, 0)}
=============================================================================
