------------------------------ MODULE Scenarios ------------------------------
(* The two scenarios of scenarios.py: an initial state, a plan, and the      *)
(* telemetry events DeterministicTelemetryReplay hands out one by one.       *)
EXTENDS Navigation, Planners

\* Event number i is stamped i - 1 seconds after the scenario was made; ages
\* are in tenths of a second, as MaxSensorAge is.
Telemetry(i, x, y, std, obstacles) ==
    [age |-> -10 * (i - 1), gps |-> [x |-> x, y |-> y], std |-> std,
     obstacles |-> obstacles]

ScenarioState(battery, armed) ==
    [pos |-> [x |-> 0, y |-> 0], home |-> [x |-> 0, y |-> 0],
     battery |-> battery, armed |-> armed, connected |-> TRUE, std |-> 0]

OutAndBack(x, y) ==
    <<Plain("arm"), MoveTo(x, y, 2), Plain("return_to_home"), Plain("disarm")>>

NominalReplay ==
    [initial   |-> ScenarioState(1900, FALSE),
     plan      |-> OutAndBack(800, 200),
     telemetry |-> << Telemetry(1, 0, 0, 40, {}), Telemetry(2, 800, 200, 40, {}),
                      Telemetry(3, 800, 200, 40, {}), Telemetry(4, 0, 0, 40, {}) >>]

\* "Move target blocked by lidar obstacle, requiring reroute."
BlockedTarget ==
    [initial   |-> ScenarioState(1760, TRUE),
     plan      |-> OutAndBack(1000, 500),
     telemetry |-> << Telemetry(1, 0, 0, 50,
                        {[pos |-> [x |-> 1000, y |-> 500], radius |-> 150]}) >>]

=============================================================================
