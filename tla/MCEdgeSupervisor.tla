-------------------------- MODULE MCEdgeSupervisor --------------------------
(* Constants for the model checker: plans of one or two free actions        *)
(* between arm and disarm, the wirings of app.py and their worst cases.      *)
EXTENDS EdgeSupervisor

At(x, y) == [x |-> x, y |-> y]

Move(p, v) == [type |-> "move_to", target |-> p, speed |-> v]

\* 10 m out, a target an obstacle covers, one whose first sidesteps leave the
\* geofence, one outside it, one too fast for the adapter, one to the origin, a
\* malformed one, one without a speed.
Moves == {Move(At(1000, 500), 2), Move(At(1000, 0), 3), Move(At(9900, 9900), 4),
          Move(At(1000, 10100), 3), Move(At(-2000, 0), 8), Move(At(0, 0), 3),
          Move(NoVal, 3), Move(At(0, 500), NoVal)}

Middle == Moves \cup {Plain("hold"), Plain("return_to_home"), Plain("disarm")}

MCPlans == {<<Plain("arm"), a, Plain("disarm")>> : a \in Middle}
           \cup {<<Plain("arm"), a, b, Plain("disarm")>> :
                    a \in {Move(At(1000, 500), 2), Move(At(1000, 0), 3), Plain("hold")},
                    b \in Middle}
           \cup {<<>>}

Vehicle(home, battery, connected) ==
    [pos |-> home, home |-> home, battery |-> battery, armed |-> FALSE,
     connected |-> connected, std |-> 30]

Origin == At(0, 0)

\* Full, one move above the motion threshold, almost empty, on the road while
\* armed with a low battery, and disconnected.
MCInitialStates ==
    {Vehicle(Origin, 2000, TRUE), Vehicle(Origin, 502, TRUE),
     Vehicle(Origin, 3, TRUE), Vehicle(Origin, 2000, FALSE),
     [Vehicle(Origin, 199, TRUE) EXCEPT !.pos = At(500, 0), !.armed = TRUE]}

Demo(primary, failover) ==
    [primary |-> primary, failover |-> failover, supportsHome |-> TRUE,
     perception |-> "null", localization |-> "passthrough",
     avoidance |-> "passthrough", auditLogger |-> TRUE]

Trace == [Demo("sim", "none") EXCEPT !.perception = "telemetry",
                                     !.localization = "fused",
                                     !.avoidance = "clearance"]

MCWirings ==
    {Demo("sim", "none"), Demo("transport", "sim"), Demo("transport", "none"),
     Demo("transport", "transport"), Trace,
     [Trace EXCEPT !.primary = "transport", !.failover = "transport",
                   !.localization = "passthrough"],
     [Demo("transport", "sim") EXCEPT !.supportsHome = FALSE, !.auditLogger = FALSE]}

Rock(p, r) == [pos |-> p, radius |-> r]

\* A clear frame from a clock that runs ahead, one with an obstacle on a
\* target, one that also blocks sidesteps, one stale by the second sample of
\* the clock, one stale at once, one with a poor fix.
MCFrames ==
    {[EmptyFrame EXCEPT !.age = -2, !.gps = Origin],
     [EmptyFrame EXCEPT !.obstacles = {Rock(At(1000, 500), 150)}],
     [EmptyFrame EXCEPT !.obstacles = {Rock(At(1000, 500), 600), Rock(At(9900, 9900), 150)}],
     [EmptyFrame EXCEPT !.age = 10],
     [EmptyFrame EXCEPT !.age = 11],
     [EmptyFrame EXCEPT !.std = 501]}

MCLags == {0, 1}

=============================================================================
