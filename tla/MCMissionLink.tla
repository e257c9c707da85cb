---------------------------- MODULE MCMissionLink ----------------------------
(* Constants for the model checker: a mission over a transport.             *)
EXTENDS MissionLink

At(x, y) == [x |-> x, y |-> y]

Move(x, y, v) == [type |-> "move_to", target |-> At(x, y), speed |-> v]

Arm == Plain("arm")

Out == Move(1000, 0, 3)

Outside == Move(20000, 0, 3)

\* A mission that calls at home on its way.
HomeOnTheWay == {<<Arm, FallbackAction, Out, Outside, Plain("disarm")>>}

Start(battery) ==
    [pos |-> At(0, 0), home |-> At(0, 0), battery |-> battery, armed |-> FALSE,
     connected |-> TRUE, std |-> 30]

Starts == {Start(2000), Start(3)}

Over(failover) ==
    [primary |-> "transport", failover |-> failover, supportsHome |-> TRUE,
     perception |-> "telemetry", localization |-> "passthrough",
     avoidance |-> "passthrough", auditLogger |-> FALSE]

Links == {Over("none"), Over("transport")}

NoFrames == {EmptyFrame}

NoLag == {0}

NothingSeen == {{}}

=============================================================================
