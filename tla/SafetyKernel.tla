---------------------------- MODULE SafetyKernel ----------------------------
(***************************************************************************)
(* The policy gate every action passes before it is executed, and the      *)
(* mapping queries (geofence, obstacle distance) it shares with the        *)
(* avoidance planner.                                                      *)
(*                                                                         *)
(* A distance is never computed: the code only compares it with a          *)
(* threshold, and  dist(p, o) - r >= c  is a comparison of squares.        *)
(***************************************************************************)
EXTENDS VehicleModel

CONSTANTS
    MaxSpeed,        \* max_speed_mps
    MinBattery,      \* min_battery_for_motion_pct
    Geofence,        \* geofence_abs_xy_limit_m
    Standoff,        \* min_obstacle_standoff_m
    MaxStd,          \* max_localization_std_m
    MaxSensorAge     \* max_sensor_staleness_s

ASSUME PolicyAssumption ==
    /\ MaxSpeed \in Nat /\ MinBattery \in Nat /\ Geofence \in Nat
    /\ Standoff \in Nat /\ MaxStd \in Nat /\ MaxSensorAge \in Nat

Obstacle == [pos : Point, radius : Nat]

\* What the kernel reads of state_for_checks.  The obstacles stand for
\* nearest_obstacle_distance_m, which the kernel only compares with Standoff.
Checks == [connected : BOOLEAN, std : Nat, age : Nat, battery : Nat,
           pos : Point, obstacles : SUBSET Obstacle]

Abs(n) == IF n < 0 THEN -n ELSE n

Square(n) == n * n

WithinGeofence(p) == Abs(p.x) <= Geofence /\ Abs(p.y) <= Geofence

\* nearest_obstacle_distance(p) is None or at least c.
ClearOf(p, obstacles, c) ==
    \A o \in obstacles :
        Square(p.x - o.pos.x) + Square(p.y - o.pos.y) >= Square(c + o.radius)

DisarmTolerance == 1       \* 0.01 m

KernelReasons ==
    {"vehicle disconnected", "localization uncertainty above threshold",
     "sensor data stale", "speed exceeds policy",
     "battery below motion threshold", "obstacle standoff violated",
     "missing move target", "target x out of geofence",
     "target y out of geofence", "cannot disarm away from home"}

\* Mutant: the target of a move is not compared with the geofence.
MoveVerdictNoFence(c, a) ==
    IF a.speed = NoVal \/ a.speed > MaxSpeed THEN "speed exceeds policy"
    ELSE IF c.battery < MinBattery THEN "battery below motion threshold"
    ELSE IF ~ClearOf(c.pos, c.obstacles, Standoff) THEN "obstacle standoff violated"
    ELSE "ok"

\* The checks that apply to MOVE_TO only.
MoveVerdict(c, a) ==
    IF a.speed = NoVal \/ a.speed > MaxSpeed
    THEN "speed exceeds policy"
    ELSE IF c.battery < MinBattery THEN "battery below motion threshold"
    ELSE IF ~ClearOf(c.pos, c.obstacles, Standoff) THEN "obstacle standoff violated"
    ELSE IF a.target = NoVal THEN "missing move target"
    ELSE IF Abs(a.target.x) > Geofence THEN "target x out of geofence"
    ELSE IF Abs(a.target.y) > Geofence THEN "target y out of geofence"
    ELSE "ok"

\* Mutant: only moves are checked against the position.
PrecheckMovesOnly(c, a) ==
    IF ~c.connected THEN "vehicle disconnected"
    ELSE IF c.std > MaxStd THEN "localization uncertainty above threshold"
    ELSE IF c.age > MaxSensorAge THEN "sensor data stale"
    ELSE IF a.type = "move_to" THEN MoveVerdict(c, a)
    ELSE "ok"

\* precheck: the first rule that fails, or "ok".  The disarm rule compares
\* with the origin of the frame, not with the vehicle's home.
Precheck(c, a) ==
    IF ~c.connected THEN "vehicle disconnected"
    ELSE IF c.std > MaxStd THEN "localization uncertainty above threshold"
    ELSE IF c.age > MaxSensorAge THEN "sensor data stale"
    ELSE IF a.type = "move_to" THEN MoveVerdict(c, a)
    ELSE IF a.type = "disarm"
            /\ (Abs(c.pos.x) > DisarmTolerance \/ Abs(c.pos.y) > DisarmTolerance)
         THEN "cannot disarm away from home"
    ELSE "ok"

FallbackAction == Plain("return_to_home")

=============================================================================
