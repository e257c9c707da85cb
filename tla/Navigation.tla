----------------------------- MODULE Navigation -----------------------------
(***************************************************************************)
(* What happens to a planned action between sensing and the gate: the      *)
(* localization engines and the avoidance planners.                        *)
(*                                                                         *)
(* A frame carries its age (now - timestamp; negative when the sensor's    *)
(* clock runs ahead), the gps fix and position_std_m of the telemetry      *)
(* event (NoVal when absent) and the tracked obstacles.                    *)
(***************************************************************************)
EXTENDS SafetyKernel

CONSTANTS
    GpsWeight,         \* gps_blend_weight, in percent
    MaxLocStaleness,   \* max_staleness_s of the fused engine
    MinClearance,      \* min_clearance_m of the avoidance planner
    Sidestep           \* sidestep_m of the avoidance planner

ASSUME NavigationAssumption ==
    /\ GpsWeight \in 0 .. 100
    /\ MaxLocStaleness \in Nat /\ MinClearance \in Nat /\ Sidestep \in Nat

Frame == [age : Int, gps : Point \cup {NoVal}, std : Nat \cup {NoVal},
          obstacles : SUBSET Obstacle]

\* The frame a pipeline returns when it has no telemetry: stamped now, empty.
EmptyFrame == [age |-> 0, gps |-> NoVal, std |-> NoVal, obstacles |-> {}]

\* max(0.0, n): a frame from the future counts as just taken.
NonNegative(n) == IF n < 0 THEN 0 ELSE n

Default(v, d) == IF v = NoVal THEN d ELSE v

Blend(g, s) == (GpsWeight * g + (100 - GpsWeight) * s) \div 100

PassThroughEstimate(s) == [pos |-> s.pos, std |-> s.std, fresh |-> TRUE]

FusedEstimate(s, f) ==
    LET gps == Default(f.gps, s.pos)
    IN  [pos   |-> [x |-> Blend(gps.x, s.pos.x), y |-> Blend(gps.y, s.pos.y)],
         std   |-> Default(f.std, s.std),
         fresh |-> NonNegative(f.age) <= MaxLocStaleness]

\* The eight sidesteps, in the order _candidate_offsets lists them.
Offsets == << <<0, 1>>, <<0, -1>>, <<1, 0>>, <<-1, 0>>,
              <<1, 1>>, <<1, -1>>, <<-1, 1>>, <<-1, -1>> >>

Candidate(p, i) == [x |-> p.x + Sidestep * Offsets[i][1],
                    y |-> p.y + Sidestep * Offsets[i][2]]

\* Mutant: a sidestep is accepted without looking at the obstacles again.
FreeCandidatesFenceOnly(p, obstacles) ==
    {i \in 1 .. 8 : WithinGeofence(Candidate(p, i))}

\* The candidates the planner would accept as a new target.
FreeCandidates(p, obstacles) ==
    {i \in 1 .. 8 : /\ WithinGeofence(Candidate(p, i))
                    /\ ClearOf(Candidate(p, i), obstacles, MinClearance)}

\* ClearanceAwareAvoidancePlanner.refine_action: keep a clear target, else take
\* the first free sidestep, else hold.
RefineAction(a, obstacles) ==
    IF \/ a.type # "move_to"
       \/ a.target = NoVal
       \/ ClearOf(a.target, obstacles, MinClearance)
    THEN a
    ELSE LET free  == FreeCandidates(a.target, obstacles)
             first == CHOOSE i \in free : \A j \in free : i <= j
         IN  IF free = {}
             THEN Plain("hold")
             ELSE [a EXCEPT !.target = Candidate(a.target, first)]

=============================================================================
