--------------------------- MODULE EdgeSupervisor ---------------------------
(***************************************************************************)
(* One call of EdgeSupervisor.run_plan: for every action of the plan       *)
(* observe, localize, refine, gate and execute; on the first refusal or    *)
(* failure execute the fallback and stop; at the end bring an armed        *)
(* vehicle with an almost empty battery home.                              *)
(*                                                                         *)
(* pc is the point run_plan has reached.  _execute_action is a subroutine  *)
(* with four call sites: ctx says which one is waiting for it, cmd is the  *)
(* action it executes, pc is "adapter" while the primary adapter works and *)
(* "failover" while the failover adapter does.                             *)
(*                                                                         *)
(* The state is the supervisor's own (projected) view of the vehicle; what *)
(* the vehicle really received is the subject of module MissionLink.       *)
(***************************************************************************)
EXTENDS Navigation, Selection

CONSTANTS
    Plans,            \* the plans run_plan may be called with
    InitialStates,    \* the states it may be called with
    Wirings,          \* the constructor arguments it may be built with
    Frames,           \* the frames a telemetry pipeline may deliver
    Lags,             \* the time between estimate() and the age computation
    AdapterMaxSpeed   \* capability_profile.max_speed_mps of the primary

\* How the supervisor was constructed.  A transport adapter may raise
\* AdapterExecutionError, a simulated one never does.
Wiring == [primary      : {"sim", "transport"},
           failover     : {"none", "sim", "transport"},
           supportsHome : BOOLEAN,
           perception   : {"null", "telemetry"},
           localization : {"passthrough", "fused"},
           avoidance    : {"passthrough", "clearance"},
           auditLogger  : BOOLEAN]

ASSUME SupervisorAssumption ==
    /\ Plans \subseteq Seq(Action)
    /\ InitialStates \subseteq VehicleState
    /\ Wirings \subseteq Wiring
    /\ Frames \subseteq Frame
    /\ Lags \subseteq Nat
    /\ AdapterMaxSpeed \in Nat
    /\ NoVal \notin Int /\ NoVal \notin Point

VARIABLES
    wiring,    \* the supervisor's collaborators, fixed
    plan,      \* plan.actions
    k,         \* the index of the action the loop is at
    pc, ctx,   \* control, see above
    state,     \* state
    checks,    \* state_for_checks
    cmd,       \* action_for_execution, or the fallback
    reason,    \* reason_detail
    events,    \* events
    audit      \* the records of audit_logger

vars == <<wiring, plan, k, pc, ctx, state, checks, cmd, reason, events, audit>>

LowBattery == 200      \* 10 %

PipelineErrors == {"telemetry_invalid", "subsystem_failure"}

BlockReasons == KernelReasons \cup PipelineErrors \cup
    {"localization_stale", "adapter_speed_limit",
     "adapter_capability_unsupported", "transport_failure"}

EventKinds == {"exec", "policy_block", "fallback", "failover", "system_fault"}

Event(kind, what) == [kind |-> kind, what |-> what]

Log == Seq([kind : EventKinds,
            what : BlockReasons \cup ActionTypes \cup
                   {"fallback_transport_failure", "primary_error"}])

Has(log, kind) == \E i \in DOMAIN log : log[i].kind = kind

\* _audit: nothing is recorded without a logger.
Audit(entries) == audit' = IF wiring.auditLogger THEN audit \o entries ELSE audit

NoChecks == [connected |-> FALSE, std |-> 0, age |-> 0, battery |-> 0,
             pos |-> [x |-> 0, y |-> 0], obstacles |-> {}]

Init ==
    /\ wiring \in Wirings
    /\ plan \in Plans
    /\ state \in InitialStates
    /\ k = 1
    /\ pc = "observe" /\ ctx = "exec"
    /\ checks = NoChecks
    /\ cmd = FallbackAction
    /\ reason = "transport_failure"
    /\ events = <<>> /\ audit = <<>>

-----------------------------------------------------------------------------
(* The refusals.                                                           *)

\* Report the refusal and call _execute_action for the fallback.
Block(r) ==
    /\ events' = Append(events, Event("policy_block", r))
    /\ reason' = r
    /\ cmd' = FallbackAction
    /\ ctx' = "block"
    /\ pc' = "adapter"
    /\ UNCHANGED <<wiring, plan, k, state, checks, audit>>

AtNextAction == pc = "observe" /\ k <= Len(plan)

AvailableFrames == IF wiring.perception = "null" THEN {EmptyFrame} ELSE Frames

Estimate(f) == IF wiring.localization = "fused"
               THEN FusedEstimate(state, f)
               ELSE PassThroughEstimate(state)

Refined(a, f) == IF wiring.avoidance = "clearance"
                 THEN RefineAction(a, f.obstacles)
                 ELSE a

StateForChecks(e, f, lag) ==
    [connected |-> state.connected, std |-> e.std,
     age |-> NonNegative(f.age + lag), battery |-> state.battery,
     pos |-> e.pos, obstacles |-> f.obstacles]

\* The observation is usable: build state_for_checks, refine the action.
Observe(f, lag) ==
    /\ AtNextAction
    /\ Estimate(f).fresh
    /\ checks' = StateForChecks(Estimate(f), f, lag)
    /\ cmd' = Refined(plan[k], f)
    /\ pc' = "gate"
    /\ UNCHANGED <<wiring, plan, k, ctx, state, reason, events, audit>>

\* The localization engine reports a stale estimate.
ObserveStale(f) ==
    /\ AtNextAction
    /\ ~Estimate(f).fresh
    /\ Block("localization_stale")

\* The telemetry is rejected (AdapterExecutionError) or a subsystem raises
\* anything else.
ObserveRaises(r) ==
    /\ AtNextAction
    /\ wiring.perception = "telemetry"
    /\ Block(r)

\* The refusals between observation and execution, in their order.
GateVerdict ==
    IF cmd.type = "move_to" /\ cmd.speed # NoVal /\ cmd.speed > AdapterMaxSpeed
    THEN "adapter_speed_limit"
    ELSE IF ~Supports(wiring.supportsHome, cmd) THEN "adapter_capability_unsupported"
    ELSE Precheck(checks, cmd)

Deny ==
    /\ pc = "gate"
    /\ GateVerdict # "ok"
    /\ Block(GateVerdict)

Approve ==
    /\ pc = "gate"
    /\ GateVerdict = "ok"
    /\ ctx' = "exec"
    /\ pc' = "adapter"
    /\ UNCHANGED <<wiring, plan, k, state, checks, cmd, reason, events, audit>>

-----------------------------------------------------------------------------
(* _execute_action and what its four callers do with its outcome.          *)

\* What one return of _execute_action writes to events and to the audit log;
\* the detail of a failover record is str(primary_error).
Done == Event(IF ctx = "exec" THEN "exec" ELSE "fallback", cmd.type)

ReturnEvents(byFailover) ==
    (IF byFailover THEN <<Event("failover", cmd.type)>> ELSE <<>>) \o <<Done>>

\* Mutant: a command the failover adapter executed leaves no failover record.
ReturnAuditNoFailover(byFailover) ==
    (IF ctx \in {"block", "fault"} THEN <<Event("policy_block", reason)>> ELSE <<>>)
    \o <<Done>>

ReturnAudit(byFailover) ==
    (IF byFailover THEN <<Event("failover", "primary_error")>> ELSE <<>>)
    \o (IF ctx \in {"block", "fault"} THEN <<Event("policy_block", reason)>> ELSE <<>>)
    \o <<Done>>

\* _execute_action returns: an approved action advances the loop, a fallback
\* ends it.
Returned(byFailover) ==
    /\ state' = Execute(state, cmd)
    /\ events' = events \o ReturnEvents(byFailover)
    /\ Audit(ReturnAudit(byFailover))
    /\ k' = IF ctx = "exec" THEN k + 1 ELSE k
    /\ pc' = CASE ctx = "exec" -> "observe"
               [] ctx \in {"block", "fault"} -> "battery"
               [] ctx = "battery" -> "done"
    /\ UNCHANGED <<wiring, plan, ctx, checks, cmd, reason>>

\* _execute_action raises while executing an approved action: the fallback is
\* tried once.
ExecRaised ==
    /\ ctx = "exec"
    /\ events' = Append(events, Event("policy_block", "transport_failure"))
    /\ reason' = "transport_failure"
    /\ cmd' = FallbackAction
    /\ ctx' = "fault"
    /\ pc' = "adapter"
    /\ UNCHANGED <<wiring, plan, k, state, checks, audit>>

\* Mutant: the exception is swallowed and no fault is reported.
BlockRaisedSwallowed ==
    /\ ctx = "block"
    /\ pc' = "battery"
    /\ UNCHANGED <<wiring, plan, k, ctx, state, checks, cmd, reason, events, audit>>

\* Mutant: the fallback is tried again until an adapter accepts it.
BlockRaisedRetries ==
    /\ ctx = "block"
    /\ pc' = "adapter"
    /\ UNCHANGED <<wiring, plan, k, ctx, state, checks, cmd, reason, events, audit>>

\* _execute_action raises in the handler of a refusal: nothing catches it and
\* run_plan itself raises.
BlockRaised ==
    /\ ctx = "block"
    /\ pc' = "raised"
    /\ UNCHANGED <<wiring, plan, k, ctx, state, checks, cmd, reason, events, audit>>

\* Mutant: the break after the failed fallback is missing.
FallbackRaisedNoBreak ==
    /\ ctx \in {"fault", "battery"}
    /\ events' = Append(events, Event("system_fault", "fallback_transport_failure"))
    /\ pc' = IF ctx = "fault" THEN "observe" ELSE "done"
    /\ k' = k + 1
    /\ UNCHANGED <<wiring, plan, ctx, state, checks, cmd, reason, audit>>

\* _execute_action raises in one of the two fallbacks that are guarded.
FallbackRaised ==
    /\ ctx \in {"fault", "battery"}
    /\ events' = Append(events, Event("system_fault", "fallback_transport_failure"))
    /\ pc' = IF ctx = "fault" THEN "battery" ELSE "done"
    /\ UNCHANGED <<wiring, plan, k, ctx, state, checks, cmd, reason, audit>>

Raised == ExecRaised \/ BlockRaised \/ FallbackRaised

PrimaryExecutes ==
    /\ pc = "adapter"
    /\ Returned(FALSE)

\* The primary raises and there is an adapter to fail over to.
PrimaryFails ==
    /\ pc = "adapter"
    /\ wiring.primary = "transport"
    /\ wiring.failover # "none"
    /\ pc' = "failover"
    /\ UNCHANGED <<wiring, plan, k, ctx, state, checks, cmd, reason, events, audit>>

\* The primary raises and there is none.
PrimaryRaises ==
    /\ pc = "adapter"
    /\ wiring.primary = "transport"
    /\ wiring.failover = "none"
    /\ Raised

FailoverExecutes ==
    /\ pc = "failover"
    /\ Returned(TRUE)

FailoverRaises ==
    /\ pc = "failover"
    /\ wiring.failover = "transport"
    /\ Raised

-----------------------------------------------------------------------------
(* After the loop.                                                         *)

\* Mutant: a completed plan skips the battery check.
EndOfPlanReturns ==
    /\ pc = "observe"
    /\ k > Len(plan)
    /\ pc' = "done"
    /\ UNCHANGED <<wiring, plan, k, ctx, state, checks, cmd, reason, events, audit>>

EndOfPlan ==
    /\ pc = "observe"
    /\ k > Len(plan)
    /\ pc' = "battery"
    /\ UNCHANGED <<wiring, plan, k, ctx, state, checks, cmd, reason, events, audit>>

BatteryLow ==
    /\ pc = "battery"
    /\ state.battery < LowBattery /\ state.armed
    /\ cmd' = FallbackAction
    /\ ctx' = "battery"
    /\ pc' = "adapter"
    /\ UNCHANGED <<wiring, plan, k, state, checks, reason, events, audit>>

BatteryOk ==
    /\ pc = "battery"
    /\ ~(state.battery < LowBattery /\ state.armed)
    /\ pc' = "done"
    /\ UNCHANGED <<wiring, plan, k, ctx, state, checks, cmd, reason, events, audit>>

\* run_plan has returned or raised.
Finished == pc \in {"done", "raised"}

Stutter == Finished /\ UNCHANGED vars

Step ==
    \/ \E f \in AvailableFrames, lag \in Lags : Observe(f, lag)
    \/ \E f \in AvailableFrames : ObserveStale(f)
    \/ \E r \in PipelineErrors : ObserveRaises(r)
    \/ Deny \/ Approve
    \/ PrimaryExecutes \/ PrimaryFails \/ PrimaryRaises
    \/ FailoverExecutes \/ FailoverRaises
    \/ EndOfPlan \/ BatteryLow \/ BatteryOk

Next == Step \/ Stutter

\* run_plan is a straight-line call: a step that can be taken is taken.
Spec == Init /\ [][Next]_vars /\ WF_vars(Step)
-----------------------------------------------------------------------------
(* Properties.                                                             *)

TypeOK ==
    /\ wiring \in Wiring
    /\ plan \in Seq(Action)
    /\ k \in Nat \ {0}
    /\ pc \in {"observe", "gate", "adapter", "failover", "battery", "done", "raised"}
    /\ ctx \in {"exec", "block", "fault", "battery"}
    /\ state \in VehicleState
    /\ checks \in Checks
    /\ cmd \in Action
    /\ reason \in BlockReasons
    /\ events \in Log
    /\ audit \in Log

\* The vehicle's position never leaves the geofence, whatever the plan asks for,
\* whichever sidestep the avoidance planner takes and whichever adapter executes
\* (precheck, refine_action and the fallback together), provided the mission
\* starts inside it and home lies inside it.
GeofenceContained == WithinGeofence(state.pos)

MovesTo(a) == a.type = "move_to" /\ a.target # NoVal

\* Whenever executing an action changes the position, it executes the fallback
\* of a handler or an action of the plan that passed every rule of precheck on
\* the checks of its own frame (connection, uncertainty, age, and for a move
\* also speed, battery, standoff and the target's geofence), the adapter's speed
\* limit and, with the clearance-aware planner, the clearance of its target: no
\* path from plan to adapter skips the gate ("LLM output is never directly
\* executed").
MotionIsGated ==
    [][state'.pos # state.pos =>
         \/ cmd = FallbackAction /\ ctx # "exec" /\ state'.pos = state.home
         \/ /\ state.connected /\ checks.std <= MaxStd /\ checks.age <= MaxSensorAge
            /\ wiring.localization = "passthrough" => checks.pos = state.pos
            /\ \/ cmd.type = "return_to_home" /\ state'.pos = state.home
               \/ /\ MovesTo(cmd)
                  /\ state'.pos = cmd.target /\ WithinGeofence(cmd.target)
                  /\ cmd.speed <= MaxSpeed /\ cmd.speed <= AdapterMaxSpeed
                  /\ state.battery >= MinBattery
                  /\ ClearOf(checks.pos, checks.obstacles, Standoff)
                  /\ wiring.avoidance = "clearance" =>
                        ClearOf(cmd.target, checks.obstacles, MinClearance)]_vars

\* A vehicle is disarmed only within the disarm tolerance of its home, as long
\* as the supervisor takes its position from the state (PassThrough engine).
\* The kernel measures from the origin, so this needs home to be the origin.
DisarmOnlyAtHome ==
    [][state.armed /\ ~state'.armed /\ wiring.localization = "passthrough" =>
         /\ Abs(state.pos.x - state.home.x) <= DisarmTolerance
         /\ Abs(state.pos.y - state.home.y) <= DisarmTolerance]_vars

\* Once an action was refused or failed no later action of the plan is executed:
\* every handler ends in break, also when the fallback needed the failover
\* adapter or failed itself.
NoExecAfterBlock ==
    \A i, j \in DOMAIN events :
        i < j /\ events[i].kind = "policy_block" => events[j].kind # "exec"

\* A mission that was refused at any point and returns without reporting a
\* system fault ends at home ("On policy violation, trigger return-to-home"):
\* the fallback of every handler really ran, by one adapter or the other.
BlockedMissionsGoHome ==
    pc = "done" /\ Has(events, "policy_block") /\ ~Has(events, "system_fault")
        => AtHome(state)

\* A mission never returns with an armed vehicle below the low-battery limit
\* away from home unless a system fault says so (the check after the loop,
\* also reached after every break).
LowBatteryEndsHome ==
    pc = "done" /\ state.armed /\ state.battery < LowBattery
        => AtHome(state) \/ Has(events, "system_fault")

\* The kinds of the records of a log that are of one of these kinds, in order.
Kinds(log, kinds) ==
    Selected([i \in DOMAIN log |-> log[i].kind], {i \in DOMAIN log : log[i].kind \in kinds})

\* When the run_plan call is over, the audit log shows every command an adapter
\* executed, in the order the events list shows them: executions, failovers and
\* fallbacks ("Security event logging for every autonomous action").
AuditMatchesEvents ==
    Finished /\ wiring.auditLogger =>
        Kinds(events, {"exec", "failover", "fallback"})
            = Kinds(audit, {"exec", "failover", "fallback"})

\* Every call of run_plan ends, whatever the pipeline and the adapters do: no
\* chain of failures makes it loop.
MissionTerminates == <>Finished

=============================================================================
