--------------------------------- MODULE App ---------------------------------
(***************************************************************************)
(* The programs of app.py and main.py: demo and trace fly one mission, the *)
(* benchmark as many as it is told to, each with a supervisor state that   *)
(* starts at home while the vehicle and the ledger stay what the mission   *)
(* before left them.  Here planners, verifier, run_plan, link and vehicle  *)
(* come together.                                                          *)
(***************************************************************************)
EXTENDS MissionLink, Scenarios

CONSTANTS
    Programs,     \* the command lines the program may be started with
    Answers       \* what the language model may answer

\* A command line, and the environment that selects a planner.
Mission == [command   : {"demo", "benchmark"},
            runs      : Nat \ {0},
            local     : BOOLEAN,      \* --local-primary
            failover  : BOOLEAN,      \* not --no-failover
            demanding : BOOLEAN,      \* --strict-pass or --require-transport-success
            planner   : {"stub", "huggingface"},
            endpoint  : BOOLEAN,      \* HF_ENDPOINT_URL is set
            patrol    : BOOLEAN]      \* the goal asks for a patrol

Trace == [command : {"trace"}, scenario : {NominalReplay, BlockedTarget}]

ASSUME AppAssumption ==
    /\ Programs \subseteq Mission \cup Trace
    /\ \A p \in Programs : p.command = "demo" => p.runs = 1 /\ p.patrol
    /\ Answers \subseteq Seq(Entry)

VARIABLES
    program,     \* what was started
    stage,       \* "planning", "flying", "over", or "died" of an exception
    records,     \* what it reports of each run
    consumed,    \* telemetry events the replay has handed out
    clean,       \* history: the mission began on a clean slate, see Launch
    owed         \* history: the commands of its plan that the ledger did not remember
                 \* then and that were not acknowledged since

app == <<program, stage, records, consumed, clean, owed>>

appVars == <<missionVars, app>>

Tracing == program.command = "trace"

\* The collaborators the three programs build their supervisor with.
WiringOf(p) ==
    IF p.command = "trace"
    THEN [primary |-> "sim", failover |-> "none", supportsHome |-> TRUE,
          perception |-> "telemetry", localization |-> "fused",
          avoidance |-> "clearance", auditLogger |-> FALSE]
    ELSE [primary |-> IF p.local THEN "sim" ELSE "transport",
          failover |-> IF p.failover THEN "sim" ELSE "none", supportsHome |-> TRUE,
          perception |-> "null", localization |-> "passthrough",
          avoidance |-> "passthrough", auditLogger |-> p.command = "demo"]

\* The state each mission of demo and benchmark begins with.
HomeState == ScenarioState(2000, FALSE)

FirstState(p) == IF p.command = "trace" THEN p.scenario.initial ELSE HomeState

AppInit ==
    /\ program \in Programs
    /\ MissionInit
    /\ wiring = WiringOf(program)
    /\ state = FirstState(program)
    /\ stage = "planning"
    /\ records = <<>> /\ consumed = 0
    /\ clean = FALSE /\ owed = {}

-----------------------------------------------------------------------------
(* Planning.                                                               *)

\* What the planner comes back with: a plan, or the exception it raises.
Planned ==
    IF program.command = "trace"
    THEN {[ok |-> TRUE, plan |-> program.scenario.plan]}
    ELSE IF program.planner = "stub"
    THEN {[ok |-> TRUE, plan |-> CloudPlan(program.patrol)]}
    ELSE {IF g.ok /\ AnswerUsable(g.answer)
          THEN [ok |-> TRUE, plan |-> Normalised(g.answer)]
          ELSE [ok |-> FALSE] :
            g \in {Generated(program.endpoint, text, chat) :
                      text \in Route(Answers), chat \in Route(Answers)}}

Report(outcome, success, strict) ==
    records' = Append(records, [outcome |-> outcome, success |-> success, strict |-> strict])

\* The benchmark goes on to its next run, the other programs end.
NextRun ==
    stage' = IF program.command = "benchmark" /\ Len(records') < program.runs
             THEN "planning"
             ELSE "over"

\* The planner raises: the benchmark counts the error, the demo dies of it.
PlannerFails ==
    /\ stage = "planning"
    /\ \E outcome \in Planned : ~outcome.ok
    /\ IF program.command = "benchmark"
       THEN Report("planner_error", FALSE, FALSE) /\ NextRun
       ELSE stage' = "died" /\ UNCHANGED records
    /\ UNCHANGED <<missionVars, program, consumed, clean, owed>>

\* The verifier refuses the plan.
Reject(p) ==
    /\ stage = "planning"
    /\ ~Verified(p)
    /\ plan' = p
    /\ Report("rejected", FALSE, FALSE) /\ NextRun
    /\ UNCHANGED <<wiring, k, pc, ctx, state, checks, cmd, reason, events, audit>>
    /\ UNCHANGED <<world, program, consumed, clean, owed>>

\* No command occurs twice, and no move comes after a return to home.
NoRepetition(p) ==
    \A i, j \in DOMAIN p :
        i < j => p[i] # p[j] /\ ~(p[i].type = "return_to_home" /\ p[j].type = "move_to")

\* run_plan is called.  The slate is clean when the vehicle is where the
\* supervisor believes it to be and is really commanded, nothing is remembered or
\* under way, and the plan does not repeat itself.
Launch(p) ==
    /\ stage = "planning"
    /\ Verified(p)
    /\ stage' = "flying"
    /\ plan' = p
    /\ state' = FirstState(program)
    /\ k' = 1 /\ pc' = "observe" /\ ctx' = "exec"
    /\ checks' = NoChecks /\ cmd' = FallbackAction /\ reason' = "transport_failure"
    /\ events' = <<>>
    /\ clean' = (/\ wiring.primary = "transport"
                 /\ vehicle.pos = HomeState.pos /\ ~vehicle.armed
                 /\ live = {} /\ strays = {} /\ ~overtaken
                 /\ NoRepetition(p))
    /\ owed' = {p[i] : i \in DOMAIN p} \ live
    /\ UNCHANGED <<wiring, audit, world, program, records, consumed>>

-----------------------------------------------------------------------------
(* Flying.                                                                 *)

Flying == stage = "flying" /\ ~Finished

\* A step of run_plan that is not the look at telemetry of a trace.
Fly ==
    /\ Flying
    /\ \/ Commanding
       \/ Deciding /\ ~(Tracing /\ AtNextAction)
    /\ owed' = owed \ (live' \ live)
    /\ UNCHANGED <<program, stage, records, consumed, clean>>

\* DeterministicTelemetryReplay.next_event, and the frame the pipeline makes of
\* it; with no event left the frame is empty.
NextEvent ==
    LET telemetry == program.scenario.telemetry
    IN  IF consumed < Len(telemetry) THEN telemetry[consumed + 1] ELSE EmptyFrame

Replay ==
    /\ Flying /\ Tracing
    /\ \/ ObserveStale(NextEvent)
       \/ \E lag \in Lags : Observe(NextEvent, lag)
    /\ consumed' = IF consumed < Len(program.scenario.telemetry) THEN consumed + 1 ELSE consumed
    /\ UNCHANGED <<world, program, stage, records, clean, owed>>

-----------------------------------------------------------------------------
(* Reporting.                                                              *)

Success == ~Has(events, "system_fault") /\ state.connected

TransportPrimaryOk == program.local \/ ~Has(events, "failover")

\* Mutant: the use of the failover adapter is counted but not held against the run.
StrictSuccessAnyAdapter ==
    /\ Success
    /\ ~Has(events, "policy_block")
    /\ Len(Kinds(events, {"exec"})) = Len(plan)

StrictSuccess ==
    /\ Success
    /\ ~Has(events, "policy_block")
    /\ Len(Kinds(events, {"exec"})) = Len(plan)
    /\ program.demanding => TransportPrimaryOk

\* run_plan has returned.
Return ==
    /\ stage = "flying" /\ pc = "done"
    /\ Report("executed", Success, program.command = "benchmark" /\ StrictSuccess)
    /\ NextRun
    /\ UNCHANGED <<missionVars, program, consumed, clean, owed>>

\* run_plan has raised, and nothing above catches it: no summary is written.
Die ==
    /\ stage = "flying" /\ pc = "raised"
    /\ stage' = "died"
    /\ UNCHANGED <<missionVars, program, records, consumed, clean, owed>>

\* The link and the ledger have a life of their own.
Outside ==
    /\ \/ \E a \in strays : StrayArrives(a)
       \/ \E a \in live : Expires(a)
    /\ UNCHANGED app

Ended == stage \in {"over", "died"} /\ UNCHANGED appVars

Plan ==
    \/ PlannerFails
    \/ \E outcome \in Planned : outcome.ok /\ (Reject(outcome.plan) \/ Launch(outcome.plan))

Run == Plan \/ Fly \/ Replay \/ Return \/ Die

AppNext == Run \/ Outside \/ Ended

AppSpec == AppInit /\ [][AppNext]_appVars

-----------------------------------------------------------------------------
(* Properties.                                                             *)

\* Whatever the language model answers, only lists of actions become plans, and
\* the benchmark reports each run once.
AppTypeOK ==
    /\ WorldOK
    /\ program \in Programs
    /\ wiring = WiringOf(program)
    /\ plan \in Seq(Action)
    /\ stage \in {"planning", "flying", "over", "died"}
    /\ records \in Seq([outcome : {"planner_error", "rejected", "executed"},
                        success : BOOLEAN, strict : BOOLEAN])
    /\ ~Tracing => Len(records) <= program.runs
    /\ stage = "over" /\ ~Tracing => Len(records) = program.runs
    /\ consumed \in Nat
    /\ clean \in BOOLEAN /\ owed \subseteq Action

LastRun == records[Len(records)]

\* The benchmark has just counted a strict success over the transport.
StrictOverTransport ==
    /\ stage \in {"planning", "over"} /\ records # <<>> /\ LastRun.strict
    /\ ~program.local /\ (program.demanding \/ ~program.failover)

\* A strict success with no failover allowed means that the vehicle acknowledged
\* every command of the plan during this run, except those the ledger remembered
\* from an earlier one ("if the trainee, checklist, and radio all work with no
\* need for backup").
StrictMeansFlown == StrictOverTransport => owed = {}

\* As near to its home as the disarm rule of precheck asks for.
NearHome(s) ==
    /\ Abs(s.pos.x - s.home.x) <= DisarmTolerance
    /\ Abs(s.pos.y - s.home.y) <= DisarmTolerance

\* Such a run, begun on a clean slate, leaves the vehicle itself at home and
\* disarmed: planner, verifier, gate, link and verdict together, over everything
\* the link may lose or repeat, unless a late request arrived.
StrictEndsSafe ==
    StrictOverTransport /\ clean /\ ~overtaken => NearHome(vehicle) /\ ~vehicle.armed

\* A run begun on a clean slate knows where the vehicle is, whatever the runs
\* before it did.
CleanRunKnowsVehicle == stage = "flying" /\ clean => ProjectionFollowsVehicle

\* What the language-model planner returns is refused by the verifier only for a
\* move without coordinates: types, speeds, the first and the last action are
\* repaired before.
RejectedForCoordinatesOnly ==
    stage \in {"planning", "over"} /\ records # <<>> /\ LastRun.outcome = "rejected" =>
        \E i \in DOMAIN plan : plan[i].type = "move_to" /\ plan[i].target = NoVal

\* A trace never flies to a target that an obstacle of its own telemetry covers
\* ("Move target blocked by lidar obstacle, requiring reroute").
BlockedTargetAvoided ==
    [][Tracing /\ state'.pos # state.pos /\ MovesTo(cmd) =>
         \A i \in DOMAIN program.scenario.telemetry :
             ClearOf(state'.pos, program.scenario.telemetry[i].obstacles, MinClearance)]_appVars

=============================================================================
