------------------------------ MODULE AppProofs ------------------------------
(***************************************************************************)
(* Proofs about whole programs: whatever the language model answers and    *)
(* whatever the link loses, repeats or delays, run after run.              *)
(***************************************************************************)
EXTENDS App, MissionLinkProofs

-----------------------------------------------------------------------------
(* What the planners return.                                               *)

LEMMA PlainType == \A t \in ActionTypes : Plain(t) \in Action /\ Plain(t).type = t
BY DEF Plain, Action

LEMMA MoveToType ==
    ASSUME NEW x \in Int, NEW y \in Int, NEW speed \in Int
    PROVE  /\ MoveTo(x, y, speed) \in Action
           /\ MoveTo(x, y, speed).type = "move_to"
           /\ MoveTo(x, y, speed).target \in Point
           /\ MoveTo(x, y, speed).speed = speed
BY DEF MoveTo, Action, ActionTypes, Point

\* An action whose speed, when it is a move, is one the vehicle can fly at.
Paced == {a \in Action : a.type = "move_to" => a.speed # NoVal /\ a.speed > 0}

LEMMA PlainPaced == \A t \in ActionTypes \ {"move_to"} : Plain(t) \in Paced
BY PlainType DEF Paced

LEMMA WithSpeedType ==
    ASSUME NEW a \in Action
    PROVE  /\ WithSpeed(a) \in Paced
           /\ WithSpeed(a).type = a.type
<1>1. 3 \in Int /\ 3 # NoVal /\ NoVal \notin Int
  BY SupervisorAssumption
<1>2. CASE a.type = "move_to" /\ (a.speed = NoVal \/ a.speed <= 0)
  BY <1>1, <1>2 DEF WithSpeed, Paced, Action
<1>3. CASE ~(a.type = "move_to" /\ (a.speed = NoVal \/ a.speed <= 0))
  <2>1. WithSpeed(a) = a
    BY <1>3 DEF WithSpeed
  <2>2. a.speed \in Int \/ a.speed = NoVal
    BY DEF Action
  <2> QED BY <1>1, <1>3, <2>1, <2>2 DEF Paced
<1> QED BY <1>2, <1>3

\* The entries that are kept are entries of the answer, in their order.
LEMMA TypedEntriesType ==
    ASSUME NEW answer \in Seq(Entry)
    PROVE  TypedEntries(answer) \in Seq(Entry)
<1>1. {i \in DOMAIN answer : Typed(answer[i])} \in SUBSET DOMAIN answer
  OBVIOUS
<1> QED BY <1>1, SelectedType DEF TypedEntries

LEMMA EndingType ==
    ASSUME NEW last \in Action
    PROVE  /\ Ending(last) \in Seq(Paced)
           /\ \/ Ending(last) = <<>> /\ last.type = "disarm"
              \/ Ending(last) = <<Plain("disarm")>>
              \/ Ending(last) = <<Plain("return_to_home"), Plain("disarm")>>
<1>1. Plain("return_to_home") \in Paced /\ Plain("disarm") \in Paced
  BY PlainPaced DEF ActionTypes
<1>2. \/ Ending(last) = <<>> /\ last.type = "disarm"
      \/ Ending(last) = <<Plain("disarm")>>
      \/ Ending(last) = <<Plain("return_to_home"), Plain("disarm")>>
  BY DEF Ending
<1>3. /\ <<>> \in Seq(Paced) /\ <<Plain("disarm")>> \in Seq(Paced)
      /\ <<Plain("return_to_home"), Plain("disarm")>> \in Seq(Paced)
  BY <1>1
<1> QED BY <1>2, <1>3

\* What is made of a usable answer begins with arm, ends with disarm and has a
\* positive speed in every move, whatever the model wrote.
LEMMA NormalisedPlan ==
    ASSUME NEW answer \in Seq(Entry), AnswerUsable(answer)
    PROVE  /\ Normalised(answer) \in Seq(Paced)
           /\ Normalised(answer) # <<>>
           /\ Normalised(answer)[1].type = "arm"
           /\ Last(Normalised(answer)).type = "disarm"
<1> DEFINE entries == TypedEntries(answer)
           actions == [i \in DOMAIN entries |-> WithSpeed(entries[i])]
           start == IF actions[1].type = "arm" THEN <<>> ELSE <<Plain("arm")>>
           ending == Ending(Last(actions))
<1>1. entries \in Seq(Entry) /\ entries # <<>>
  BY TypedEntriesType DEF AnswerUsable
<1>2. \A i \in DOMAIN entries : entries[i].type \in ActionTypes
  BY DEF AnswerUsable, Understood
<1>3. Normalised(answer) = start \o actions \o ending
  BY DEF Normalised
<1> HIDE DEF entries
<1>4. \A i \in DOMAIN entries : entries[i] \in Action
  <2> TAKE i \in DOMAIN entries
  <2>1. entries[i] \in Entry
    BY <1>1
  <2> QED BY <1>2, <2>1 DEF Entry, Action
<1>5. actions \in Seq(Paced) /\ Len(actions) \in Nat \ {0}
  <2>1. \A i \in DOMAIN entries : WithSpeed(entries[i]) \in Paced
    BY <1>4, WithSpeedType
  <2> QED BY <1>1, <2>1
<1> HIDE DEF actions
<1>6. Last(actions) \in Action /\ actions[1] \in Action
  BY <1>5 DEF Last, Paced
<1>7. /\ start \in Seq(Paced)
      /\ \/ start = <<>> /\ actions[1].type = "arm"
         \/ start = <<Plain("arm")>>
  BY PlainPaced DEF ActionTypes
<1>8. /\ ending \in Seq(Paced)
      /\ \/ ending = <<>> /\ Last(actions).type = "disarm"
         \/ ending = <<Plain("disarm")>>
         \/ ending = <<Plain("return_to_home"), Plain("disarm")>>
  BY <1>6, EndingType
<1> HIDE DEF start, ending
<1> DEFINE p == start \o actions \o ending
<1>9. /\ p \in Seq(Paced) /\ Len(p) = Len(start) + Len(actions) + Len(ending)
      /\ Len(p) >= 1
  BY <1>5, <1>7, <1>8
<1>10. p[1].type = "arm"
  <2>1. Plain("arm").type = "arm"
    BY PlainType DEF ActionTypes
  <2>2. CASE start = <<>> /\ actions[1].type = "arm"
    <3>1. p[1] = actions[1]
      BY <1>5, <1>8, <2>2
    <3> QED BY <2>2, <3>1
  <2>3. CASE start = <<Plain("arm")>>
    <3>1. p[1] = Plain("arm")
      BY <1>5, <1>8, <2>3
    <3> QED BY <2>1, <3>1
  <2> QED BY <1>7, <2>2, <2>3
<1>11. p[Len(p)].type = "disarm"
  <2>1. CASE ending = <<>> /\ Last(actions).type = "disarm"
    BY <1>5, <1>7, <2>1 DEF Last
  <2>2. CASE ending = <<Plain("disarm")>>
    BY <1>5, <1>7, <2>2, PlainType DEF ActionTypes
  <2>3. CASE ending = <<Plain("return_to_home"), Plain("disarm")>>
    BY <1>5, <1>7, <2>3, PlainType DEF ActionTypes
  <2> QED BY <1>8, <2>1, <2>2, <2>3
<1> QED BY <1>3, <1>9, <1>10, <1>11 DEF Last

\* A plan the verifier refuses, if at all, for a move without coordinates.
Repaired(p) ==
    ~Verified(p) => \E i \in DOMAIN p : p[i].type = "move_to" /\ p[i].target = NoVal

LEMMA PacedPlan ==
    ASSUME NEW p \in Seq(Paced), p # <<>>, p[1].type = "arm", Last(p).type = "disarm"
    PROVE  p \in Seq(Action) /\ Repaired(p)
<1>1. Paced \subseteq Action
  BY DEF Paced
<1>2. p \in Seq(Action)
  BY <1>1
<1>3. \A i \in DOMAIN p : p[i].type = "move_to" => p[i].speed # NoVal /\ p[i].speed > 0
  BY DEF Paced
<1> QED BY <1>2, <1>3 DEF Repaired, Verified, WellFormed

\* The plans that are written down in the code, one by one.
LEMMA MovesPaced ==
    /\ \A x, y \in {1000, 2000, -2000, 0, 800, 200, 500} :
          \A speed \in {2, 3, 4} : MoveTo(x, y, speed) \in Paced
    /\ Plain("arm") \in Paced /\ Plain("arm").type = "arm"
    /\ Plain("return_to_home") \in Paced
    /\ Plain("disarm") \in Paced /\ Plain("disarm").type = "disarm"
<1>1. ASSUME NEW x \in {1000, 2000, -2000, 0, 800, 200, 500},
             NEW y \in {1000, 2000, -2000, 0, 800, 200, 500}, NEW speed \in {2, 3, 4}
      PROVE  MoveTo(x, y, speed) \in Paced
  <2>1. x \in Int /\ y \in Int /\ speed \in Int /\ speed # NoVal /\ speed > 0
    BY SupervisorAssumption
  <2> QED BY <2>1, MoveToType DEF Paced
<1> QED BY <1>1, PlainPaced, PlainType DEF ActionTypes

LEMMA FramedPlan ==
    ASSUME NEW middle \in Seq(Paced), NEW p,
           p = <<Plain("arm")>> \o middle \o <<Plain("return_to_home"), Plain("disarm")>>
    PROVE  /\ p \in Seq(Paced) /\ p # <<>>
           /\ p[1].type = "arm" /\ Last(p).type = "disarm"
<1> DEFINE arm == Plain("arm")
           home == Plain("return_to_home")
           disarm == Plain("disarm")
<1>1. {arm, home, disarm} \subseteq Paced /\ arm.type = "arm" /\ disarm.type = "disarm"
  BY MovesPaced
<1> HIDE DEF arm, home, disarm
<1>2. p = <<arm>> \o middle \o <<home, disarm>>
  BY DEF arm, home, disarm
<1>3. p \in Seq(Paced) /\ Len(p) = Len(middle) + 3 /\ Len(p) >= 1
  BY <1>1, <1>2
<1>4. p[1] = arm
  BY <1>1, <1>2
<1>5. p[Len(p)] = disarm
  BY <1>1, <1>2
<1> QED BY <1>1, <1>3, <1>4, <1>5 DEF Last

LEMMA CloudPlanType ==
    ASSUME NEW patrol \in BOOLEAN
    PROVE  /\ CloudPlan(patrol) \in Seq(Paced) /\ CloudPlan(patrol) # <<>>
           /\ CloudPlan(patrol)[1].type = "arm"
           /\ Last(CloudPlan(patrol)).type = "disarm"
<1> DEFINE north == MoveTo(2000, 2000, 4)
           west == MoveTo(-2000, 2000, 4)
           south == MoveTo(-2000, -2000, 4)
           east == MoveTo(2000, -2000, 4)
           out == MoveTo(1000, 0, 3)
           middle == IF patrol THEN <<north, west, south, east>> ELSE <<out>>
<1>1. {north, west, south, east, out} \subseteq Paced
  BY MovesPaced
<1>2. middle \in Seq(Paced)
  <2> HIDE DEF north, west, south, east, out
  <2> QED BY <1>1
<1> DEFINE p == CloudPlan(patrol)
<1>3. p = <<Plain("arm")>> \o middle \o <<Plain("return_to_home"), Plain("disarm")>>
  BY DEF CloudPlan
<1> HIDE DEF middle, p
<1>4. p \in Seq(Paced) /\ p # <<>> /\ p[1].type = "arm" /\ Last(p).type = "disarm"
  BY <1>2, <1>3, FramedPlan
<1> QED BY <1>4 DEF p

LEMMA ScenarioPlanType ==
    ASSUME NEW scenario \in {NominalReplay, BlockedTarget}
    PROVE  /\ scenario.plan \in Seq(Paced) /\ scenario.plan # <<>>
           /\ scenario.plan[1].type = "arm"
           /\ Last(scenario.plan).type = "disarm"
<1> DEFINE arm == Plain("arm")
           home == Plain("return_to_home")
           disarm == Plain("disarm")
<1>1. PICK out \in Paced : scenario.plan = <<arm, out, home, disarm>>
  <2>1. CASE scenario = NominalReplay
    <3>1. scenario.plan = <<arm, MoveTo(800, 200, 2), home, disarm>>
      BY <2>1 DEF NominalReplay, OutAndBack
    <3> QED BY <3>1, MovesPaced
  <2>2. CASE scenario = BlockedTarget
    <3>1. scenario.plan = <<arm, MoveTo(1000, 500, 2), home, disarm>>
      BY <2>2 DEF BlockedTarget, OutAndBack
    <3> QED BY <3>1, MovesPaced
  <2> QED BY <2>1, <2>2
<1>2. {arm, home, disarm} \subseteq Paced /\ arm.type = "arm" /\ disarm.type = "disarm"
  BY MovesPaced
<1> HIDE DEF arm, home, disarm
<1> QED BY <1>1, <1>2 DEF Last

\* A telemetry event of a scenario is a frame, and so is the empty one.
LEMMA NextEventType ==
    ASSUME program \in Trace, consumed \in Nat
    PROVE  NextEvent \in Frame
<1> DEFINE telemetry == program.scenario.telemetry
<1>1. program.scenario \in {NominalReplay, BlockedTarget}
  BY DEF Trace
<1>2. \A i \in 1 .. 4 : \A x, y \in Int : \A std \in Nat : \A obstacles \in SUBSET Obstacle :
         Telemetry(i, x, y, std, obstacles) \in Frame
  BY DEF Telemetry, Frame, Point
<1>3. {} \in SUBSET Obstacle
      /\ {[pos |-> [x |-> 1000, y |-> 500], radius |-> 150]} \in SUBSET Obstacle
  BY DEF Obstacle, Point
<1>4. telemetry \in Seq(Frame)
  <2>1. CASE program.scenario = NominalReplay
    <3>1. telemetry = << Telemetry(1, 0, 0, 40, {}), Telemetry(2, 800, 200, 40, {}),
                         Telemetry(3, 800, 200, 40, {}), Telemetry(4, 0, 0, 40, {}) >>
      BY <2>1 DEF NominalReplay
    <3>2. /\ Telemetry(1, 0, 0, 40, {}) \in Frame /\ Telemetry(2, 800, 200, 40, {}) \in Frame
          /\ Telemetry(3, 800, 200, 40, {}) \in Frame /\ Telemetry(4, 0, 0, 40, {}) \in Frame
      BY <1>2, <1>3
    <3> QED BY <3>1, <3>2
  <2>2. CASE program.scenario = BlockedTarget
    <3> DEFINE rocks == {[pos |-> [x |-> 1000, y |-> 500], radius |-> 150]}
    <3>1. telemetry = << Telemetry(1, 0, 0, 50, rocks) >>
      BY <2>2 DEF BlockedTarget
    <3>2. Telemetry(1, 0, 0, 50, rocks) \in Frame
      BY <1>2, <1>3
    <3> QED BY <3>1, <3>2
  <2> QED BY <1>1, <2>1, <2>2
<1>5. EmptyFrame \in Frame
  BY DEF EmptyFrame, Frame
<1> QED BY <1>4, <1>5 DEF NextEvent

\* Whatever the planner returns is a list of actions, and a plan the verifier
\* refuses, if at all, for a move without coordinates.
LEMMA PlannedType ==
    ASSUME program \in Programs, NEW outcome \in Planned, outcome.ok
    PROVE  outcome.plan \in Seq(Action) /\ Repaired(outcome.plan)
<1>1. program \in Mission \cup Trace
  BY AppAssumption
<1>2. CASE program.command = "trace"
  <2>1. outcome.plan = program.scenario.plan
    BY <1>2 DEF Planned
  <2>2. program.scenario \in {NominalReplay, BlockedTarget}
    BY <1>1, <1>2 DEF Mission, Trace
  <2> QED BY <2>1, <2>2, ScenarioPlanType, PacedPlan
<1>3. CASE program.command # "trace" /\ program.planner = "stub"
  <2>1. outcome.plan = CloudPlan(program.patrol) /\ program.patrol \in BOOLEAN
    BY <1>1, <1>3 DEF Planned, Mission, Trace
  <2> QED BY <2>1, CloudPlanType, PacedPlan
<1>4. CASE program.command # "trace" /\ program.planner # "stub"
  <2>1. PICK text \in Route(Answers), chat \in Route(Answers) :
           outcome = LET g == Generated(program.endpoint, text, chat)
                     IN  IF g.ok /\ AnswerUsable(g.answer)
                         THEN [ok |-> TRUE, plan |-> Normalised(g.answer)]
                         ELSE [ok |-> FALSE]
    BY <1>4 DEF Planned
  <2> DEFINE g == Generated(program.endpoint, text, chat)
  <2>2. g \in Route(Answers)
    BY DEF Generated
  <2> HIDE DEF g
  <2>3. g.ok /\ AnswerUsable(g.answer) /\ outcome.plan = Normalised(g.answer)
    BY <2>1 DEF g
  <2>4. g.answer \in Seq(Entry)
    BY <2>2, <2>3, AppAssumption DEF Route
  <2> QED BY <2>3, <2>4, NormalisedPlan, PacedPlan
<1> QED BY <1>2, <1>3, <1>4

-----------------------------------------------------------------------------
(* The steps of a program, seen from the mission it flies.                  *)

\* run_plan changes neither its plan nor its collaborators.
LEMMA PlanIsFixed == [AnyFrameNext]_vars => plan' = plan /\ wiring' = wiring
BY DEF AnyFrameNext, Next, Step, Stutter, vars, Block, Observe, ObserveStale, ObserveRaises,
       Deny, Approve, Returned, Raised, ExecRaised, BlockRaised, FallbackRaised,
       PrimaryExecutes, PrimaryFails, PrimaryRaises, FailoverExecutes, FailoverRaises,
       EndOfPlan, BatteryLow, BatteryOk

\* What the history of a mission makes of a step at the adapter.
Remember == owed' = owed \ (live' \ live)

\* A step of run_plan in flight: the command goes to an adapter, or a line of
\* run_plan commands nothing, with a frame the scenario or the wiring provides.
FlightStep ==
    /\ stage = "flying" /\ stage' = "flying"
    /\ UNCHANGED <<program, records, clean>>
    /\ consumed' \in {consumed, consumed + 1}
    /\ Remember
    /\ \/ Commanding
       \/ AnyFrameNext /\ pc \notin {"adapter", "failover"} /\ UNCHANGED world

\* Planning, reporting and ending leave the mission and the world alone, but for
\* the plan that was refused.
Desk ==
    /\ stage' # "flying"
    /\ UNCHANGED <<wiring, k, pc, ctx, state, checks, cmd, reason, events, audit>>
    /\ UNCHANGED <<world, program, consumed, clean, owed>>
    /\ \/ /\ stage = "planning"
          /\ \/ Report("planner_error", FALSE, FALSE) /\ NextRun /\ UNCHANGED plan
             \/ stage' = "died" /\ UNCHANGED <<records, plan>>
             \/ /\ \E outcome \in Planned : outcome.ok /\ plan' = outcome.plan
                /\ ~Verified(plan')
                /\ Report("rejected", FALSE, FALSE) /\ NextRun
       \/ /\ stage = "flying" /\ pc = "done" /\ UNCHANGED plan
          /\ Report("executed", Success, program.command = "benchmark" /\ StrictSuccess)
          /\ NextRun
       \/ stage = "flying" /\ stage' = "died" /\ UNCHANGED <<records, plan>>

\* The link or the ledger moved, or nothing did.
Elsewhere ==
    /\ UNCHANGED <<app, vars>>
    /\ \/ \E a \in strays : StrayArrives(a)
       \/ \E a \in live : Expires(a)
       \/ UNCHANGED world

LEMMA AppStep ==
    ASSUME [AppNext]_appVars, program \in Programs, consumed \in Nat
    PROVE  \/ FlightStep
           \/ Desk
           \/ Elsewhere
           \/ \E outcome \in Planned : outcome.ok /\ Launch(outcome.plan)
<1>1. ASSUME PlannerFails PROVE Desk
  BY <1>1 DEF PlannerFails, Desk, NextRun, missionVars, vars
<1>2. ASSUME NEW outcome \in Planned, outcome.ok, Reject(outcome.plan) PROVE Desk
  BY <1>2 DEF Reject, Desk, NextRun
<1>3. ASSUME Fly PROVE FlightStep
  BY <1>3 DEF Fly, Flying, FlightStep, Remember, Deciding, AnyFrameNext
<1>4. ASSUME Replay PROVE FlightStep
  <2>1. program \in Trace
    BY <1>4, AppAssumption DEF Replay, Tracing, Mission
  <2>2. NextEvent \in Frame
    BY <2>1, NextEventType
  <2>3. AnyFrameNext /\ pc = "observe"
    BY <1>4, <2>2 DEF Replay, AnyFrameNext, Observe, ObserveStale, AtNextAction
  <2>4. UNCHANGED <<world, program, stage, records, clean, owed>> /\ stage = "flying"
        /\ consumed' \in {consumed, consumed + 1}
    BY <1>4 DEF Replay, Flying
  <2> QED BY <2>3, <2>4 DEF FlightStep, Remember, world
<1>5. ASSUME Return PROVE Desk
  BY <1>5 DEF Return, Desk, NextRun, missionVars, vars
<1>6. ASSUME Die PROVE Desk
  BY <1>6 DEF Die, Desk, missionVars, vars
<1>7. ASSUME Outside PROVE Elsewhere
  BY <1>7 DEF Outside, Elsewhere, StrayArrives, Expires
<1>8. ASSUME UNCHANGED appVars PROVE Elsewhere
  BY <1>8 DEF Elsewhere, appVars, missionVars
<1> QED
  BY <1>1, <1>2, <1>3, <1>4, <1>5, <1>6, <1>7, <1>8 DEF AppNext, Run, Plan, Ended

-----------------------------------------------------------------------------
(* Types, and where vehicle and supervisor begin.                           *)

\* A program that still plans or flies has a run left to report.
RunsLeft == ~Tracing /\ stage \in {"planning", "flying"} => Len(records) < program.runs

\* Both views of the vehicle have their home at the origin.
Origin == [x |-> 0, y |-> 0]

HomeInv == vehicle.home = Origin /\ state.home = Origin

Grounded == SupervisorInv /\ AppTypeOK /\ FenceInv /\ RunsLeft /\ HomeInv

LEMMA FirstStateType ==
    ASSUME NEW p \in Programs
    PROVE  /\ FirstState(p) \in VehicleState
           /\ FirstState(p).pos = Origin /\ FirstState(p).home = Origin
           /\ p.command # "trace" => FirstState(p) = HomeState
<1> DEFINE started == {s \in VehicleState : s.pos = Origin /\ s.home = Origin}
<1>1. HomeState \in started
  BY DEF HomeState, ScenarioState, VehicleState, Point, Origin
<1>2. NominalReplay.initial \in started
  BY DEF NominalReplay, ScenarioState, VehicleState, Point, Origin
<1>3. BlockedTarget.initial \in started
  BY DEF BlockedTarget, ScenarioState, VehicleState, Point, Origin
<1> HIDE DEF started
<1>4. CASE p.command = "trace"
  <2>1. p.scenario = NominalReplay \/ p.scenario = BlockedTarget
    BY <1>4, AppAssumption DEF Mission, Trace
  <2>2. p.scenario.initial \in started
    BY <1>2, <1>3, <2>1
  <2> QED BY <1>4, <2>2 DEF FirstState, started
<1>5. CASE p.command # "trace"
  BY <1>1, <1>5 DEF FirstState, started
<1> QED BY <1>4, <1>5

LEMMA OriginInside == WithinGeofence(Origin)
BY PolicyAssumption DEF WithinGeofence, Abs, Origin

LEMMA WiringType ==
    ASSUME NEW p \in Programs
    PROVE  WiringOf(p) \in Wiring
<1>1. p \in Mission \/ p \in Trace
  BY AppAssumption
<1> QED BY <1>1 DEF WiringOf, Wiring, Mission, Trace

\* A mission that is about to begin satisfies the invariant of run_plan.
LEMMA LaunchInv ==
    ASSUME TypeOK, program \in Programs, NEW p \in Seq(Action), Launch(p)
    PROVE  SupervisorInv'
<1>1. FirstState(program) \in VehicleState
  BY FirstStateType
<1>2. NoChecks \in Checks /\ <<>> \in Log
  BY DEF NoChecks, Checks, Point, Log
<1>3. TypeOK'
  BY <1>1, <1>2, FallbackType DEF Launch, TypeOK, BlockReasons
<1>4. ~Has(events', "policy_block") /\ NoExecAfterBlock'
  BY DEF Launch, Has, NoExecAfterBlock
<1>5. pc' = "observe" /\ ctx' = "exec"
  BY DEF Launch
<1> QED
  BY <1>3, <1>4, <1>5
     DEF SupervisorInv, ChecksAreCurrent, Pending, AdapterCommand, ContextOfEvents,
         LowBatteryEndsHome

LEMMA RunRecords ==
    ASSUME AppTypeOK, RunsLeft, stage \in {"planning", "flying"},
           NEW outcome \in {"planner_error", "rejected", "executed"},
           NEW success \in BOOLEAN, NEW strict \in BOOLEAN,
           Report(outcome, success, strict), NextRun, UNCHANGED program
    PROVE  /\ records' \in Seq([outcome : {"planner_error", "rejected", "executed"},
                                success : BOOLEAN, strict : BOOLEAN])
           /\ stage' \in {"planning", "over"}
           /\ ~Tracing' => Len(records') <= program'.runs
           /\ stage' = "over" /\ ~Tracing' => Len(records') = program'.runs
           /\ RunsLeft'
           /\ records' # <<>>
           /\ LastRun' = [outcome |-> outcome, success |-> success, strict |-> strict]
<1> DEFINE R == [outcome : {"planner_error", "rejected", "executed"},
                 success : BOOLEAN, strict : BOOLEAN]
           r == [outcome |-> outcome, success |-> success, strict |-> strict]
<1>1. records \in Seq(R) /\ r \in R /\ records' = Append(records, r)
  BY DEF AppTypeOK, Report
<1> HIDE DEF r
<1>2. /\ records' \in Seq(R) /\ Len(records') = Len(records) + 1
      /\ Len(records) \in Nat
      /\ records'[Len(records) + 1] = r
  BY <1>1
<1>3. ~Tracing => Len(records) < program.runs /\ program.runs \in Nat
  BY AppAssumption DEF AppTypeOK, RunsLeft, Mission, Trace, Tracing
<1>4. ~Tracing => program.command = "benchmark" \/ program.runs = 1
  BY AppAssumption DEF AppTypeOK, Mission, Trace, Tracing
<1>5. stage' = IF program.command = "benchmark" /\ Len(records') < program.runs
              THEN "planning" ELSE "over"
  BY DEF NextRun
<1>6. Tracing' = Tracing
  BY DEF Tracing
<1>7. LastRun' = r
  BY <1>2 DEF LastRun
<1>8. program.command = "benchmark" => ~Tracing
  BY DEF Tracing
<1>9. stage' = "over" /\ ~Tracing => Len(records') = program.runs
  BY <1>2, <1>3, <1>4, <1>5
<1>10. RunsLeft'
  BY <1>5, <1>6, <1>8 DEF RunsLeft
<1>11. ~Tracing => Len(records') <= program.runs
  BY <1>2, <1>3
<1>12. records' # <<>>
  BY <1>2
<1> QED
  BY <1>2, <1>5, <1>6, <1>7, <1>9, <1>10, <1>11, <1>12 DEF r

\* The supervisor's view changes only when an adapter returns.
LEMMA ViewChange ==
    [AnyFrameNext]_vars =>
        \/ state' = state
        \/ pc \in {"adapter", "failover"} /\ state' = Execute(state, cmd)
<1>1. [AnyFrameNext]_vars => [Next]_vars \/ state' = state
  BY DEF AnyFrameNext, Observe, ObserveStale, Block
<1> QED BY <1>1, StateChange

\* A step in flight is one of run_plan, and one of the mission or one that the
\* world does not notice.
LEMMA FlightIsMission ==
    ASSUME FlightStep
    PROVE  [AnyFrameNext]_vars /\ ([MissionNext]_missionVars \/ UNCHANGED world)
<1>1. CASE Commanding
  <2>1. [MissionNext]_missionVars
    BY <1>1 DEF MissionNext
  <2> QED BY <2>1, SupervisorSteps DEF AnyFrameNext
<1>2. CASE AnyFrameNext /\ UNCHANGED world
  BY <1>2
<1> QED BY <1>1, <1>2 DEF FlightStep

LEMMA ElsewhereIsMission ==
    ASSUME Elsewhere
    PROVE  UNCHANGED <<app, vars>> /\ [MissionNext]_missionVars
BY DEF Elsewhere, MissionNext, missionVars

LEMMA HomeStep ==
    ASSUME TypeOK, WorldOK, SupervisorInv, HomeInv, [AnyFrameNext]_vars,
           [MissionNext]_missionVars \/ UNCHANGED world
    PROVE  HomeInv'
<1>1. state'.home = Origin
  <2>1. state \in VehicleState /\ cmd \in Action
    BY DEF TypeOK
  <2>2. Execute(state, cmd).home = Origin
    BY <2>1, ExecuteType DEF HomeInv
  <2>3. state' = state \/ state' = Execute(state, cmd)
    BY ViewChange
  <2> QED BY <2>2, <2>3 DEF HomeInv
<1>2. vehicle'.home = Origin
  <2>1. vehicle \in VehicleState /\ strays \subseteq Action
    BY DEF WorldOK
  <2>2. \A a \in Action : Execute(vehicle, a).home = Origin
    BY <2>1, ExecuteType DEF HomeInv
  <2>3. cmd \in Action
    BY DEF TypeOK
  <2>4. CASE [MissionNext]_missionVars
    BY <2>1, <2>2, <2>3, <2>4, WorldChange DEF HomeInv
  <2>5. CASE UNCHANGED world
    BY <2>5 DEF world, HomeInv
  <2> QED BY <2>4, <2>5
<1> QED BY <1>1, <1>2 DEF HomeInv

LEMMA GroundedInit == AppInit => Grounded
<1> SUFFICES ASSUME AppInit PROVE Grounded
  OBVIOUS
<1>1. program \in Programs /\ MissionInit /\ state = FirstState(program)
  BY DEF AppInit
<1>2. SupervisorInv /\ WorldOK
  BY <1>1, WorldInit
<1>3. TypeOK /\ vehicle = state
  BY <1>1, <1>2 DEF SupervisorInv, MissionInit
<1>4. HomeInv /\ FenceInv
  <2>1. state.pos = Origin /\ state.home = Origin
    BY <1>1, FirstStateType
  <2>2. strays = {}
    BY <1>1 DEF MissionInit
  <2> QED BY <1>3, <2>1, <2>2, OriginInside DEF HomeInv, FenceInv
<1>5. RunsLeft
  BY <1>1, AppAssumption DEF AppInit, RunsLeft, Tracing, Mission, Trace
<1>6. AppTypeOK
  <2>1. plan \in Seq(Action) /\ wiring = WiringOf(program)
    BY <1>3 DEF AppInit, TypeOK
  <2>2. /\ records = <<>> /\ Len(records) = 0 /\ stage = "planning"
        /\ consumed = 0 /\ clean = FALSE /\ owed = {}
    BY DEF AppInit
  <2>3. ~Tracing => program.runs \in Nat
    BY <1>1, AppAssumption DEF Tracing, Mission, Trace
  <2>4. <<>> \in Seq([outcome : {"planner_error", "rejected", "executed"},
                     success : BOOLEAN, strict : BOOLEAN])
    OBVIOUS
  <2>5. ~Tracing => Len(records) <= program.runs
    BY <2>2, <2>3
  <2> QED BY <1>1, <1>2, <2>1, <2>2, <2>4, <2>5 DEF AppTypeOK
<1> QED BY <1>2, <1>4, <1>5, <1>6 DEF Grounded

LEMMA GroundedStep == Grounded /\ [AppNext]_appVars => Grounded'
<1> SUFFICES ASSUME Grounded, [AppNext]_appVars PROVE Grounded'
  OBVIOUS
<1>0. /\ SupervisorInv /\ AppTypeOK /\ FenceInv /\ RunsLeft /\ HomeInv
      /\ TypeOK /\ WorldOK /\ program \in Programs /\ consumed \in Nat
      /\ live \subseteq Action /\ owed \subseteq Action /\ plan \in Seq(Action)
  BY DEF Grounded, AppTypeOK, SupervisorInv, TypeOK, WorldOK
<1>1. CASE FlightStep
  <2>1. [AnyFrameNext]_vars /\ ([MissionNext]_missionVars \/ UNCHANGED world)
    BY <1>1, FlightIsMission
  <2>2. SupervisorInv'
    BY <1>0, <2>1, InvStep
  <2>3. WorldOK' /\ FenceInv'
    <3>1. CASE [MissionNext]_missionVars
      BY <1>0, <3>1, WorldStep, FenceStep
    <3>2. CASE UNCHANGED world
      BY <1>0, <3>2 DEF world, WorldOK, FenceInv, Inside, MovesTo, WithinGeofence
    <3> QED BY <2>1, <3>1, <3>2
  <2>4. HomeInv'
    BY <1>0, <2>1, HomeStep
  <2>5. RunsLeft'
    BY <1>0, <1>1 DEF FlightStep, RunsLeft, Tracing
  <2>6. plan' = plan /\ wiring' = wiring
    BY <2>1, PlanIsFixed
  <2>7. AppTypeOK'
    BY <1>0, <1>1, <2>3, <2>6 DEF FlightStep, Remember, AppTypeOK, Tracing
  <2> QED BY <2>2, <2>3, <2>4, <2>5, <2>7 DEF Grounded
<1>2. CASE Desk
  <2>1. /\ plan' \in Seq(Action)
        /\ UNCHANGED <<wiring, k, pc, ctx, state, checks, cmd, reason, events, audit>>
        /\ UNCHANGED <<world, program, consumed, clean, owed>>
    BY <1>0, <1>2, PlannedType DEF Desk
  <2>2. SupervisorInv'
    <3>1. TypeOK'
      BY <1>0, <2>1 DEF TypeOK
    <3>2. GateVerdict' = GateVerdict
      BY <2>1 DEF GateVerdict, Supports, Precheck, MoveVerdict
    <3> QED
      BY <1>0, <2>1, <3>1, <3>2
         DEF SupervisorInv, ChecksAreCurrent, Pending, AdapterCommand, ContextOfEvents,
             NoExecAfterBlock, LowBatteryEndsHome
  <2>3. WorldOK' /\ FenceInv' /\ HomeInv'
    BY <1>0, <2>1 DEF world, WorldOK, FenceInv, Inside, MovesTo, WithinGeofence, HomeInv
  <2>4. /\ records' \in Seq([outcome : {"planner_error", "rejected", "executed"},
                             success : BOOLEAN, strict : BOOLEAN])
        /\ stage' \in {"planning", "over", "died"}
        /\ ~Tracing' => Len(records') <= program'.runs
        /\ stage' = "over" /\ ~Tracing' => Len(records') = program'.runs
        /\ RunsLeft'
    <3>1. CASE stage' = "died" /\ UNCHANGED records
      BY <1>0, <2>1, <3>1 DEF AppTypeOK, RunsLeft, Tracing
    <3>2. CASE stage \in {"planning", "flying"} /\ NextRun
               /\ (Report("planner_error", FALSE, FALSE) \/ Report("rejected", FALSE, FALSE))
      BY <1>0, <2>1, <3>2, RunRecords
    <3>3. CASE /\ stage = "flying" /\ NextRun
               /\ Report("executed", Success, program.command = "benchmark" /\ StrictSuccess)
      <4>1. Success \in BOOLEAN /\ (program.command = "benchmark" /\ StrictSuccess) \in BOOLEAN
        BY <1>0 DEF Success, TypeOK, VehicleState
      <4> QED BY <1>0, <2>1, <3>3, <4>1, RunRecords
    <3> QED BY <1>2, <3>1, <3>2, <3>3 DEF Desk
  <2>5. AppTypeOK'
    BY <1>0, <2>1, <2>3, <2>4 DEF AppTypeOK
  <2> QED BY <2>2, <2>3, <2>4, <2>5 DEF Grounded
<1>3. CASE Elsewhere
  <2>1. UNCHANGED <<app, vars>> /\ [MissionNext]_missionVars
    BY <1>3, ElsewhereIsMission
  <2>2. SupervisorInv' /\ WorldOK' /\ FenceInv'
    BY <1>0, <2>1, WorldStep, FenceStep
  <2>3. HomeInv'
    BY <1>0, <2>1, HomeStep DEF AnyFrameNext
  <2>4. RunsLeft' /\ AppTypeOK'
    BY <1>0, <2>1, <2>2 DEF app, vars, RunsLeft, AppTypeOK, Tracing
  <2> QED BY <2>2, <2>3, <2>4 DEF Grounded
<1>4. ASSUME NEW outcome \in Planned, outcome.ok, Launch(outcome.plan) PROVE Grounded'
  <2> DEFINE p == outcome.plan
  <2>1. p \in Seq(Action)
    BY <1>0, <1>4, PlannedType
  <2>2. SupervisorInv'
    BY <1>0, <1>4, <2>1, LaunchInv
  <2>3. state'.home = Origin
    BY <1>0, <1>4, FirstStateType DEF Launch
  <2>4. WorldOK' /\ FenceInv' /\ HomeInv'
    BY <1>0, <1>4, <2>3
       DEF Launch, world, WorldOK, FenceInv, Inside, MovesTo, WithinGeofence, HomeInv
  <2>5. clean' \in BOOLEAN
    BY <1>4 DEF Launch
  <2>6. owed' \subseteq Action
    <3>1. owed' = {p[i] : i \in DOMAIN p} \ live
      BY <1>4 DEF Launch
    <3>2. \A i \in DOMAIN p : p[i] \in Action
      BY <2>1
    <3> QED BY <3>1, <3>2
  <2>7. plan' = p /\ stage = "planning" /\ stage' = "flying"
        /\ UNCHANGED <<wiring, program, records, consumed>>
    BY <1>4 DEF Launch
  <2>8. AppTypeOK' /\ RunsLeft'
    BY <1>0, <2>1, <2>4, <2>5, <2>6, <2>7 DEF AppTypeOK, RunsLeft, Tracing
  <2> QED BY <2>2, <2>4, <2>8 DEF Grounded
<1> QED BY <1>0, <1>1, <1>2, <1>3, <1>4, AppStep

\* Whatever the language model answers, only lists of actions become plans, and
\* every run is reported once.
THEOREM ProgramTypes == AppSpec => []AppTypeOK
<1>1. Grounded => AppTypeOK
  BY DEF Grounded
<1> QED BY <1>1, GroundedInit, GroundedStep, PTL DEF AppSpec

\* Whatever the language model answers and whatever the link does, in whichever
\* run of the program, the vehicle never leaves the geofence.
THEOREM ProgramKeepsVehicleInside == AppSpec => []VehicleContained
<1>1. Grounded => VehicleContained
  BY DEF Grounded, FenceInv, VehicleContained
<1> QED BY <1>1, GroundedInit, GroundedStep, PTL DEF AppSpec

-----------------------------------------------------------------------------
(* A mission in flight.                                                     *)

\* Where the loop is: the command being decided or executed is the action of the
\* plan it is at; only a refusal or the end of the plan leads out of it; and
\* nothing is failed over to where there is no such adapter.
LoopInv ==
    /\ Pending => /\ k \in 1 .. Len(plan)
                  /\ wiring.avoidance = "passthrough" => cmd = plan[k]
    /\ ctx \in {"block", "fault"} => Has(events, "policy_block")
    /\ ctx = "exec" /\ pc \in {"battery", "done"} => k > Len(plan)
    /\ ctx = "battery" /\ ~Has(events, "policy_block") => k > Len(plan)
    /\ pc = "failover" \/ Has(events, "failover") => wiring.failover # "none"

\* What a return of _execute_action adds to the events.
LEMMA ReturnHas ==
    ASSUME TypeOK, NEW byFailover \in BOOLEAN,
           events' = events \o ReturnEvents(byFailover)
    PROVE  /\ Has(events', "policy_block") <=> Has(events, "policy_block")
           /\ Has(events', "system_fault") <=> Has(events, "system_fault")
           /\ Has(events', "failover") <=> byFailover \/ Has(events, "failover")
<1> DEFINE fail == Event("failover", cmd.type)
           mid == Append(events, fail)
           done == Done
<1>1. /\ events \in Log
      /\ fail.kind = "failover"
      /\ done.kind \in {"exec", "fallback"}
      /\ fail \in LogEntry /\ done \in LogEntry
  BY DEF TypeOK, Done, Event, EventKinds, Action, LogEntry
<1>2. events' = IF byFailover THEN Append(mid, done) ELSE Append(events, done)
  BY <1>1, ReturnedEvents
<1> HIDE DEF fail, done
<1>3. mid \in Log /\ \A kind : Has(mid, kind) <=> Has(events, kind) \/ fail.kind = kind
  BY <1>1, AppendLog DEF LogEntry
<1> HIDE DEF mid
<1>4. \A kind : Has(Append(mid, done), kind) <=> Has(mid, kind) \/ done.kind = kind
  BY <1>1, <1>3, AppendLog DEF LogEntry
<1>5. \A kind : Has(Append(events, done), kind) <=> Has(events, kind) \/ done.kind = kind
  BY <1>1, AppendLog DEF LogEntry
<1>6. CASE byFailover
  BY <1>1, <1>2, <1>3, <1>4, <1>6
<1>7. CASE ~byFailover
  BY <1>1, <1>2, <1>5, <1>7
<1> QED BY <1>6, <1>7

LEMMA BlockHas ==
    ASSUME TypeOK, NEW r \in BlockReasons,
           events' = Append(events, Event("policy_block", r))
    PROVE  /\ Has(events', "policy_block")
           /\ Has(events', "system_fault") <=> Has(events, "system_fault")
           /\ Has(events', "failover") <=> Has(events, "failover")
<1> DEFINE e == Event("policy_block", r)
<1>1. events \in Log /\ e \in LogEntry /\ e.kind = "policy_block"
  BY DEF TypeOK, Event, LogEntry, EventKinds
<1> HIDE DEF e
<1>2. events' = Append(events, e)
  BY DEF e
<1> QED BY <1>1, <1>2, AppendLog DEF LogEntry

LEMMA FaultHas ==
    ASSUME TypeOK,
           events' = Append(events, Event("system_fault", "fallback_transport_failure"))
    PROVE  /\ Has(events', "policy_block") <=> Has(events, "policy_block")
           /\ Has(events', "system_fault")
           /\ Has(events', "failover") <=> Has(events, "failover")
<1> DEFINE e == Event("system_fault", "fallback_transport_failure")
<1>1. events \in Log /\ e \in LogEntry /\ e.kind = "system_fault"
  BY DEF TypeOK, Event, LogEntry, EventKinds
<1> HIDE DEF e
<1>2. events' = Append(events, e)
  BY DEF e
<1> QED BY <1>1, <1>2, AppendLog DEF LogEntry

\* The steps of run_plan, told apart by what they do to the loop.
LEMMA LoopSteps ==
    ASSUME SupervisorInv, [AnyFrameNext]_vars
    PROVE  \/ \E r \in BlockReasons : Block(r) /\ pc \in {"observe", "gate"}
           \/ \E f \in Frame, lag \in Lags : Observe(f, lag)
           \/ Approve
           \/ Returned(FALSE) /\ pc = "adapter"
           \/ Returned(TRUE) /\ pc = "failover"
           \/ PrimaryFails
           \/ Raised /\ pc = "adapter" /\ wiring.failover = "none"
           \/ Raised /\ pc = "failover" /\ wiring.failover = "transport"
           \/ EndOfPlan \/ BatteryLow \/ BatteryOk
           \/ UNCHANGED vars
<1>1. GateVerdict # "ok" => GateVerdict \in BlockReasons
  BY VerdictType
<1>2. "localization_stale" \in BlockReasons /\ PipelineErrors \subseteq BlockReasons
  BY DEF BlockReasons
<1>3. ASSUME NEW f, NEW lag, Observe(f, lag), f \in AvailableFrames, lag \in Lags
      PROVE  \E g \in Frame, l \in Lags : Observe(g, l)
  BY <1>3, FrameType
<1>4. ASSUME NEW f, ObserveStale(f)
      PROVE  \E r \in BlockReasons : Block(r) /\ pc \in {"observe", "gate"}
  BY <1>2, <1>4 DEF ObserveStale, AtNextAction
<1>5. ASSUME NEW r \in PipelineErrors, ObserveRaises(r)
      PROVE  \E q \in BlockReasons : Block(q) /\ pc \in {"observe", "gate"}
  BY <1>2, <1>5 DEF ObserveRaises, AtNextAction
<1>6. ASSUME Deny
      PROVE  \E r \in BlockReasons : Block(r) /\ pc \in {"observe", "gate"}
  BY <1>1, <1>6 DEF Deny
<1> QED
  BY <1>3, <1>4, <1>5, <1>6
     DEF AnyFrameNext, Next, Step, Stutter, PrimaryExecutes, PrimaryRaises,
         FailoverExecutes, FailoverRaises

LEMMA LoopStep ==
    ASSUME SupervisorInv, LoopInv, [AnyFrameNext]_vars
    PROVE  LoopInv'
<1>0. TypeOK /\ ContextOfEvents /\ plan' = plan /\ wiring' = wiring
      /\ k \in Nat \ {0} /\ Len(plan) \in Nat
  BY PlanIsFixed DEF SupervisorInv, TypeOK
<1>1. ASSUME NEW r \in BlockReasons, Block(r) PROVE LoopInv'
  <2>1. Has(events', "policy_block") /\ (Has(events', "failover") <=> Has(events, "failover"))
    BY <1>0, <1>1, BlockHas DEF Block
  <2>2. pc' = "adapter" /\ ctx' = "block"
    BY <1>1 DEF Block
  <2> QED BY <1>0, <2>1, <2>2 DEF LoopInv, Pending
<1>2. ASSUME NEW f \in Frame, NEW lag \in Lags, Observe(f, lag) PROVE LoopInv'
  <2>1. /\ k <= Len(plan) /\ pc = "observe" /\ pc' = "gate"
        /\ cmd' = Refined(plan[k], f) /\ UNCHANGED <<k, ctx, events>>
    BY <1>2 DEF Observe, AtNextAction
  <2>2. wiring.avoidance = "passthrough" => cmd' = plan[k]
    BY <2>1 DEF Refined
  <2>3. k \in 1 .. Len(plan)
    BY <1>0, <2>1
  <2> QED BY <1>0, <2>1, <2>2, <2>3 DEF LoopInv, Pending, Has
<1>3. ASSUME Approve PROVE LoopInv'
  <2>1. /\ pc = "gate" /\ pc' = "adapter" /\ ctx = "exec" /\ ctx' = "exec"
        /\ UNCHANGED <<k, cmd, events>>
    BY <1>0, <1>3 DEF Approve, ContextOfEvents
  <2> QED BY <1>0, <2>1 DEF LoopInv, Pending, Has
<1>4. ASSUME NEW byFailover \in BOOLEAN, Returned(byFailover),
             pc = IF byFailover THEN "failover" ELSE "adapter"
      PROVE  LoopInv'
  <2>1. /\ Has(events', "policy_block") <=> Has(events, "policy_block")
        /\ Has(events', "failover") <=> byFailover \/ Has(events, "failover")
    BY <1>0, <1>4, ReturnHas DEF Returned
  <2>2. /\ ctx' = ctx /\ ctx \in {"exec", "block", "fault", "battery"}
        /\ pc' = CASE ctx = "exec" -> "observe"
                   [] ctx \in {"block", "fault"} -> "battery"
                   [] ctx = "battery" -> "done"
        /\ k' = IF ctx = "exec" THEN k + 1 ELSE k
    BY <1>0, <1>4 DEF Returned, TypeOK
  <2>3. pc' \in {"observe", "battery", "done"} /\ (ctx = "exec" => pc' = "observe")
    BY <2>2
  <2> QED BY <1>0, <1>4, <2>1, <2>2, <2>3 DEF LoopInv, Pending
<1>5. ASSUME Raised, pc \in {"adapter", "failover"} PROVE LoopInv'
  <2>1. CASE ExecRaised
    <3>1. Has(events', "policy_block") /\ (Has(events', "failover") <=> Has(events, "failover"))
      BY <1>0, <2>1, BlockHas DEF ExecRaised, BlockReasons
    <3> QED BY <1>0, <2>1, <3>1 DEF ExecRaised, LoopInv, Pending
  <2>2. CASE BlockRaised
    <3>1. pc' = "raised" /\ ctx = "block" /\ UNCHANGED <<k, ctx, events>>
      BY <2>2 DEF BlockRaised
    <3> QED BY <1>0, <3>1 DEF LoopInv, Pending, Has
  <2>3. CASE FallbackRaised
    <3>1. /\ Has(events', "policy_block") <=> Has(events, "policy_block")
          /\ Has(events', "failover") <=> Has(events, "failover")
      BY <1>0, <2>3, FaultHas DEF FallbackRaised
    <3>2. pc' \in {"battery", "done"} /\ ctx \in {"fault", "battery"} /\ UNCHANGED <<k, ctx>>
      BY <2>3 DEF FallbackRaised
    <3> QED BY <1>0, <3>1, <3>2 DEF LoopInv, Pending
  <2> QED BY <1>5, <2>1, <2>2, <2>3 DEF Raised
<1>6. ASSUME PrimaryFails PROVE LoopInv'
  BY <1>0, <1>6 DEF PrimaryFails, LoopInv, Pending, Has
<1>7. ASSUME EndOfPlan PROVE LoopInv'
  <2>1. pc' = "battery" /\ k > Len(plan) /\ ctx = "exec" /\ UNCHANGED <<k, ctx, events>>
    BY <1>0, <1>7 DEF EndOfPlan, ContextOfEvents
  <2> QED BY <1>0, <2>1 DEF LoopInv, Pending, Has
<1>8. ASSUME BatteryLow PROVE LoopInv'
  <2>1. pc = "battery" /\ pc' = "adapter" /\ ctx' = "battery" /\ UNCHANGED <<k, events>>
    BY <1>8 DEF BatteryLow
  <2>2. ctx \in {"exec", "block", "fault", "battery"}
    BY <1>0 DEF TypeOK
  <2> QED BY <1>0, <2>1, <2>2 DEF LoopInv, Pending, Has
<1>9. ASSUME BatteryOk PROVE LoopInv'
  BY <1>0, <1>9 DEF BatteryOk, LoopInv, Pending, Has
<1>10. ASSUME UNCHANGED vars PROVE LoopInv'
  BY <1>0, <1>10 DEF vars, LoopInv, Pending, Has
<1> QED
  BY <1>1, <1>2, <1>3, <1>4, <1>5, <1>6, <1>7, <1>8, <1>9, <1>10, LoopSteps

\* A plan the verifier accepted that was flown to its end without a refusal left
\* the vehicle disarmed at the origin, up to the tolerance of the gate: its last
\* command was a disarm, which the gate lets pass nowhere else.
DisarmedInv ==
    /\ wiring.localization = "passthrough" /\ wiring.avoidance = "passthrough"
    /\ ~Has(events, "policy_block") /\ k > Len(plan)
    => /\ ctx = "exec" /\ ~state.armed
       /\ Abs(state.pos.x) <= DisarmTolerance /\ Abs(state.pos.y) <= DisarmTolerance

\* Executing a disarm the gate approved.
LEMMA DisarmApproved ==
    ASSUME state \in VehicleState, cmd.type = "disarm", GateVerdict = "ok",
           checks.pos = state.pos
    PROVE  /\ Abs(state.pos.x) <= DisarmTolerance /\ Abs(state.pos.y) <= DisarmTolerance
           /\ Execute(state, cmd).pos = state.pos /\ ~Execute(state, cmd).armed
<1>1. Precheck(checks, cmd) = "ok"
  BY DEF GateVerdict
<1>2. ~(Abs(checks.pos.x) > DisarmTolerance \/ Abs(checks.pos.y) > DisarmTolerance)
  BY <1>1 DEF Precheck
<1>3. Abs(state.pos.x) \in Int /\ Abs(state.pos.y) \in Int /\ DisarmTolerance \in Int
  BY DEF VehicleState, Point, Abs, DisarmTolerance
<1>4. Execute(state, cmd) = [state EXCEPT !.armed = FALSE]
  BY DEF Execute
<1> QED BY <1>2, <1>3, <1>4 DEF VehicleState

LEMMA DisarmedStep ==
    ASSUME SupervisorInv, LoopInv, DisarmedInv, Verified(plan), [AnyFrameNext]_vars
    PROVE  DisarmedInv'
<1>0. TypeOK /\ ContextOfEvents /\ plan' = plan /\ wiring' = wiring
      /\ k \in Nat \ {0} /\ Len(plan) \in Nat /\ state \in VehicleState
  BY PlanIsFixed DEF SupervisorInv, TypeOK
<1>1. ASSUME NEW r \in BlockReasons, Block(r) PROVE DisarmedInv'
  <2>1. Has(events', "policy_block")
    BY <1>0, <1>1, BlockHas DEF Block
  <2> QED BY <2>1 DEF DisarmedInv
<1>2. CASE ctx' = ctx /\ UNCHANGED <<k, state>> /\
           (Has(events, "policy_block") => Has(events', "policy_block"))
  BY <1>0, <1>2 DEF DisarmedInv
<1>3. ASSUME NEW f \in Frame, NEW lag \in Lags, Observe(f, lag) PROVE DisarmedInv'
  BY <1>2, <1>3 DEF Observe, Has
<1>4. ASSUME Approve PROVE DisarmedInv'
  BY <1>0, <1>2, <1>4 DEF Approve, ContextOfEvents, Has
<1>5. ASSUME NEW byFailover \in BOOLEAN, Returned(byFailover), pc \in {"adapter", "failover"}
      PROVE  DisarmedInv'
  <2>1. Has(events', "policy_block") <=> Has(events, "policy_block")
    BY <1>0, <1>5, ReturnHas DEF Returned
  <2>2. /\ ctx' = ctx /\ state' = Execute(state, cmd)
        /\ k' = IF ctx = "exec" THEN k + 1 ELSE k
    BY <1>5 DEF Returned
  <2>3. CASE ctx # "exec"
    <3>1. k > Len(plan) => DisarmedInv'
      BY <1>0, <2>1, <2>2, <2>3 DEF DisarmedInv
    <3> QED BY <1>0, <2>2, <2>3, <3>1 DEF DisarmedInv
  <2>4. CASE /\ ctx = "exec" /\ wiring.localization = "passthrough"
             /\ wiring.avoidance = "passthrough" /\ k' > Len(plan)
    <3>1. Pending /\ GateVerdict = "ok" /\ checks.pos = state.pos
      BY <1>5, <2>4 DEF SupervisorInv, AdapterCommand, ChecksAreCurrent, Pending
    <3>2. k \in 1 .. Len(plan) /\ cmd = plan[k]
      BY <2>4, <3>1 DEF LoopInv
    <3>3. k = Len(plan)
      BY <1>0, <2>2, <2>4, <3>2
    <3>4. cmd.type = "disarm"
      BY <3>2, <3>3 DEF Verified, Last
    <3> QED BY <1>0, <2>2, <2>4, <3>1, <3>4, DisarmApproved DEF DisarmedInv
  <2> QED BY <1>0, <2>3, <2>4 DEF DisarmedInv
<1>6. ASSUME Raised PROVE DisarmedInv'
  <2>1. CASE ExecRaised
    <3>1. Has(events', "policy_block")
      BY <1>0, <2>1, BlockHas DEF ExecRaised, BlockReasons
    <3> QED BY <3>1 DEF DisarmedInv
  <2>2. CASE BlockRaised
    BY <1>2, <2>2 DEF BlockRaised, Has
  <2>3. CASE FallbackRaised
    <3>1. Has(events', "policy_block") <=> Has(events, "policy_block")
      BY <1>0, <2>3, FaultHas DEF FallbackRaised
    <3> QED BY <1>2, <2>3, <3>1 DEF FallbackRaised
  <2> QED BY <1>6, <2>1, <2>2, <2>3 DEF Raised
<1>7. ASSUME PrimaryFails \/ EndOfPlan \/ BatteryOk PROVE DisarmedInv'
  BY <1>2, <1>7 DEF PrimaryFails, EndOfPlan, BatteryOk, Has
<1>8. ASSUME BatteryLow PROVE DisarmedInv'
  <2>1. state.armed /\ UNCHANGED <<k, events>>
    BY <1>8 DEF BatteryLow
  <2> QED BY <1>0, <2>1 DEF DisarmedInv, Has
<1>9. ASSUME UNCHANGED vars PROVE DisarmedInv'
  BY <1>2, <1>9 DEF vars, Has
<1> QED
  BY <1>1, <1>3, <1>4, <1>5, <1>6, <1>7, <1>8, <1>9, LoopSteps

-----------------------------------------------------------------------------
(* What the ledger did not remember is still ahead, or acknowledged.        *)

OwedInv == owed \cap live = {}

Ahead == {plan[i] : i \in k .. Len(plan)}

FlownInv ==
    /\ stage = "flying" /\ wiring.primary = "transport" /\ ctx = "exec"
    /\ pc # "failover" /\ ~Has(events, "failover")
    => owed \subseteq Ahead

\* A line of run_plan that commands nothing keeps its place in the plan, and
\* leads out of the loop only to the fallback or to the end of the mission.
LEMMA QuietStep ==
    ASSUME SupervisorInv, AnyFrameNext, pc \notin {"adapter", "failover"}
    PROVE  /\ UNCHANGED <<plan, wiring, k, state>>
           /\ pc' # "failover"
           /\ Has(events', "failover") <=> Has(events, "failover")
           /\ Has(events', "system_fault") <=> Has(events, "system_fault")
           /\ \/ ctx' = "block" /\ pc' = "adapter"
              \/ ctx' = "battery" /\ pc' = "adapter"
              \/ /\ ctx' = ctx
                 /\ pc' \in {"battery", "done"} => ctx = "exec" \/ pc \in {"battery", "done"}
<1>0. TypeOK /\ ContextOfEvents /\ plan' = plan /\ wiring' = wiring
  BY PlanIsFixed DEF SupervisorInv
<1> DEFINE same == /\ Has(events', "failover") <=> Has(events, "failover")
                   /\ Has(events', "system_fault") <=> Has(events, "system_fault")
<1>1. UNCHANGED events => same
  BY DEF Has
<1>2. ASSUME NEW r \in BlockReasons, Block(r) PROVE same
  BY <1>0, <1>2, BlockHas DEF Block
<1> HIDE DEF same
<1>3. ASSUME NEW r \in BlockReasons, Block(r)
      PROVE  same /\ ctx' = "block" /\ pc' = "adapter" /\ UNCHANGED <<k, state>>
  BY <1>2, <1>3 DEF Block
<1>4. ASSUME NEW f \in Frame, NEW lag \in Lags, Observe(f, lag)
      PROVE  same /\ ctx' = ctx /\ pc' = "gate" /\ UNCHANGED <<k, state>>
  BY <1>1, <1>4 DEF Observe
<1>5. ASSUME Approve
      PROVE  same /\ ctx' = ctx /\ pc' = "adapter" /\ UNCHANGED <<k, state>>
  BY <1>0, <1>1, <1>5 DEF Approve, ContextOfEvents
<1>6. ASSUME EndOfPlan
      PROVE  same /\ ctx' = ctx /\ ctx = "exec" /\ pc' = "battery" /\ UNCHANGED <<k, state>>
  BY <1>0, <1>1, <1>6 DEF EndOfPlan, ContextOfEvents
<1>7. ASSUME BatteryLow
      PROVE  same /\ ctx' = "battery" /\ pc' = "adapter" /\ UNCHANGED <<k, state>>
  BY <1>1, <1>7 DEF BatteryLow
<1>8. ASSUME BatteryOk
      PROVE  same /\ ctx' = ctx /\ pc = "battery" /\ pc' = "done" /\ UNCHANGED <<k, state>>
  BY <1>1, <1>8 DEF BatteryOk
<1>9. ASSUME UNCHANGED vars
      PROVE  same /\ ctx' = ctx /\ pc' = pc /\ UNCHANGED <<k, state>>
  BY <1>1, <1>9 DEF vars
<1>10. ~PrimaryFails
  BY DEF PrimaryFails
<1>11. /\ same /\ UNCHANGED <<k, state>> /\ pc' # "failover"
       /\ \/ ctx' = "block" /\ pc' = "adapter"
          \/ ctx' = "battery" /\ pc' = "adapter"
          \/ /\ ctx' = ctx
             /\ pc' \in {"battery", "done"} => ctx = "exec" \/ pc \in {"battery", "done"}
  BY <1>3, <1>4, <1>5, <1>6, <1>7, <1>8, <1>9, <1>10, LoopSteps
<1> QED BY <1>0, <1>11 DEF same

\* What the supervisor makes of an adapter that returns.
LEMMA ReturnStep ==
    ASSUME SupervisorInv, AdapterReturns
    PROVE  /\ UNCHANGED <<plan, wiring, ctx>> /\ state' = Execute(state, cmd)
           /\ pc' # "failover"
           /\ ctx = "exec" => k' = k + 1 /\ pc' = "observe"
           /\ pc = "failover" => Has(events', "failover")
           /\ Has(events, "failover") => Has(events', "failover")
           /\ Has(events', "system_fault") <=> Has(events, "system_fault")
<1>1. PICK byFailover \in BOOLEAN :
         Returned(byFailover) /\ pc = IF byFailover THEN "failover" ELSE "adapter"
  BY DEF AdapterReturns, PrimaryExecutes, FailoverExecutes
<1>2. TypeOK /\ ctx \in {"exec", "block", "fault", "battery"}
  BY DEF SupervisorInv, TypeOK
<1>3. /\ Has(events', "system_fault") <=> Has(events, "system_fault")
      /\ Has(events', "failover") <=> byFailover \/ Has(events, "failover")
  BY <1>1, <1>2, ReturnHas DEF Returned
<1>4. /\ UNCHANGED <<plan, wiring, ctx>> /\ state' = Execute(state, cmd)
      /\ pc' = CASE ctx = "exec" -> "observe"
                 [] ctx \in {"block", "fault"} -> "battery"
                 [] ctx = "battery" -> "done"
      /\ k' = IF ctx = "exec" THEN k + 1 ELSE k
  BY <1>1 DEF Returned
<1>5. pc' \in {"observe", "battery", "done"} /\ (ctx = "exec" => pc' = "observe")
  BY <1>2, <1>4
<1> QED BY <1>1, <1>3, <1>4, <1>5

\* What it makes of one that raises.
LEMMA RaiseStep ==
    ASSUME SupervisorInv, AdapterRaises
    PROVE  /\ UNCHANGED <<plan, wiring, state>>
           /\ Has(events', "failover") <=> Has(events, "failover")
           /\ Has(events, "system_fault") => Has(events', "system_fault")
           /\ \/ pc' = "failover"
              \/ ctx' # "exec" /\ pc' \in {"adapter", "raised"}
              \/ ctx' # "exec" /\ Has(events', "system_fault")
<1>1. TypeOK
  BY DEF SupervisorInv
<1>2. CASE PrimaryFails
  BY <1>2 DEF PrimaryFails, Has
<1>3. CASE ExecRaised
  <2>1. /\ Has(events', "system_fault") <=> Has(events, "system_fault")
        /\ Has(events', "failover") <=> Has(events, "failover")
    BY <1>1, <1>3, BlockHas DEF ExecRaised, BlockReasons
  <2> QED BY <1>3, <2>1 DEF ExecRaised
<1>4. CASE BlockRaised
  BY <1>4 DEF BlockRaised, Has
<1>5. CASE FallbackRaised
  <2>1. Has(events', "system_fault") /\ (Has(events', "failover") <=> Has(events, "failover"))
    BY <1>1, <1>5, FaultHas DEF FallbackRaised
  <2> QED BY <1>5, <2>1 DEF FallbackRaised
<1> QED
  BY <1>2, <1>3, <1>4, <1>5 DEF AdapterRaises, PrimaryRaises, FailoverRaises, Raised

LEMMA OwedStep ==
    ASSUME OwedInv, FlightStep \/ Desk \/ Elsewhere
    PROVE  OwedInv'
<1>1. CASE FlightStep
  BY <1>1 DEF FlightStep, Remember, OwedInv
<1>2. CASE Desk
  BY <1>2 DEF Desk, OwedInv, world
<1>3. CASE Elsewhere
  <2>1. live' \subseteq live
    BY <1>3 DEF Elsewhere, StrayArrives, Expires, world
  <2> QED BY <1>3, <2>1 DEF Elsewhere, app, OwedInv
<1> QED BY <1>1, <1>2, <1>3

LEMMA FlownStep ==
    ASSUME SupervisorInv, LoopInv, OwedInv, FlownInv, FlightStep,
           wiring.avoidance = "passthrough"
    PROVE  FlownInv'
<1>0. /\ k \in Nat \ {0} /\ Len(plan) \in Nat
      /\ stage = "flying" /\ owed' = owed \ (live' \ live)
  BY DEF SupervisorInv, TypeOK, FlightStep, Remember
<1>1. ASSUME AdapterReturns, Acknowledged \/ Skipped \/ Simulated PROVE FlownInv'
  <2>1. /\ UNCHANGED <<plan, wiring, ctx>>
        /\ ctx = "exec" => k' = k + 1
        /\ pc = "failover" => Has(events', "failover")
        /\ Has(events, "failover") => Has(events', "failover")
    BY <1>1, ReturnStep
  <2>2. CASE ctx = "exec" /\ wiring.primary = "transport" /\ ~Has(events', "failover")
    <3>1. pc = "adapter" /\ AtTransport
      BY <1>1, <2>1, <2>2, AdapterSteps DEF AtTransport
    <3>2. Acknowledged \/ Skipped
      BY <1>1, <3>1 DEF Simulated
    <3>3. cmd \notin owed'
      BY <1>0, <3>2 DEF Acknowledged, Skipped, world, OwedInv
    <3>4. cmd = plan[k] /\ k \in 1 .. Len(plan)
      BY <2>2, <3>1 DEF LoopInv, Pending
    <3>5. owed' \subseteq Ahead
      BY <1>0, <2>1, <2>2, <3>1 DEF FlownInv
    <3>6. \A i \in k .. Len(plan) : i = k \/ i \in k + 1 .. Len(plan)
      BY <1>0
    <3>7. owed' \subseteq {plan[i] : i \in k + 1 .. Len(plan)}
      BY <3>3, <3>4, <3>5, <3>6 DEF Ahead
    <3> QED BY <2>1, <2>2, <3>7 DEF FlownInv, Ahead
  <2> QED BY <2>1, <2>2 DEF FlownInv
<1>2. ASSUME AdapterRaises PROVE FlownInv'
  <2>1. pc' = "failover" \/ ctx' # "exec"
    BY <1>2, RaiseStep
  <2> QED BY <2>1 DEF FlownInv
<1>3. CASE AnyFrameNext /\ pc \notin {"adapter", "failover"} /\ UNCHANGED world
  <2>1. /\ UNCHANGED <<plan, wiring, k>>
        /\ Has(events', "failover") <=> Has(events, "failover")
        /\ ctx' = "exec" => ctx = "exec"
    BY <1>3, QuietStep
  <2>2. owed' = owed
    BY <1>0, <1>3 DEF world
  <2> QED BY <1>0, <1>3, <2>1, <2>2 DEF FlownInv, Ahead
<1> QED
  BY <1>1, <1>2, <1>3
     DEF FlightStep, Commanding, Acknowledged, Skipped, Unanswered, LedgerFails, Simulated

-----------------------------------------------------------------------------
(* A mission that began on a clean slate.                                   *)

\* What breaks the agreement between the two views, and stays in the record.
Excused == overtaken \/ pc = "failover" \/ Has(events, "failover") \/ Has(events, "system_fault")

\* In the loop the two views agree, no command that is still ahead is remembered,
\* and if a return to home is, the vehicle is there to stay.  Out of it they
\* agree again when a fallback was executed.
Agreed ==
    /\ wiring.primary = "transport" /\ NoRepetition(plan)
    /\ FallbackAction \in live => AtHome(vehicle)
    /\ ctx = "exec" =>
          /\ vehicle.pos = state.pos /\ vehicle.armed = state.armed
          /\ \A i \in k .. Len(plan) :
                plan[i] \notin live /\ (FallbackAction \in live => plan[i].type # "move_to")
    /\ ctx # "exec" /\ pc \in {"battery", "done"} => vehicle.pos = state.pos

CleanInv == stage = "flying" /\ clean /\ ~Excused => Agreed

LEMMA ExecuteAgrees ==
    ASSUME NEW s \in VehicleState, NEW v \in VehicleState, NEW a \in Action,
           s.home = v.home, s.pos = v.pos, s.armed = v.armed
    PROVE  Execute(s, a).pos = Execute(v, a).pos /\ Execute(s, a).armed = Execute(v, a).armed
<1>1. a.type \in ActionTypes
  BY DEF Action
<1>2. CASE a.type = "arm"
  BY <1>2 DEF Execute, VehicleState
<1>3. CASE a.type = "move_to"
  BY <1>3 DEF Execute, VehicleState
<1>4. CASE a.type = "hold"
  BY <1>4 DEF Execute, VehicleState
<1>5. CASE a.type = "return_to_home"
  BY <1>5 DEF Execute, VehicleState
<1>6. CASE a.type = "disarm"
  BY <1>6 DEF Execute, VehicleState
<1> QED BY <1>1, <1>2, <1>3, <1>4, <1>5, <1>6 DEF ActionTypes

\* Only a move takes a vehicle away from home.
LEMMA StaysHome ==
    ASSUME NEW v \in VehicleState, NEW a \in Action
    PROVE  /\ AtHome(v) /\ a.type # "move_to" => AtHome(Execute(v, a))
           /\ a.type = "return_to_home" => AtHome(Execute(v, a))
<1>1. Execute(v, a).home = v.home
  BY ExecuteType
<1>2. \/ Execute(v, a).pos = v.pos
      \/ Execute(v, a).pos = v.home
      \/ MovesTo(a)
  BY ExecuteMotion
<1>3. a.type = "return_to_home" => Execute(v, a).pos = v.home
  BY ExecuteMotion
<1> QED BY <1>1, <1>2, <1>3 DEF AtHome, MovesTo

\* If a return to home is remembered after the adapter was tried, the vehicle is
\* at home.
LEMMA RememberedAtHome ==
    ASSUME WorldOK, SupervisorInv, LoopInv, Agreed, wiring.avoidance = "passthrough",
           Acknowledged \/ Skipped \/ Unanswered \/ LedgerFails
    PROVE  FallbackAction \in live' => AtHome(vehicle')
<1>0. vehicle \in VehicleState /\ cmd \in Action /\ pc \in {"adapter", "failover"}
  BY AdapterSteps
     DEF WorldOK, SupervisorInv, TypeOK, Acknowledged, Skipped, Unanswered, LedgerFails
<1>1. FallbackAction \in live => AtHome(vehicle) /\ cmd.type # "move_to"
  <2>1. CASE ctx = "exec"
    <3>1. cmd = plan[k] /\ k \in 1 .. Len(plan) /\ k \in k .. Len(plan)
      BY <1>0, <2>1 DEF LoopInv, Pending
    <3> QED BY <2>1, <3>1 DEF Agreed
  <2>2. CASE ctx # "exec"
    BY <1>0, <2>2, FallbackType DEF SupervisorInv, AdapterCommand, Agreed
  <2> QED BY <2>1, <2>2
<1>2. FallbackAction \in live => AtHome(Execute(vehicle, cmd))
  BY <1>0, <1>1, StaysHome
<1>3. cmd = FallbackAction => AtHome(Execute(vehicle, cmd))
  BY <1>0, FallbackType, StaysHome
<1>4. \/ live' = live /\ vehicle' \in {vehicle, Execute(vehicle, cmd)}
      \/ live' = live \cup {cmd} /\ vehicle' = Execute(vehicle, cmd)
  BY DEF Acknowledged, Skipped, Unanswered, LedgerFails, world
<1> QED BY <1>1, <1>2, <1>3, <1>4 DEF AtHome

LEMMA CleanStep ==
    ASSUME SupervisorInv, WorldOK, HomeInv, LoopInv, CleanInv, FlightStep,
           wiring.avoidance = "passthrough", wiring.failover # "transport"
    PROVE  CleanInv'
<1>0. /\ k \in Nat \ {0} /\ Len(plan) \in Nat /\ plan \in Seq(Action)
      /\ stage = "flying" /\ clean' = clean
      /\ state \in VehicleState /\ vehicle \in VehicleState /\ cmd \in Action
      /\ state.home = vehicle.home
  BY DEF SupervisorInv, TypeOK, WorldOK, FlightStep, HomeInv
<1> SUFFICES ASSUME clean, ~Excused' PROVE Agreed'
  BY <1>0 DEF CleanInv
<1>1. CASE AdapterReturns /\ (Acknowledged \/ Skipped \/ Simulated)
  <2>1. /\ UNCHANGED <<plan, wiring, ctx>> /\ state' = Execute(state, cmd)
        /\ ctx = "exec" => k' = k + 1 /\ pc' = "observe"
        /\ pc = "failover" => Has(events', "failover")
        /\ Has(events, "failover") => Has(events', "failover")
        /\ Has(events', "system_fault") <=> Has(events, "system_fault")
    BY <1>1, ReturnStep
  <2>2. overtaken' = overtaken /\ pc \in {"adapter", "failover"}
    BY <1>1, AdapterSteps DEF Acknowledged, Skipped, Simulated, Attempts, world
  <2>3. pc = "adapter" /\ ~Excused
    BY <2>1, <2>2 DEF Excused
  <2>4. Agreed
    BY <1>0, <2>3 DEF CleanInv
  <2>5. Acknowledged \/ Skipped
    BY <1>1, <2>3, <2>4 DEF Simulated, AtTransport, Agreed
  <2>6. FallbackAction \in live' => AtHome(vehicle')
    BY <2>4, <2>5, RememberedAtHome
  <2>7. CASE ctx = "exec"
    <3>1. cmd = plan[k] /\ k \in 1 .. Len(plan) /\ k \in k .. Len(plan)
      BY <1>0, <2>3, <2>7 DEF LoopInv, Pending
    <3>2. cmd \notin live
      BY <2>4, <2>7, <3>1 DEF Agreed
    <3>3. vehicle' = Execute(vehicle, cmd) /\ live' = live \cup {cmd}
      BY <2>5, <3>2 DEF Acknowledged, Skipped
    <3>4. vehicle'.pos = state'.pos /\ vehicle'.armed = state'.armed
      BY <1>0, <2>1, <2>4, <2>7, <3>3, ExecuteAgrees DEF Agreed
    <3>5. ASSUME NEW i \in k + 1 .. Len(plan)
          PROVE  plan[i] \notin live' /\ (FallbackAction \in live' => plan[i].type # "move_to")
      <4>1. i \in k .. Len(plan) /\ i \in DOMAIN plan /\ k \in DOMAIN plan /\ k < i
        BY <1>0, <3>1
      <4>2. plan[i] # plan[k]
            /\ ~(plan[k].type = "return_to_home" /\ plan[i].type = "move_to")
        BY <2>4, <4>1 DEF Agreed, NoRepetition
      <4>3. plan[i] \notin live /\ (FallbackAction \in live => plan[i].type # "move_to")
        BY <2>4, <2>7, <4>1 DEF Agreed
      <4> QED BY <3>1, <3>3, <4>2, <4>3, FallbackType
    <3> QED BY <2>1, <2>4, <2>6, <2>7, <3>4, <3>5 DEF Agreed, NoRepetition
  <2>8. CASE ctx # "exec"
    <3>1. cmd = FallbackAction
      BY <2>3, <2>8 DEF SupervisorInv, AdapterCommand
    <3>2. AtHome(state') /\ state'.home = state.home
      BY <1>0, <2>1, <3>1, FallbackType, StaysHome, ExecuteType
    <3>3. FallbackAction \in live'
      BY <2>5, <3>1 DEF Acknowledged, Skipped, world
    <3>4. vehicle'.home = vehicle.home
      BY <1>0, <2>5, ExecuteType DEF Acknowledged, Skipped, world
    <3>5. vehicle'.pos = state'.pos
      BY <1>0, <2>6, <3>2, <3>3, <3>4 DEF AtHome
    <3> QED BY <2>1, <2>4, <2>6, <2>8, <3>5 DEF Agreed, NoRepetition
  <2> QED BY <2>7, <2>8
<1>2. CASE AdapterRaises /\ (Unanswered \/ LedgerFails)
  <2>1. /\ UNCHANGED <<plan, wiring, state>>
        /\ Has(events', "failover") <=> Has(events, "failover")
        /\ Has(events, "system_fault") => Has(events', "system_fault")
        /\ \/ pc' = "failover"
           \/ ctx' # "exec" /\ pc' \in {"adapter", "raised"}
           \/ ctx' # "exec" /\ Has(events', "system_fault")
    BY <1>2, RaiseStep
  <2>2. pc = "adapter"
    BY <1>0, <1>2 DEF AdapterRaises, PrimaryFails, PrimaryRaises, FailoverRaises
  <2>3. overtaken' = overtaken
    BY <1>2 DEF Unanswered, LedgerFails, Attempts, world
  <2>4. ~Excused /\ ctx' # "exec" /\ pc' \in {"adapter", "raised"}
    BY <2>1, <2>2, <2>3 DEF Excused
  <2>5. Agreed
    BY <1>0, <2>4 DEF CleanInv
  <2>6. FallbackAction \in live' => AtHome(vehicle')
    BY <1>2, <2>5, RememberedAtHome
  <2> QED BY <2>1, <2>4, <2>5, <2>6 DEF Agreed, NoRepetition
<1>3. CASE AnyFrameNext /\ pc \notin {"adapter", "failover"} /\ UNCHANGED world
  <2>1. /\ UNCHANGED <<plan, wiring, k, state>>
        /\ Has(events', "failover") <=> Has(events, "failover")
        /\ Has(events', "system_fault") <=> Has(events, "system_fault")
        /\ \/ ctx' = "block" /\ pc' = "adapter"
           \/ ctx' = "battery" /\ pc' = "adapter"
           \/ /\ ctx' = ctx
              /\ pc' \in {"battery", "done"} => ctx = "exec" \/ pc \in {"battery", "done"}
    BY <1>3, QuietStep
  <2>2. vehicle' = vehicle /\ live' = live /\ overtaken' = overtaken
    BY <1>3 DEF world
  <2>3. ~Excused
    BY <1>3, <2>1, <2>2 DEF Excused
  <2>4. Agreed
    BY <1>0, <2>3 DEF CleanInv
  <2> QED BY <2>1, <2>2, <2>4 DEF Agreed, NoRepetition, AtHome
<1> QED
  BY <1>1, <1>2, <1>3
     DEF FlightStep, Commanding, Acknowledged, Skipped, Unanswered, LedgerFails, Simulated

-----------------------------------------------------------------------------
(* The program.                                                             *)

\* Who flies over the transport: no trace, and nobody fails over to another one.
LEMMA TransportWiring ==
    ASSUME AppTypeOK
    PROVE  /\ wiring.failover # "transport"
           /\ wiring.primary = "transport" =>
                /\ wiring.localization = "passthrough" /\ wiring.avoidance = "passthrough"
                /\ FirstState(program) = HomeState
           /\ program.command = "benchmark" /\ ~program.local => wiring.primary = "transport"
           /\ program.command = "benchmark" /\ ~program.failover => wiring.failover = "none"
<1>1. wiring = WiringOf(program) /\ program \in Programs
  BY DEF AppTypeOK
<1>2. CASE program.command = "trace"
  BY <1>1, <1>2 DEF WiringOf
<1>3. CASE program.command # "trace"
  BY <1>1, <1>3, FirstStateType DEF WiringOf
<1> QED BY <1>2, <1>3

InFlight ==
    stage = "flying" =>
        /\ LoopInv /\ DisarmedInv /\ Verified(plan)
        /\ clean => wiring.primary = "transport"

Reported == StrictMeansFlown /\ StrictEndsSafe /\ RejectedForCoordinatesOnly

ProgramInv == Grounded /\ InFlight /\ OwedInv /\ FlownInv /\ CleanInv /\ Reported

LEMMA ProgramInit == AppInit => ProgramInv
<1>1. AppInit => stage = "planning" /\ records = <<>> /\ owed = {}
  BY DEF AppInit
<1> QED
  BY <1>1, GroundedInit
     DEF ProgramInv, InFlight, OwedInv, FlownInv, CleanInv, Reported, StrictMeansFlown,
         StrictEndsSafe, StrictOverTransport, RejectedForCoordinatesOnly

\* A program in flight has nothing to report, nor has one that died.
LEMMA NothingReported == stage' \in {"flying", "died"} => Reported'
BY DEF Reported, StrictMeansFlown, StrictEndsSafe, StrictOverTransport,
       RejectedForCoordinatesOnly

LEMMA FlightKeeps ==
    ASSUME ProgramInv, FlightStep
    PROVE  InFlight' /\ OwedInv' /\ FlownInv' /\ CleanInv' /\ Reported'
<1>0. /\ SupervisorInv /\ WorldOK /\ HomeInv /\ AppTypeOK
      /\ LoopInv /\ DisarmedInv /\ Verified(plan)
      /\ clean => wiring.primary = "transport"
      /\ stage' = "flying" /\ clean' = clean
  BY DEF ProgramInv, Grounded, InFlight, FlightStep, AppTypeOK
<1>1. [AnyFrameNext]_vars
  BY FlightIsMission
<1>2. plan' = plan /\ wiring' = wiring
  BY <1>1, PlanIsFixed
<1>3. LoopInv' /\ DisarmedInv'
  BY <1>0, <1>1, LoopStep, DisarmedStep
<1>4. InFlight'
  BY <1>0, <1>2, <1>3 DEF InFlight, Verified, Last, WellFormed
<1>5. OwedInv'
  BY OwedStep DEF ProgramInv
<1>6. ASSUME wiring.primary = "transport" PROVE FlownInv' /\ CleanInv'
  <2>1. wiring.avoidance = "passthrough" /\ wiring.failover # "transport"
    BY <1>0, <1>6, TransportWiring
  <2>2. FlownInv'
    BY <1>0, <2>1, FlownStep DEF ProgramInv
  <2>3. CleanInv'
    BY <1>0, <2>1, CleanStep DEF ProgramInv
  <2> QED BY <2>2, <2>3
<1>7. ASSUME wiring.primary # "transport" PROVE FlownInv' /\ CleanInv'
  BY <1>0, <1>2, <1>7 DEF FlownInv, CleanInv
<1>8. Reported'
  BY <1>0, NothingReported
<1> QED BY <1>4, <1>5, <1>6, <1>7, <1>8

LEMMA LaunchKeeps ==
    ASSUME ProgramInv, NEW p \in Seq(Action), Launch(p)
    PROVE  InFlight' /\ OwedInv' /\ FlownInv' /\ CleanInv' /\ Reported'
<1>0. /\ AppTypeOK /\ stage' = "flying" /\ plan' = p /\ Verified(p)
      /\ k' = 1 /\ pc' = "observe" /\ ctx' = "exec" /\ events' = <<>>
      /\ UNCHANGED <<wiring, world, program>>
      /\ state' = FirstState(program)
      /\ owed' = {p[i] : i \in DOMAIN p} \ live
  BY DEF ProgramInv, Grounded, Launch
<1>1. Len(p) \in Nat /\ Len(p) # 0 /\ DOMAIN p = 1 .. Len(p)
  BY <1>0 DEF Verified
<1>2. \A kind : ~Has(events', kind)
  BY <1>0 DEF Has
<1>3. LoopInv' /\ DisarmedInv'
  BY <1>0, <1>1, <1>2 DEF LoopInv, Pending, DisarmedInv
<1>4. clean' => /\ wiring.primary = "transport" /\ NoRepetition(p)
               /\ vehicle.pos = HomeState.pos /\ ~vehicle.armed /\ live = {}
  BY DEF Launch
<1>5. InFlight'
  BY <1>0, <1>3, <1>4 DEF InFlight, Verified, Last, WellFormed
<1>6. OwedInv' /\ FlownInv'
  BY <1>0, <1>1 DEF world, OwedInv, FlownInv, Ahead
<1>7. CleanInv'
  <2>1. clean' => vehicle'.pos = state'.pos /\ vehicle'.armed = state'.armed
    <3>1. HomeState.armed = FALSE
      BY DEF HomeState, ScenarioState
    <3>2. vehicle \in VehicleState /\ vehicle' = vehicle
      BY <1>0 DEF AppTypeOK, WorldOK, world
    <3>3. ~vehicle.armed => vehicle.armed = FALSE
      BY <3>2 DEF VehicleState
    <3> QED BY <1>0, <1>4, <3>1, <3>2, <3>3, TransportWiring
  <2>2. clean' => wiring'.primary = "transport" /\ NoRepetition(plan)' /\ live' = {}
    BY <1>0, <1>4 DEF NoRepetition, world
  <2> QED BY <1>0, <2>1, <2>2 DEF CleanInv, Agreed
<1>8. Reported'
  BY <1>0, NothingReported
<1> QED BY <1>3, <1>5, <1>6, <1>7, <1>8

\* The verdict.  A mission that earned its strict success without a failover was
\* flown to its end by the transport: nothing is owed, and if it began on a clean
\* slate the vehicle itself is disarmed at home.
LEMMA StrictVerdict ==
    ASSUME ProgramInv, stage = "flying", pc = "done",
           program.command = "benchmark", StrictSuccess,
           ~program.local, program.demanding \/ ~program.failover
    PROVE  /\ owed = {}
           /\ clean /\ ~overtaken => NearHome(vehicle) /\ ~vehicle.armed
<1>0. /\ SupervisorInv /\ TypeOK /\ ContextOfEvents /\ HomeInv /\ AppTypeOK
      /\ LoopInv /\ DisarmedInv
  BY DEF ProgramInv, Grounded, InFlight, SupervisorInv
<1>1. /\ wiring.primary = "transport"
      /\ wiring.localization = "passthrough" /\ wiring.avoidance = "passthrough"
      /\ ~program.failover => wiring.failover = "none"
  BY <1>0, TransportWiring
<1>2. ~Has(events, "policy_block") /\ ~Has(events, "system_fault")
  BY DEF StrictSuccess, Success
<1>3. ~Has(events, "failover")
  <2>1. CASE program.demanding
    BY <2>1 DEF StrictSuccess, TransportPrimaryOk
  <2>2. CASE ~program.failover
    BY <1>0, <1>1, <2>2 DEF LoopInv
  <2> QED BY <2>1, <2>2
<1>4. k > Len(plan)
  BY <1>0, <1>2 DEF LoopInv, TypeOK
<1>5. /\ ctx = "exec" /\ ~state.armed
      /\ Abs(state.pos.x) <= DisarmTolerance /\ Abs(state.pos.y) <= DisarmTolerance
  BY <1>0, <1>1, <1>2, <1>4 DEF DisarmedInv
<1>6. owed = {}
  <2>1. owed \subseteq Ahead
    BY <1>1, <1>3, <1>5 DEF ProgramInv, FlownInv
  <2>2. k .. Len(plan) = {}
    BY <1>0, <1>4 DEF TypeOK
  <2> QED BY <2>1, <2>2 DEF Ahead
<1>7. ASSUME clean, ~overtaken PROVE NearHome(vehicle) /\ ~vehicle.armed
  <2>1. Agreed
    BY <1>2, <1>3, <1>7 DEF ProgramInv, CleanInv, Excused
  <2>2. vehicle.pos = state.pos /\ vehicle.armed = state.armed
    BY <1>5, <2>1 DEF Agreed
  <2>3. vehicle.home.x = 0 /\ vehicle.home.y = 0
    BY <1>0 DEF HomeInv, Origin
  <2>4. state.pos.x \in Int /\ state.pos.y \in Int
    BY <1>0 DEF TypeOK, VehicleState, Point
  <2>5. state.pos.x - 0 = state.pos.x /\ state.pos.y - 0 = state.pos.y
    BY <2>4
  <2> QED BY <1>5, <2>2, <2>3, <2>5 DEF NearHome
<1> QED BY <1>6, <1>7

LEMMA DeskKeeps ==
    ASSUME ProgramInv, Desk
    PROVE  InFlight' /\ OwedInv' /\ FlownInv' /\ CleanInv' /\ Reported'
<1>0. /\ AppTypeOK /\ RunsLeft /\ Reported /\ stage' # "flying"
      /\ vehicle' = vehicle /\ overtaken' = overtaken
      /\ UNCHANGED <<program, clean, owed>>
      /\ program \in Programs /\ state \in VehicleState
  BY DEF ProgramInv, Grounded, Desk, world, AppTypeOK, SupervisorInv, TypeOK
<1>1. InFlight' /\ FlownInv' /\ CleanInv'
  BY <1>0 DEF InFlight, FlownInv, CleanInv
<1>2. OwedInv'
  BY OwedStep DEF ProgramInv
<1>3. ASSUME NEW outcome \in {"planner_error", "rejected", "executed"},
             NEW success \in BOOLEAN, NEW strict \in BOOLEAN,
             Report(outcome, success, strict), NextRun, stage \in {"planning", "flying"}
      PROVE  LastRun'.outcome = outcome /\ LastRun'.strict = strict
  <2>1. LastRun' = [outcome |-> outcome, success |-> success, strict |-> strict]
    BY <1>0, <1>3, RunRecords
  <2> QED BY <2>1
<1>4. ASSUME stage' = "died" PROVE Reported'
  BY <1>4, NothingReported
<1>5. ASSUME stage = "planning", Report("planner_error", FALSE, FALSE), NextRun
      PROVE  Reported'
  <2>1. LastRun'.outcome = "planner_error" /\ LastRun'.strict = FALSE
    BY <1>3, <1>5
  <2> QED
    BY <2>1 DEF Reported, StrictMeansFlown, StrictEndsSafe, StrictOverTransport,
                RejectedForCoordinatesOnly
<1>6. ASSUME stage = "planning", NEW outcome \in Planned, outcome.ok, plan' = outcome.plan,
             ~Verified(plan'), Report("rejected", FALSE, FALSE), NextRun
      PROVE  Reported'
  <2>1. LastRun'.strict = FALSE
    BY <1>3, <1>6
  <2>2. Repaired(plan')
    BY <1>0, <1>6, PlannedType
  <2>3. RejectedForCoordinatesOnly'
    BY <1>6, <2>2 DEF Repaired, RejectedForCoordinatesOnly
  <2> QED
    BY <2>1, <2>3 DEF Reported, StrictMeansFlown, StrictEndsSafe, StrictOverTransport
<1>7. ASSUME stage = "flying", pc = "done", NextRun,
             Report("executed", Success, program.command = "benchmark" /\ StrictSuccess)
      PROVE  Reported'
  <2> DEFINE strict == program.command = "benchmark" /\ StrictSuccess
  <2>1. Success \in BOOLEAN /\ strict \in BOOLEAN
    BY <1>0 DEF Success, VehicleState
  <2>2. LastRun'.outcome = "executed" /\ LastRun'.strict = strict
    BY <1>3, <1>7, <2>1
  <2>3. RejectedForCoordinatesOnly'
    BY <2>2 DEF RejectedForCoordinatesOnly
  <2>4. ASSUME StrictOverTransport'
        PROVE  owed' = {} /\ (clean' /\ ~overtaken' => NearHome(vehicle') /\ ~vehicle'.armed)
    <3>1. strict /\ ~program.local /\ (program.demanding \/ ~program.failover)
      BY <1>0, <2>2, <2>4 DEF StrictOverTransport
    <3> QED BY <1>0, <1>7, <3>1, StrictVerdict
  <2> QED BY <2>3, <2>4 DEF Reported, StrictMeansFlown, StrictEndsSafe, NearHome
<1> QED BY <1>1, <1>2, <1>4, <1>5, <1>6, <1>7 DEF Desk

LEMMA ElsewhereKeeps ==
    ASSUME ProgramInv, Elsewhere
    PROVE  InFlight' /\ OwedInv' /\ FlownInv' /\ CleanInv' /\ Reported'
<1>0. UNCHANGED <<app, vars>>
  BY ElsewhereIsMission
<1>1. /\ live' \subseteq live
      /\ overtaken' \/ (vehicle' = vehicle /\ overtaken' = overtaken)
  BY DEF Elsewhere, StrayArrives, Expires, world
<1>2. InFlight'
  BY <1>0 DEF ProgramInv, app, vars, InFlight, LoopInv, Pending, DisarmedInv, Has,
              Verified, Last, WellFormed
<1>3. OwedInv'
  BY OwedStep DEF ProgramInv
<1>4. FlownInv'
  BY <1>0 DEF ProgramInv, app, vars, FlownInv, Ahead, Has
<1>5. CleanInv'
  <2>1. CASE overtaken'
    BY <2>1 DEF CleanInv, Excused
  <2>2. CASE vehicle' = vehicle /\ overtaken' = overtaken
    BY <1>0, <1>1, <2>2 DEF ProgramInv, app, vars, CleanInv, Excused, Agreed, Has,
                            NoRepetition, AtHome
  <2> QED BY <1>1, <2>1, <2>2
<1>6. Reported'
  <2>1. UNCHANGED <<stage, records, program, owed, clean, plan>>
    BY <1>0 DEF app, vars
  <2>2. StrictMeansFlown' /\ RejectedForCoordinatesOnly' /\ StrictOverTransport' = StrictOverTransport
    BY <2>1 DEF ProgramInv, Reported, StrictMeansFlown, StrictOverTransport,
                RejectedForCoordinatesOnly, LastRun
  <2>3. StrictEndsSafe'
    BY <1>1, <2>1, <2>2 DEF ProgramInv, Reported, StrictEndsSafe, NearHome
  <2> QED BY <2>2, <2>3 DEF Reported
<1> QED BY <1>2, <1>3, <1>4, <1>5, <1>6

LEMMA ProgramStep == ProgramInv /\ [AppNext]_appVars => ProgramInv'
<1> SUFFICES ASSUME ProgramInv, [AppNext]_appVars PROVE ProgramInv'
  OBVIOUS
<1>1. Grounded'
  BY GroundedStep DEF ProgramInv
<1>2. program \in Programs /\ consumed \in Nat
  BY DEF ProgramInv, Grounded, AppTypeOK
<1>3. ASSUME NEW outcome \in Planned, outcome.ok, Launch(outcome.plan)
      PROVE  InFlight' /\ OwedInv' /\ FlownInv' /\ CleanInv' /\ Reported'
  <2>1. outcome.plan \in Seq(Action)
    BY <1>2, <1>3, PlannedType
  <2> QED BY <1>3, <2>1, LaunchKeeps
<1>4. InFlight' /\ OwedInv' /\ FlownInv' /\ CleanInv' /\ Reported'
  BY <1>2, <1>3, AppStep, FlightKeeps, DeskKeeps, ElsewhereKeeps
<1> QED BY <1>1, <1>4 DEF ProgramInv

LEMMA ProgramAlways == AppSpec => []ProgramInv
BY ProgramInit, ProgramStep, PTL DEF AppSpec

\* A strict success over the transport with no failover allowed: every command
\* of the plan that the ledger did not remember when the run began was
\* acknowledged during it, whatever the link lost, repeated or delayed.
THEOREM StrictSuccessIsFlown == AppSpec => []StrictMeansFlown
<1>1. ProgramInv => StrictMeansFlown
  BY DEF ProgramInv, Reported
<1> QED BY <1>1, ProgramAlways, PTL

\* Such a run, begun on a clean slate and overtaken by no late request, leaves
\* the vehicle itself disarmed within the tolerance of its home.
THEOREM StrictSuccessEndsSafe == AppSpec => []StrictEndsSafe
<1>1. ProgramInv => StrictEndsSafe
  BY DEF ProgramInv, Reported
<1> QED BY <1>1, ProgramAlways, PTL

\* A run that begins on a clean slate knows where the vehicle is, whatever the
\* runs before it did.
THEOREM CleanRunFollowsVehicle == AppSpec => []CleanRunKnowsVehicle
<1>1. ProgramInv => CleanRunKnowsVehicle
  <2> SUFFICES ASSUME ProgramInv, stage = "flying", clean, wiring.failover # "sim",
                      ~overtaken, ~Has(events, "system_fault")
               PROVE  /\ pc \in {"observe", "gate", "done"} => vehicle.pos = state.pos
                      /\ pc \in {"observe", "gate"} => vehicle.armed = state.armed
    BY DEF CleanRunKnowsVehicle, ProjectionFollowsVehicle
  <2>1. wiring.failover = "none"
    BY TransportWiring DEF ProgramInv, Grounded, SupervisorInv, TypeOK, Wiring
  <2>2. Agreed
    BY <2>1 DEF ProgramInv, InFlight, LoopInv, CleanInv, Excused
  <2>3. pc \in {"observe", "gate"} => ctx = "exec"
    BY DEF ProgramInv, Grounded, SupervisorInv, ContextOfEvents
  <2> QED BY <2>2, <2>3 DEF Agreed
<1> QED BY <1>1, ProgramAlways, PTL

\* The verifier refuses a plan of the language-model planner only for a move
\* without coordinates, whatever the model answered.
THEOREM OnlyCoordinatesAreRefused == AppSpec => []RejectedForCoordinatesOnly
<1>1. ProgramInv => RejectedForCoordinatesOnly
  BY DEF ProgramInv, Reported
<1> QED BY <1>1, ProgramAlways, PTL

=============================================================================
