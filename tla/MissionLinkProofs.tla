-------------------------- MODULE MissionLinkProofs --------------------------
(***************************************************************************)
(* Proofs about the vehicle at the other end of the link, for every plan,  *)
(* every ledger and every pattern of loss, repetition and delay.           *)
(***************************************************************************)
EXTENDS MissionLink, EdgeSupervisorProofs

\* An adapter call is a step of run_plan, made at the adapter.
LEMMA AdapterSteps ==
    /\ AdapterReturns => Next /\ pc \in {"adapter", "failover"}
    /\ AdapterRaises => Next /\ pc \in {"adapter", "failover"}
BY DEF AdapterReturns, AdapterRaises, Next, Step, PrimaryExecutes, FailoverExecutes,
       PrimaryFails, PrimaryRaises, FailoverRaises

\* Every step of the composition is a step of run_plan or leaves it alone.
LEMMA SupervisorSteps == [MissionNext]_missionVars => [Next]_vars
BY AdapterSteps
   DEF MissionNext, missionVars, Commanding, Acknowledged, Skipped, Unanswered, LedgerFails,
       Simulated, Deciding, StrayArrives, Expires

\* What a step does to the vehicle and to the requests under way: at most the
\* command at the adapter is executed or added to them, or one of them arrives.
LEMMA WorldChange ==
    ASSUME [MissionNext]_missionVars
    PROVE  \/ /\ pc \in {"adapter", "failover"}
              /\ vehicle' \in {vehicle, Execute(vehicle, cmd)}
              /\ live' \subseteq live \cup {cmd}
              /\ strays' \subseteq strays \cup {cmd}
              /\ overtaken' = overtaken
           \/ \E a \in strays :
              /\ vehicle' = Execute(vehicle, a)
              /\ strays' \subseteq strays
              /\ live' = live
              /\ overtaken' = TRUE
           \/ /\ vehicle' = vehicle /\ strays' \subseteq strays
              /\ live' \subseteq live /\ overtaken' = overtaken
<1>1. CASE Acknowledged
  BY <1>1, AdapterSteps DEF Acknowledged, Attempts
<1>2. CASE Unanswered
  BY <1>2, AdapterSteps DEF Unanswered, Attempts
<1>3. CASE LedgerFails
  BY <1>3, AdapterSteps DEF LedgerFails, Attempts, world
<1>4. CASE Skipped \/ Simulated \/ Deciding \/ UNCHANGED missionVars
  BY <1>4 DEF Skipped, Simulated, Deciding, world, missionVars
<1>5. ASSUME NEW a \in strays, StrayArrives(a)
      PROVE  /\ vehicle' = Execute(vehicle, a) /\ strays' \subseteq strays
             /\ live' = live /\ overtaken' = TRUE
  BY <1>5 DEF StrayArrives
<1>6. ASSUME NEW a \in live, Expires(a)
      PROVE  /\ vehicle' = vehicle /\ strays' \subseteq strays
             /\ live' \subseteq live /\ overtaken' = overtaken
  BY <1>6 DEF Expires
<1> QED
  BY <1>1, <1>2, <1>3, <1>4, <1>5, <1>6 DEF MissionNext, Commanding

-----------------------------------------------------------------------------
(* The inductive invariant: the supervisor's own, the types, and that the   *)
(* vehicle, its home and the target of every request under way are inside.  *)

Inside(a) == MovesTo(a) => WithinGeofence(a.target)

FenceInv ==
    /\ WithinGeofence(vehicle.pos) /\ WithinGeofence(vehicle.home)
    /\ \A a \in strays : Inside(a)

\* A command at the adapter moves the vehicle to no place outside.
LEMMA CommandInside ==
    ASSUME SupervisorInv, pc \in {"adapter", "failover"}
    PROVE  cmd \in Action /\ Inside(cmd)
BY MoveAtAdapter DEF Inside, SupervisorInv, TypeOK

\* Executing such a command keeps a vehicle inside that is inside.
LEMMA ExecuteInside ==
    ASSUME NEW v \in VehicleState, NEW a \in Action, Inside(a),
           WithinGeofence(v.pos), WithinGeofence(v.home)
    PROVE  WithinGeofence(Execute(v, a).pos) /\ WithinGeofence(Execute(v, a).home)
<1>1. Execute(v, a).home = v.home
  BY ExecuteType
<1>2. \/ Execute(v, a).pos = v.pos
      \/ Execute(v, a).pos = v.home
      \/ MovesTo(a) /\ Execute(v, a).pos = a.target
  BY ExecuteMotion
<1> QED BY <1>1, <1>2 DEF Inside

LEMMA WorldInit == MissionInit => SupervisorInv /\ WorldOK
<1>1. MissionInit => Init /\ state \in VehicleState
  BY SupervisorAssumption DEF MissionInit, Init
<1> QED BY <1>1, InvInit, MissionAssumption DEF MissionInit, WorldOK

LEMMA WorldStep ==
    ASSUME SupervisorInv, WorldOK, [MissionNext]_missionVars
    PROVE  SupervisorInv' /\ WorldOK'
<1>1. SupervisorInv'
  BY SupervisorSteps, InvStep DEF AnyFrameNext
<1>2. \A a \in Action : Execute(vehicle, a) \in VehicleState
  BY ExecuteType DEF WorldOK
<1>3. pc \in {"adapter", "failover"} => cmd \in Action
  BY CommandInside
<1>4. WorldOK'
  BY <1>2, <1>3, WorldChange DEF WorldOK
<1> QED BY <1>1, <1>4

LEMMA FenceStep ==
    ASSUME SupervisorInv, WorldOK, FenceInv, [MissionNext]_missionVars
    PROVE  FenceInv'
<1>1. vehicle \in VehicleState /\ strays \subseteq Action
  BY DEF WorldOK
<1>2. CASE /\ pc \in {"adapter", "failover"}
           /\ vehicle' \in {vehicle, Execute(vehicle, cmd)}
           /\ strays' \subseteq strays \cup {cmd}
  <2>1. cmd \in Action /\ Inside(cmd)
    BY <1>2, CommandInside
  <2>2. WithinGeofence(vehicle'.pos) /\ WithinGeofence(vehicle'.home)
    BY <1>1, <1>2, <2>1, ExecuteInside DEF FenceInv
  <2>3. \A a \in strays' : Inside(a)
    BY <1>2, <2>1 DEF FenceInv
  <2> QED BY <2>2, <2>3 DEF FenceInv, Inside, MovesTo, WithinGeofence
<1>3. ASSUME NEW a \in strays, vehicle' = Execute(vehicle, a), strays' \subseteq strays
      PROVE  FenceInv'
  <2>1. a \in Action /\ Inside(a)
    BY <1>1, <1>3 DEF FenceInv
  <2>2. WithinGeofence(vehicle'.pos) /\ WithinGeofence(vehicle'.home)
    BY <1>1, <1>3, <2>1, ExecuteInside DEF FenceInv
  <2>3. \A b \in strays' : Inside(b)
    BY <1>3 DEF FenceInv
  <2> QED BY <2>2, <2>3 DEF FenceInv, Inside, MovesTo, WithinGeofence
<1>4. CASE vehicle' = vehicle /\ strays' \subseteq strays
  BY <1>4 DEF FenceInv, Inside, MovesTo, WithinGeofence
<1> QED BY <1>2, <1>3, <1>4, WorldChange

-----------------------------------------------------------------------------
(* The theorems.                                                            *)

\* The vehicle and everything on the way to it are well typed.
THEOREM WorldTypes == MissionSpec => []WorldOK
<1>1. MissionInit => SupervisorInv /\ WorldOK
  BY WorldInit
<1>2. (SupervisorInv /\ WorldOK) /\ [MissionNext]_missionVars => (SupervisorInv /\ WorldOK)'
  BY WorldStep
<1> QED BY <1>1, <1>2, PTL DEF MissionSpec

\* The vehicle itself never leaves the geofence, whatever is lost, repeated,
\* skipped or late, if every mission starts inside it with its home inside it.
THEOREM VehicleStaysInside ==
    ASSUME \A s \in InitialStates : WithinGeofence(s.pos) /\ WithinGeofence(s.home)
    PROVE  MissionSpec => []VehicleContained
<1> DEFINE Inv == SupervisorInv /\ WorldOK /\ FenceInv
<1>1. MissionInit => FenceInv
  BY DEF MissionInit, Init, FenceInv
<1>2. MissionInit => Inv
  BY <1>1, WorldInit
<1>3. Inv /\ [MissionNext]_missionVars => Inv'
  BY WorldStep, FenceStep
<1>4. Inv => VehicleContained
  BY DEF FenceInv, VehicleContained
<1> QED BY <1>2, <1>3, <1>4, PTL DEF MissionSpec

=============================================================================
