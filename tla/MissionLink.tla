----------------------------- MODULE MissionLink -----------------------------
(***************************************************************************)
(* A mission over command transports: EdgeSupervisor composed with the     *)
(* vehicle and with the idempotency keys of the ledger.  The supervisor    *)
(* never asks where the vehicle is: TransportVehicleAdapter projects the   *)
(* state after send_command returned, and send_command also returns when   *)
(* it skipped the command as a duplicate.                                  *)
(*                                                                         *)
(* send_command is one step here, with the outcomes CommandLink allows;    *)
(* CommandTransport has its inside.  Both adapters use one ledger, as they *)
(* do with the default store_path.  The key is a hash of vehicle and       *)
(* payload: for one vehicle, the action itself.  Executing a command again *)
(* at once changes no more than the battery, which nothing here compares.  *)
(***************************************************************************)
EXTENDS EdgeSupervisor, FiniteSets

CONSTANTS
    EarlierKeys,    \* what earlier missions may have left in the ledger
    MaxStrays       \* bound: requests under way after their call gave them up

ASSUME MissionAssumption ==
    /\ \A keys \in EarlierKeys : keys \subseteq Action
    /\ MaxStrays \in Nat

VARIABLES
    vehicle,    \* the vehicle itself
    live,       \* the commands whose keys are in the ledger
    strays,     \* requests that timed out, and may still arrive
    overtaken   \* history: a stray arrived

world == <<vehicle, live, strays, overtaken>>

MissionInit ==
    /\ Init
    /\ vehicle = state
    /\ live \in EarlierKeys
    /\ strays = {} /\ overtaken = FALSE

AtTransport ==
    \/ pc = "adapter" /\ wiring.primary = "transport"
    \/ pc = "failover" /\ wiring.failover = "transport"

AdapterReturns == PrimaryExecutes \/ FailoverExecutes

AdapterRaises == PrimaryFails \/ PrimaryRaises \/ FailoverRaises

\* An attempt may have timed out with its request still under way.
Attempts ==
    /\ strays' \in {strays, strays \cup {cmd}}
    /\ Cardinality(strays') <= MaxStrays
    /\ UNCHANGED overtaken

-----------------------------------------------------------------------------

\* Sent, executed, acknowledged and remembered.
Acknowledged ==
    /\ AtTransport /\ AdapterReturns
    /\ cmd \notin live
    /\ vehicle' = Execute(vehicle, cmd)
    /\ live' = live \cup {cmd}
    /\ Attempts

\* An equal command is remembered: nothing is sent, and send_command returns.
Skipped ==
    /\ AtTransport /\ AdapterReturns
    /\ cmd \in live
    /\ UNCHANGED world

\* Mutant: the key is remembered before the acknowledgement came.
UnansweredMarksFirst ==
    /\ AtTransport /\ AdapterRaises
    /\ cmd \notin live
    /\ vehicle' \in {vehicle, Execute(vehicle, cmd)}
    /\ live' = live \cup {cmd}
    /\ Attempts

\* send_command raises without remembering the key: no request arrived, or none
\* was answered acceptably.
Unanswered ==
    /\ AtTransport /\ AdapterRaises
    /\ cmd \notin live
    /\ vehicle' \in {vehicle, Execute(vehicle, cmd)}
    /\ UNCHANGED live
    /\ Attempts

\* send_command raises at its last line, the key being remembered, or in logging
\* a duplicate.
LedgerFails ==
    /\ AtTransport /\ AdapterRaises
    /\ IF cmd \in live
       THEN UNCHANGED world
       ELSE /\ vehicle' = Execute(vehicle, cmd)
            /\ live' = live \cup {cmd}
            /\ Attempts

\* A simulated adapter computes a state; the vehicle hears nothing.
Simulated ==
    /\ ~AtTransport /\ AdapterReturns
    /\ UNCHANGED world

\* The lines of run_plan that command nothing, and its end.
Deciding ==
    /\ pc \notin {"adapter", "failover"}
    /\ Next
    /\ UNCHANGED world

\* A request given up long ago reaches the vehicle.
StrayArrives(a) ==
    /\ a \in strays
    /\ strays' = strays \ {a}
    /\ vehicle' = Execute(vehicle, a)
    /\ overtaken' = TRUE
    /\ UNCHANGED <<vars, live>>

\* A key expires and is deleted.
Expires(a) ==
    /\ a \in live
    /\ live' = live \ {a}
    /\ UNCHANGED <<vars, vehicle, strays, overtaken>>

Commanding == Acknowledged \/ Skipped \/ Unanswered \/ LedgerFails \/ Simulated

MissionNext ==
    \/ Commanding \/ Deciding
    \/ \E a \in strays : StrayArrives(a)
    \/ \E a \in live : Expires(a)

missionVars == <<vars, world>>

MissionSpec == MissionInit /\ [][MissionNext]_missionVars

-----------------------------------------------------------------------------
(* Properties.                                                             *)

WorldOK ==
    /\ vehicle \in VehicleState
    /\ live \subseteq Action
    /\ strays \subseteq Action
    /\ overtaken \in BOOLEAN

\* The vehicle itself stays inside the geofence, whatever is lost, repeated,
\* skipped or late on the way to it: every request that is ever under way passed
\* the gate or is a fallback.
VehicleContained == WithinGeofence(vehicle.pos)

\* The supervisor's projected state follows the vehicle: between two actions it
\* agrees on position and arming, and a mission that returns without a system
\* fault knows where the vehicle is, as long as no request overtook another and
\* no simulated adapter stands in for the vehicle.  No skipped duplicate breaks
\* this while no two commands of the mission are equal and no earlier mission
\* left keys behind.
ProjectionFollowsVehicle ==
    wiring.failover # "sim" /\ ~overtaken /\ ~Has(events, "system_fault") =>
        /\ pc \in {"observe", "gate", "done"} => vehicle.pos = state.pos
        /\ pc \in {"observe", "gate"} => vehicle.armed = state.armed

\* A policy violation brings the vehicle home: it is there when run_plan returns
\* after a refusal of the safety kernel and reports no fault.
RefusedVehicleIsHome ==
    /\ pc = "done" /\ Has(events, "policy_block") /\ reason \in KernelReasons
    /\ ~Has(events, "system_fault") /\ ~overtaken
    => AtHome(vehicle)

=============================================================================
