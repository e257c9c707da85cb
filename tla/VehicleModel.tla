---------------------------- MODULE VehicleModel ----------------------------
(***************************************************************************)
(* The data the mission side of the system works on: actions, vehicle      *)
(* states and what executing an action does to a state.                    *)
(*                                                                         *)
(* Numbers are fixed point: lengths in centimetres, battery in twentieths  *)
(* of a percent (so a move costs 4 units and a hold costs 1), speeds in    *)
(* metres per second.  NoVal is Python's None.  An action whose x or y is  *)
(* missing has target NoVal: no code path tells the two apart.             *)
(***************************************************************************)
EXTENDS Integers

CONSTANT NoVal

Point == [x : Int, y : Int]

ActionTypes == {"arm", "move_to", "hold", "return_to_home", "disarm"}

Action == [type : ActionTypes, target : Point \cup {NoVal}, speed : Int \cup {NoVal}]

\* Heading and velocity are carried by the code but read by no check.
VehicleState == [pos : Point, home : Point, battery : Nat, armed : BOOLEAN,
                 connected : BOOLEAN, std : Nat]

\* An action without parameters.
Plain(type) == [type |-> type, target |-> NoVal, speed |-> NoVal]

MoveDrop == 4       \* battery_drop = 0.2 %
HoldDrop == 1       \* 0.05 %

\* Mutant: the battery level is not kept at or above zero.
DrainUnclamped(battery, drop) == battery - drop

Drain(battery, drop) == IF battery > drop THEN battery - drop ELSE 0

\* SimVehicleAdapter.execute: the simulator, and also the state projector that
\* TransportVehicleAdapter runs after a command was acknowledged.
Execute(s, a) ==
    CASE a.type = "arm" -> [s EXCEPT !.armed = TRUE]
      [] a.type = "move_to" ->
            IF a.target = NoVal
            THEN s
            ELSE [s EXCEPT !.pos = a.target, !.battery = Drain(@, MoveDrop)]
      [] a.type = "hold" -> [s EXCEPT !.battery = Drain(@, HoldDrop)]
      [] a.type = "return_to_home" ->
            [s EXCEPT !.pos = s.home, !.battery = Drain(@, MoveDrop)]
      [] a.type = "disarm" -> [s EXCEPT !.armed = FALSE]

\* VehicleAdapter.supports, for a profile that does or does not offer
\* return-to-home.
Supports(supportsReturnToHome, a) ==
    a.type = "return_to_home" => supportsReturnToHome

AtHome(s) == s.pos = s.home

=============================================================================
