------------------------------ MODULE Planners ------------------------------
(***************************************************************************)
(* Where plans come from and what is checked before one is flown:          *)
(* CloudPlanner, the normalisation HuggingFacePlanner applies to the answer *)
(* of a language model, and PlanVerifier.                                  *)
(*                                                                         *)
(* An answer is the list under "actions", empty when the text holds no     *)
(* plan object with such a list.  The type of an entry is NoVal when the   *)
(* entry is not an object or its type is not a string, "unknown" when it   *)
(* names no ActionType, and "unreadable" when float() cannot convert one   *)
(* of its numbers.                                                         *)
(***************************************************************************)
EXTENDS VehicleModel, Selection

Entry == [type   : ActionTypes \cup {NoVal, "unknown", "unreadable"},
          target : Point \cup {NoVal},
          speed  : Int \cup {NoVal}]

MoveTo(x, y, speed) ==
    [type |-> "move_to", target |-> [x |-> x, y |-> y], speed |-> speed]

\* CloudPlanner.build_plan: a square of 40 m for a patrol, else ten metres out.
CloudPlan(patrol) ==
    <<Plain("arm")>>
    \o (IF patrol
        THEN << MoveTo(2000, 2000, 4), MoveTo(-2000, 2000, 4),
                MoveTo(-2000, -2000, 4), MoveTo(2000, -2000, 4) >>
        ELSE << MoveTo(1000, 0, 3) >>)
    \o <<Plain("return_to_home"), Plain("disarm")>>

-----------------------------------------------------------------------------
(* HuggingFacePlanner.                                                      *)

\* What a route to the model delivers: an answer, or the way it failed.
Route(answers) ==
    {[ok |-> TRUE, answer |-> a] : a \in answers}
    \cup {[ok |-> FALSE, why |-> w] : w \in {"unreachable", "not_found", "unreadable"}}

\* _generate: the text-generation route, and the chat route when a dedicated
\* endpoint does not know the first or answers in a shape nobody can read.
Generated(endpoint, text, chat) ==
    IF endpoint /\ ~text.ok /\ text.why \in {"not_found", "unreadable"}
    THEN chat
    ELSE text

Typed(entry) == entry.type # NoVal

TypedEntries(answer) == Selected(answer, {i \in DOMAIN answer : Typed(answer[i])})

Understood(entry) == entry.type \in ActionTypes

\* Mutant: an entry of a type nobody knows is kept.
AnswerUsableAnyType(answer) == TypedEntries(answer) # <<>>

\* _plan_from_dict skips the entries without a type and raises for one it cannot
\* convert, and when nothing is left.
AnswerUsable(answer) ==
    LET entries == TypedEntries(answer)
    IN  entries # <<>> /\ \A i \in DOMAIN entries : Understood(entries[i])

\* Mutant: only a missing speed is replaced.
WithSpeedMissingOnly(a) ==
    IF a.type = "move_to" /\ a.speed = NoVal THEN [a EXCEPT !.speed = 3] ELSE a

\* A move without a positive speed is given three metres per second.
WithSpeed(a) ==
    IF a.type = "move_to" /\ (a.speed = NoVal \/ a.speed <= 0)
    THEN [a EXCEPT !.speed = 3]
    ELSE a

Last(p) == p[Len(p)]

\* What is appended to a plan that does not end in disarm.
Ending(last) ==
    CASE last.type = "disarm" -> <<>>
      [] last.type = "return_to_home" -> <<Plain("disarm")>>
      [] OTHER -> <<Plain("return_to_home"), Plain("disarm")>>

\* The plan _plan_from_dict makes of a usable answer.
Normalised(answer) ==
    LET entries == TypedEntries(answer)
        actions == [i \in DOMAIN entries |-> WithSpeed(entries[i])]
    IN  (IF actions[1].type = "arm" THEN <<>> ELSE <<Plain("arm")>>)
        \o actions \o Ending(Last(actions))

-----------------------------------------------------------------------------

\* PlanVerifier: what a move must carry.
WellFormed(a) ==
    a.type = "move_to" => a.target # NoVal /\ a.speed # NoVal /\ a.speed > 0

\* PlanVerifier.verify.
Verified(p) ==
    /\ p # <<>>
    /\ p[1].type = "arm"
    /\ Last(p).type = "disarm"
    /\ \A i \in DOMAIN p : WellFormed(p[i])

=============================================================================
