-------------------------------- MODULE MCApp --------------------------------
(* Constants for the model checker: command lines, answers of a model.       *)
EXTENDS App

Start(command, runs, local, failover, demanding) ==
    [command |-> command, runs |-> runs, local |-> local, failover |-> failover,
     demanding |-> demanding, planner |-> "stub", endpoint |-> FALSE,
     patrol |-> command = "demo"]

AskModel(p) == [p EXCEPT !.planner = "huggingface", !.endpoint = TRUE]

\* A strict run over the transport with a failover adapter, two without one; a
\* flight planned by a language model; two runs of that without a vehicle; the
\* demo; the trace.
MCPrograms ==
    {Start("benchmark", 1, FALSE, TRUE, TRUE),
     Start("benchmark", 2, FALSE, FALSE, FALSE),
     AskModel(Start("benchmark", 1, FALSE, FALSE, FALSE)),
     [AskModel(Start("benchmark", 2, TRUE, FALSE, TRUE)) EXCEPT !.endpoint = FALSE],
     Start("demo", 1, TRUE, FALSE, FALSE),
     AskModel(Start("demo", 1, TRUE, TRUE, FALSE)),
     [command |-> "trace", scenario |-> NominalReplay]}

BlockedTrace == {[command |-> "trace", scenario |-> BlockedTarget]}

\* Useless; a type nobody knows; a move at speed zero; one without coordinates;
\* one that returns before it moves on; a bare disarm; one that leaves the fence;
\* one that disarms where it is; one that disarms a centimetre from home.
MCAnswers ==
    { <<[Plain("hold") EXCEPT !.type = NoVal]>>,
      <<[Plain("hold") EXCEPT !.type = "unknown"], MoveTo(500, 0, 2)>>,
      <<[Plain("hold") EXCEPT !.type = NoVal], MoveTo(500, 0, 0)>>,
      <<Plain("arm"), [MoveTo(0, 0, 2) EXCEPT !.target = NoVal], Plain("disarm")>>,
      <<MoveTo(500, 0, 2), Plain("return_to_home"), MoveTo(0, 500, NoVal)>>,
      <<Plain("disarm")>>,
      <<MoveTo(20000, 0, 2)>>,
      <<MoveTo(500, 0, 2), Plain("disarm")>>,
      <<MoveTo(1, 0, 2), Plain("disarm")>> }

OnePlan == {<<>>}

FirstStates == {FirstState(p) : p \in Programs}

AllWirings == {WiringOf(p) : p \in Programs}

NoFrames == {}

SampledLags == {0, 1}

NothingSeen == {{}}

Odd(n) == n % 2 = 1

\* Selected is SelectSeq, on every short sequence and on the answers above.
ASSUME SelectionAgrees ==
    /\ \A n \in 0 .. 5 : \A s \in [1 .. n -> 1 .. 3] :
          Selected(s, {i \in DOMAIN s : Odd(s[i])}) = SelectSeq(s, Odd)
    /\ \A answer \in MCAnswers : TypedEntries(answer) = SelectSeq(answer, Typed)

=============================================================================
