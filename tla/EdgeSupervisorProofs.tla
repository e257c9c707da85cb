------------------------ MODULE EdgeSupervisorProofs ------------------------
(***************************************************************************)
(* Proofs about run_plan for every plan, every telemetry, every wiring and *)
(* every policy.                                                           *)
(***************************************************************************)
EXTENDS EdgeSupervisor, FiniteSetTheorems, SequenceTheorems, TLAPS

-----------------------------------------------------------------------------
(* Selecting from a sequence.                                              *)

\* The rank of a place is its number among the places.
LEMMA RankType ==
    ASSUME NEW places, IsFiniteSet(places), NEW i
    PROVE  /\ Rank(places, i) \in Nat
           /\ Rank(places, i) <= Cardinality(places)
<1>1. {j \in places : j <= i} \in SUBSET places
  OBVIOUS
<1> QED BY <1>1, FS_Subset, FS_CardinalityType DEF Rank

\* A later place has a higher rank, and every place has at least rank one.
LEMMA RankGrows ==
    ASSUME NEW places, IsFiniteSet(places), places \subseteq Int
    PROVE  \A i, j \in places : i < j => Rank(places, i) < Rank(places, j)
<1> TAKE i, j \in places
<1> HAVE i < j
<1> DEFINE low == {n \in places : n <= i}
           high == {n \in places : n <= j}
<1>0. ~(j <= i) /\ j <= j /\ \A n \in places : n <= i => n <= j
  <2>1. i \in Int /\ j \in Int /\ \A n \in places : n \in Int
    OBVIOUS
  <2> QED BY <2>1
<1>1. low \in SUBSET high /\ j \in high /\ j \notin low /\ high \in SUBSET places
  BY <1>0
<1> HIDE DEF low, high
<1>2. IsFiniteSet(high)
  BY <1>1, FS_Subset
<1>3. Cardinality(low) <= Cardinality(high) /\ Cardinality(low) # Cardinality(high)
  BY <1>1, <1>2, FS_Subset
<1>4. Cardinality(low) \in Nat /\ Cardinality(high) \in Nat
  BY <1>1, <1>2, FS_Subset, FS_CardinalityType
<1>5. Cardinality(low) < Cardinality(high)
  BY <1>3, <1>4
<1> QED BY <1>5 DEF low, high, Rank

LEMMA RankInjective ==
    ASSUME NEW places, IsFiniteSet(places), places \subseteq Int
    PROVE  \A i, j \in places : Rank(places, i) = Rank(places, j) => i = j
<1> TAKE i, j \in places
<1> HAVE Rank(places, i) = Rank(places, j)
<1>1. Rank(places, i) \in Nat /\ Rank(places, j) \in Nat
  BY RankType
<1>2. ~(Rank(places, i) < Rank(places, j)) /\ ~(Rank(places, j) < Rank(places, i))
  BY <1>1
<1>3. \A m, n \in places : m < n => Rank(places, m) < Rank(places, n)
  BY RankGrows
<1>4. ~(i < j) /\ ~(j < i)
  BY <1>2, <1>3
<1> QED BY <1>4

LEMMA RankPositive ==
    ASSUME NEW places, IsFiniteSet(places), places \subseteq Int, NEW i \in places
    PROVE  Rank(places, i) \in 1 .. Cardinality(places)
<1> DEFINE low == {n \in places : n <= i}
<1>1. low \in SUBSET places /\ i \in low
  OBVIOUS
<1> HIDE DEF low
<1>2. IsFiniteSet(low) /\ low # {}
  BY <1>1, FS_Subset
<1>3. Cardinality(low) # 0 /\ Cardinality(low) \in Nat
  BY <1>2, FS_EmptySet, FS_CardinalityType
<1>4. Rank(places, i) = Cardinality(low)
  BY DEF low, Rank
<1>5. Cardinality(places) \in Nat
  BY FS_CardinalityType
<1> QED BY <1>3, <1>4, <1>5, RankType

\* The n-th place is a place, and the only one of rank n: places and ranks
\* correspond one to one.
LEMMA NthPlace ==
    ASSUME NEW places, IsFiniteSet(places), places \subseteq Int,
           NEW n \in 1 .. Cardinality(places)
    PROVE  Nth(places, n) \in places /\ Rank(places, Nth(places, n)) = n
<1> DEFINE ranks == 1 .. Cardinality(places)
           rank == [i \in places |-> Rank(places, i)]
<1>1. rank \in [places -> ranks] /\ \A i \in places : rank[i] = Rank(places, i)
  BY RankPositive
<1> HIDE DEF rank
<1>2. \A i, j \in places : rank[i] = rank[j] => i = j
  BY <1>1, RankInjective
<1>3. rank \in Injection(places, ranks)
  BY <1>1, <1>2 DEF Injection, IsInjective
<1>4. IsFiniteSet(ranks) /\ Cardinality(ranks) = Cardinality(places)
  BY FS_CardinalityType, FS_Interval
<1>5. rank \in Surjection(places, ranks)
  BY <1>3, <1>4, FS_Injection
<1>6. \E i \in places : rank[i] = n
  BY <1>5 DEF Surjection
<1>7. \E i \in places : Rank(places, i) = n
  BY <1>1, <1>6
<1> QED BY <1>7 DEF Nth

LEMMA NthIsUnique ==
    ASSUME NEW places, IsFiniteSet(places), places \subseteq Int, NEW i \in places
    PROVE  Nth(places, Rank(places, i)) = i
<1>1. Rank(places, i) \in 1 .. Cardinality(places)
  BY RankPositive
<1> DEFINE j == Nth(places, Rank(places, i))
<1>2. j \in places /\ Rank(places, j) = Rank(places, i)
  BY <1>1, NthPlace
<1> HIDE DEF j
<1>3. i = j
  BY <1>2, RankInjective
<1> QED BY <1>3 DEF j

\* With one place more, beyond the others, the ranks of the others are what they
\* were and the new one is the last.
LEMMA NthOfMore ==
    ASSUME NEW places, IsFiniteSet(places), places \subseteq Int,
           NEW top \in Int, \A i \in places : i < top
    PROVE  /\ Cardinality(places \cup {top}) = Cardinality(places) + 1
           /\ \A n \in 1 .. Cardinality(places) :
                 Nth(places \cup {top}, n) = Nth(places, n)
           /\ Nth(places \cup {top}, Cardinality(places) + 1) = top
<1> DEFINE more == places \cup {top}
<1>1. /\ IsFiniteSet(more) /\ more \subseteq Int /\ top \in more
      /\ Cardinality(more) = Cardinality(places) + 1
  BY FS_AddElement
<1>2. ASSUME NEW i \in places PROVE Rank(more, i) = Rank(places, i)
  <2>1. {j \in more : j <= i} = {j \in places : j <= i}
    OBVIOUS
  <2> QED BY <2>1 DEF Rank
<1>3. Rank(more, top) = Cardinality(places) + 1
  <2>0. \A j \in more : j <= top
    OBVIOUS
  <2>1. {j \in more : j <= top} = more
    BY <2>0
  <2> QED BY <1>1, <2>1 DEF Rank
<1> HIDE DEF more
<1>4. ASSUME NEW n \in 1 .. Cardinality(places) PROVE Nth(more, n) = Nth(places, n)
  <2>1. Nth(places, n) \in places /\ Rank(places, Nth(places, n)) = n
    BY NthPlace
  <2>2. Nth(places, n) \in more /\ Rank(more, Nth(places, n)) = n
    BY <1>2, <2>1 DEF more
  <2> QED BY <1>1, <2>2, NthIsUnique
<1>5. Nth(more, Cardinality(places) + 1) = top
  BY <1>1, <1>3, NthIsUnique
<1> QED BY <1>1, <1>4, <1>5 DEF more

\* What is selected is a sequence of elements of the sequence it is taken from.
LEMMA SelectedType ==
    ASSUME NEW T, NEW s \in Seq(T), NEW places \in SUBSET DOMAIN s
    PROVE  /\ IsFiniteSet(places) /\ places \subseteq Int
           /\ Cardinality(places) \in Nat
           /\ Selected(s, places) \in Seq(T)
           /\ Len(Selected(s, places)) = Cardinality(places)
           /\ \A n \in 1 .. Cardinality(places) : Nth(places, n) \in places
<1>1. DOMAIN s = 1 .. Len(s) /\ Len(s) \in Nat
  OBVIOUS
<1>2. IsFiniteSet(places) /\ places \subseteq Int
  <2>1. IsFiniteSet(1 .. Len(s)) /\ places \in SUBSET (1 .. Len(s))
    BY <1>1, FS_Interval
  <2> QED BY <2>1, FS_Subset
<1>3. Cardinality(places) \in Nat
  BY <1>2, FS_CardinalityType
<1>4. \A n \in 1 .. Cardinality(places) : Nth(places, n) \in places
  BY <1>2, NthPlace
<1>5. \A n \in 1 .. Cardinality(places) : s[Nth(places, n)] \in T
  BY <1>1, <1>4
<1> QED BY <1>2, <1>3, <1>4, <1>5 DEF Selected

\* Appending an element changes no earlier selection, and selecting it too appends
\* it to the selection.
LEMMA SelectedAppend ==
    ASSUME NEW T, NEW s \in Seq(T), NEW e \in T, NEW places \in SUBSET DOMAIN s
    PROVE  /\ Selected(Append(s, e), places) = Selected(s, places)
           /\ Selected(Append(s, e), places \cup {Len(s) + 1})
                 = Append(Selected(s, places), e)
<1> DEFINE top == Len(s) + 1
           more == places \cup {top}
           size == Cardinality(places)
           longer == Append(s, e)
<1>1. /\ DOMAIN s = 1 .. Len(s) /\ Len(s) \in Nat
      /\ longer \in Seq(T) /\ DOMAIN longer = 1 .. top
      /\ longer[top] = e /\ \A i \in DOMAIN s : longer[i] = s[i]
  OBVIOUS
<1>2. /\ IsFiniteSet(places) /\ places \subseteq Int
      /\ size \in Nat
      /\ Selected(s, places) \in Seq(T)
      /\ Len(Selected(s, places)) = size
      /\ \A n \in 1 .. size : Nth(places, n) \in places
  BY SelectedType
<1>3. Selected(longer, places) = Selected(s, places)
  BY <1>1, <1>2 DEF Selected
<1>4. top \in Int /\ \A i \in places : i < top
  BY <1>1
<1> HIDE DEF top, longer
<1>5. /\ Cardinality(more) = size + 1
      /\ \A n \in 1 .. size : Nth(more, n) = Nth(places, n)
      /\ Nth(more, size + 1) = top
  BY <1>2, <1>4, NthOfMore
<1> HIDE DEF more, size
<1>6. Selected(longer, more) = [n \in 1 .. size + 1 |-> longer[Nth(more, n)]]
  BY <1>5 DEF Selected
<1>7. \A n \in 1 .. size : longer[Nth(more, n)] = Selected(s, places)[n]
  BY <1>1, <1>2, <1>5 DEF Selected, size
<1>8. longer[Nth(more, size + 1)] = e
  BY <1>1, <1>5
<1>9. Append(Selected(s, places), e)
        = [n \in 1 .. size + 1 |-> IF n = size + 1 THEN e ELSE Selected(s, places)[n]]
  <2>1. ASSUME NEW q \in Seq(T)
        PROVE  Append(q, e) = [n \in 1 .. Len(q) + 1 |-> IF n = Len(q) + 1 THEN e ELSE q[n]]
    <3>1. Append(q, e) \in Seq(T) /\ Len(Append(q, e)) = Len(q) + 1
      OBVIOUS
    <3>2. Append(q, e) \in [1 .. Len(q) + 1 -> T]
      BY <3>1, LenProperties
    <3>3. \A n \in 1 .. Len(q) + 1 :
             Append(q, e)[n] = IF n = Len(q) + 1 THEN e ELSE q[n]
      OBVIOUS
    <3> QED BY <3>2, <3>3
  <2> QED BY <1>2, <2>1
<1>10. Selected(longer, more) = Append(Selected(s, places), e)
  BY <1>2, <1>6, <1>7, <1>8, <1>9
<1> QED BY <1>3, <1>10 DEF more, top, longer

-----------------------------------------------------------------------------
(* What executing an action does to a state.                               *)

\* Executing any action yields a vehicle state with the same home, link and
\* position uncertainty.
LEMMA ExecuteType ==
    ASSUME NEW s \in VehicleState, NEW a \in Action
    PROVE  /\ Execute(s, a) \in VehicleState
           /\ Execute(s, a).home = s.home
           /\ Execute(s, a).connected = s.connected
<1>1. a.type \in ActionTypes /\ (a.target = NoVal \/ a.target \in Point)
  BY DEF Action
<1>2. \A d \in {MoveDrop, HoldDrop} : Drain(s.battery, d) \in Nat
  BY DEF VehicleState, Drain, MoveDrop, HoldDrop
<1>3. CASE a.type = "arm"
  BY <1>3 DEF Execute, VehicleState
<1>4. CASE a.type = "move_to"
  BY <1>1, <1>2, <1>4 DEF Execute, VehicleState
<1>5. CASE a.type = "hold"
  BY <1>2, <1>5 DEF Execute, VehicleState
<1>6. CASE a.type = "return_to_home"
  BY <1>2, <1>6 DEF Execute, VehicleState
<1>7. CASE a.type = "disarm"
  BY <1>7 DEF Execute, VehicleState
<1> QED
  BY <1>1, <1>3, <1>4, <1>5, <1>6, <1>7 DEF ActionTypes

\* The position after an action is the old one, home, or the target of a move;
\* return-to-home reaches home; only a disarm disarms.
LEMMA ExecuteMotion ==
    ASSUME NEW s \in VehicleState, NEW a \in Action
    PROVE  /\ \/ Execute(s, a).pos = s.pos
              \/ a.type = "return_to_home" /\ Execute(s, a).pos = s.home
              \/ MovesTo(a) /\ Execute(s, a).pos = a.target
           /\ a.type = "return_to_home" => Execute(s, a).pos = s.home
           /\ s.armed /\ ~Execute(s, a).armed => a.type = "disarm"
<1>1. a.type \in ActionTypes
  BY DEF Action
<1>2. CASE a.type = "arm"
  BY <1>2 DEF Execute, VehicleState
<1>3. CASE a.type = "move_to"
  BY <1>3 DEF Execute, VehicleState, MovesTo
<1>4. CASE a.type = "hold"
  BY <1>4 DEF Execute, VehicleState
<1>5. CASE a.type = "return_to_home"
  BY <1>5 DEF Execute, VehicleState
<1>6. CASE a.type = "disarm"
  BY <1>6 DEF Execute, VehicleState
<1> QED
  BY <1>1, <1>2, <1>3, <1>4, <1>5, <1>6 DEF ActionTypes

-----------------------------------------------------------------------------
(* What the avoidance planner returns.                                     *)

\* A candidate index chosen as the first of a non-empty set of free candidates
\* is one of them.
LEMMA FirstFree ==
    ASSUME NEW free, free \subseteq 1 .. 8, free # {}
    PROVE  (CHOOSE i \in free : \A j \in free : i <= j) \in free
<1>1. \E i \in free : \A j \in free : i <= j
  <2>1. SUFFICES ASSUME \A i \in free : \E j \in free : j < i PROVE FALSE
    OBVIOUS
  <2>2. \A i \in 1 .. 8 : i \notin free
    <3>1. 1 \notin free BY <2>1
    <3>2. 2 \notin free BY <2>1, <3>1
    <3>3. 3 \notin free BY <2>1, <3>1, <3>2
    <3>4. 4 \notin free BY <2>1, <3>1, <3>2, <3>3
    <3>5. 5 \notin free BY <2>1, <3>1, <3>2, <3>3, <3>4
    <3>6. 6 \notin free BY <2>1, <3>1, <3>2, <3>3, <3>4, <3>5
    <3>7. 7 \notin free BY <2>1, <3>1, <3>2, <3>3, <3>4, <3>5, <3>6
    <3>8. 8 \notin free BY <2>1, <3>1, <3>2, <3>3, <3>4, <3>5, <3>6, <3>7
    <3> QED BY <3>1, <3>2, <3>3, <3>4, <3>5, <3>6, <3>7, <3>8
  <2> QED BY <2>2
<1> QED BY <1>1

\* A sidestep is again a point.
LEMMA CandidateType ==
    ASSUME NEW p \in Point, NEW i \in 1 .. 8
    PROVE  Candidate(p, i) \in Point
<1>1. Offsets[i][1] \in Int /\ Offsets[i][2] \in Int
  BY DEF Offsets
<1>2. Sidestep * Offsets[i][1] \in Int /\ Sidestep * Offsets[i][2] \in Int
  BY <1>1, NavigationAssumption
<1> QED
  BY <1>2 DEF Candidate, Point

\* The clearance-aware planner never returns a move to a target that is closer
\* than the clearance to an obstacle of the frame, whatever target it was asked
\* for, and a target it chose itself lies inside the geofence
\* (ClearanceAwareAvoidancePlanner.refine_action).
THEOREM RefinedTargetIsClear ==
    ASSUME NEW a \in Action, NEW obstacles \in SUBSET Obstacle
    PROVE  /\ RefineAction(a, obstacles) \in Action
           /\ MovesTo(RefineAction(a, obstacles)) =>
                ClearOf(RefineAction(a, obstacles).target, obstacles, MinClearance)
           /\ MovesTo(RefineAction(a, obstacles)) /\ RefineAction(a, obstacles) # a =>
                WithinGeofence(RefineAction(a, obstacles).target)
<1> DEFINE keep == \/ a.type # "move_to"
                   \/ a.target = NoVal
                   \/ ClearOf(a.target, obstacles, MinClearance)
           free == FreeCandidates(a.target, obstacles)
           first == CHOOSE i \in free : \A j \in free : i <= j
<1>1. CASE keep
  BY <1>1 DEF RefineAction, MovesTo
<1>2. CASE ~keep /\ free = {}
  <2>1. RefineAction(a, obstacles) = Plain("hold")
    BY <1>2 DEF RefineAction
  <2>2. Plain("hold") \in Action /\ Plain("hold").type = "hold"
    BY DEF Plain, Action, ActionTypes
  <2> QED BY <2>1, <2>2 DEF MovesTo
<1>3. CASE ~keep /\ free # {}
  <2>1. free \subseteq 1 .. 8
    BY DEF FreeCandidates
  <2>2. first \in free
    BY <1>3, <2>1, FirstFree
  <2>3. /\ ClearOf(Candidate(a.target, first), obstacles, MinClearance)
        /\ WithinGeofence(Candidate(a.target, first))
    BY <2>2 DEF FreeCandidates
  <2>4. a.target \in Point
    BY <1>3 DEF Action
  <2>5. Candidate(a.target, first) \in Point
    BY <2>1, <2>2, <2>4, CandidateType
  <2>6. RefineAction(a, obstacles) = [a EXCEPT !.target = Candidate(a.target, first)]
    BY <1>3 DEF RefineAction
  <2>7. /\ RefineAction(a, obstacles) \in Action
        /\ RefineAction(a, obstacles).target = Candidate(a.target, first)
    <3> HIDE DEF first
    <3> QED BY <2>5, <2>6 DEF Action
  <2> QED BY <2>3, <2>7
<1> QED BY <1>1, <1>2, <1>3

-----------------------------------------------------------------------------
(* Logs.                                                                   *)

\* Appending an event to a log: the result is a log, and contains an event of
\* a kind exactly if the log did or the new event is of that kind.
LEMMA AppendLog ==
    ASSUME NEW log \in Log, NEW e,
           e \in [kind : EventKinds, what : BlockReasons \cup ActionTypes \cup
                             {"fallback_transport_failure", "primary_error"}]
    PROVE  /\ Append(log, e) \in Log
           /\ \A kind : Has(Append(log, e), kind) <=> Has(log, kind) \/ e.kind = kind
<1>1. Append(log, e) \in Log
  BY DEF Log
<1>2. DOMAIN Append(log, e) = 1 .. Len(log) + 1 /\ DOMAIN log = 1 .. Len(log)
  BY DEF Log
<1>3. \A i \in 1 .. Len(log) : Append(log, e)[i] = log[i]
  BY DEF Log
<1>4. Append(log, e)[Len(log) + 1] = e
  BY DEF Log
<1>5. Len(log) \in Nat
  BY DEF Log
<1>6. ASSUME NEW kind PROVE Has(Append(log, e), kind) <=> Has(log, kind) \/ e.kind = kind
  <2>1. ASSUME Has(Append(log, e), kind) PROVE Has(log, kind) \/ e.kind = kind
    <3>1. PICK i \in 1 .. Len(log) + 1 : Append(log, e)[i].kind = kind
      BY <1>2, <2>1 DEF Has
    <3>2. CASE i \in 1 .. Len(log)
      BY <1>2, <1>3, <3>1, <3>2 DEF Has
    <3>3. CASE i = Len(log) + 1
      BY <1>4, <3>1, <3>3
    <3> QED BY <1>5, <3>2, <3>3
  <2>2. ASSUME Has(log, kind) PROVE Has(Append(log, e), kind)
    BY <1>2, <1>3, <1>5, <2>2 DEF Has
  <2>3. ASSUME e.kind = kind PROVE Has(Append(log, e), kind)
    BY <1>2, <1>4, <1>5, <2>3 DEF Has
  <2> QED BY <2>1, <2>2, <2>3
<1> QED BY <1>1, <1>6

\* A log in which no refusal precedes an execution stays one when anything but
\* an execution is appended, or when it holds no refusal.
LEMMA AppendOrder ==
    ASSUME NEW log \in Log, NEW e,
           \A i, j \in DOMAIN log :
               i < j /\ log[i].kind = "policy_block" => log[j].kind # "exec",
           e.kind # "exec" \/ ~Has(log, "policy_block")
    PROVE  \A i, j \in DOMAIN Append(log, e) :
               i < j /\ Append(log, e)[i].kind = "policy_block"
                   => Append(log, e)[j].kind # "exec"
<1>1. DOMAIN Append(log, e) = 1 .. Len(log) + 1 /\ DOMAIN log = 1 .. Len(log)
  BY DEF Log
<1>2. \A i \in 1 .. Len(log) : Append(log, e)[i] = log[i]
  BY DEF Log
<1>3. Append(log, e)[Len(log) + 1] = e /\ Len(log) \in Nat
  BY DEF Log
<1> TAKE i, j \in DOMAIN Append(log, e)
<1> HAVE i < j /\ Append(log, e)[i].kind = "policy_block"
<1>4. i \in 1 .. Len(log) /\ log[i].kind = "policy_block"
  BY <1>1, <1>2, <1>3
<1>5. CASE j \in 1 .. Len(log)
  BY <1>1, <1>2, <1>4, <1>5
<1>6. CASE j = Len(log) + 1
  BY <1>1, <1>3, <1>4, <1>6 DEF Has
<1> QED BY <1>1, <1>3, <1>5, <1>6

\* A return of _execute_action appends one or two events.
LEMMA ReturnedEvents ==
    ASSUME NEW byFailover \in BOOLEAN, events \in Log
    PROVE  events \o ReturnEvents(byFailover) =
             IF byFailover
             THEN Append(Append(events, Event("failover", cmd.type)), Done)
             ELSE Append(events, Done)
BY DEF ReturnEvents, Log

\* What a return of _execute_action writes to the audit log is a log.
LEMMA ReturnedAudit ==
    ASSUME NEW byFailover \in BOOLEAN, TypeOK
    PROVE  audit \o ReturnAudit(byFailover) \in Log
<1> DEFINE E == [kind : EventKinds, what : BlockReasons \cup ActionTypes \cup
                             {"fallback_transport_failure", "primary_error"}]
<1>1. /\ Event("failover", "primary_error") \in E
      /\ Event("policy_block", reason) \in E
      /\ Done \in E
  BY DEF TypeOK, Event, EventKinds, Done, Action
<1> DEFINE used == IF byFailover THEN <<Event("failover", "primary_error")>> ELSE <<>>
           refusal == IF ctx \in {"block", "fault"}
                      THEN <<Event("policy_block", reason)>>
                      ELSE <<>>
<1>2. ReturnAudit(byFailover) = used \o refusal \o <<Done>>
  BY DEF ReturnAudit
<1>3. audit \in Seq(E)
  BY DEF TypeOK, Log
<1> HIDE DEF E
<1>4. used \in Seq(E) /\ refusal \in Seq(E) /\ <<Done>> \in Seq(E)
  BY <1>1
<1> HIDE DEF used, refusal
<1>5. audit \o ReturnAudit(byFailover) \in Seq(E)
  BY <1>2, <1>3, <1>4
<1> QED
  BY <1>5 DEF E, Log

-----------------------------------------------------------------------------
(* Type correctness.                                                       *)

LEMMA FallbackType == FallbackAction \in Action /\ FallbackAction.type = "return_to_home"
                      /\ ~MovesTo(FallbackAction)
BY DEF FallbackAction, Plain, Action, ActionTypes, MovesTo

LEMMA EventType ==
    /\ \A r \in BlockReasons : Event("policy_block", r) \in
          [kind : EventKinds, what : BlockReasons \cup ActionTypes \cup
                             {"fallback_transport_failure", "primary_error"}]
    /\ Event("system_fault", "fallback_transport_failure") \in
          [kind : EventKinds, what : BlockReasons \cup ActionTypes \cup
                             {"fallback_transport_failure", "primary_error"}]
    /\ \A t \in ActionTypes, kind \in EventKinds : Event(kind, t) \in
          [kind : EventKinds, what : BlockReasons \cup ActionTypes \cup
                             {"fallback_transport_failure", "primary_error"}]
BY DEF Event, EventKinds

\* The gate refuses with one of the known reasons.
LEMMA VerdictType == GateVerdict \in BlockReasons \cup {"ok"}
<1>1. MoveVerdict(checks, cmd) \in KernelReasons \cup {"ok"}
  BY DEF MoveVerdict, KernelReasons
<1>2. Precheck(checks, cmd) \in KernelReasons \cup {"ok"}
  BY <1>1 DEF Precheck, KernelReasons
<1> QED
  BY <1>2 DEF GateVerdict, BlockReasons

\* The frames a pipeline can deliver are frames.
LEMMA FrameType == AvailableFrames \subseteq Frame
<1>1. EmptyFrame \in Frame
  BY DEF EmptyFrame, Frame
<1> QED
  BY <1>1, SupervisorAssumption DEF AvailableFrames

\* An estimate has a position and an uncertainty.
LEMMA EstimateType ==
    ASSUME NEW f \in Frame, state \in VehicleState
    PROVE  Estimate(f).pos \in Point /\ Estimate(f).std \in Nat
<1>1. \A g, s \in Int : Blend(g, s) \in Int
  <2> TAKE g, s \in Int
  <2>1. GpsWeight * g + (100 - GpsWeight) * s \in Int
    BY NavigationAssumption
  <2> QED BY <2>1 DEF Blend
<1>2. Default(f.gps, state.pos) \in Point /\ Default(f.std, state.std) \in Nat
  BY SupervisorAssumption DEF Default, Frame, VehicleState
<1>3. FusedEstimate(state, f).pos \in Point /\ FusedEstimate(state, f).std \in Nat
  BY <1>1, <1>2 DEF FusedEstimate, Point, VehicleState
<1>4. PassThroughEstimate(state).pos \in Point /\ PassThroughEstimate(state).std \in Nat
  BY DEF PassThroughEstimate, VehicleState
<1> QED BY <1>3, <1>4 DEF Estimate

LEMMA ChecksType ==
    ASSUME NEW f \in Frame, NEW lag \in Lags, state \in VehicleState
    PROVE  StateForChecks(Estimate(f), f, lag) \in Checks
<1>1. NonNegative(f.age + lag) \in Nat
  BY SupervisorAssumption DEF NonNegative, Frame
<1>2. f.obstacles \in SUBSET Obstacle
  BY DEF Frame
<1>3. /\ Estimate(f).pos \in Point /\ Estimate(f).std \in Nat
      /\ state.connected \in BOOLEAN /\ state.battery \in Nat
  BY EstimateType DEF VehicleState
<1> QED BY <1>1, <1>2, <1>3 DEF StateForChecks, Checks

LEMMA RefinedType ==
    ASSUME NEW f \in Frame, NEW a \in Action
    PROVE  /\ Refined(a, f) \in Action
           /\ wiring.avoidance = "clearance" /\ MovesTo(Refined(a, f))
                 => ClearOf(Refined(a, f).target, f.obstacles, MinClearance)
<1>1. f.obstacles \in SUBSET Obstacle
  BY DEF Frame
<1> QED BY <1>1, RefinedTargetIsClear DEF Refined

\* A step of run_plan with any frame at all: the trace runner hands its own to it.
AnyFrameNext ==
    \/ Next
    \/ \E f \in Frame, lag \in Lags : Observe(f, lag)
    \/ \E f \in Frame : ObserveStale(f)

\* Every step keeps the types: the only values that are computed are the next
\* state, the checks, the refined action and the two logs.
LEMMA TypeStep == TypeOK /\ [AnyFrameNext]_vars => TypeOK'
<1> SUFFICES ASSUME TypeOK, [AnyFrameNext]_vars PROVE TypeOK'
  OBVIOUS
<1> USE DEF TypeOK
<1>0. cmd \in Action /\ state \in VehicleState /\ events \in Log /\ audit \in Log
  OBVIOUS
<1>1. ASSUME NEW r \in BlockReasons, Block(r) PROVE TypeOK'
  <2>1. events' \in Log
    BY <1>0, <1>1, AppendLog, EventType DEF Block
  <2> QED BY <1>1, <2>1, FallbackType DEF Block
<1>2. ASSUME NEW byFailover \in BOOLEAN, Returned(byFailover), pc \in {"adapter", "failover"}
      PROVE TypeOK'
  <2>1. events' \in Log
    <3>1. Event("failover", cmd.type) \in
            [kind : EventKinds, what : BlockReasons \cup ActionTypes \cup
                              {"fallback_transport_failure", "primary_error"}]
      BY <1>0, EventType DEF Action, EventKinds
    <3>2. Done \in
            [kind : EventKinds, what : BlockReasons \cup ActionTypes \cup
                              {"fallback_transport_failure", "primary_error"}]
      BY <1>0 DEF Done, Event, EventKinds, Action
    <3>3. CASE byFailover
      <4>1. events' = Append(Append(events, Event("failover", cmd.type)), Done)
        BY <1>0, <1>2, <3>3, ReturnedEvents DEF Returned
      <4>2. Append(events, Event("failover", cmd.type)) \in Log
        BY <1>0, <3>1, AppendLog
      <4> QED BY <3>2, <4>1, <4>2, AppendLog
    <3>4. CASE ~byFailover
      <4>1. events' = Append(events, Done)
        BY <1>0, <1>2, <3>4, ReturnedEvents DEF Returned
      <4> QED BY <1>0, <3>2, <4>1, AppendLog
    <3> QED BY <3>3, <3>4
  <2>2. audit' \in Log
    BY <1>0, <1>2, ReturnedAudit DEF Returned, Audit
  <2>3. state' \in VehicleState
    BY <1>0, <1>2, ExecuteType DEF Returned
  <2>4. k' \in Nat \ {0} /\ pc' \in {"observe", "battery", "done"}
    BY <1>2 DEF Returned
  <2> QED BY <1>2, <2>1, <2>2, <2>3, <2>4 DEF Returned
<1>3. ASSUME Raised PROVE TypeOK'
  <2>1. CASE ExecRaised
    <3>1. events' \in Log
      BY <1>0, <2>1, AppendLog, EventType DEF ExecRaised, BlockReasons
    <3> QED BY <2>1, <3>1, FallbackType DEF ExecRaised, BlockReasons
  <2>2. CASE BlockRaised
    BY <2>2 DEF BlockRaised
  <2>3. CASE FallbackRaised
    <3>1. events' \in Log
      BY <1>0, <2>3, AppendLog, EventType DEF FallbackRaised
    <3> QED BY <2>3, <3>1 DEF FallbackRaised
  <2> QED BY <1>3, <2>1, <2>2, <2>3 DEF Raised
<1>4. ASSUME NEW f \in Frame, NEW lag \in Lags, Observe(f, lag) PROVE TypeOK'
  <2>1. f \in Frame /\ plan[k] \in Action
    BY <1>4 DEF Observe, AtNextAction
  <2>2. checks' \in Checks /\ cmd' \in Action
    BY <1>4, <2>1, ChecksType, RefinedType DEF Observe
  <2> QED BY <1>4, <2>2 DEF Observe
<1>5. ASSUME NEW f \in Frame, ObserveStale(f) PROVE TypeOK'
  BY <1>1, <1>5 DEF ObserveStale, BlockReasons
<1>6. ASSUME NEW r \in PipelineErrors, ObserveRaises(r) PROVE TypeOK'
  BY <1>1, <1>6 DEF ObserveRaises, BlockReasons
<1>7. CASE Deny
  BY <1>1, <1>7, VerdictType DEF Deny
<1>8. CASE Approve
  BY <1>8 DEF Approve
<1>9. CASE PrimaryExecutes
  BY <1>2, <1>9 DEF PrimaryExecutes
<1>10. CASE PrimaryFails
  BY <1>10 DEF PrimaryFails
<1>11. CASE PrimaryRaises
  BY <1>3, <1>11 DEF PrimaryRaises
<1>12. CASE FailoverExecutes
  BY <1>2, <1>12 DEF FailoverExecutes
<1>13. CASE FailoverRaises
  BY <1>3, <1>13 DEF FailoverRaises
<1>14. CASE EndOfPlan
  BY <1>14 DEF EndOfPlan
<1>15. CASE BatteryLow
  BY <1>15, FallbackType DEF BatteryLow
<1>16. CASE BatteryOk
  BY <1>16 DEF BatteryOk
<1>17. CASE UNCHANGED vars
  BY <1>17 DEF vars
<1> QED
  BY <1>4, <1>5, <1>6, <1>7, <1>8, <1>9, <1>10, <1>11, <1>12, <1>13, <1>14, <1>15,
     <1>16, <1>17, FrameType DEF AnyFrameNext, Next, Step, Stutter

LEMMA TypeInit == Init => TypeOK
<1>1. NoChecks \in Checks
  BY DEF NoChecks, Checks, Point
<1>2. <<>> \in Log
  BY DEF Log
<1> QED
  BY <1>1, <1>2, FallbackType, SupervisorAssumption DEF Init, TypeOK, BlockReasons

\* Every reachable state of run_plan is well typed, for every plan, telemetry
\* and wiring: no path leaves a half-built action or an unknown refusal behind,
\* and the battery level stays a natural number.
THEOREM TypeCorrect == Spec => []TypeOK
<1>1. [Next]_vars => [AnyFrameNext]_vars
  BY DEF AnyFrameNext
<1> QED BY <1>1, TypeInit, TypeStep, PTL DEF Spec

-----------------------------------------------------------------------------
(* The inductive invariant.  The properties do not see the control state    *)
(* between the gate and the adapter, so the invariant says what holds there: *)
(* which verdict the command at the adapter has, that the checks still       *)
(* describe the state, and what each call site of _execute_action implies    *)
(* about the events so far.                                                  *)

Pending == pc \in {"gate", "adapter", "failover"} /\ ctx = "exec"

ChecksAreCurrent ==
    Pending =>
        /\ checks.connected = state.connected
        /\ checks.battery = state.battery
        /\ wiring.localization = "passthrough" => checks.pos = state.pos
        /\ wiring.avoidance = "clearance" /\ MovesTo(cmd) =>
              ClearOf(cmd.target, checks.obstacles, MinClearance)

AdapterCommand ==
    pc \in {"adapter", "failover"} =>
        IF ctx = "exec" THEN GateVerdict = "ok" ELSE cmd = FallbackAction

ContextOfEvents ==
    /\ pc \in {"observe", "gate"} => ctx = "exec"
    /\ ctx = "exec" => ~Has(events, "policy_block")
    /\ pc \in {"battery", "done"} /\ ctx # "exec" =>
          AtHome(state) \/ Has(events, "system_fault")

SupervisorInv ==
    /\ TypeOK
    /\ ChecksAreCurrent
    /\ AdapterCommand
    /\ ContextOfEvents
    /\ NoExecAfterBlock
    /\ LowBatteryEndsHome

LEMMA InvInit == Init => SupervisorInv
<1> SUFFICES ASSUME Init PROVE SupervisorInv
  OBVIOUS
<1>1. TypeOK
  BY TypeInit
<1>2. ~Has(events, "policy_block") /\ NoExecAfterBlock
  BY DEF Init, Has, NoExecAfterBlock
<1> QED
  BY <1>1, <1>2 DEF Init, SupervisorInv, ChecksAreCurrent, Pending, AdapterCommand,
                    ContextOfEvents, LowBatteryEndsHome

\* The events of a refusal and of a failed fallback.
LEMMA BlockEvent ==
    ASSUME TypeOK, NoExecAfterBlock, NEW r \in BlockReasons,
           events' = Append(events, Event("policy_block", r))
    PROVE  NoExecAfterBlock'
<1>1. events \in Log /\ Event("policy_block", r).kind # "exec"
  BY DEF TypeOK, Event
<1> QED BY <1>1, AppendOrder DEF NoExecAfterBlock

LEMMA FaultEvent ==
    ASSUME TypeOK, NoExecAfterBlock,
           events' = Append(events, Event("system_fault", "fallback_transport_failure"))
    PROVE  /\ NoExecAfterBlock'
           /\ Has(events', "system_fault")
           /\ Has(events', "policy_block") <=> Has(events, "policy_block")
<1>1. events \in Log /\ Event("system_fault", "fallback_transport_failure").kind = "system_fault"
  BY DEF TypeOK, Event
<1>2. NoExecAfterBlock'
  BY <1>1, AppendOrder DEF NoExecAfterBlock
<1> QED BY <1>1, <1>2, AppendLog, EventType

\* The events a return of _execute_action adds: no refusal, and an execution
\* only from the loop, where there was no refusal before.
LEMMA ReturnEvent ==
    ASSUME TypeOK, NoExecAfterBlock, NEW byFailover \in BOOLEAN,
           ctx = "exec" => ~Has(events, "policy_block"),
           events' = events \o ReturnEvents(byFailover)
    PROVE  /\ NoExecAfterBlock'
           /\ Has(events', "policy_block") <=> Has(events, "policy_block")
           /\ Has(events, "system_fault") => Has(events', "system_fault")
<1> DEFINE fail == Event("failover", cmd.type)
<1>1. /\ events \in Log
      /\ fail.kind = "failover"
      /\ Done.kind = IF ctx = "exec" THEN "exec" ELSE "fallback"
      /\ fail \in [kind : EventKinds, what : BlockReasons \cup ActionTypes \cup
                              {"fallback_transport_failure", "primary_error"}]
      /\ Done \in [kind : EventKinds, what : BlockReasons \cup ActionTypes \cup
                              {"fallback_transport_failure", "primary_error"}]
  BY DEF TypeOK, Done, Event, EventKinds, Action
<1> HIDE DEF fail
<1>2. CASE ~byFailover
  <2>1. events' = Append(events, Done)
    BY <1>1, <1>2, ReturnedEvents
  <2>2. NoExecAfterBlock'
    BY <1>1, <2>1, AppendOrder DEF NoExecAfterBlock
  <2>3. \A kind : Has(events', kind) <=> Has(events, kind) \/ Done.kind = kind
    BY <1>1, <2>1, AppendLog
  <2> QED BY <1>1, <2>2, <2>3
<1>3. CASE byFailover
  <2> DEFINE mid == Append(events, fail)
  <2>1. events' = Append(mid, Done)
    BY <1>1, <1>3, ReturnedEvents DEF fail
  <2>2. mid \in Log /\ \A kind : Has(mid, kind) <=> Has(events, kind) \/ fail.kind = kind
    BY <1>1, AppendLog
  <2>3. \A i, j \in DOMAIN mid :
          i < j /\ mid[i].kind = "policy_block" => mid[j].kind # "exec"
    BY <1>1, AppendOrder DEF NoExecAfterBlock
  <2> HIDE DEF mid
  <2>4. NoExecAfterBlock'
    BY <1>1, <2>1, <2>2, <2>3, AppendOrder DEF NoExecAfterBlock
  <2>5. \A kind : Has(events', kind) <=> Has(mid, kind) \/ Done.kind = kind
    BY <1>1, <2>1, <2>2, AppendLog
  <2> QED BY <1>1, <2>2, <2>4, <2>5
<1> QED BY <1>2, <1>3

LEMMA InvStep == SupervisorInv /\ [AnyFrameNext]_vars => SupervisorInv'
<1> SUFFICES ASSUME SupervisorInv, [AnyFrameNext]_vars PROVE SupervisorInv'
  OBVIOUS
<1> DEFINE Rest == /\ ChecksAreCurrent /\ AdapterCommand /\ ContextOfEvents
                   /\ NoExecAfterBlock /\ LowBatteryEndsHome
<1>0. TypeOK /\ TypeOK' /\ Rest
  BY TypeStep DEF SupervisorInv
<1>1. ASSUME NEW r \in BlockReasons, Block(r) PROVE Rest'
  <2>1. NoExecAfterBlock'
    BY <1>0, <1>1, BlockEvent DEF Block
  <2> QED
    BY <1>1, <2>1 DEF Block, ChecksAreCurrent, Pending, AdapterCommand,
                      ContextOfEvents, LowBatteryEndsHome
<1>2. ASSUME NEW byFailover \in BOOLEAN, Returned(byFailover),
             pc \in {"adapter", "failover"}
      PROVE  Rest'
  <2>1. /\ NoExecAfterBlock'
        /\ Has(events', "policy_block") <=> Has(events, "policy_block")
        /\ Has(events, "system_fault") => Has(events', "system_fault")
    BY <1>0, <1>2, ReturnEvent DEF Returned, ContextOfEvents
  <2>2. ctx # "exec" => AtHome(state)'
    <3>1. state \in VehicleState /\ cmd \in Action
      BY <1>0 DEF TypeOK
    <3>2. ctx # "exec" => cmd.type = "return_to_home"
      BY <1>0, <1>2, FallbackType DEF AdapterCommand
    <3> QED
      BY <1>2, <3>1, <3>2, ExecuteMotion, ExecuteType DEF Returned, AtHome
  <2>3. /\ ctx' = ctx
        /\ pc' = CASE ctx = "exec" -> "observe"
                   [] ctx \in {"block", "fault"} -> "battery"
                   [] ctx = "battery" -> "done"
        /\ ctx \in {"exec", "block", "fault", "battery"}
    BY <1>0, <1>2 DEF Returned, TypeOK
  <2>4. /\ pc' \in {"observe", "battery", "done"}
        /\ pc' = "observe" => ctx = "exec"
        /\ pc' = "done" => ctx = "battery"
    BY <2>3
  <2> QED
    BY <1>0, <2>1, <2>2, <2>3, <2>4
       DEF ChecksAreCurrent, Pending, AdapterCommand, ContextOfEvents, LowBatteryEndsHome
<1>3. ASSUME Raised, pc \in {"adapter", "failover"} PROVE Rest'
  <2>1. CASE ExecRaised
    <3>1. NoExecAfterBlock'
      BY <1>0, <2>1, BlockEvent DEF ExecRaised, BlockReasons
    <3> QED
      BY <2>1, <3>1 DEF ExecRaised, ChecksAreCurrent, Pending, AdapterCommand,
                        ContextOfEvents, LowBatteryEndsHome
  <2>2. CASE BlockRaised
    BY <1>0, <2>2 DEF BlockRaised, ChecksAreCurrent, Pending, AdapterCommand,
                      ContextOfEvents, LowBatteryEndsHome, NoExecAfterBlock
  <2>3. CASE FallbackRaised
    <3>1. NoExecAfterBlock' /\ Has(events', "system_fault")
      BY <1>0, <2>3, FaultEvent DEF FallbackRaised
    <3>2. pc' \in {"battery", "done"} /\ ctx' = ctx /\ ctx # "exec"
      BY <2>3 DEF FallbackRaised
    <3> QED
      BY <3>1, <3>2 DEF ChecksAreCurrent, Pending, AdapterCommand,
                        ContextOfEvents, LowBatteryEndsHome
  <2> QED BY <1>3, <2>1, <2>2, <2>3 DEF Raised
<1>4. ASSUME NEW f \in Frame, NEW lag \in Lags, Observe(f, lag) PROVE Rest'
  <2>1. f \in Frame /\ plan[k] \in Action
    BY <1>0, <1>4 DEF Observe, AtNextAction, TypeOK
  <2>2. wiring.avoidance = "clearance" /\ MovesTo(cmd') =>
            ClearOf(cmd'.target, checks'.obstacles, MinClearance)
    BY <1>4, <2>1, RefinedType DEF Observe, StateForChecks
  <2>3. /\ checks'.connected = state.connected /\ checks'.battery = state.battery
        /\ wiring.localization = "passthrough" => checks'.pos = state.pos
    BY <1>4 DEF Observe, StateForChecks, Estimate, PassThroughEstimate
  <2> QED
    BY <1>0, <1>4, <2>2, <2>3
       DEF Observe, AtNextAction, ChecksAreCurrent, Pending, AdapterCommand,
           ContextOfEvents, LowBatteryEndsHome, NoExecAfterBlock
<1>5. ASSUME NEW f \in Frame, ObserveStale(f) PROVE Rest'
  BY <1>1, <1>5 DEF ObserveStale, BlockReasons
<1>6. ASSUME NEW r \in PipelineErrors, ObserveRaises(r) PROVE Rest'
  BY <1>1, <1>6 DEF ObserveRaises, BlockReasons
<1>7. ASSUME Deny PROVE Rest'
  BY <1>1, <1>7, VerdictType DEF Deny
<1>8. ASSUME Approve PROVE Rest'
  <2>1. GateVerdict'
          = GateVerdict
    BY <1>8 DEF Approve, GateVerdict, Supports, Precheck, MoveVerdict
  <2> QED
    BY <1>0, <1>8, <2>1
       DEF Approve, ChecksAreCurrent, Pending, AdapterCommand, ContextOfEvents,
           LowBatteryEndsHome, NoExecAfterBlock
<1>9. ASSUME PrimaryExecutes PROVE Rest'
  BY <1>2, <1>9 DEF PrimaryExecutes
<1>10. ASSUME PrimaryFails PROVE Rest'
  <2>1. GateVerdict' = GateVerdict
    BY <1>10 DEF PrimaryFails, GateVerdict, Supports, Precheck, MoveVerdict
  <2> QED
    BY <1>0, <1>10, <2>1
       DEF PrimaryFails, ChecksAreCurrent, Pending, AdapterCommand, ContextOfEvents,
           LowBatteryEndsHome, NoExecAfterBlock
<1>11. ASSUME PrimaryRaises PROVE Rest'
  BY <1>3, <1>11 DEF PrimaryRaises
<1>12. ASSUME FailoverExecutes PROVE Rest'
  BY <1>2, <1>12 DEF FailoverExecutes
<1>13. ASSUME FailoverRaises PROVE Rest'
  BY <1>3, <1>13 DEF FailoverRaises
<1>14. ASSUME EndOfPlan PROVE Rest'
  BY <1>0, <1>14
     DEF EndOfPlan, ChecksAreCurrent, Pending, AdapterCommand, ContextOfEvents,
         LowBatteryEndsHome, NoExecAfterBlock
<1>15. ASSUME BatteryLow PROVE Rest'
  BY <1>0, <1>15
     DEF BatteryLow, ChecksAreCurrent, Pending, AdapterCommand, ContextOfEvents,
         LowBatteryEndsHome, NoExecAfterBlock
<1>16. ASSUME BatteryOk PROVE Rest'
  BY <1>0, <1>16
     DEF BatteryOk, ChecksAreCurrent, Pending, AdapterCommand, ContextOfEvents,
         LowBatteryEndsHome, NoExecAfterBlock, AtHome
<1>17. ASSUME UNCHANGED vars PROVE Rest'
  <2>1. GateVerdict' = GateVerdict
    BY <1>17 DEF vars, GateVerdict, Supports, Precheck, MoveVerdict
  <2> QED
    BY <1>0, <1>17, <2>1
       DEF vars, ChecksAreCurrent, Pending, AdapterCommand, ContextOfEvents,
           LowBatteryEndsHome, NoExecAfterBlock
<1>18. Rest'
  BY <1>4, <1>5, <1>6, <1>7, <1>8, <1>9, <1>10, <1>11, <1>12, <1>13, <1>14, <1>15,
     <1>16, <1>17, FrameType DEF AnyFrameNext, Next, Step, Stutter
<1> QED BY <1>0, <1>18 DEF SupervisorInv

LEMMA InvAlways == Spec => []SupervisorInv
<1>1. [Next]_vars => [AnyFrameNext]_vars
  BY DEF AnyFrameNext
<1> QED BY <1>1, InvInit, InvStep, PTL DEF Spec

-----------------------------------------------------------------------------
(* The safety properties.                                                  *)

\* A refused mission that returns without a system fault ends at home, for
\* every plan, every sequence of adapter failures and every wiring.
THEOREM BlockedGoHome == Spec => []BlockedMissionsGoHome
<1>1. SupervisorInv => BlockedMissionsGoHome
  BY DEF SupervisorInv, ContextOfEvents, BlockedMissionsGoHome
<1> QED BY <1>1, InvAlways, PTL

\* No action of the plan is executed after a refusal or a failure.
THEOREM NothingAfterBlock == Spec => []NoExecAfterBlock
<1>1. SupervisorInv => NoExecAfterBlock
  BY DEF SupervisorInv
<1> QED BY <1>1, InvAlways, PTL

\* An armed vehicle with a low battery is never left away from home in silence.
THEOREM LowBatteryHome == Spec => []LowBatteryEndsHome
<1>1. SupervisorInv => LowBatteryEndsHome
  BY DEF SupervisorInv
<1> QED BY <1>1, InvAlways, PTL

\* Where the state changes, it is changed by executing cmd, at the adapter.
LEMMA StateChange ==
    ASSUME [Next]_vars, state' # state
    PROVE  pc \in {"adapter", "failover"} /\ state' = Execute(state, cmd)
<1>1. ASSUME Raised PROVE FALSE
  BY <1>1 DEF Raised, ExecRaised, BlockRaised, FallbackRaised
<1>2. ~UNCHANGED vars
  BY DEF vars
<1>3. Step
  BY <1>2 DEF Next, Stutter
<1>4. PrimaryExecutes \/ FailoverExecutes
  BY <1>1, <1>3 DEF Step, Observe, ObserveStale, ObserveRaises, Block, Deny, Approve,
     PrimaryFails, PrimaryRaises, FailoverRaises, EndOfPlan, BatteryLow, BatteryOk
<1> QED
  BY <1>4 DEF PrimaryExecutes, FailoverExecutes, Returned

\* What precheck found of every action of the plan that is at the adapter.
LEMMA PlannedAtAdapter ==
    ASSUME SupervisorInv, pc \in {"adapter", "failover"}, ctx = "exec"
    PROVE  /\ state.connected
           /\ checks.std <= MaxStd
           /\ checks.age <= MaxSensorAge
           /\ wiring.localization = "passthrough" => checks.pos = state.pos
<1>1. GateVerdict = "ok"
  BY DEF SupervisorInv, AdapterCommand
<1>2. Precheck(checks, cmd) = "ok"
  BY <1>1 DEF GateVerdict
<1>3. checks.connected /\ ~(checks.std > MaxStd) /\ ~(checks.age > MaxSensorAge)
  BY <1>2 DEF Precheck
<1>4. checks \in Checks
  BY DEF SupervisorInv, TypeOK
<1>5. checks.std <= MaxStd /\ checks.age <= MaxSensorAge
  BY <1>3, <1>4, PolicyAssumption DEF Checks
<1>6. /\ checks.connected = state.connected
      /\ wiring.localization = "passthrough" => checks.pos = state.pos
  BY DEF SupervisorInv, ChecksAreCurrent, Pending
<1> QED BY <1>3, <1>5, <1>6

\* A move that is at the adapter is an action of the plan that passed every rule
\* of the gate.
LEMMA MoveAtAdapter ==
    ASSUME SupervisorInv, pc \in {"adapter", "failover"}, MovesTo(cmd)
    PROVE  /\ ctx = "exec"
           /\ cmd.target \in Point /\ WithinGeofence(cmd.target)
           /\ cmd.speed <= MaxSpeed /\ cmd.speed <= AdapterMaxSpeed
           /\ state.battery >= MinBattery
           /\ ClearOf(checks.pos, checks.obstacles, Standoff)
           /\ wiring.avoidance = "clearance" =>
                  ClearOf(cmd.target, checks.obstacles, MinClearance)
<1>1. ctx = "exec"
  BY FallbackType DEF SupervisorInv, AdapterCommand
<1>2. GateVerdict = "ok"
  BY <1>1 DEF SupervisorInv, AdapterCommand
<1>3. cmd \in Action /\ cmd.type = "move_to" /\ cmd.target # NoVal
  BY DEF SupervisorInv, TypeOK, MovesTo
<1>4. checks \in Checks /\ state \in VehicleState
  BY DEF SupervisorInv, TypeOK
<1>5. Precheck(checks, cmd) = "ok"
  BY <1>2 DEF GateVerdict
<1>6. MoveVerdict(checks, cmd) = "ok"
  BY <1>3, <1>5 DEF Precheck
<1>7. /\ cmd.speed # NoVal /\ ~(cmd.speed > MaxSpeed)
      /\ ~(checks.battery < MinBattery)
      /\ ClearOf(checks.pos, checks.obstacles, Standoff)
      /\ ~(Abs(cmd.target.x) > Geofence)
      /\ ~(Abs(cmd.target.y) > Geofence)
  BY <1>6 DEF MoveVerdict
<1>8. cmd.speed \in Int /\ ~(cmd.speed > AdapterMaxSpeed)
  BY <1>2, <1>3, <1>7 DEF GateVerdict, Action
<1>9. cmd.target \in Point
  BY <1>3 DEF Action
<1>10. Abs(cmd.target.x) \in Int /\ Abs(cmd.target.y) \in Int
  BY <1>9 DEF Abs, Point
<1>11. /\ checks.battery = state.battery
       /\ wiring.avoidance = "clearance" =>
                  ClearOf(cmd.target, checks.obstacles, MinClearance)
  BY <1>1 DEF SupervisorInv, ChecksAreCurrent, Pending
<1>12. WithinGeofence(cmd.target)
  BY <1>7, <1>10, PolicyAssumption DEF WithinGeofence
<1>13. cmd.speed <= MaxSpeed /\ cmd.speed <= AdapterMaxSpeed
  BY <1>7, <1>8, PolicyAssumption, SupervisorAssumption
<1>14. state.battery >= MinBattery
  BY <1>4, <1>7, <1>11, PolicyAssumption DEF VehicleState
<1> QED BY <1>1, <1>7, <1>9, <1>11, <1>12, <1>13, <1>14

\* No path from plan to adapter moves the vehicle around the gate: every motion
\* is a handler's fallback or passed every rule of precheck, for every policy,
\* plan, telemetry and wiring.
THEOREM GatedMotion == Spec => MotionIsGated
<1> DEFINE Checked ==
             /\ state.connected /\ checks.std <= MaxStd /\ checks.age <= MaxSensorAge
             /\ wiring.localization = "passthrough" => checks.pos = state.pos
           Home == cmd.type = "return_to_home" /\ state'.pos = state.home
           Move ==
             /\ MovesTo(cmd)
             /\ state'.pos = cmd.target /\ WithinGeofence(cmd.target)
             /\ cmd.speed <= MaxSpeed /\ cmd.speed <= AdapterMaxSpeed
             /\ state.battery >= MinBattery
             /\ ClearOf(checks.pos, checks.obstacles, Standoff)
             /\ wiring.avoidance = "clearance" =>
                   ClearOf(cmd.target, checks.obstacles, MinClearance)
           Gated ==
             state'.pos # state.pos =>
             \/ cmd = FallbackAction /\ ctx # "exec" /\ state'.pos = state.home
             \/ /\ state.connected /\ checks.std <= MaxStd /\ checks.age <= MaxSensorAge
                /\ wiring.localization = "passthrough" => checks.pos = state.pos
                /\ \/ cmd.type = "return_to_home" /\ state'.pos = state.home
                   \/ /\ MovesTo(cmd)
                      /\ state'.pos = cmd.target /\ WithinGeofence(cmd.target)
                      /\ cmd.speed <= MaxSpeed /\ cmd.speed <= AdapterMaxSpeed
                      /\ state.battery >= MinBattery
                      /\ ClearOf(checks.pos, checks.obstacles, Standoff)
                      /\ wiring.avoidance = "clearance" =>
                            ClearOf(cmd.target, checks.obstacles, MinClearance)
<1>1. SupervisorInv /\ [Next]_vars => [Gated]_vars
  <2> SUFFICES ASSUME SupervisorInv, [Next]_vars, state'.pos # state.pos PROVE Gated
    OBVIOUS
  <2>1. pc \in {"adapter", "failover"} /\ state' = Execute(state, cmd)
    BY StateChange
  <2>2. state \in VehicleState /\ cmd \in Action
    BY DEF SupervisorInv, TypeOK
  <2>3. CASE MovesTo(cmd) /\ state'.pos = cmd.target
    <3>1. Move /\ ctx = "exec"
      BY <2>1, <2>3, MoveAtAdapter
    <3>2. Checked
      BY <2>1, <3>1, PlannedAtAdapter
    <3> QED BY <3>1, <3>2
  <2>4. CASE Home /\ ctx = "exec"
    <3>1. Checked
      BY <2>1, <2>4, PlannedAtAdapter
    <3> QED BY <2>4, <3>1
  <2>5. CASE Home /\ ctx # "exec"
    <3>1. cmd = FallbackAction
      BY <2>1, <2>5 DEF SupervisorInv, AdapterCommand
    <3> QED BY <2>5, <3>1
  <2> QED BY <2>1, <2>2, <2>3, <2>4, <2>5, ExecuteMotion
<1>2. Spec => [][Gated]_vars
  BY <1>1, InvAlways, PTL DEF Spec
<1> QED BY <1>2 DEF MotionIsGated

\* The vehicle stays inside the geofence, for every policy, plan, telemetry and
\* wiring, if every mission starts inside it with its home inside it.
THEOREM StaysInGeofence ==
    ASSUME \A s \in InitialStates : WithinGeofence(s.pos) /\ WithinGeofence(s.home)
    PROVE  Spec => []GeofenceContained
<1> DEFINE Inside == WithinGeofence(state.pos) /\ WithinGeofence(state.home)
<1>1. Init => Inside
  BY DEF Init
<1>2. SupervisorInv /\ Inside /\ [Next]_vars => Inside'
  <2> SUFFICES ASSUME SupervisorInv, Inside, [Next]_vars, state' # state PROVE Inside'
    BY DEF WithinGeofence
  <2>1. pc \in {"adapter", "failover"} /\ state' = Execute(state, cmd)
    BY StateChange
  <2>2. state \in VehicleState /\ cmd \in Action
    BY DEF SupervisorInv, TypeOK
  <2>3. state'.home = state.home
    BY <2>1, <2>2, ExecuteType
  <2>4. WithinGeofence(state'.pos)
    <3>1. \/ state'.pos = state.pos
          \/ state'.pos = state.home
          \/ MovesTo(cmd) /\ state'.pos = cmd.target
      BY <2>1, <2>2, ExecuteMotion
    <3>2. CASE state'.pos = state.pos
      BY <3>2 DEF WithinGeofence
    <3>3. CASE state'.pos = state.home
      BY <3>3 DEF WithinGeofence
    <3>4. CASE MovesTo(cmd) /\ state'.pos = cmd.target
      BY <2>1, <3>4, MoveAtAdapter
    <3> QED BY <3>1, <3>2, <3>3, <3>4
  <2> QED BY <2>3, <2>4 DEF WithinGeofence
<1>3. Inside => GeofenceContained
  BY DEF GeofenceContained
<1> QED BY <1>1, <1>2, <1>3, InvAlways, PTL DEF Spec

\* With the position taken from the state, the vehicle is disarmed only at home,
\* for every policy, plan and wiring, if every home is the origin: the rule of
\* precheck compares with the origin, and a vehicle with another home is disarmed
\* there.
THEOREM DisarmAtOriginHome ==
    ASSUME \A s \in InitialStates : s.home.x = 0 /\ s.home.y = 0
    PROVE  Spec => DisarmOnlyAtHome
<1> DEFINE Inside == state.home.x = 0 /\ state.home.y = 0
           Safe == state.armed /\ ~state'.armed /\ wiring.localization = "passthrough" =>
                   /\ Abs(state.pos.x - state.home.x) <= DisarmTolerance
                   /\ Abs(state.pos.y - state.home.y) <= DisarmTolerance
<1>1. Init => Inside
  BY DEF Init
<1>2. SupervisorInv /\ Inside /\ [Next]_vars => Inside'
  <2> SUFFICES ASSUME SupervisorInv, Inside, [Next]_vars, state' # state PROVE Inside'
    OBVIOUS
  <2>1. state' = Execute(state, cmd)
    BY StateChange
  <2> QED BY <2>1, ExecuteType DEF SupervisorInv, TypeOK
<1>3. SupervisorInv /\ Inside /\ [Next]_vars => [Safe]_vars
  <2> SUFFICES ASSUME SupervisorInv, Inside, [Next]_vars,
                      state.armed, ~state'.armed, wiring.localization = "passthrough"
               PROVE  /\ Abs(state.pos.x - state.home.x) <= DisarmTolerance
                      /\ Abs(state.pos.y - state.home.y) <= DisarmTolerance
    OBVIOUS
  <2>1. pc \in {"adapter", "failover"} /\ state' = Execute(state, cmd)
    BY StateChange
  <2>2. state \in VehicleState /\ cmd \in Action
    BY DEF SupervisorInv, TypeOK
  <2>3. cmd.type = "disarm"
    BY <2>1, <2>2, ExecuteMotion
  <2>4. ctx = "exec" /\ GateVerdict = "ok"
    BY <2>1, <2>3, FallbackType DEF SupervisorInv, AdapterCommand
  <2>5. Precheck(checks, cmd) = "ok"
    BY <2>4 DEF GateVerdict
  <2>6. ~(Abs(checks.pos.x) > DisarmTolerance) /\ ~(Abs(checks.pos.y) > DisarmTolerance)
    BY <2>3, <2>5 DEF Precheck
  <2>7. checks.pos = state.pos
    BY <2>1, <2>4 DEF SupervisorInv, ChecksAreCurrent, Pending
  <2>8. state.pos.x \in Int /\ state.pos.y \in Int
    BY <2>2 DEF VehicleState, Point
  <2> QED
    BY <2>6, <2>7, <2>8 DEF Abs, DisarmTolerance
<1>4. Spec => [][Safe]_vars
  BY <1>1, <1>2, <1>3, InvAlways, PTL DEF Spec
<1> QED BY <1>4 DEF DisarmOnlyAtHome

-----------------------------------------------------------------------------
(* The audit log.  A return of _execute_action is the only step that writes *)
(* to it, and what the two logs show of commands grows by the same kinds;   *)
(* the other records of both are of kinds the comparison leaves out.        *)

Shown == {"exec", "failover", "fallback"}

LogEntry == [kind : EventKinds, what : BlockReasons \cup ActionTypes \cup
                             {"fallback_transport_failure", "primary_error"}]

\* A record of a kind that is looked for appends its kind to what is found, any
\* other leaves it as it is.
LEMMA KindsAppend ==
    ASSUME NEW log \in Log, NEW e \in LogEntry, NEW kinds
    PROVE  /\ Append(log, e) \in Log
           /\ e.kind \in kinds =>
                 Kinds(Append(log, e), kinds) = Append(Kinds(log, kinds), e.kind)
           /\ e.kind \notin kinds => Kinds(Append(log, e), kinds) = Kinds(log, kinds)
<1> DEFINE all(l) == [i \in DOMAIN l |-> l[i].kind]
           at(l) == {i \in DOMAIN l : l[i].kind \in kinds}
           longer == Append(log, e)
<1>1. /\ longer \in Log /\ DOMAIN longer = 1 .. Len(log) + 1 /\ DOMAIN log = 1 .. Len(log)
      /\ Len(log) \in Nat
      /\ longer[Len(log) + 1] = e /\ \A i \in 1 .. Len(log) : longer[i] = log[i]
  BY DEF Log, LogEntry
<1>2. /\ e.kind \in EventKinds
      /\ \A i \in 1 .. Len(log) : log[i].kind \in EventKinds
  <2>1. log \in Seq(LogEntry)
    BY DEF Log, LogEntry
  <2>2. \A i \in 1 .. Len(log) : log[i] \in LogEntry
    BY <2>1
  <2> QED BY <2>2 DEF LogEntry
<1> HIDE DEF longer
<1>3. /\ all(log) \in Seq(EventKinds) /\ Len(all(log)) = Len(log)
      /\ DOMAIN all(log) = DOMAIN log
  BY <1>1, <1>2
<1>4. all(longer) = Append(all(log), e.kind)
  <2>1. /\ all(longer) \in Seq(EventKinds) /\ Len(all(longer)) = Len(log) + 1
        /\ \A i \in 1 .. Len(log) : all(longer)[i] = all(log)[i]
        /\ all(longer)[Len(log) + 1] = e.kind
    BY <1>1, <1>2
  <2>2. /\ Append(all(log), e.kind) \in Seq(EventKinds)
        /\ Len(Append(all(log), e.kind)) = Len(log) + 1
        /\ \A i \in 1 .. Len(log) : Append(all(log), e.kind)[i] = all(log)[i]
        /\ Append(all(log), e.kind)[Len(log) + 1] = e.kind
    <3> HIDE DEF all
    <3> QED BY <1>2, <1>3
  <2> HIDE DEF all
  <2>3. \A i \in 1 .. Len(log) + 1 : all(longer)[i] = Append(all(log), e.kind)[i]
    BY <1>1, <2>1, <2>2
  <2> QED BY <2>1, <2>2, <2>3, SeqEqual
<1>5. at(log) \in SUBSET DOMAIN all(log)
  BY <1>3
<1>6. at(longer) = IF e.kind \in kinds THEN at(log) \cup {Len(log) + 1} ELSE at(log)
  BY <1>1
<1> HIDE DEF all, at
<1>7. Kinds(longer, kinds) =
        IF e.kind \in kinds THEN Append(Selected(all(log), at(log)), e.kind)
        ELSE Selected(all(log), at(log))
  <2>1. Kinds(longer, kinds) = Selected(Append(all(log), e.kind), at(longer))
    BY <1>4 DEF Kinds, all, at
  <2>2. /\ Selected(Append(all(log), e.kind), at(log)) = Selected(all(log), at(log))
        /\ Selected(Append(all(log), e.kind), at(log) \cup {Len(all(log)) + 1})
              = Append(Selected(all(log), at(log)), e.kind)
    <3>1. /\ all(log) \in Seq(EventKinds) /\ e.kind \in EventKinds
          /\ at(log) \in SUBSET DOMAIN all(log)
      BY <1>2, <1>3, <1>5
    <3> QED BY <3>1, SelectedAppend
  <2> QED BY <1>3, <1>6, <2>1, <2>2
<1>8. Kinds(log, kinds) = Selected(all(log), at(log))
  BY DEF Kinds, all, at
<1> QED BY <1>1, <1>7, <1>8 DEF longer

\* What a return writes to the two logs shows the same commands.
LEMMA ReturnShows ==
    ASSUME TypeOK, NEW byFailover \in BOOLEAN,
           Kinds(events, Shown) = Kinds(audit, Shown)
    PROVE  Kinds(events \o ReturnEvents(byFailover), Shown)
             = Kinds(audit \o ReturnAudit(byFailover), Shown)
<1> DEFINE fail == Event("failover", cmd.type)
           record == Event("failover", "primary_error")
           block == Event("policy_block", reason)
           shown == IF byFailover THEN Append(Kinds(events, Shown), "failover")
                    ELSE Kinds(events, Shown)
           told == IF byFailover THEN Append(events, fail) ELSE events
           used == IF byFailover THEN Append(audit, record) ELSE audit
           refusal == IF ctx \in {"block", "fault"} THEN Append(used, block) ELSE used
<1>1. fail \in LogEntry /\ fail.kind = "failover" /\ fail.kind \in Shown
  BY DEF TypeOK, Event, EventKinds, Action, LogEntry, Shown
<1>2. record \in LogEntry /\ record.kind = "failover" /\ record.kind \in Shown
  BY DEF Event, EventKinds, LogEntry, Shown
<1>3. block \in LogEntry /\ block.kind \notin Shown
  BY DEF TypeOK, Event, EventKinds, LogEntry, Shown
<1>4. Done \in LogEntry /\ Done.kind \in Shown
  BY DEF TypeOK, Done, Event, EventKinds, Action, LogEntry, Shown
<1>5. events \in Log /\ audit \in Log
  BY DEF TypeOK
<1>6. events \o ReturnEvents(byFailover) = Append(told, Done)
  BY <1>5, ReturnedEvents
<1>7. audit \o ReturnAudit(byFailover) = Append(refusal, Done)
  <2> HIDE DEF record, block
  <2> QED BY <1>2, <1>3, <1>4, <1>5 DEF ReturnAudit, Log, LogEntry, record, block
<1> HIDE DEF fail, record, block
<1>8. told \in Log /\ Kinds(told, Shown) = shown
  <2>1. Append(events, fail) \in Log
    BY <1>1, <1>5, KindsAppend
  <2>2. Kinds(Append(events, fail), Shown) = Append(Kinds(events, Shown), "failover")
    BY <1>1, <1>5, KindsAppend
  <2> QED BY <1>5, <2>1, <2>2
<1>9. used \in Log /\ Kinds(used, Shown) = shown
  <2>1. Append(audit, record) \in Log
    BY <1>2, <1>5, KindsAppend
  <2>2. Kinds(Append(audit, record), Shown) = Append(Kinds(audit, Shown), "failover")
    BY <1>2, <1>5, KindsAppend
  <2> QED BY <1>5, <2>1, <2>2
<1> HIDE DEF told, used, shown
<1>10. refusal \in Log /\ Kinds(refusal, Shown) = shown
  <2>1. Append(used, block) \in Log
    BY <1>3, <1>9, KindsAppend
  <2>2. Kinds(Append(used, block), Shown) = Kinds(used, Shown)
    BY <1>3, <1>9, KindsAppend
  <2> QED BY <1>9, <2>1, <2>2
<1> HIDE DEF refusal
<1>11. Kinds(Append(told, Done), Shown) = Append(shown, Done.kind)
  BY <1>4, <1>8, KindsAppend
<1>12. Kinds(Append(refusal, Done), Shown) = Append(shown, Done.kind)
  BY <1>4, <1>10, KindsAppend
<1> QED BY <1>6, <1>7, <1>11, <1>12

AuditInOrder == wiring.auditLogger => Kinds(events, Shown) = Kinds(audit, Shown)

\* A record of another kind changes nothing that is shown.
LEMMA UnshownRecord ==
    ASSUME TypeOK, AuditInOrder, NEW e \in LogEntry, e.kind \notin Shown,
           events' = Append(events, e), UNCHANGED <<wiring, audit>>
    PROVE  AuditInOrder'
<1>1. events \in Log
  BY DEF TypeOK
<1>2. Kinds(events', Shown) = Kinds(events, Shown)
  BY <1>1, KindsAppend
<1> QED BY <1>2 DEF AuditInOrder, Shown, Kinds

LEMMA AuditStep == TypeOK /\ AuditInOrder /\ [Next]_vars => AuditInOrder'
<1> SUFFICES ASSUME TypeOK, AuditInOrder, [Next]_vars PROVE AuditInOrder'
  OBVIOUS
<1>1. CASE UNCHANGED <<wiring, events, audit>>
  BY <1>1 DEF AuditInOrder, Shown, Kinds
<1>2. ASSUME NEW r \in BlockReasons, Block(r) PROVE AuditInOrder'
  <2>1. Event("policy_block", r) \in LogEntry /\ Event("policy_block", r).kind \notin Shown
    BY DEF Event, LogEntry, EventKinds, Shown
  <2> QED BY <1>2, <2>1, UnshownRecord DEF Block
<1>3. ASSUME NEW byFailover \in BOOLEAN, Returned(byFailover) PROVE AuditInOrder'
  <2>1. CASE wiring.auditLogger
    <3>1. Kinds(events', Shown) = Kinds(audit', Shown)
      BY <1>3, <2>1, ReturnShows DEF Returned, Audit, AuditInOrder
    <3> QED BY <3>1 DEF AuditInOrder, Shown, Kinds
  <2>2. CASE ~wiring.auditLogger
    BY <1>3, <2>2 DEF Returned, AuditInOrder
  <2> QED BY <2>1, <2>2
<1>4. ASSUME Raised PROVE AuditInOrder'
  <2>1. CASE ExecRaised
    <3>1. /\ Event("policy_block", "transport_failure") \in LogEntry
          /\ Event("policy_block", "transport_failure").kind \notin Shown
      BY DEF Event, LogEntry, EventKinds, Shown, BlockReasons
    <3> QED BY <2>1, <3>1, UnshownRecord DEF ExecRaised
  <2>2. CASE BlockRaised
    BY <1>1, <2>2 DEF BlockRaised
  <2>3. CASE FallbackRaised
    <3>1. /\ Event("system_fault", "fallback_transport_failure") \in LogEntry
          /\ Event("system_fault", "fallback_transport_failure").kind \notin Shown
      BY DEF Event, LogEntry, EventKinds, Shown
    <3> QED BY <2>3, <3>1, UnshownRecord DEF FallbackRaised
  <2> QED BY <1>4, <2>1, <2>2, <2>3 DEF Raised
<1>5. CASE \E f \in AvailableFrames, lag \in Lags : Observe(f, lag)
  BY <1>1, <1>5 DEF Observe
<1>6. CASE \E f \in AvailableFrames : ObserveStale(f)
  BY <1>2, <1>6 DEF ObserveStale, BlockReasons
<1>7. CASE \E r \in PipelineErrors : ObserveRaises(r)
  BY <1>2, <1>7 DEF ObserveRaises, BlockReasons
<1>8. CASE Deny
  BY <1>2, <1>8, VerdictType DEF Deny
<1>9. CASE PrimaryExecutes \/ FailoverExecutes
  BY <1>3, <1>9 DEF PrimaryExecutes, FailoverExecutes
<1>10. CASE PrimaryRaises \/ FailoverRaises
  BY <1>4, <1>10 DEF PrimaryRaises, FailoverRaises
<1>11. CASE Approve \/ PrimaryFails \/ EndOfPlan \/ BatteryLow \/ BatteryOk \/ UNCHANGED vars
  BY <1>1, <1>11 DEF Approve, PrimaryFails, EndOfPlan, BatteryLow, BatteryOk, vars
<1> QED
  BY <1>5, <1>6, <1>7, <1>8, <1>9, <1>10, <1>11 DEF Next, Step, Stutter

\* The audit log shows every command an adapter executed, each failover and each
\* fallback, in the order of the events, however the calls of _execute_action
\* end and whatever wiring is used.
THEOREM AuditFollowsEvents == Spec => []AuditMatchesEvents
<1>1. Init => TypeOK /\ AuditInOrder
  BY TypeInit DEF Init, AuditInOrder
<1>2. (TypeOK /\ AuditInOrder) /\ [Next]_vars => (TypeOK /\ AuditInOrder)'
  BY TypeStep, AuditStep DEF AnyFrameNext
<1>3. AuditInOrder => AuditMatchesEvents
  BY DEF AuditInOrder, AuditMatchesEvents, Shown
<1> QED BY <1>1, <1>2, <1>3, PTL DEF Spec

=============================================================================
