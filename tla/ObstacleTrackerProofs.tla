------------------------- MODULE ObstacleTrackerProofs -------------------------
(***************************************************************************)
(* Proofs about the obstacle tracker, for every set of sources, object ids *)
(* and telemetry events, whatever their order in time.                     *)
(***************************************************************************)
EXTENDS ObstacleTracker, WellFoundedInduction, TLAPS

LEMMA LeastNat ==
    ASSUME NEW T, T \subseteq Nat, T # {}
    PROVE  \E m \in T : \A n \in T : m <= n
<1> DEFINE R == {ss \in Nat \X Nat : ss[1] < ss[2]}
<1>1. IsWellFoundedOn(R, Nat)
  BY NatLessThanWellFounded DEF OpToRel
<1>2. \A n, m \in Nat : n < m => <<n, m>> \in R
  OBVIOUS
<1> HIDE DEF R
<1>3. PICK m \in T : \A n \in T : ~(<<n, m>> \in R)
  BY <1>1, WFMin
<1>4. ASSUME NEW n \in T
      PROVE  m <= n
  <2>1. n \in Nat /\ m \in Nat
    OBVIOUS
  <2>2. ~(n < m)
    BY <1>2, <1>3, <2>1
  <2> QED BY <2>1, <2>2
<1> QED BY <1>4

LEMMA SquareIsNat ==
    ASSUME NEW n \in Int
    PROVE  Square(n) \in Nat
<1>1. CASE n >= 0
  BY <1>1 DEF Square
<1>2. CASE n < 0
  <2>1. -n \in Nat /\ n * n = (-n) * (-n)
    BY <1>2
  <2>2. \A a \in Nat : a * a \in Nat
    OBVIOUS
  <2> QED BY <2>1, <2>2 DEF Square
<1> QED BY <1>1, <1>2

\* The choice of the nearest track is well defined: distances are ordered, and
\* ids break a tie.
LEMMA NearestIsCandidate ==
    ASSUME TypeOK, NEW s \in Sighting, Candidates(s) # {}
    PROVE  /\ Nearest(s) \in Candidates(s)
           /\ \A j \in Candidates(s) \ {Nearest(s)} :
                 \/ SquaredDistance(s, tracks[Nearest(s)]) < SquaredDistance(s, tracks[j])
                 \/ /\ SquaredDistance(s, tracks[Nearest(s)]) = SquaredDistance(s, tracks[j])
                    /\ Before(Nearest(s), j)
<1> DEFINE C == Candidates(s)
           D(i) == SquaredDistance(s, tracks[i])
<1>1. \A i \in C : i \in Id /\ D(i) \in Nat
  <2> SUFFICES ASSUME NEW i \in C
               PROVE  i \in Id /\ D(i) \in Nat
    OBVIOUS
  <2>1. i \in Id /\ tracks[i] \in Track
    BY DEF Candidates, TypeOK
  <2>2. s.x - tracks[i].x \in Int /\ s.y - tracks[i].y \in Int
    BY <2>1 DEF Track, Sighting
  <2>3. \A a, b \in Nat : a + b \in Nat
    OBVIOUS
  <2>4. D(i) \in Nat
    BY <2>2, <2>3, SquareIsNat DEF SquaredDistance
  <2> QED BY <2>1, <2>4
<1> HIDE DEF D
<1>2. PICK d \in {D(i) : i \in C} : \A e \in {D(i) : i \in C} : d <= e
  <2>1. {D(i) : i \in C} \subseteq Nat /\ {D(i) : i \in C} # {}
    BY <1>1
  <2> QED BY <2>1, LeastNat
<1> DEFINE C1 == {i \in C : D(i) = d}
<1>3. PICK a \in {i[1] : i \in C1} : \A b \in {i[1] : i \in C1} : a <= b
  <2>1. {i[1] : i \in C1} \subseteq Nat /\ {i[1] : i \in C1} # {}
    BY <1>1, <1>2 DEF Id
  <2> QED BY <2>1, LeastNat
<1> DEFINE C2 == {i \in C1 : i[1] = a}
<1>4. PICK b \in {i[2] : i \in C2} : \A c \in {i[2] : i \in C2} : b <= c
  <2>1. {i[2] : i \in C2} \subseteq Nat /\ {i[2] : i \in C2} # {}
    BY <1>1, <1>3 DEF Id
  <2> QED BY <2>1, LeastNat
<1>5. PICK m \in C2 : m[2] = b
  BY <1>4
<1>6. ASSUME NEW j \in C \ {m}
      PROVE  D(m) < D(j) \/ (D(m) = D(j) /\ Before(m, j))
  <2>1. D(m) = d /\ d <= D(j) /\ D(j) \in Nat /\ d \in Nat
    BY <1>1, <1>2
  <2>2. CASE D(j) = d
    <3>1. j \in C1 /\ a <= j[1] /\ m[1] = a
      BY <2>2, <1>3
    <3>2. j \in Id /\ m \in Id
      BY <1>1
    <3>3. CASE j[1] = a
      <4>1. j \in C2 /\ m[2] <= j[2]
        BY <3>1, <3>3, <1>4, <1>5
      <4>2. m[2] # j[2]
        BY <3>1, <3>2, <3>3 DEF Id
      <4>3. Before(m, j)
        BY <3>1, <3>2, <3>3, <4>1, <4>2 DEF Before, Id
      <4> QED BY <2>1, <2>2, <4>3
    <3>4. CASE j[1] # a
      <4>1. Before(m, j)
        BY <3>1, <3>2, <3>4 DEF Before, Id
      <4> QED BY <2>1, <2>2, <4>1
    <3> QED BY <3>3, <3>4
  <2>3. CASE D(j) # d
    BY <2>1, <2>3
  <2> QED BY <2>2, <2>3
<1>7. \E i \in C : \A j \in C \ {i} : D(i) < D(j) \/ (D(i) = D(j) /\ Before(i, j))
  BY <1>6
<1> QED BY <1>7 DEF Nearest, D

-----------------------------------------------------------------------------
(* Type correctness.                                                       *)

LEMMA AssignedIdType ==
    ASSUME TypeOK, NEW s \in Sighting
    PROVE  AssignId(s) \in Id
<1>1. CASE s.own # NoId
  BY <1>1, TrackerAssumption DEF AssignId, Sighting
<1>2. CASE s.own = NoId /\ Candidates(s) # {}
  <2>1. Nearest(s) \in Candidates(s)
    BY <1>2, NearestIsCandidate
  <2> QED BY <1>2, <2>1 DEF AssignId, Candidates, TypeOK
<1>3. CASE s.own = NoId /\ Candidates(s) = {}
  <2>1. s.source \in Nat /\ counter \in Nat
    BY TrackerAssumption DEF TypeOK, Sighting
  <2> QED BY <1>3, <2>1 DEF AssignId, NewId, Id
<1> QED BY <1>1, <1>2, <1>3

LEMMA VelocityType ==
    ASSUME TypeOK, NEW s \in Sighting, NEW id \in Id
    PROVE  VelocityOf(s, id) \in Velocity \cup {NoVelocity}
<1>1. CASE id \in DOMAIN tracks /\ stamp > tracks[id].stamp
  <2>1. tracks[id] \in Track /\ stamp \in Int
    BY <1>1 DEF TypeOK
  <2>2. /\ s.x - tracks[id].x \in Int /\ s.y - tracks[id].y \in Int
        /\ stamp - tracks[id].stamp \in Nat \ {0}
    BY <1>1, <2>1 DEF Track, Sighting
  <2> QED BY <1>1, <2>2 DEF VelocityOf, Velocity
<1>2. CASE ~(id \in DOMAIN tracks /\ stamp > tracks[id].stamp)
  BY <1>2 DEF VelocityOf
<1> QED BY <1>1, <1>2

LEMMA AgeType ==
    ASSUME TypeOK, NEW id
    PROVE  AgeOf(id) \in Nat \ {0}
BY DEF AgeOf, TypeOK, Track

\* The entry one pass of the loop adds to the frame.
Entry(s, id) ==
    [x |-> s.x, y |-> s.y, source |-> s.source, id |-> id, how |-> HowAssigned(s),
     age |-> AgeOf(id), velocity |-> VelocityOf(s, id)]

LEMMA EntryType ==
    ASSUME TypeOK, NEW s \in Sighting, NEW id \in Id
    PROVE  Entry(s, id) \in Obstacle
BY VelocityType, AgeType DEF Entry, Obstacle, Sighting, HowAssigned

\* What is remembered after one pass.
LEMMA RememberType ==
    ASSUME TypeOK, NEW s \in Sighting, NEW id \in Id
    PROVE  /\ DOMAIN Remember(s, id) = DOMAIN tracks \cup {id}
           /\ DOMAIN Remember(s, id) \subseteq Id
           /\ \A i \in DOMAIN Remember(s, id) : Remember(s, id)[i] \in Track
<1>1. [x |-> s.x, y |-> s.y, stamp |-> stamp, source |-> s.source, age |-> AgeOf(id)] \in Track
  BY AgeType DEF Track, Sighting, TypeOK
<1> QED BY <1>1 DEF Remember, TypeOK

LEMMA InitTypes == Init => TypeOK
BY DEF Init, TypeOK, NoFrame

LEMMA StepTypes == TypeOK /\ [Next]_vars => TypeOK'
<1> SUFFICES ASSUME TypeOK, [Next]_vars
             PROVE  TypeOK'
  OBVIOUS
<1>1. CASE \E e \in Events : Observe(e)
  <2>1. PICK e \in Events : Observe(e)
    BY <1>1
  <2>2. e.stamp \in Int /\ e.sightings \in Seq(Sighting)
    BY TrackerAssumption
  <2>3. DOMAIN tracks' \subseteq Id /\ \A id \in DOMAIN tracks' : tracks'[id] \in Track
    BY <2>1 DEF Observe, TypeOK
  <2> QED BY <2>1, <2>2, <2>3 DEF Observe, TypeOK, history
<1>2. CASE ObserveNothing
  BY <1>2 DEF ObserveNothing, TypeOK, NoFrame, history
<1>3. CASE TrackNext
  <2> DEFINE s  == Head(todo)
             id == AssignId(s)
  <2>1. s \in Sighting /\ Tail(todo) \in Seq(Sighting)
    BY <1>3 DEF TrackNext, TypeOK
  <2>2. id \in Id
    BY <2>1, AssignedIdType
  <2>3. Entry(s, id) \in Obstacle
    BY <2>1, <2>2, EntryType
  <2>4. tracked' = Append(tracked, Entry(s, id)) /\ tracks' = Remember(s, id)
    BY <1>3 DEF TrackNext, Entry
  <2>5. tracked' \in Seq(Obstacle)
    BY <2>3, <2>4 DEF TypeOK
  <2>6. DOMAIN tracks' \subseteq Id /\ \A i \in DOMAIN tracks' : tracks'[i] \in Track
    BY <2>1, <2>2, <2>4, RememberType
  <2>7. counter' \in Nat \ {0}
    BY <1>3 DEF TrackNext, TypeOK
  <2>8. assigned' \subseteq Id /\ brought' \subseteq Id /\ generated' \subseteq Id
        /\ todo' \in Seq(Sighting)
    BY <1>3, <2>1, <2>2 DEF TrackNext, TypeOK
  <2>9. pc' = pc /\ stamp' = stamp /\ frame' = frame /\ frames' = frames
    BY <1>3 DEF TrackNext
  <2> HIDE DEF s, id
  <2> QED BY <2>5, <2>6, <2>7, <2>8, <2>9 DEF TypeOK
<1>4. CASE Deliver
  BY <1>4 DEF Deliver, TypeOK, history
<1>5. CASE UNCHANGED vars
  BY <1>5 DEF vars, TypeOK, history
<1> QED BY <1>1, <1>2, <1>3, <1>4, <1>5 DEF Next

\* Every reachable state of tracker and pipeline is well typed: the ages are
\* positive and every id has one of the two forms.
THEOREM TypeCorrect == Spec => []TypeOK
BY InitTypes, StepTypes, PTL DEF Spec

-----------------------------------------------------------------------------
(* Ids.                                                                    *)

SharedOnlyIfBrought(obstacles) ==
    \A i, j \in DOMAIN obstacles :
        i < j /\ obstacles[i].id = obstacles[j].id => MayCollide(obstacles[j])

Given == brought \cup generated

\* Every id was brought or generated, and the counter is ahead of the generated
\* ones.
IdsOK ==
    /\ pc = "idle" => tracked = << >> /\ assigned = {}
    /\ assigned = {tracked[i].id : i \in DOMAIN tracked}
    /\ assigned \subseteq Given /\ DOMAIN tracks \subseteq Given
    /\ \A i \in DOMAIN frame.obstacles : frame.obstacles[i].id \in Given
    /\ \A id \in generated : id[2] < counter
    /\ SharedOnlyIfBrought(tracked) /\ SharedOnlyIfBrought(frame.obstacles)

\* The three ways a sighting gets its id.
LEMMA AssignCases ==
    ASSUME TypeOK, IdsOK, NEW s \in Sighting
    PROVE  \/ /\ s.own # NoId /\ ~NeedsNewId(s) /\ HowAssigned(s) = "brought"
              /\ AssignId(s) \in OwnIds
           \/ /\ s.own = NoId /\ ~NeedsNewId(s) /\ HowAssigned(s) = "found"
              /\ AssignId(s) \in Candidates(s)
           \/ /\ s.own = NoId /\ NeedsNewId(s) /\ HowAssigned(s) = "new"
              /\ AssignId(s) = <<s.source, counter>>
              /\ AssignId(s) \notin generated
<1>1. CASE s.own # NoId
  BY <1>1 DEF AssignId, NeedsNewId, Sighting, HowAssigned
<1>2. CASE s.own = NoId /\ Candidates(s) # {}
  BY <1>2, NearestIsCandidate DEF AssignId, NeedsNewId, HowAssigned
<1>3. CASE s.own = NoId /\ Candidates(s) = {}
  <2>1. <<s.source, counter>> \notin generated
    <3>1. counter \in Nat
      BY DEF TypeOK
    <3>2. <<s.source, counter>> \in generated => <<s.source, counter>>[2] < counter
      BY DEF IdsOK
    <3> QED BY <3>1, <3>2
  <2> QED BY <1>3, <2>1 DEF AssignId, NeedsNewId, NewId, HowAssigned
<1> QED BY <1>1, <1>2, <1>3

\* One pass of the loop adds one entry and touches one track.
LEMMA LoopStep ==
    ASSUME TypeOK, TrackNext
    PROVE  \E s \in Sighting :
              /\ AssignId(s) \in Id
              /\ DOMAIN tracked' = DOMAIN tracked \cup {Len(tracked) + 1}
              /\ \A n \in DOMAIN tracked : n < Len(tracked) + 1 /\ tracked'[n] = tracked[n]
              /\ tracked'[Len(tracked) + 1] = Entry(s, AssignId(s))
              /\ tracks' = Remember(s, AssignId(s))
              /\ assigned' = assigned \cup {AssignId(s)}
              /\ brought' = IF s.own # NoId THEN brought \cup {AssignId(s)} ELSE brought
              /\ generated' = IF NeedsNewId(s) THEN generated \cup {AssignId(s)} ELSE generated
              /\ counter' = IF NeedsNewId(s) THEN counter + 1 ELSE counter
              /\ pc = "tracking"
              /\ UNCHANGED <<pc, stamp, frame>>
<1> DEFINE s == Head(todo)
<1>1. s \in Sighting
  BY DEF TrackNext, TypeOK
<1>2. tracked' = Append(tracked, Entry(s, AssignId(s)))
  BY DEF TrackNext, Entry
<1>3. /\ DOMAIN tracked' = DOMAIN tracked \cup {Len(tracked) + 1}
      /\ \A n \in DOMAIN tracked : n < Len(tracked) + 1 /\ tracked'[n] = tracked[n]
      /\ tracked'[Len(tracked) + 1] = Entry(s, AssignId(s))
  BY <1>2 DEF TypeOK
<1>4. AssignId(s) \in Id
  BY <1>1, AssignedIdType
<1>5. /\ tracks' = Remember(s, AssignId(s))
      /\ assigned' = assigned \cup {AssignId(s)}
      /\ brought' = IF s.own # NoId THEN brought \cup {AssignId(s)} ELSE brought
      /\ generated' = IF NeedsNewId(s) THEN generated \cup {AssignId(s)} ELSE generated
      /\ counter' = IF NeedsNewId(s) THEN counter + 1 ELSE counter
      /\ pc = "tracking"
      /\ UNCHANGED <<pc, stamp, frame>>
  BY DEF TrackNext
<1> HIDE DEF s
<1> QED BY <1>1, <1>3, <1>4, <1>5

LEMMA InitIds == Init => IdsOK
BY DEF Init, IdsOK, NoFrame, SharedOnlyIfBrought, Given

LEMMA LoopKeepsIds ==
    ASSUME TypeOK, IdsOK, TrackNext
    PROVE  IdsOK'
<1>1. PICK s \in Sighting :
              /\ AssignId(s) \in Id
              /\ DOMAIN tracked' = DOMAIN tracked \cup {Len(tracked) + 1}
              /\ \A n \in DOMAIN tracked : n < Len(tracked) + 1 /\ tracked'[n] = tracked[n]
              /\ tracked'[Len(tracked) + 1] = Entry(s, AssignId(s))
              /\ tracks' = Remember(s, AssignId(s))
              /\ assigned' = assigned \cup {AssignId(s)}
              /\ brought' = IF s.own # NoId THEN brought \cup {AssignId(s)} ELSE brought
              /\ generated' = IF NeedsNewId(s) THEN generated \cup {AssignId(s)} ELSE generated
              /\ counter' = IF NeedsNewId(s) THEN counter + 1 ELSE counter
              /\ pc = "tracking"
              /\ UNCHANGED <<pc, stamp, frame>>
  BY LoopStep
<1> DEFINE last == Len(tracked) + 1
           id   == AssignId(s)
<1>2. tracked'[last].id = id /\ tracked'[last].how = HowAssigned(s)
  BY <1>1 DEF Entry
<1>3. assigned' = {tracked'[i].id : i \in DOMAIN tracked'}
  BY <1>1, <1>2 DEF IdsOK
<1>4. DOMAIN tracks' = DOMAIN tracks \cup {id}
  BY <1>1 DEF Remember
<1>5. id \in Given' /\ Given \subseteq Given' /\ brought \subseteq brought'
  <2>1. id \in Candidates(s) => id \in Given
    BY DEF Candidates, IdsOK
  <2> QED BY <1>1, <2>1, AssignCases DEF Given
<1>6. \A i \in generated' : i[2] < counter'
  <2>1. counter \in Nat /\ counter' \in Nat /\ counter <= counter'
    BY <1>1 DEF TypeOK
  <2>2. \A i \in generated : i[2] < counter'
    BY <2>1 DEF IdsOK, TypeOK, Id
  <2>3. CASE NeedsNewId(s)
    <3>1. id = <<s.source, counter>>
      BY <2>3, AssignCases
    <3> QED BY <1>1, <2>1, <2>2, <2>3, <3>1
  <2> QED BY <1>1, <2>2, <2>3
<1>7. SharedOnlyIfBrought(tracked)'
  <2> SUFFICES ASSUME NEW i \in DOMAIN tracked', NEW j \in DOMAIN tracked',
                      i < j, tracked'[i].id = tracked'[j].id
               PROVE  MayCollide(tracked[j])'
    BY DEF SharedOnlyIfBrought
  <2>1. DOMAIN tracked \subseteq Int /\ last \in Int
    BY DEF TypeOK
  <2>2. i \in DOMAIN tracked
    BY <1>1, <2>1
  <2>3. CASE j \in DOMAIN tracked
    <3>1. tracked[i].id = tracked[j].id
      BY <1>1, <2>2, <2>3
    <3>2. MayCollide(tracked[j])
      BY <2>2, <2>3, <3>1 DEF IdsOK, SharedOnlyIfBrought
    <3> QED BY <1>1, <1>5, <2>3, <3>2 DEF MayCollide
  <2>4. CASE j = last
    <3>1. id \in assigned
      BY <1>1, <1>2, <2>2, <2>4 DEF IdsOK
    <3>2. id \notin Candidates(s) /\ id \in Given
      BY <3>1 DEF Candidates, IdsOK
    <3>3. HowAssigned(s) = "brought" \/ (HowAssigned(s) = "new" /\ id \in brought)
      BY <3>2, AssignCases DEF Given
    <3> QED BY <1>2, <1>5, <2>4, <3>3 DEF MayCollide
  <2> QED BY <1>1, <2>3, <2>4
<1>8. \A i \in DOMAIN frame'.obstacles : frame'.obstacles[i].id \in Given'
  BY <1>1, <1>5 DEF IdsOK
<1>9. SharedOnlyIfBrought(frame.obstacles)'
  <2>1. frame' = frame /\ SharedOnlyIfBrought(frame.obstacles)
    BY <1>1 DEF IdsOK
  <2> QED BY <1>5, <2>1 DEF SharedOnlyIfBrought, MayCollide
<1>10. pc' # "idle"
  BY <1>1
<1>11. assigned' \subseteq Given' /\ DOMAIN tracks' \subseteq Given'
  BY <1>1, <1>4, <1>5 DEF IdsOK
<1> HIDE DEF last, id
<1> QED BY <1>3, <1>6, <1>8, <1>9, <1>10, <1>11, <1>7 DEF IdsOK

LEMMA StepIds == TypeOK /\ IdsOK /\ [Next]_vars => IdsOK'
<1> SUFFICES ASSUME TypeOK, IdsOK, [Next]_vars
             PROVE  IdsOK'
  OBVIOUS
<1>1. CASE \E e \in Events : Observe(e)
  <2>1. PICK e \in Events : Observe(e)
    BY <1>1
  <2>2. DOMAIN tracks' \subseteq DOMAIN tracks
    BY <2>1 DEF Observe
  <2>3. UNCHANGED <<counter, assigned, tracked, frame, brought, generated>> /\ pc' = "tracking"
    BY <2>1 DEF Observe, history
  <2> QED BY <2>2, <2>3 DEF IdsOK, SharedOnlyIfBrought, MayCollide, Given
<1>2. CASE ObserveNothing
  BY <1>2 DEF ObserveNothing, IdsOK, NoFrame, SharedOnlyIfBrought, MayCollide, Given, history
<1>3. CASE TrackNext
  BY <1>3, LoopKeepsIds
<1>4. CASE Deliver
  <2>1. frame'.obstacles = tracked /\ tracked' = << >> /\ assigned' = {}
        /\ UNCHANGED <<tracks, counter, brought, generated>>
    BY <1>4 DEF Deliver, history
  <2>2. \A i \in DOMAIN frame'.obstacles : frame'.obstacles[i].id \in Given'
    BY <2>1 DEF IdsOK, Given
  <2>3. SharedOnlyIfBrought(frame.obstacles)' /\ SharedOnlyIfBrought(tracked)'
    BY <2>1 DEF IdsOK, SharedOnlyIfBrought, MayCollide
  <2>4. assigned' = {tracked'[i].id : i \in DOMAIN tracked'}
    BY <2>1
  <2> QED BY <2>1, <2>2, <2>3, <2>4 DEF IdsOK, Given
<1>5. CASE UNCHANGED vars
  BY <1>5 DEF vars, IdsOK, SharedOnlyIfBrought, MayCollide, Given, history
<1> QED BY <1>1, <1>2, <1>3, <1>4, <1>5 DEF Next

LEMMA Ids == Spec => [](TypeOK /\ IdsOK)
BY InitTypes, StepTypes, InitIds, StepIds, PTL DEF Spec

\* Two obstacles of a frame share an id only if the later one brought it, or got a
\* new one that telemetry had brought.
THEOREM IdsAreShared == Spec => []NoSharedIds
<1>1. IdsOK => NoSharedIds
  BY DEF IdsOK, SharedOnlyIfBrought, NoSharedIds
<1> QED BY <1>1, Ids, PTL

LEMMA NewIdStep ==
    ASSUME TypeOK, IdsOK, [Next]_vars
    PROVE  \A n \in DOMAIN tracked' \ DOMAIN tracked :
              LET id == tracked'[n].id
              IN  tracked'[n].how = "new" =>
                     id \notin generated /\ (id \in DOMAIN tracks => id \in brought)
<1>1. CASE TrackNext
  <2>1. PICK s \in Sighting :
              /\ DOMAIN tracked' = DOMAIN tracked \cup {Len(tracked) + 1}
              /\ tracked'[Len(tracked) + 1] = Entry(s, AssignId(s))
    BY <1>1, LoopStep
  <2> DEFINE new == Entry(s, AssignId(s))
  <2>2. new.id = AssignId(s) /\ new.how = HowAssigned(s)
    BY DEF Entry
  <2>3. new.how = "new" =>
           new.id \notin generated /\ (new.id \in DOMAIN tracks => new.id \in brought)
    BY <2>2, AssignCases DEF IdsOK, Given
  <2> QED BY <2>1, <2>3
<1>2. CASE (\E e \in Events : Observe(e)) \/ ObserveNothing \/ UNCHANGED vars
  <2>1. tracked' = tracked
    BY <1>2 DEF Observe, ObserveNothing, vars
  <2> QED BY <2>1
<1>3. CASE Deliver
  BY <1>3 DEF Deliver
<1> QED BY <1>1, <1>2, <1>3 DEF Next

\* A new id was never made before, however many tracks came and expired, and a
\* track that lives under it was brought.
THEOREM NewIdsWereNeverGiven == Spec => NewIdsAreNew
BY NewIdStep, Ids, PTL DEF Spec, NewIdsAreNew

-----------------------------------------------------------------------------
(* From frame to frame.                                                    *)

\* The frame as far as it got.
Current == [stamp |-> stamp, obstacles |-> tracked]

\* The track of an obstacle of a frame of time t.
TrackOf(o, t) ==
    [x |-> o.x, y |-> o.y, stamp |-> t, source |-> o.source, age |-> o.age]

Follows(f, i, g, j) ==
    IF g.stamp - f.stamp > MaxAge
    THEN MayCollide(g.obstacles[j]) /\ g.obstacles[j].age = 1
    ELSE Continues(f, i, g, j)

\* The tracks are those of the last frame, but for the ids already given in the
\* frame under way and for what had expired when it began.
TracksRemember ==
    /\ assigned \subseteq DOMAIN tracks
    /\ \A j \in DOMAIN tracked : Sole(Current, j) =>
          tracks[tracked[j].id] = TrackOf(tracked[j], stamp)
    /\ \A i \in DOMAIN frame.obstacles :
          Sole(frame, i) /\ frame.obstacles[i].id \notin assigned =>
             IF pc = "tracking" /\ stamp - frame.stamp > MaxAge
             THEN frame.obstacles[i].id \notin DOMAIN tracks
             ELSE /\ frame.obstacles[i].id \in DOMAIN tracks
                  /\ tracks[frame.obstacles[i].id] = TrackOf(frame.obstacles[i], frame.stamp)

EntriesFollow ==
    \A i \in DOMAIN frame.obstacles, j \in DOMAIN tracked :
        Sole(frame, i) /\ Sole(Current, j) /\ frame.obstacles[i].id = tracked[j].id
        => Follows(frame, i, Current, j)

\* A sighting that gets the id of an obstacle of the frame before follows it.
LEMMA EntryFollows ==
    ASSUME TypeOK, IdsOK, TracksRemember, pc = "tracking",
           NEW s \in Sighting, NEW i \in DOMAIN frame.obstacles,
           Sole(frame, i), frame.obstacles[i].id = AssignId(s), AssignId(s) \notin assigned,
           NEW g, NEW j, g.stamp = stamp, g.obstacles[j] = Entry(s, AssignId(s))
    PROVE  Follows(frame, i, g, j)
<1> DEFINE id == AssignId(s)
           o  == frame.obstacles[i]
           n  == g.obstacles[j]
<1>1. /\ n.x = s.x /\ n.y = s.y /\ n.source = s.source /\ n.how = HowAssigned(s)
      /\ n.age = AgeOf(id) /\ n.velocity = VelocityOf(s, id)
  BY DEF Entry
<1>2. o \in Obstacle /\ stamp \in Int /\ frame.stamp \in Int
  BY DEF TypeOK
<1>3. id \in Given /\ (id \notin Candidates(s) => MayCollide(n))
  <2>1. id \in Given
    BY DEF IdsOK
  <2>2. n.id = id
    BY DEF Entry
  <2> QED BY <1>1, <2>1, <2>2, AssignCases DEF Given, MayCollide
<1>4. CASE stamp - frame.stamp > MaxAge
  <2>1. id \notin DOMAIN tracks
    BY <1>4 DEF TracksRemember
  <2>2. MayCollide(n)
    BY <1>3, <2>1 DEF Candidates
  <2> QED BY <1>1, <1>4, <2>1, <2>2 DEF Follows, AgeOf
<1>5. CASE ~(stamp - frame.stamp > MaxAge)
  <2>1. id \in DOMAIN tracks /\ tracks[id] = TrackOf(o, frame.stamp)
    BY <1>5 DEF TracksRemember
  <2>2. /\ tracks[id].x = o.x /\ tracks[id].y = o.y /\ tracks[id].stamp = frame.stamp
        /\ tracks[id].source = o.source /\ tracks[id].age = o.age
    BY <2>1 DEF TrackOf
  <2>3. ASSUME ~MayCollide(n)
        PROVE  n.source = o.source /\ SquaredDistance(n, o) <= Square(MaxDistance)
    <3>1. id \in Candidates(s)
      BY <1>3, <2>3
    <3>2. s.source = o.source /\ SquaredDistance(s, tracks[id]) <= Square(MaxDistance)
      BY <2>2, <3>1 DEF Candidates
    <3> QED BY <1>1, <2>2, <3>2 DEF SquaredDistance
  <2>4. n.age = o.age + 1
    BY <1>1, <2>1, <2>2 DEF AgeOf
  <2>5. n.velocity = IF stamp - frame.stamp > 0
                     THEN [dx |-> n.x - o.x, dy |-> n.y - o.y, over |-> stamp - frame.stamp]
                     ELSE NoVelocity
    <3>1. stamp > frame.stamp <=> stamp - frame.stamp > 0
      BY <1>2
    <3> QED BY <1>1, <2>1, <2>2, <3>1 DEF VelocityOf
  <2> QED BY <1>5, <2>3, <2>4, <2>5 DEF Follows, Continues
<1> QED BY <1>4, <1>5

LEMMA LoopRemembers ==
    ASSUME TypeOK, IdsOK, TracksRemember, EntriesFollow, TrackNext
    PROVE  TracksRemember' /\ EntriesFollow'
<1>1. PICK s \in Sighting :
              /\ AssignId(s) \in Id
              /\ DOMAIN tracked' = DOMAIN tracked \cup {Len(tracked) + 1}
              /\ \A n \in DOMAIN tracked : n < Len(tracked) + 1 /\ tracked'[n] = tracked[n]
              /\ tracked'[Len(tracked) + 1] = Entry(s, AssignId(s))
              /\ tracks' = Remember(s, AssignId(s))
              /\ assigned' = assigned \cup {AssignId(s)}
              /\ brought' = IF s.own # NoId THEN brought \cup {AssignId(s)} ELSE brought
              /\ generated' = IF NeedsNewId(s) THEN generated \cup {AssignId(s)} ELSE generated
              /\ counter' = IF NeedsNewId(s) THEN counter + 1 ELSE counter
              /\ pc = "tracking"
              /\ UNCHANGED <<pc, stamp, frame>>
  BY LoopStep
<1> DEFINE last == Len(tracked) + 1
           id   == AssignId(s)
           new  == Entry(s, id)
<1>2. /\ new.id = id /\ new.x = s.x /\ new.y = s.y /\ new.source = s.source
      /\ new.age = AgeOf(id)
  BY DEF Entry
<1>3. /\ DOMAIN tracks' = DOMAIN tracks \cup {id}
      /\ \A i \in DOMAIN tracks : i # id => tracks'[i] = tracks[i]
      /\ tracks'[id] = TrackOf(new, stamp)
  BY <1>1, <1>2 DEF Remember, TrackOf
<1>4. /\ last \notin DOMAIN tracked /\ last \in DOMAIN tracked'
      /\ DOMAIN tracked \subseteq DOMAIN tracked'
      /\ \A j \in DOMAIN tracked' : j \in DOMAIN tracked \/ j = last
      /\ \A j \in DOMAIN tracked : tracked'[j] = tracked[j]
      /\ tracked'[last] = new
  BY <1>1
<1>5. stamp' = stamp /\ frame' = frame /\ pc' = pc /\ assigned' = assigned \cup {id}
      /\ pc = "tracking"
  BY <1>1
<1> HIDE DEF last, new
<1>6. Current.obstacles = tracked /\ Current.stamp = stamp
      /\ Current'.obstacles = tracked' /\ Current'.stamp = stamp
  BY <1>5 DEF Current
\* An entry that stands alone did so before, and was not touched.
<1>7. ASSUME NEW j \in DOMAIN tracked, Sole(Current', j)
      PROVE  Sole(Current, j) /\ tracked[j].id # id
  <2>1. \A m \in DOMAIN tracked' : m # j => tracked'[m].id # tracked'[j].id
    BY <1>6, <1>7 DEF Sole
  <2>2. \A m \in DOMAIN tracked : m # j => tracked[m].id # tracked[j].id
    BY <1>4, <2>1
  <2>3. tracked'[last].id # tracked'[j].id
    BY <1>4, <2>1
  <2> QED BY <1>2, <1>4, <1>6, <2>2, <2>3 DEF Sole
<1>8. ASSUME Sole(Current', last)
      PROVE  id \notin assigned
  <2>1. \A m \in DOMAIN tracked : tracked[m].id # id
    BY <1>2, <1>4, <1>6, <1>8 DEF Sole
  <2> QED BY <2>1 DEF IdsOK
<1>9. ASSUME NEW j \in DOMAIN tracked', Sole(Current', j)
      PROVE  tracks'[tracked'[j].id] = TrackOf(tracked'[j], stamp')
  <2>1. CASE j \in DOMAIN tracked
    <3>1. tracked[j].id # id /\ tracks[tracked[j].id] = TrackOf(tracked[j], stamp)
      BY <1>7, <1>9, <2>1 DEF TracksRemember
    <3>2. tracked[j].id \in DOMAIN tracks
      BY <2>1 DEF TracksRemember, IdsOK
    <3> QED BY <1>3, <1>4, <1>5, <2>1, <3>1, <3>2
  <2>2. CASE j = last
    BY <1>2, <1>3, <1>4, <1>5, <2>2
  <2> QED BY <1>4, <2>1, <2>2
<1>10. ASSUME NEW i \in DOMAIN frame'.obstacles,
              Sole(frame', i), frame'.obstacles[i].id \notin assigned'
       PROVE  IF pc' = "tracking" /\ stamp' - frame'.stamp > MaxAge
              THEN frame'.obstacles[i].id \notin DOMAIN tracks'
              ELSE /\ frame'.obstacles[i].id \in DOMAIN tracks'
                   /\ tracks'[frame'.obstacles[i].id] = TrackOf(frame'.obstacles[i], frame'.stamp)
  <2>1. i \in DOMAIN frame.obstacles /\ Sole(frame, i)
        /\ frame.obstacles[i].id \notin assigned /\ frame.obstacles[i].id # id
    BY <1>5, <1>10
  <2>2. IF pc = "tracking" /\ stamp - frame.stamp > MaxAge
        THEN frame.obstacles[i].id \notin DOMAIN tracks
        ELSE /\ frame.obstacles[i].id \in DOMAIN tracks
             /\ tracks[frame.obstacles[i].id] = TrackOf(frame.obstacles[i], frame.stamp)
    BY <2>1 DEF TracksRemember
  <2> QED BY <1>3, <1>5, <2>1, <2>2
<1>11. assigned' \subseteq DOMAIN tracks'
  BY <1>3, <1>5 DEF TracksRemember
<1>12. TracksRemember'
  BY <1>9, <1>10, <1>11 DEF TracksRemember
<1>13. ASSUME NEW i \in DOMAIN frame'.obstacles, NEW j \in DOMAIN tracked',
              Sole(frame', i), Sole(Current', j), frame'.obstacles[i].id = tracked'[j].id
       PROVE  Follows(frame, i, Current', j)
  <2>1. i \in DOMAIN frame.obstacles /\ Sole(frame, i)
    BY <1>5, <1>13
  <2>2. CASE j \in DOMAIN tracked
    <3>1. Sole(Current, j) /\ frame.obstacles[i].id = tracked[j].id
      BY <1>4, <1>5, <1>7, <1>13, <2>2
    <3>2. Follows(frame, i, Current, j)
      BY <2>1, <2>2, <3>1 DEF EntriesFollow
    <3>3. Current'.obstacles[j] = Current.obstacles[j] /\ Current'.stamp = Current.stamp
      BY <1>4, <1>6, <2>2
    <3> QED BY <3>2, <3>3 DEF Follows, Continues
  <2>3. CASE j = last
    <3>1. id \notin assigned /\ frame.obstacles[i].id = id
      BY <1>2, <1>4, <1>5, <1>8, <1>13, <2>3
    <3>2. Current'.stamp = stamp /\ Current'.obstacles[j] = Entry(s, AssignId(s))
      BY <1>4, <1>6, <2>3 DEF new
    <3> HIDE DEF Current
    <3> QED BY <1>5, <2>1, <3>1, <3>2, EntryFollows
  <2> QED BY <1>4, <2>2, <2>3
<1>14. EntriesFollow'
  <2>1. brought \subseteq brought'
    BY <1>1
  <2>2. ASSUME NEW i, NEW j, Follows(frame, i, Current', j)
        PROVE  Follows(frame, i, Current, j)'
    BY <1>5, <2>1, <2>2 DEF Follows, Continues, MayCollide
  <2> QED BY <1>5, <1>13, <2>2 DEF EntriesFollow, Sole
<1> QED BY <1>12, <1>14

LEMMA InitRemembers == Init => TracksRemember /\ EntriesFollow
BY DEF Init, TracksRemember, EntriesFollow, NoFrame

LEMMA StepRemembers ==
    TypeOK /\ IdsOK /\ TracksRemember /\ EntriesFollow /\ [Next]_vars
    => TracksRemember' /\ EntriesFollow'
<1> SUFFICES ASSUME TypeOK, IdsOK, TracksRemember, EntriesFollow, [Next]_vars
             PROVE  TracksRemember' /\ EntriesFollow'
  OBVIOUS
<1>1. CASE \E e \in Events : Observe(e)
  <2>1. PICK e \in Events : Observe(e)
    BY <1>1
  <2>2. tracked = << >> /\ assigned = {} /\ pc = "idle" /\ pc' = "tracking"
        /\ stamp' = e.stamp /\ UNCHANGED <<tracked, assigned, frame>>
    BY <2>1 DEF Observe, IdsOK
  <2>3. ASSUME NEW i \in DOMAIN frame.obstacles, Sole(frame, i)
        PROVE  IF e.stamp - frame.stamp > MaxAge
               THEN frame.obstacles[i].id \notin DOMAIN tracks'
               ELSE /\ frame.obstacles[i].id \in DOMAIN tracks'
                    /\ tracks'[frame.obstacles[i].id] = TrackOf(frame.obstacles[i], frame.stamp)
    <3> DEFINE id == frame.obstacles[i].id
    <3>1. id \in DOMAIN tracks /\ tracks[id] = TrackOf(frame.obstacles[i], frame.stamp)
      BY <2>2, <2>3 DEF TracksRemember
    <3>2. tracks[id].stamp = frame.stamp
      BY <3>1 DEF TrackOf
    <3>3. id \in Expired(e.stamp) <=> e.stamp - frame.stamp > MaxAge
      BY <3>1, <3>2 DEF Expired
    <3>4. /\ DOMAIN tracks' = DOMAIN tracks \ Expired(e.stamp)
          /\ \A k \in DOMAIN tracks' : tracks'[k] = tracks[k]
      BY <2>1 DEF Observe
    <3> QED BY <3>1, <3>3, <3>4
  <2>4. assigned' \subseteq DOMAIN tracks'
    BY <2>2
  <2>5. TracksRemember'
    BY <2>2, <2>3, <2>4 DEF TracksRemember
  <2>6. EntriesFollow'
    BY <2>2 DEF EntriesFollow
  <2> QED BY <2>5, <2>6
<1>2. CASE ObserveNothing
  <2>1. frame'.obstacles = << >> /\ tracked = << >> /\ assigned = {}
        /\ UNCHANGED <<tracked, assigned>>
    BY <1>2 DEF ObserveNothing, NoFrame, IdsOK
  <2> QED BY <2>1 DEF TracksRemember, EntriesFollow
<1>3. CASE TrackNext
  BY <1>3, LoopRemembers
<1>4. CASE Deliver
  <2>1. frame' = Current /\ frame'.obstacles = tracked /\ frame'.stamp = stamp
        /\ tracked' = << >> /\ assigned' = {} /\ tracks' = tracks /\ pc' = "idle"
    BY <1>4 DEF Deliver, Current
  <2>2. ASSUME NEW i \in DOMAIN tracked, Sole(Current, i)
        PROVE  tracked[i].id \in DOMAIN tracks /\ tracks[tracked[i].id] = TrackOf(tracked[i], stamp)
    BY <2>2 DEF TracksRemember, IdsOK
  <2>3. TracksRemember'
    BY <2>1, <2>2 DEF TracksRemember
  <2> QED BY <2>1, <2>3 DEF EntriesFollow
<1>5. CASE UNCHANGED vars
  <2>1. Current' = Current
    BY <1>5 DEF vars, Current
  <2> QED BY <1>5, <2>1 DEF vars, history, TracksRemember, EntriesFollow, Follows, Continues, MayCollide, Sole
<1> QED BY <1>1, <1>2, <1>3, <1>4, <1>5 DEF Next

LEMMA DeliveredFollows ==
    ASSUME TypeOK, EntriesFollow, [Next]_vars
    PROVE  \A i \in DOMAIN frame.obstacles, j \in DOMAIN frame'.obstacles :
              /\ frame' # frame
              /\ frame.obstacles[i].id = frame'.obstacles[j].id
              /\ Sole(frame, i) /\ Sole(frame', j)
              => Follows(frame, i, frame', j)
<1>1. CASE frame' = frame
  BY <1>1
<1>2. CASE ObserveNothing
  BY <1>2 DEF ObserveNothing, NoFrame
<1>3. CASE Deliver
  <2>1. frame' = Current /\ frame'.obstacles = tracked
    BY <1>3 DEF Deliver, Current
  <2> QED BY <2>1 DEF EntriesFollow
<1>4. CASE (\E e \in Events : Observe(e)) \/ TrackNext \/ UNCHANGED vars
  BY <1>1, <1>4 DEF Observe, TrackNext, vars
<1> QED BY <1>2, <1>3, <1>4 DEF Next

\* From one frame to the next an id means the same obstacle, one frame older and
\* with the velocity of its way between the two events, but for ids telemetry
\* brought.
THEOREM TracksAreContinued == Spec => TracksContinue
<1>1. TypeOK /\ EntriesFollow /\ [Next]_vars =>
        [\A i \in DOMAIN frame.obstacles, j \in DOMAIN frame'.obstacles :
          /\ frame' # frame
          /\ frame.obstacles[i].id = frame'.obstacles[j].id
          /\ Sole(frame, i) /\ Sole(frame', j)
          => IF frame'.stamp - frame.stamp > MaxAge
             THEN MayCollide(frame'.obstacles[j]) /\ frame'.obstacles[j].age = 1
             ELSE Continues(frame, i, frame', j)]_vars
  BY DeliveredFollows DEF Follows
<1>2. Spec => [](TypeOK /\ IdsOK /\ TracksRemember /\ EntriesFollow)
  BY InitTypes, StepTypes, InitIds, StepIds, InitRemembers, StepRemembers, PTL DEF Spec
<1> QED BY <1>1, <1>2, PTL DEF Spec, TracksContinue

-----------------------------------------------------------------------------
(* Obstacles that stand still.                                             *)

Place(o) == <<o.x, o.y, o.source>>

\* No obstacle brought its id, and no two of a source are at one place or share an
\* id.
Distinct(obstacles) ==
    \A i \in DOMAIN obstacles :
        /\ obstacles[i].how # "brought"
        /\ \A j \in DOMAIN obstacles : j # i => obstacles[j].id # obstacles[i].id
        /\ \A j \in DOMAIN obstacles : j # i => Place(obstacles[j]) # Place(obstacles[i])

IdsOf(obstacles) == {obstacles[i].id : i \in DOMAIN obstacles}

\* The track of every obstacle is where the obstacle is, and of the tracks at its
\* place it comes first, but for those that others of the frame have taken.
Leading(obstacles) ==
    \A i \in DOMAIN obstacles :
        /\ obstacles[i].id \in DOMAIN tracks
        /\ Place(tracks[obstacles[i].id]) = Place(obstacles[i])
        /\ \A k \in DOMAIN tracks \ IdsOf(obstacles) :
              Place(tracks[k]) = Place(obstacles[i]) => Before(obstacles[i].id, k)

\* So far the frame under way shows the scene of the last one, soon enough.
Repeats ==
    /\ Distinct(frame.obstacles)
    /\ pc = "tracking" => stamp - frame.stamp <= MaxAge
    /\ \A i \in DOMAIN tracked :
          /\ i \in DOMAIN frame.obstacles
          /\ tracked[i].how # "brought"
          /\ Place(tracked[i]) = Place(frame.obstacles[i])

StillInv ==
    /\ Distinct(tracked) => Leading(tracked)
    /\ Repeats => /\ Leading(frame.obstacles)
                  /\ \A i \in DOMAIN tracked : tracked[i].id = frame.obstacles[i].id

LEMMA NoSquareNoLength ==
    ASSUME NEW n \in Int, Square(n) = 0
    PROVE  n = 0
BY DEF Square

\* A distance is no less than zero, and zero for one place only.
LEMMA DistanceZero ==
    ASSUME TypeOK, NEW s \in Sighting, NEW id \in DOMAIN tracks
    PROVE  /\ SquaredDistance(s, tracks[id]) \in Nat
           /\ SquaredDistance(s, tracks[id]) = 0 <=> tracks[id].x = s.x /\ tracks[id].y = s.y
<1>1. tracks[id] \in Track
  BY DEF TypeOK
<1>2. /\ s.x \in Int /\ s.y \in Int /\ tracks[id].x \in Int /\ tracks[id].y \in Int
      /\ s.x - tracks[id].x \in Int /\ s.y - tracks[id].y \in Int
  BY <1>1 DEF Track, Sighting
<1> DEFINE a == Square(s.x - tracks[id].x)
           b == Square(s.y - tracks[id].y)
<1>3. a \in Nat /\ b \in Nat /\ SquaredDistance(s, tracks[id]) = a + b
  BY <1>2, SquareIsNat DEF SquaredDistance
<1>4. a = 0 => s.x - tracks[id].x = 0
  BY <1>2, NoSquareNoLength
<1>5. b = 0 => s.y - tracks[id].y = 0
  BY <1>2, NoSquareNoLength
<1>6. tracks[id].x = s.x => a = 0
  BY <1>2 DEF Square
<1>7. tracks[id].y = s.y => b = 0
  BY <1>2 DEF Square
<1> HIDE DEF a, b
<1> QED BY <1>2, <1>3, <1>4, <1>5, <1>6, <1>7

LEMMA BeforeIsStrict ==
    ASSUME NEW i \in Id, NEW j \in Id, Before(i, j)
    PROVE  ~Before(j, i)
BY DEF Before, Id

LEMMA AtPlaceIsCandidate ==
    ASSUME TypeOK, NEW s \in Sighting, NEW k \in DOMAIN tracks \ assigned,
           Place(tracks[k]) = Place(s)
    PROVE  k \in Candidates(s) /\ SquaredDistance(s, tracks[k]) = 0
<1>1. tracks[k].x = s.x /\ tracks[k].y = s.y /\ tracks[k].source = s.source
  BY DEF Place
<1>2. SquaredDistance(s, tracks[k]) = 0
  BY <1>1, DistanceZero
<1>3. Square(MaxDistance) \in Nat
  BY SquareIsNat, TrackerAssumption
<1> QED BY <1>1, <1>2, <1>3 DEF Candidates

\* A sighting without an id of its own takes the first of the free tracks at its
\* place, if there are any.
LEMMA TakesFirstAtPlace ==
    ASSUME TypeOK, NEW s \in Sighting, s.own = NoId,
           NEW k \in DOMAIN tracks \ assigned, Place(tracks[k]) = Place(s)
    PROVE  /\ AssignId(s) \in DOMAIN tracks \ assigned
           /\ Place(tracks[AssignId(s)]) = Place(s)
           /\ AssignId(s) = k \/ Before(AssignId(s), k)
<1>1. k \in Candidates(s) /\ SquaredDistance(s, tracks[k]) = 0
  BY AtPlaceIsCandidate
<1> DEFINE m == Nearest(s)
<1>2. AssignId(s) = m /\ m \in Candidates(s)
  BY <1>1, NearestIsCandidate DEF AssignId
<1>3. m \in DOMAIN tracks \ assigned /\ tracks[m].source = s.source
  BY <1>2 DEF Candidates
<1>4. m = k \/ (SquaredDistance(s, tracks[m]) = 0 /\ Before(m, k))
  <2>1. CASE m # k
    <3>1. \/ SquaredDistance(s, tracks[m]) < SquaredDistance(s, tracks[k])
          \/ /\ SquaredDistance(s, tracks[m]) = SquaredDistance(s, tracks[k])
             /\ Before(m, k)
      BY <1>1, <2>1, NearestIsCandidate
    <3>2. SquaredDistance(s, tracks[m]) \in Nat
      BY <1>3, DistanceZero
    <3> HIDE DEF m
    <3> QED BY <1>1, <3>1, <3>2
  <2> QED BY <2>1
<1>5. SquaredDistance(s, tracks[m]) = 0
  BY <1>1, <1>4
<1>6. Place(tracks[m]) = Place(s)
  BY <1>3, <1>5, DistanceZero DEF Place
<1> QED BY <1>2, <1>3, <1>4, <1>6

LEMMA LoopStill ==
    ASSUME TypeOK, IdsOK, StillInv, TrackNext
    PROVE  StillInv'
<1>1. PICK s \in Sighting :
              /\ AssignId(s) \in Id
              /\ DOMAIN tracked' = DOMAIN tracked \cup {Len(tracked) + 1}
              /\ \A n \in DOMAIN tracked : n < Len(tracked) + 1 /\ tracked'[n] = tracked[n]
              /\ tracked'[Len(tracked) + 1] = Entry(s, AssignId(s))
              /\ tracks' = Remember(s, AssignId(s))
              /\ assigned' = assigned \cup {AssignId(s)}
              /\ brought' = IF s.own # NoId THEN brought \cup {AssignId(s)} ELSE brought
              /\ generated' = IF NeedsNewId(s) THEN generated \cup {AssignId(s)} ELSE generated
              /\ counter' = IF NeedsNewId(s) THEN counter + 1 ELSE counter
              /\ pc = "tracking"
              /\ UNCHANGED <<pc, stamp, frame>>
  BY LoopStep
<1> DEFINE last == Len(tracked) + 1
           id   == AssignId(s)
           new  == Entry(s, id)
<1>2. new.id = id /\ Place(new) = Place(s)
      /\ (new.how # "brought" => s.own = NoId)
  BY DEF Entry, Place, HowAssigned
<1>3. /\ DOMAIN tracks' = DOMAIN tracks \cup {id}
      /\ \A k \in DOMAIN tracks : k # id => tracks'[k] = tracks[k]
      /\ Place(tracks'[id]) = Place(s)
  BY <1>1 DEF Remember, Place
<1>4. /\ last \notin DOMAIN tracked /\ last \in DOMAIN tracked'
      /\ DOMAIN tracked \subseteq DOMAIN tracked'
      /\ \A j \in DOMAIN tracked' : j \in DOMAIN tracked \/ j = last
      /\ \A j \in DOMAIN tracked : tracked'[j] = tracked[j]
      /\ tracked'[last] = new
  BY <1>1
<1>5. pc' = "tracking" /\ pc = "tracking" /\ stamp' = stamp /\ frame' = frame
  BY <1>1
<1>6. assigned = IdsOf(tracked)
  BY DEF IdsOK, IdsOf
<1>7. DOMAIN tracked \subseteq Int /\ DOMAIN frame.obstacles \subseteq Int
  BY DEF TypeOK
<1> HIDE DEF last, id, new
<1>8. IdsOf(tracked') = assigned \cup {id}
  BY <1>2, <1>4, <1>6 DEF IdsOf
\* The frame under way: the new entry takes the first track at its place and
\* moves none that is taken.
<1>9. ASSUME Distinct(tracked')
       PROVE  Leading(tracked)'
  <2>1. Distinct(tracked) /\ new.how # "brought"
    BY <1>4, <1>9 DEF Distinct
  <2>2. s.own = NoId /\ id \notin assigned
    <3>1. \A j \in DOMAIN tracked : tracked[j].id # id
      BY <1>2, <1>4, <1>9 DEF Distinct
    <3> QED BY <1>2, <1>6, <2>1, <3>1 DEF IdsOf
  <2>3. Leading(tracked)
    BY <2>1 DEF StillInv
  <2>4. ASSUME NEW i \in DOMAIN tracked
        PROVE  /\ tracked'[i].id \in DOMAIN tracks'
               /\ Place(tracks'[tracked'[i].id]) = Place(tracked'[i])
               /\ \A k \in DOMAIN tracks' \ IdsOf(tracked') :
                     Place(tracks'[k]) = Place(tracked'[i]) => Before(tracked'[i].id, k)
    <3>1. tracked[i].id \in assigned /\ tracked[i].id # id
      BY <1>6, <2>2 DEF IdsOf
    <3>2. /\ tracked[i].id \in DOMAIN tracks
          /\ Place(tracks[tracked[i].id]) = Place(tracked[i])
          /\ \A k \in DOMAIN tracks \ assigned :
                Place(tracks[k]) = Place(tracked[i]) => Before(tracked[i].id, k)
      BY <1>6, <2>3 DEF Leading
    <3> QED BY <1>3, <1>4, <1>8, <3>1, <3>2
  <2>5. ASSUME NEW k \in DOMAIN tracks' \ IdsOf(tracked'), Place(tracks'[k]) = Place(new)
        PROVE  Before(id, k)
    <3>1. k \in DOMAIN tracks \ assigned /\ k # id /\ Place(tracks[k]) = Place(s)
      BY <1>2, <1>3, <1>8, <2>5
    <3> QED BY <2>2, <3>1, TakesFirstAtPlace DEF id
  <2>6. /\ tracked'[last].id \in DOMAIN tracks'
        /\ Place(tracks'[tracked'[last].id]) = Place(tracked'[last])
        /\ \A k \in DOMAIN tracks' \ IdsOf(tracked') :
              Place(tracks'[k]) = Place(tracked'[last]) => Before(tracked'[last].id, k)
    BY <1>2, <1>3, <1>4, <2>5
  <2>7. \A i \in DOMAIN tracked' :
           /\ tracked'[i].id \in DOMAIN tracks'
           /\ Place(tracks'[tracked'[i].id]) = Place(tracked'[i])
           /\ \A k \in DOMAIN tracks' \ IdsOf(tracked') :
                 Place(tracks'[k]) = Place(tracked'[i]) => Before(tracked'[i].id, k)
    BY <1>4, <2>4, <2>6
  <2> QED BY <2>7 DEF Leading, IdsOf, Place
\* The frame before: the obstacle's own track is free and comes first.
<1>10. ASSUME Repeats'
       PROVE  Leading(frame.obstacles)' /\ \A i \in DOMAIN tracked' : tracked'[i].id = frame'.obstacles[i].id
  <2> DEFINE old == frame.obstacles
  <2>1. /\ Distinct(old) /\ stamp - frame.stamp <= MaxAge
        /\ \A i \in DOMAIN tracked' :
              i \in DOMAIN old /\ tracked'[i].how # "brought" /\ Place(tracked'[i]) = Place(old[i])
    BY <1>5, <1>10 DEF Repeats, Distinct, Place
  <2>2. Repeats
    BY <1>4, <1>5, <2>1 DEF Repeats
  <2>3. Leading(old) /\ \A i \in DOMAIN tracked : tracked[i].id = old[i].id
    BY <2>2 DEF StillInv
  <2>4. last \in DOMAIN old /\ s.own = NoId /\ Place(old[last]) = Place(s)
    BY <1>2, <1>4, <2>1
  <2> DEFINE own == old[last].id
  <2>5. own \in DOMAIN tracks /\ Place(tracks[own]) = Place(s)
    BY <2>3, <2>4 DEF Leading
  <2>6. own \notin assigned
    <3>1. ASSUME NEW i \in DOMAIN tracked
          PROVE  tracked[i].id # own
      <4>1. i \in DOMAIN old /\ i # last /\ tracked[i].id = old[i].id
        BY <1>4, <2>1, <2>3
      <4> QED BY <2>1, <2>4, <4>1 DEF Distinct
    <3> QED BY <1>6, <3>1 DEF IdsOf
  <2>7. id \in DOMAIN tracks \ assigned /\ Place(tracks[id]) = Place(s)
        /\ (id = own \/ Before(id, own))
    BY <2>4, <2>5, <2>6, TakesFirstAtPlace DEF id
  <2>8. id = own
    <3>1. CASE id \in IdsOf(old)
      <4>1. PICK j \in DOMAIN old : old[j].id = id
        BY <3>1 DEF IdsOf
      <4>2. Place(old[j]) = Place(s)
        BY <2>3, <2>7, <4>1 DEF Leading
      <4>3. j = last
        BY <2>1, <2>4, <4>2 DEF Distinct
      <4> QED BY <4>1, <4>3
    <3>2. CASE id \notin IdsOf(old)
      <4>1. Before(own, id)
        BY <2>3, <2>4, <2>7, <3>2 DEF Leading
      <4>2. own \in Id /\ id \in Id
        BY <2>5, <2>7 DEF TypeOK
      <4> QED BY <2>7, <4>1, <4>2, BeforeIsStrict
    <3> QED BY <3>1, <3>2
  <2>9. DOMAIN tracks' = DOMAIN tracks
         /\ \A k \in DOMAIN tracks : Place(tracks'[k]) = Place(tracks[k])
    BY <1>3, <2>5, <2>8
  <2>10. \A i \in DOMAIN old :
            /\ old[i].id \in DOMAIN tracks'
            /\ Place(tracks'[old[i].id]) = Place(old[i])
            /\ \A k \in DOMAIN tracks' \ IdsOf(old) :
                  Place(tracks'[k]) = Place(old[i]) => Before(old[i].id, k)
    BY <2>3, <2>9 DEF Leading
  <2>11. Leading(frame.obstacles)'
    BY <1>5, <2>10 DEF Leading, IdsOf, Place
  <2>12. \A i \in DOMAIN tracked' : tracked'[i].id = frame'.obstacles[i].id
    BY <1>2, <1>4, <1>5, <2>3, <2>8
  <2> QED BY <2>11, <2>12
<1>11. Distinct(tracked)' <=> Distinct(tracked')
  BY DEF Distinct, Place
<1> QED BY <1>9, <1>10, <1>11 DEF StillInv

LEMMA InitStill == Init => StillInv
BY DEF Init, StillInv, Repeats, Leading, NoFrame

LEMMA StepStill ==
    TypeOK /\ IdsOK /\ TracksRemember /\ StillInv /\ [Next]_vars => StillInv'
<1> SUFFICES ASSUME TypeOK, IdsOK, TracksRemember, StillInv, [Next]_vars
             PROVE  StillInv'
  OBVIOUS
<1>1. CASE \E e \in Events : Observe(e)
  <2>1. PICK e \in Events : Observe(e)
    BY <1>1
  <2>2. tracked = << >> /\ assigned = {} /\ pc = "idle" /\ pc' = "tracking"
        /\ stamp' = e.stamp /\ tracked' = tracked /\ frame' = frame
    BY <2>1 DEF Observe, IdsOK
  <2>3. /\ DOMAIN tracks' = DOMAIN tracks \ Expired(e.stamp)
        /\ \A k \in DOMAIN tracks' : tracks'[k] = tracks[k]
    BY <2>1 DEF Observe
  <2> DEFINE old == frame.obstacles
  <2>4. ASSUME Repeats'
        PROVE  Leading(frame.obstacles)'
    <3>1. Distinct(old) /\ e.stamp - frame.stamp <= MaxAge
      BY <2>2, <2>4 DEF Repeats, Distinct, Place
    <3>2. Leading(old)
      BY <2>2, <3>1 DEF StillInv, Repeats
    <3>3. ASSUME NEW i \in DOMAIN old
          PROVE  old[i].id \notin Expired(e.stamp)
      <4>1. Sole(frame, i)
        BY <3>1 DEF Distinct, Sole
      <4>2. tracks[old[i].id] = TrackOf(old[i], frame.stamp)
        BY <2>2, <4>1 DEF TracksRemember
      <4>3. tracks[old[i].id].stamp = frame.stamp
        BY <4>2 DEF TrackOf
      <4>4. frame.stamp \in Int /\ e.stamp \in Int /\ MaxAge \in Nat
        BY TrackerAssumption DEF TypeOK
      <4> QED BY <3>1, <4>3, <4>4 DEF Expired
    <3>4. \A i \in DOMAIN old :
             /\ old[i].id \in DOMAIN tracks'
             /\ Place(tracks'[old[i].id]) = Place(old[i])
             /\ \A k \in DOMAIN tracks' \ IdsOf(old) :
                   Place(tracks'[k]) = Place(old[i]) => Before(old[i].id, k)
      BY <2>3, <3>2, <3>3 DEF Leading
    <3> QED BY <2>2, <3>4 DEF Leading, IdsOf, Place
  <2>5. Leading(tracked)'
    BY <2>2 DEF Leading
  <2>6. \A i \in DOMAIN tracked' : tracked'[i].id = frame'.obstacles[i].id
    BY <2>2
  <2> QED BY <2>4, <2>5, <2>6 DEF StillInv
<1>2. CASE ObserveNothing
  <2>1. frame'.obstacles = << >> /\ tracked = << >> /\ tracked' = << >>
    BY <1>2 DEF ObserveNothing, NoFrame, IdsOK
  <2> QED BY <2>1 DEF StillInv, Leading
<1>3. CASE TrackNext
  BY <1>3, LoopStill
<1>4. CASE Deliver
  <2>1. frame'.obstacles = tracked /\ tracked' = << >> /\ tracks' = tracks
    BY <1>4 DEF Deliver
  <2>2. Distinct(frame'.obstacles) => Leading(frame'.obstacles)
    BY <2>1 DEF StillInv
  <2>3. Leading(tracked)'
    BY <2>1 DEF Leading
  <2>4. Repeats' => Distinct(frame'.obstacles)
    BY DEF Repeats, Distinct, Place
  <2>5. Leading(frame'.obstacles) => Leading(frame.obstacles)'
    BY <2>1 DEF Leading, IdsOf, Place
  <2> QED BY <2>1, <2>2, <2>3, <2>4, <2>5 DEF StillInv
<1>5. CASE UNCHANGED vars
  BY <1>5 DEF vars, StillInv, Repeats, Distinct, Leading, IdsOf, Place
<1> QED BY <1>1, <1>2, <1>3, <1>4, <1>5 DEF Next

LEMMA SameSceneKeepsIds ==
    ASSUME TypeOK, StillInv, [Next]_vars,
           SameScene(frame, frame'), frame'.stamp - frame.stamp <= MaxAge
    PROVE  \A i \in DOMAIN frame.obstacles : frame'.obstacles[i].id = frame.obstacles[i].id
<1>1. CASE frame' = frame
  BY <1>1
<1>2. CASE ObserveNothing
  BY <1>2 DEF ObserveNothing, NoFrame, SameScene
<1>3. CASE Deliver
  <2>1. frame'.obstacles = tracked /\ frame'.stamp = stamp /\ pc = "tracking"
    BY <1>3 DEF Deliver
  <2>2. DOMAIN tracked = DOMAIN frame.obstacles
    BY <2>1 DEF SameScene
  <2>3. \A i \in DOMAIN tracked :
           tracked[i].how # "brought" /\ Place(tracked[i]) = Place(frame.obstacles[i])
    BY <2>1, <2>2 DEF SameScene, Place
  <2>4. Distinct(frame.obstacles)
    BY DEF SameScene, Distinct, Place, Sole
  <2>5. Repeats
    BY <2>1, <2>2, <2>3, <2>4 DEF Repeats
  <2> QED BY <2>1, <2>2, <2>5 DEF StillInv
<1>4. CASE (\E e \in Events : Observe(e)) \/ TrackNext \/ UNCHANGED vars
  BY <1>1, <1>4 DEF Observe, TrackNext, vars
<1> QED BY <1>2, <1>3, <1>4 DEF Next

\* Obstacles that stand still keep their ids, whatever stale tracks lie beside
\* them: the one each has is the first of the tracks at its place, and the loop,
\* which looks for the nearest, finds it free when its turn comes.
THEOREM StillIdsAreKept == Spec => StillObstaclesKeepIds
<1>1. TypeOK /\ StillInv /\ [Next]_vars =>
        [SameScene(frame, frame') /\ frame'.stamp - frame.stamp <= MaxAge =>
            \A i \in DOMAIN frame.obstacles :
                frame'.obstacles[i].id = frame.obstacles[i].id]_vars
  BY SameSceneKeepsIds
<1>2. Spec => [](TypeOK /\ IdsOK /\ TracksRemember /\ EntriesFollow /\ StillInv)
  BY InitTypes, StepTypes, InitIds, StepIds, InitRemembers, StepRemembers,
     InitStill, StepStill, PTL DEF Spec
<1> QED BY <1>1, <1>2, PTL DEF Spec, StillObstaclesKeepIds

=============================================================================
