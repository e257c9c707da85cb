---------------------------- MODULE ObstacleTracker ----------------------------
(***************************************************************************)
(* TelemetryPerceptionPipeline.observe with DeterministicObstacleTracker:  *)
(* every sighting of a telemetry event gets the id it brings, or that of   *)
(* the nearest track of its source, or a new one.  The loop of update is   *)
(* one step per sighting.                                                  *)
(*                                                                         *)
(* A source is a number, ordered as the names are.  An id is a pair: the   *)
(* string "lidar-0007" is <<lidar, 7>>, whether the tracker generated it   *)
(* or telemetry brought it as an object_id, and the order of strings is    *)
(* that of pairs (up to 9999 ids).  Class, radius and confidence are       *)
(* carried through and left out.                                           *)
(***************************************************************************)
EXTENDS Integers, Sequences, FiniteSets

CONSTANTS
    Sources,
    OwnIds,        \* the object_ids telemetry may bring, any strings
    Events,        \* the telemetry events that pass the schema
    MaxDistance,   \* max_association_distance_m
    MaxAge,        \* max_track_age_s
    MaxFrames      \* bound: frames delivered

NoId == << >>

Id == Nat \X Nat

Sighting == [x : Int, y : Int, source : Sources, own : OwnIds \cup {NoId}]

ASSUME TrackerAssumption ==
    /\ Sources \subseteq Nat
    /\ OwnIds \subseteq Id
    /\ Events \subseteq [stamp : Int, sightings : Seq(Sighting)]
    /\ MaxDistance \in Nat /\ MaxAge \in Nat /\ MaxFrames \in Nat

VARIABLES
    tracks,     \* _tracks: what is remembered of each id
    counter,    \* _counter
    pc,         \* "idle", or "tracking" in the loop of update
    stamp,      \* timestamp_s
    todo,       \* the sightings the loop has still to visit
    assigned,   \* assigned_track_ids
    tracked,    \* the obstacles of the frame so far
    frame,      \* the frame delivered last
    brought,    \* history: the ids telemetry brought
    generated,  \* history: the ids the tracker made
    frames      \* how many frames were delivered, bounded

history == <<brought, generated>>

vars == <<tracks, counter, pc, stamp, todo, assigned, tracked, frame, history, frames>>

Track == [x : Int, y : Int, stamp : Int, source : Sources, age : Nat \ {0}]

NoVelocity == [over |-> 0]

\* A displacement and the time it took.
Velocity == [dx : Int, dy : Int, over : Nat \ {0}]

\* how: history, the obstacle brought its id, found a track, or got a new id.
Obstacle == [x : Int, y : Int, source : Sources, id : Id, how : {"brought", "found", "new"},
             age : Nat \ {0}, velocity : Velocity \cup {NoVelocity}]

NoFrame == [stamp |-> 0, obstacles |-> << >>]

Init ==
    /\ tracks = << >>
    /\ counter = 1
    /\ pc = "idle" /\ stamp = 0
    /\ todo = << >> /\ assigned = {} /\ tracked = << >>
    /\ frame = NoFrame
    /\ brought = {} /\ generated = {} /\ frames = 0

Square(n) == n * n

SquaredDistance(a, b) == Square(a.x - b.x) + Square(a.y - b.y)

Before(i, j) == i[1] < j[1] \/ (i[1] = j[1] /\ i[2] < j[2])

-----------------------------------------------------------------------------

\* Mutant: tracks never expire.
ExpiredNever(now) == {}

\* _prune_expired
Expired(now) == {id \in DOMAIN tracks : now - tracks[id].stamp > MaxAge}

\* Mutant: a track may be found twice in a frame.
CandidatesAgain(s) ==
    {id \in DOMAIN tracks :
        /\ tracks[id].source = s.source
        /\ SquaredDistance(s, tracks[id]) <= Square(MaxDistance)}

\* The tracks a sighting may continue.
Candidates(s) ==
    {id \in DOMAIN tracks \ assigned :
        /\ tracks[id].source = s.source
        /\ SquaredDistance(s, tracks[id]) <= Square(MaxDistance)}

\* Mutant: the oldest candidate, wherever it is.
NearestIsOldest(s) ==
    CHOOSE i \in Candidates(s) : \A j \in Candidates(s) \ {i} : Before(i, j)

\* _nearest_associated_track: by distance, then by id.
Nearest(s) ==
    CHOOSE i \in Candidates(s) : \A j \in Candidates(s) \ {i} :
        LET d == SquaredDistance(s, tracks[i])
            e == SquaredDistance(s, tracks[j])
        IN  d < e \/ (d = e /\ Before(i, j))

NeedsNewId(s) == s.own = NoId /\ Candidates(s) = {}

\* Mutant: numbered by the tracks alive.
NewIdByTracks(s) == <<s.source, Cardinality(DOMAIN tracks) + 1>>

NewId(s) == <<s.source, counter>>

\* _assign_track_id: an id of its own is taken without a look at the others.
AssignId(s) ==
    IF s.own # NoId THEN s.own
    ELSE IF Candidates(s) # {} THEN Nearest(s)
    ELSE NewId(s)

HowAssigned(s) ==
    IF s.own # NoId THEN "brought" ELSE IF NeedsNewId(s) THEN "new" ELSE "found"

AgeOf(id) == IF id \in DOMAIN tracks THEN tracks[id].age + 1 ELSE 1

\* _estimate_velocity
VelocityOf(s, id) ==
    IF id \in DOMAIN tracks /\ stamp > tracks[id].stamp
    THEN [dx |-> s.x - tracks[id].x, dy |-> s.y - tracks[id].y,
          over |-> stamp - tracks[id].stamp]
    ELSE NoVelocity

Remember(s, id) ==
    [i \in DOMAIN tracks \cup {id} |->
        IF i = id
        THEN [x |-> s.x, y |-> s.y, stamp |-> stamp, source |-> s.source, age |-> AgeOf(id)]
        ELSE tracks[i]]

-----------------------------------------------------------------------------

\* observe and update up to the loop.  An event the schema refuses raises
\* before the tracker sees it.
Observe(e) ==
    /\ pc = "idle" /\ frames < MaxFrames
    /\ pc' = "tracking"
    /\ stamp' = e.stamp
    /\ todo' = e.sightings
    /\ tracks' = [id \in DOMAIN tracks \ Expired(e.stamp) |-> tracks[id]]
    /\ UNCHANGED <<counter, assigned, tracked, frame, history, frames>>

\* The source has no event: an empty frame, and the tracker is not asked.
ObserveNothing ==
    /\ pc = "idle" /\ frames < MaxFrames
    /\ frame' = NoFrame
    /\ frames' = frames + 1
    /\ UNCHANGED <<tracks, counter, pc, stamp, todo, assigned, tracked, history>>

\* One pass of the loop.
TrackNext ==
    /\ pc = "tracking" /\ todo # << >>
    /\ LET s  == Head(todo)
           id == AssignId(s)
       IN  /\ tracked' = Append(tracked,
                 [x |-> s.x, y |-> s.y, source |-> s.source, id |-> id, how |-> HowAssigned(s),
                  age |-> AgeOf(id), velocity |-> VelocityOf(s, id)])
           /\ tracks' = Remember(s, id)
           /\ assigned' = assigned \cup {id}
           /\ brought' = IF s.own # NoId THEN brought \cup {id} ELSE brought
           /\ generated' = IF NeedsNewId(s) THEN generated \cup {id} ELSE generated
           /\ counter' = IF NeedsNewId(s) THEN counter + 1 ELSE counter
    /\ todo' = Tail(todo)
    /\ UNCHANGED <<pc, stamp, frame, frames>>

Deliver ==
    /\ pc = "tracking" /\ todo = << >>
    /\ frame' = [stamp |-> stamp, obstacles |-> tracked]
    /\ frames' = frames + 1
    /\ pc' = "idle"
    /\ stamp' = 0 /\ assigned' = {} /\ tracked' = << >>
    /\ UNCHANGED <<tracks, counter, todo, history>>

Next ==
    \/ \E e \in Events : Observe(e)
    \/ ObserveNothing \/ TrackNext \/ Deliver

Spec == Init /\ [][Next]_vars

-----------------------------------------------------------------------------
(* Properties.                                                             *)

TypeOK ==
    /\ DOMAIN tracks \subseteq Id
    /\ \A id \in DOMAIN tracks : tracks[id] \in Track
    /\ counter \in Nat \ {0}
    /\ pc \in {"idle", "tracking"}
    /\ stamp \in Int
    /\ todo \in Seq(Sighting)
    /\ assigned \subseteq Id /\ brought \subseteq Id /\ generated \subseteq Id
    /\ tracked \in Seq(Obstacle)
    /\ frame \in [stamp : Int, obstacles : Seq(Obstacle)]
    /\ frames \in Nat

\* Nothing makes the id of o its own: it brought the id, or got a new one that
\* telemetry had brought before, since _counter does not look at those.
MayCollide(o) == o.how = "brought" \/ (o.how = "new" /\ o.id \in brought)

\* Two obstacles of a frame share an id only if the later one brought it, or got a
\* new one that telemetry had brought: no track is found twice, and the tracker
\* takes no id it made itself.
NoSharedIds ==
    \A i, j \in DOMAIN frame.obstacles :
        i < j /\ frame.obstacles[i].id = frame.obstacles[j].id
        => MayCollide(frame.obstacles[j])

\* A new id was never made before, however many tracks came and expired, and a
\* track that lives under it already was brought.
NewIdsAreNew ==
    [][\A n \in DOMAIN tracked' \ DOMAIN tracked :
          LET id == tracked'[n].id
          IN  tracked'[n].how = "new" =>
                 id \notin generated /\ (id \in DOMAIN tracks => id \in brought)]_vars

\* The obstacle is the only one of its frame with its id.
Sole(f, i) == \A j \in DOMAIN f.obstacles : j # i => f.obstacles[j].id # f.obstacles[i].id

\* How an obstacle of one frame continues one of the frame before.
Continues(f, i, g, j) ==
    LET o == f.obstacles[i]
        n == g.obstacles[j]
        t == g.stamp - f.stamp
    IN  /\ ~MayCollide(n) => /\ n.source = o.source
                             /\ SquaredDistance(n, o) <= Square(MaxDistance)
        /\ n.age = o.age + 1
        /\ n.velocity = IF t > 0
                        THEN [dx |-> n.x - o.x, dy |-> n.y - o.y, over |-> t]
                        ELSE NoVelocity

\* From one frame to the next an id means the same obstacle: within the gate and
\* of the same source unless the id was brought, one frame older, its velocity the
\* way it went over the time between the two events.  Once a track has expired
\* only a brought id returns, and starts over.
TracksContinue ==
    [][\A i \in DOMAIN frame.obstacles, j \in DOMAIN frame'.obstacles :
          /\ frame' # frame
          /\ frame.obstacles[i].id = frame'.obstacles[j].id
          /\ Sole(frame, i) /\ Sole(frame', j)
          => IF frame'.stamp - frame.stamp > MaxAge
             THEN MayCollide(frame'.obstacles[j]) /\ frame'.obstacles[j].age = 1
             ELSE Continues(frame, i, frame', j)]_vars

\* The same obstacles at the same places, no two of a source at one place, no two
\* with one id and none that brings its id.
SameScene(f, g) ==
    /\ DOMAIN f.obstacles = DOMAIN g.obstacles
    /\ \A i \in DOMAIN f.obstacles :
          LET o == f.obstacles[i]
              n == g.obstacles[i]
          IN  /\ Sole(f, i) /\ o.how # "brought" /\ n.how # "brought"
              /\ <<o.x, o.y, o.source>> = <<n.x, n.y, n.source>>
              /\ \A j \in DOMAIN f.obstacles : j # i =>
                    <<f.obstacles[j].x, f.obstacles[j].y, f.obstacles[j].source>>
                        # <<o.x, o.y, o.source>>

\* Obstacles that stand still keep their ids, also beside stale tracks and where
\* several tracks are within reach: the greedy assignment does not swap them, and
\* no new id is made that could fall on one of them.
StillObstaclesKeepIds ==
    [][SameScene(frame, frame') /\ frame'.stamp - frame.stamp <= MaxAge =>
          \A i \in DOMAIN frame.obstacles : frame'.obstacles[i].id = frame.obstacles[i].id]_vars

=============================================================================
