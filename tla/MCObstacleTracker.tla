--------------------------- MODULE MCObstacleTracker ---------------------------
(* Constants for the model checker: places on a line, 2 apart, a gate of 3.  *)
EXTENDS ObstacleTracker

CONSTANTS MaxStamp, MaxSightings

Lidar == 1
Radar == 2

\* The object_id "lidar-0002".
Twin == <<Lidar, 2>>

MCSources == {Lidar, Radar}

MCOwnIds == {Twin}

Seen(x, source, own) == [x |-> x, y |-> 0, source |-> source, own |-> own]

Sightings ==
    {Seen(0, Lidar, NoId), Seen(2, Lidar, NoId), Seen(4, Lidar, NoId),
     Seen(2, Radar, NoId), Seen(2, Lidar, Twin), Seen(2, Radar, Twin)}

MCEvents ==
    [stamp : 0 .. MaxStamp,
     sightings : UNION {[1 .. n -> Sightings] : n \in 0 .. MaxSightings}]

=============================================================================
