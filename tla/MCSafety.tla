------------------------------ MODULE MCSafety ------------------------------
(***************************************************************************)
(* Safety on a small instance.                                              *)
(***************************************************************************)
EXTENDS Safety, TLC

CONSTANTS c1, c2, h1, h2, s1, s2, job, n1, n2, n3, g1, g2, vl

\* Two cameras, and frames that overrun a camera's pool.
MCStampCameras == {c1, c2}
MCDisturbances == {}

\* Two groups whose rates do not divide a second, with pulses every 4 2/3 and 3 1/2 ticks,
\* and a counter that wraps.
MCSlots == {0, 1}
MCConfig == (0 :> [period |-> 4, remainder |-> 2, rate |-> 3])
            @@ (1 :> [period |-> 3, remainder |-> 1, rate |-> 2])

\* Frames with a payload and without, one byte of the line damaged, lost or added.
MCPayloads == {<<>>, <<<<9>>>>}

\* PUTs one after the other, under two senders.
MCPutThreads == {h1}
MCSenders == {s1, s2}
MCFds == {3, 4}

\* Requests of two threads that overlap.
MCLayoutIds == {1, 2}
MCCams == {c1, c2}
MCThreads == {h1, h2}

\* Two rows for one device, a client and a calibration job: what either may change.
MCIds == {1, 2}
MCCameraClients == {h1}
MCJobs == {job}
Patch(f, v) == [g \in {"cfg", "gain", "orient", "stamp"} |-> IF g = f THEN v ELSE None]
MCPatches == [c \in {h1, job} |->
    IF c = job THEN {Patch("stamp", 2)}
    ELSE {Patch("cfg", 2), Patch("orient", 180), Patch("orient", 0), Patch("stamp", 3),
          Patch("gain", 3), [Patch("gain", 2) EXCEPT !["cfg"] = 2]}]

\* Three cameras and two outputs: a snapshot may pass pins round.
MCSerials == 1..3
MCNames == {n1, n2, n3}
MCPins == {1, 2}
MCRoles == {vl}
MCGroups == {g1, g2}
MCClients == {h1}

-----------------------------------------------------------------------------
\* Of the tables the store may start with: a robot that has been set up with two of its
\* cameras, and a file that gives their pins round or has a camera the robot lacks.
StoredCams == {[s \in 1..3 |-> [name |-> <<n1, n2, n3>>[s], pin |-> p[s], role |-> NoRole]] :
    p \in {<<2, 1, 0>>, <<2, 0, 1>>, <<1, 2, 0>>}}
SetUp ==
    /\ cams = [s \in 1..3 |-> IF s = 3 THEN None
                ELSE [name |-> <<n1, n2>>[s], pin |-> s, role |-> NoRole]]
    /\ snap \in {None} \cup
         {[cams |-> f, groups |-> [g \in {g1, g2} |-> IF g = g1 THEN {1} ELSE {}], conf |-> 1] :
            f \in StoredCams}

MCInit ==
    \/ part \in {"Stamps", "Trigger", "Decoder", "Engine", "Link", "Layouts", "Cameras"}
       /\ Init
    \/ part = "Store" /\ SetUp /\ Init

MCSpec == MCInit /\ [][Next]_vars
=============================================================================
