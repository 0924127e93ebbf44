----------------------------- MODULE MCServices -----------------------------
(***************************************************************************)
(* Services on a small instance, with the fairness its threads give.        *)
(***************************************************************************)
EXTENDS Services, TLC

CONSTANTS h1, h2, s1, p1, p2

\* Requests one after the other (two that overlap leave the engine off the rows), and a queue
\* they can fill.
MCPutThreads == {h1}
MCConfigs == {1, 2}

\* A configuration written twice, in the same second or not, and a gap in the frames.
MCVioThreads == {h1, h2}
MCVioValues == {1, 2}

\* Two cameras, two clients, one log being read, and a job after a job.
MCCams == {1, 2}
MCClients == {h1, h2}
MCStreams == {s1}

\* Recordings that overlap at either end, end by themselves or meet a reboot.
MCLogClients == {h1, h2}

\* Two peers that join and leave while frames are in the encoder.
MCPeers == {p1, p2}

-----------------------------------------------------------------------------
\* The threads of each component, numbered as in MCStreams.
FusionThread(k) ==
    \/ k = 1 /\ (Fusion!TakeBatch \/ Fusion!FeedEngine \/ Fusion!EngineEnds)
    \/ k = 2 /\ (Fusion!SendPose \/ Fusion!OutputEnds)
    \/ k = 3 /\ (Fusion!Unsubscribe \/ Fusion!SetStopping)
    \/ k \in 4..6 /\ Fusion!DrainerEnds(<<"tag", "vio", "odom">>[k - 3])
VioThread(k) ==
    \/ k \in {1, 2} /\ Vio!Rebuild(<<h1, h2>>[k])
    \/ k = 3 /\ Vio!Run
CalibThread(k) ==
    \/ k \in {1, 2} /\ Calib!Client(<<h1, h2>>[k])
    \/ k \in {3, 4} /\ k - 2 \in DOMAIN jobs /\ Calib!Child(k - 2)
    \/ k \in {5, 6} /\ k - 4 \in DOMAIN jobs /\ Calib!Reader(k - 4)
    \/ k = 7 /\ Calib!Stream(s1)
    \/ k = 8 /\ Calib!Destroyed
LogThread(k) ==
    \/ k \in {1, 2} /\ Log!Client(<<h1, h2>>[k])
    \/ k \in {3, 4} /\ k - 2 \in DOMAIN drain /\ Log!Drain(k - 2)
PeersThread(k) ==
    \/ k = 1 /\ (Stream!NextFrame \/ Stream!Purge \/ Stream!SkipFrame \/ Stream!WorkerEnds)
    \/ k = 2 /\ Stream!Output
    \/ k \in {3, 4} /\ Stream!CallClose(<<p1, p2>>[k - 2])

Thread(k) ==
    /\ UNCHANGED part
    /\ \/ part = "Fusion" /\ FusionThread(k)
       \/ part = "Vio" /\ VioThread(k)
       \/ part = "Calib" /\ CalibThread(k)
       \/ part = "Log" /\ LogThread(k)
       \/ part = "Peers" /\ PeersThread(k)

\* A request that waits for the odometry supervisor's mutex gets it in the end, and not
\* every frame comes too soon for the encoder.
Locks(k) ==
    /\ UNCHANGED part
    /\ \/ part = "Vio" /\ Vio!Reload(<<h1, h2>>[k])
       \/ part = "Peers" /\ k = 1 /\ Stream!Encode

\* The variables that move.
moving == CASE part = "Fusion" -> fusionVars [] part = "Vio" -> vioVars
            [] part = "Calib" -> calibVars [] part = "Log" -> logVars
            [] part = "Peers" -> peersVars

Fairness ==
    /\ \A k \in 1..8 : WF_moving(Thread(k))
    /\ \A k \in {1, 2} : SF_moving(Locks(k))

FairSpec == Spec /\ Fairness

-----------------------------------------------------------------------------
(* Liveness.                                                                *)

\* Nobody waits for ever: the destructor of the fusion supervisor, a reload that joins the
\* runner's thread under the mutex, a log that is streamed, a request that joins a finished
\* job's reader under the mutex, the destructor of the calibration supervisor, a stop of the
\* IMU log that joins its thread, a peer whose lost connection was reported or that has no
\* keyframe to start from.
Waits ==
    CASE part = "Fusion" -> stopFlag /\ running # {}
      [] part = "Vio" -> \E t \in {h1, h2} : vioReq[t].at # "idle"
      [] part = "Calib" -> \/ sse[s1].at = "streaming" \/ phase = "closing"
                           \/ \E c \in {h1, h2} : req[c].at = "reap"
      [] part = "Log" -> ~crashed /\ \E c \in {h1, h2} : imuReq[c].at = "stop"
      [] part = "Peers" -> \E p \in {p1, p2} : Stream!Waiting(p)

EverybodyReturns == Waits ~> ~Waits
=============================================================================
