------------------------------ MODULE Services ------------------------------
(***************************************************************************)
(* The services that own worker threads and share no state, side by side   *)
(* as in Streams: the fusion supervisor, the odometry runner with its       *)
(* supervisor, the calibration supervisor with its jobs, the IMU log and    *)
(* its analysis, and a camera's stream with its peers.  The initial state   *)
(* picks one of them (part), and only that one moves.                       *)
(***************************************************************************)
EXTENDS Integers, Sequences, FiniteSets

CONSTANTS
    None,
    PutThreads, Configs, InboxCap, MaxPuts, MaxEvents,
    VioThreads, VioValues, MaxGap, Window, VioTime, MaxSeconds, VioCalls,
    Cams, Clients, Streams, MaxJobs, MaxCalls,
    LogClients, Span, Enough, MaxSessions, MaxSamples, LogCalls,
    Peers, KeyInterval, MaxEncoding

VARIABLES
    part,        \* the component of this behaviour
    row, active, period, caller, queue, lostOrder, batch, engine, snapshot, sending,
    running, stopFlag, stopping, closed, puts, events,
    vioRow, second, vioReq, runner, pairs, shut, imu, subscribed, time, epoch, filters,
    out, vioCalls,
    phase, sessions, ext, slot, mu, req, jobs, result, told, sse, calls,
    recording, sub, thread, drain, imuQueue, attached, log, imuReq, last, imuRow, imuTold,
    imuTime, samples, imuCalls, crashed,
    at, conn, cb, fired, owed, calling, pending, peers, purging, worker, peersRunning, wantKey,
    encoding, sinceKey, decoding, dangled

Fusion == INSTANCE FusionSupervisor WITH
    Callers <- PutThreads, Values <- Configs, QueueCap <- InboxCap
Vio == INSTANCE VioRunner WITH
    Threads <- VioThreads, Values <- VioValues, MaxTime <- VioTime, MaxCalls <- VioCalls,
    row <- vioRow, req <- vioReq, calls <- vioCalls
Calib == INSTANCE Calibration WITH row <- result
Log == INSTANCE ImuLog WITH
    Clients <- LogClients, MaxCalls <- LogCalls, queue <- imuQueue, req <- imuReq,
    row <- imuRow, told <- imuTold, time <- imuTime, calls <- imuCalls
Stream == INSTANCE StreamPeers WITH running <- peersRunning

ASSUME Assumptions ==
    /\ Fusion!FusionAssumption
    /\ Vio!VioAssumption
    /\ Calib!CalibAssumption
    /\ Log!ImuLogAssumption
    /\ Stream!PeersAssumption

-----------------------------------------------------------------------------
fusionVars == <<row, active, period, caller, queue, lostOrder, batch, engine, snapshot,
    sending, running, stopFlag, stopping, closed, puts, events>>
vioVars == <<vioRow, second, vioReq, runner, pairs, shut, imu, subscribed, time, epoch,
    filters, out, vioCalls>>
calibVars == <<phase, sessions, ext, slot, mu, req, jobs, result, told, sse, calls>>
logVars == <<recording, sub, thread, drain, imuQueue, attached, log, imuReq, last,
    imuRow, imuTold, imuTime, samples, imuCalls, crashed>>
peersVars == <<at, conn, cb, fired, owed, calling, pending, peers, purging, worker,
    peersRunning, wantKey, encoding, sinceKey, decoding, dangled>>
vars == <<part, fusionVars, vioVars, calibVars, logVars, peersVars>>

\* The variables of a component that is not in this behaviour.
NoFusion ==
    /\ row = None /\ active = None /\ period = None /\ caller = None /\ queue = None
    /\ lostOrder = None /\ batch = None /\ engine = None /\ snapshot = None
    /\ sending = None /\ running = None /\ stopFlag = None /\ stopping = None
    /\ closed = None /\ puts = None /\ events = None
NoVio ==
    /\ vioRow = None /\ second = None /\ vioReq = None /\ runner = None /\ pairs = None
    /\ shut = None /\ imu = None /\ subscribed = None /\ time = None /\ epoch = None
    /\ filters = None /\ out = None /\ vioCalls = None
NoCalib ==
    /\ phase = None /\ sessions = None /\ ext = None /\ slot = None /\ mu = None
    /\ req = None /\ jobs = None /\ result = None /\ told = None /\ sse = None
    /\ calls = None
NoLog ==
    /\ recording = None /\ sub = None /\ thread = None /\ drain = None
    /\ imuQueue = None /\ attached = None /\ log = None /\ imuReq = None /\ last = None
    /\ imuRow = None /\ imuTold = None /\ imuTime = None /\ samples = None
    /\ imuCalls = None /\ crashed = None
NoPeers ==
    /\ at = None /\ conn = None /\ cb = None /\ fired = None /\ owed = None
    /\ calling = None /\ pending = None /\ peers = None /\ purging = None
    /\ worker = None /\ peersRunning = None /\ wantKey = None /\ encoding = None
    /\ sinceKey = None /\ decoding = None /\ dangled = None

Init ==
    \/ part = "Fusion" /\ Fusion!Init
       /\ NoVio /\ NoCalib /\ NoLog /\ NoPeers
    \/ part = "Vio" /\ Vio!Init
       /\ NoFusion /\ NoCalib /\ NoLog /\ NoPeers
    \/ part = "Calib" /\ Calib!Init
       /\ NoFusion /\ NoVio /\ NoLog /\ NoPeers
    \/ part = "Log" /\ Log!Init
       /\ NoFusion /\ NoVio /\ NoCalib /\ NoPeers
    \/ part = "Peers" /\ Stream!Init
       /\ NoFusion /\ NoVio /\ NoCalib /\ NoLog

\* A step of component p leaves the others alone.
Only(p) ==
    /\ part = p /\ UNCHANGED part
    /\ p # "Fusion" => UNCHANGED fusionVars
    /\ p # "Vio" => UNCHANGED vioVars
    /\ p # "Calib" => UNCHANGED calibVars
    /\ p # "Log" => UNCHANGED logVars
    /\ p # "Peers" => UNCHANGED peersVars

Next ==
    \/ part = "Fusion" /\ Fusion!Next /\ Only("Fusion")
    \/ part = "Vio" /\ Vio!Next /\ Only("Vio")
    \/ part = "Calib" /\ Calib!Next /\ Only("Calib")
    \/ part = "Log" /\ Log!Next /\ Only("Log")
    \/ part = "Peers" /\ Stream!Next /\ Only("Peers")

Spec == Init /\ [][Next]_vars

-----------------------------------------------------------------------------
(* Properties: those of the components, each in its own behaviours.         *)

\* Every variable of every component has its type.
TypeOK ==
    /\ part = "Fusion" => Fusion!TypeOK
    /\ part = "Vio" => Vio!TypeOK
    /\ part = "Calib" => Calib!TypeOK
    /\ part = "Log" => Log!TypeOK
    /\ part = "Peers" => Stream!TypeOK

\* Once the requests under way have returned and the queue is empty, the fusion engine and
\* the odometry runner are those the rows of the database ask for, whatever the order the
\* requests committed and reloaded in; and noise figures applied have reached fusion.
ServicesFollowRows ==
    /\ part = "Fusion" => Fusion!EngineFollowsRow
    /\ part = "Vio" => Vio!RunnerFollowsRow
    /\ part = "Log" => Log!FusionTold

\* Odometry of one epoch comes from one filter, in increasing time.
EpochPerFilter == [][part = "Vio" => Vio!OdometryNext]_vars

\* One calibration job runs at a time, no camera is in two recordings, and one IMU log is
\* recorded, by a thread that its subscription feeds.
OneJobOneRecording ==
    /\ part = "Calib" => Calib!OneJobOneRecording
    /\ part = "Log" => Log!OneRecording

\* A job is marked stored exactly when every camera took its result, and the camera
\* supervisor then has what the rows hold.
ResultsReachCameras == part = "Calib" => Calib!ResultsReachCameras
=============================================================================
