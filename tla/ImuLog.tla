-------------------------------- MODULE ImuLog --------------------------------
(***************************************************************************)
(* src/src/server/imu_log_recorder.cpp and imu_allan_service.cpp: a drain   *)
(* thread writes the samples of the IMU bus to a log until it spans the     *)
(* length asked for or is stopped, an analysis reads a log, and applying it *)
(* writes the noise figures to imu_config.  HTTP threads make the calls.    *)
(* A sample is its time stamp; the figures are the recording they are of.   *)
(***************************************************************************)
EXTENDS Naturals, Sequences, FiniteSets, SequencesExt

CONSTANTS
    Clients,      \* HTTP threads
    Span,         \* duration_s, in ticks of the samples' clock
    Enough,       \* samples an analysis asks for, 1000 in the code
    MaxSessions, MaxSamples, MaxCalls,   \* bounds
    None

\* A recording's number is never taken for None.
ImuLogAssumption == MaxSamples \in Nat /\ MaxCalls \in Nat /\ None \notin Nat

VARIABLES
    recording, sub, thread,  \* the fields of Impl; sub and thread name a recording
    drain,     \* the drain thread of each recording started: where it is
    queue,     \* its subscription: the samples waiting
    attached,  \* recordings whose subscription the bus still holds
    log,       \* the samples in its file
    req,       \* what each HTTP thread is doing, and the recording it holds
    last,      \* last_: the recording last analysed
    row, told, \* imu_config's figures, and those fusion was last told of
    time, samples, calls,
    crashed    \* a joinable std::thread was assigned to: std::terminate

impl  == <<recording, sub, thread>>
files == <<drain, queue, attached, log>>
allan == <<last, row, told>>
world == <<time, samples, crashed>>
vars  == <<impl, files, req, allan, world, calls>>

Idle     == [at |-> "idle", of |-> None]
Joined(k) == k # None => drain[k] = "ended"
Reply(c) == req' = [req EXCEPT ![c] = Idle]
Goto(c, at, k) == req' = [req EXCEPT ![c] = [at |-> at, of |-> k]]

Init ==
    /\ recording = FALSE /\ sub = None /\ thread = None
    /\ drain = <<>> /\ queue = <<>> /\ attached = {} /\ log = <<>>
    /\ req = [c \in Clients |-> Idle]
    /\ last = None /\ row = None /\ told = None
    /\ time = 0 /\ samples = 0 /\ calls = 0 /\ crashed = FALSE

\* A call arrives at an idle HTTP thread.
Call(c) == req[c] = Idle /\ calls < MaxCalls /\ calls' = calls + 1 /\ ~crashed

-----------------------------------------------------------------------------
(* Recording.                                                               *)

\* start() takes the thread of the recording before, to join it with mu free.
StartChecks(c) ==
    /\ Call(c) /\ ~recording
    /\ Goto(c, "start", thread) /\ thread' = None
    /\ UNCHANGED <<recording, sub, files, allan, world>>

\* Once that has ended: refused if another start() came first, or the file does not open.
StartRefused(c) ==
    /\ req[c].at = "start" /\ Joined(req[c].of) /\ ~crashed
    /\ Reply(c)
    /\ UNCHANGED <<impl, files, allan, world, calls>>

\* Else it subscribes and starts the thread.
StartBegins(c) ==
    /\ req[c].at = "start" /\ Joined(req[c].of) /\ ~crashed
    /\ ~recording /\ Len(drain) < MaxSessions /\ thread = None
    /\ LET k == Len(drain) + 1 IN
       /\ recording' = TRUE /\ sub' = k /\ thread' = k
       /\ drain' = Append(drain, "pop") /\ attached' = attached \cup {k}
       /\ queue' = Append(queue, <<>>) /\ log' = Append(log, <<>>)
    /\ Reply(c)
    /\ UNCHANGED <<allan, world, calls>>

\* A start() whose recording has come and gone meanwhile left a thread nobody joined.
StartOverThread(c) ==
    /\ req[c].at = "start" /\ Joined(req[c].of) /\ ~crashed
    /\ ~recording /\ thread # None
    /\ crashed' = TRUE
    /\ UNCHANGED <<impl, files, req, allan, time, samples, calls>>

\* stop() ends the subscription, which wakes the thread, and joins it with mu free.
Stop(c) ==
    /\ Call(c) /\ (recording \/ thread # None)
    /\ attached' = attached \ {sub} /\ sub' = None
    /\ Goto(c, "stop", thread) /\ thread' = None
    /\ UNCHANGED <<recording, drain, queue, log, allan, world>>

StopJoins(c) ==
    /\ req[c].at = "stop" /\ Joined(req[c].of) /\ ~crashed
    /\ Reply(c)
    /\ UNCHANGED <<impl, files, allan, world, calls>>

\* The difference of two time stamps is unsigned: one that went back is far ahead.
Spans(t0, t) == t < t0 \/ t - t0 >= Span

\* wait_pop() of a subscription that ended returns at once, whatever is queued.
DrainTakes(k) ==
    /\ drain[k] = "pop" /\ k \in attached /\ queue[k] # <<>> /\ ~crashed
    /\ LET file == Append(log[k], Head(queue[k])) IN
       /\ log' = [log EXCEPT ![k] = file]
       /\ drain' = [drain EXCEPT ![k] =
                       IF Spans(Head(file), Last(file)) THEN "exit" ELSE "pop"]
    /\ queue' = [queue EXCEPT ![k] = Tail(@)]
    /\ UNCHANGED <<impl, attached, req, allan, world, calls>>

DrainWoken(k) ==
    /\ drain[k] = "pop" /\ k \notin attached /\ ~crashed
    /\ drain' = [drain EXCEPT ![k] = "exit"]
    /\ UNCHANGED <<impl, queue, attached, log, req, allan, world, calls>>

\* The thread flushes the file and, under mu, ends the subscription if stop() has not.
DrainEnds(k) ==
    /\ drain[k] = "exit" /\ ~crashed
    /\ drain' = [drain EXCEPT ![k] = "ended"]
    /\ attached' = attached \ {sub} /\ sub' = None
    /\ recording' = FALSE
    /\ UNCHANGED <<thread, queue, log, req, allan, world, calls>>

-----------------------------------------------------------------------------
(* Analysis.                                                                *)

\* analyze() looks for a recording, then opens the newest log.
AnalyzeChecks(c) ==
    /\ Call(c) /\ ~recording
    /\ Goto(c, "analyze", None)
    /\ UNCHANGED <<impl, files, allan, world>>

\* A log that is too short, or spans no time, is refused.
AnalyzeReads(c) ==
    /\ req[c].at = "analyze" /\ ~crashed
    /\ LET k == Len(drain) IN
       last' = IF k > 0 /\ Len(log[k]) >= Enough /\ Head(log[k]) # Last(log[k])
               THEN k ELSE last
    /\ Reply(c)
    /\ UNCHANGED <<impl, files, row, told, world, calls>>

\* apply() copies the analysis, then writes the row; the route reloads fusion.
ApplyCopies(c) ==
    /\ Call(c) /\ last # None
    /\ Goto(c, "apply", last)
    /\ UNCHANGED <<impl, files, allan, world>>

ApplyWrites(c) ==
    /\ req[c].at = "apply" /\ ~crashed
    /\ row' = req[c].of /\ Goto(c, "reload", None)
    /\ UNCHANGED <<impl, files, last, told, world, calls>>

\* FusionSupervisor::reload(), modelled in FusionSupervisor, reads the row again.
ApplyReloads(c) ==
    /\ req[c].at = "reload" /\ ~crashed
    /\ told' = row /\ Reply(c)
    /\ UNCHANGED <<impl, files, last, row, world, calls>>

-----------------------------------------------------------------------------
\* A sample reaches every subscription; the clock starts again when the controller reboots.
Sample ==
    /\ samples < MaxSamples /\ ~crashed
    /\ time' \in {time + 1, 1} /\ samples' = samples + 1
    /\ queue' = [k \in DOMAIN queue |-> IF k \in attached THEN Append(queue[k], time')
                                        ELSE queue[k]]
    /\ UNCHANGED <<impl, drain, attached, log, req, allan, crashed, calls>>

Client(c) ==
    \/ StartRefused(c) \/ StartBegins(c) \/ StartOverThread(c) \/ StopJoins(c)
    \/ AnalyzeReads(c) \/ ApplyWrites(c) \/ ApplyReloads(c)

Drain(k) == DrainTakes(k) \/ DrainWoken(k) \/ DrainEnds(k)

Next ==
    \/ Sample
    \/ \E c \in Clients : \/ StartChecks(c) \/ Stop(c) \/ AnalyzeChecks(c)
                          \/ ApplyCopies(c) \/ Client(c)
    \/ \E k \in DOMAIN drain : Drain(k)

-----------------------------------------------------------------------------
Sessions == 1..Len(drain)

\* Every variable has its type.
TypeOK ==
    /\ recording \in BOOLEAN /\ crashed \in BOOLEAN
    /\ {sub, thread, last, row, told} \subseteq Sessions \cup {None}
    /\ drain \in Seq({"pop", "exit", "ended"})
    /\ queue \in [Sessions -> Seq(0..MaxSamples)] /\ log \in [Sessions -> Seq(0..MaxSamples)]
    /\ attached \subseteq Sessions
    /\ req \in [Clients -> [at : {"idle", "start", "stop", "analyze", "apply", "reload"},
                            of : Sessions \cup {None}]]
    /\ time \in 0..MaxSamples /\ samples \in 0..MaxSamples /\ calls \in 0..MaxCalls

\* One recording at a time, through starts that overlap, recordings that end by themselves
\* and stops at any moment: recording says whether a drain thread is under way, sub is its
\* subscription, and the bus fills no queue that nobody reads.
OneRecording ==
    /\ Cardinality({k \in Sessions : drain[k] # "ended"}) = (IF recording THEN 1 ELSE 0)
    /\ sub # None => attached = {sub} /\ drain[sub] # "ended"
    /\ sub = None => attached = {}

\* With no request under way fusion has the figures of the row.
FusionTold == (\A c \in Clients : req[c] = Idle) => told = row
=============================================================================
