----------------------------- MODULE Calibration ----------------------------
(***************************************************************************)
(* src/src/server/calibration_supervisor.cpp, its routes                      *)
(* (routes_calibration.cpp), the jobs it runs (kalibr_job.cpp,                *)
(* kalibr_imu_job.cpp) over subprocess_job.cpp, and the handlers that stream a *)
(* job's log.  Kalibr itself is a child that exits with some code or dies of  *)
(* a signal; the log's text, the manifest and the lens arithmetic are left    *)
(* out.  A job is "cam" (one camera's intrinsics) or "imu" (the extrinsics of *)
(* one or two cameras).                                                       *)
(***************************************************************************)
EXTENDS Integers, Sequences, FiniteSets

CONSTANTS
    Cams,
    Clients,     \* HTTP threads
    Streams,     \* HTTP threads that serve a job's log
    MaxJobs,     \* bound: jobs started
    MaxCalls,    \* bound: requests
    None

\* A job's number or a client is never taken for None.
CalibAssumption == None \notin Nat /\ None \notin Clients

VARIABLES
    phase,       \* "up", then "closing" and "closed" once main() returns
    sessions,    \* sessions_: cameras whose intrinsics are being recorded
    ext,         \* ext_session_: its cameras, {} when there is none
    slot,        \* kind -> kalibr_job_ or imu_job_: a job's number or None
    mu,          \* the client that holds mu_, or None
    req,         \* what each client is doing
    jobs,        \* the jobs started so far
    row,         \* camera -> the job whose result its row holds (0: none)
    told,        \* camera -> row[camera] when on_camera_updated() last read it
    sse,         \* stream -> the log it serves, or the done event it ended with
    calls

vars == <<phase, sessions, ext, slot, mu, req, jobs, row, told, sse, calls>>

Kinds   == {"cam", "imu"}
Idle    == [at |-> "idle", kind |-> "cam", cams |-> {}]
NoLog   == [at |-> "idle", job |-> 0, stored |-> FALSE, error |-> FALSE]
Running(j) == jobs[j].state = "Running"
Gone(j) == jobs[j].reader = "gone"
Held(j) == \E s \in Streams : sse[s].at # "idle" /\ sse[s].job = j
SetJob(j, f, v) == jobs' = [jobs EXCEPT ![j][f] = v]

Init ==
    /\ phase = "up" /\ sessions = {} /\ ext = {}
    /\ slot = [k \in Kinds |-> None] /\ mu = None
    /\ req = [c \in Clients |-> Idle]
    /\ jobs = <<>>
    /\ row = [c \in Cams |-> 0] /\ told = row
    /\ sse = [s \in Streams |-> NoLog] /\ calls = 0

-----------------------------------------------------------------------------
(* Recording sessions.  Starting one happens under mu_; a refusal or a failed *)
(* start leaves nothing behind.                                              *)

Free(c) ==
    /\ phase = "up" /\ mu = None /\ req[c].at = "idle"
    /\ calls < MaxCalls /\ calls' = calls + 1

StartSession(c) ==
    /\ Free(c)
    /\ \E k \in Cams \ (sessions \cup ext) : sessions' = sessions \cup {k}
    /\ UNCHANGED <<phase, ext, slot, mu, req, jobs, row, told, sse>>

StartExtrinsics(c) ==
    /\ Free(c) /\ ext = {}
    /\ \E ks \in SUBSET (Cams \ sessions) :
          Cardinality(ks) \in {1, 2} /\ ext' = ks
    /\ UNCHANGED <<phase, sessions, slot, mu, req, jobs, row, told, sse>>

\* stop(): the session is taken out under mu_; its threads are joined outside.
StopSession(c) ==
    /\ Free(c)
    /\ \E k \in sessions :
          /\ sessions' = sessions \ {k}
          /\ req' = [req EXCEPT ![c] = [at |-> "launch", kind |-> "cam", cams |-> {k}]]
    /\ UNCHANGED <<phase, ext, slot, mu, jobs, row, told, sse>>

StopExtrinsics(c) ==
    /\ Free(c) /\ ext # {} /\ ext' = {}
    /\ req' = [req EXCEPT ![c] = [at |-> "launch", kind |-> "imu", cams |-> ext]]
    /\ UNCHANGED <<phase, sessions, slot, mu, jobs, row, told, sse>>

\* Mutant of Launch: only a running job of the same kind refuses.
LaunchOfKind(c) ==
    /\ req[c].at = "launch" /\ mu = None
    /\ IF slot[req[c].kind] # None /\ Running(slot[req[c].kind])
       THEN /\ req' = [req EXCEPT ![c] = Idle] /\ UNCHANGED mu
       ELSE /\ mu' = c /\ req' = [req EXCEPT ![c].at = "reap"]
    /\ UNCHANGED <<phase, sessions, ext, slot, jobs, row, told, sse, calls>>

\* start_kalibr_job() and start_imu_job() take mu_; a job of either kind that runs
\* refuses them.
Launch(c) ==
    /\ req[c].at = "launch" /\ mu = None
    /\ IF \E k \in Kinds : slot[k] # None /\ Running(slot[k])
       THEN /\ req' = [req EXCEPT ![c] = Idle] /\ UNCHANGED mu
       ELSE /\ mu' = c /\ req' = [req EXCEPT ![c].at = "reap"]
    /\ UNCHANGED <<phase, sessions, ext, slot, jobs, row, told, sse, calls>>

\* Releasing the last pointer to a finished job joins its reader, with mu_ held; then the
\* new job's child is forked and its reader started, or the fork fails.
Reap(c) ==
    /\ req[c].at = "reap" /\ mu = c /\ mu' = None
    /\ \A k \in Kinds : slot[k] # None => Gone(slot[k]) \/ Held(slot[k])
    /\ \/ slot' = [k \in Kinds |-> None] /\ UNCHANGED jobs
       \/ /\ Len(jobs) < MaxJobs
          /\ slot' = [k \in Kinds |-> IF k = req[c].kind THEN Len(jobs) + 1 ELSE None]
          /\ jobs' = Append(jobs,
                [kind |-> req[c].kind, cams |-> req[c].cams, state |-> "Running",
                 child |-> "forked", reader |-> "read", cancel |-> FALSE,
                 ok |-> {}, stored |-> FALSE, error |-> FALSE])
    /\ req' = [req EXCEPT ![c] = Idle]
    /\ UNCHANGED <<phase, sessions, ext, row, told, sse, calls>>

\* kalibr_job_cancel() and imu_job_cancel() find a running job under mu_ ...
FindToCancel(c) ==
    /\ Free(c)
    /\ \E k \in Kinds :
          /\ slot[k] # None /\ Running(slot[k])
          /\ req' = [req EXCEPT ![c] = [at |-> "cancel", kind |-> k, cams |-> {slot[k]}]]
    /\ UNCHANGED <<phase, sessions, ext, slot, mu, jobs, row, told, sse>>

\* ... SubprocessJob::cancel(): the first one signals the process group, which exists
\* once the child has called setpgid() and until it is reaped.
Signalled(job) == [job EXCEPT
    !.cancel = TRUE,
    !.child = IF ~job.cancel /\ job.state = "Running" /\ @ = "grouped"
              THEN "signalled" ELSE @]

Cancel(c) ==
    /\ req[c].at = "cancel"
    /\ LET j == CHOOSE n \in req[c].cams : TRUE IN
       jobs' = [jobs EXCEPT ![j] = Signalled(@)]
    /\ req' = [req EXCEPT ![c] = Idle]
    /\ UNCHANGED <<phase, sessions, ext, slot, mu, row, told, sse, calls>>

-----------------------------------------------------------------------------
(* A job's child and the thread that reads it.                              *)

Setpgid(j) ==
    /\ jobs[j].child = "forked" /\ SetJob(j, "child", "grouped")
    /\ UNCHANGED <<phase, sessions, ext, slot, mu, req, row, told, sse, calls>>

\* Exit code 0 or not; SIGTERM ends it either way.
ChildExits(j) ==
    /\ jobs[j].child \in {"grouped", "signalled"}
    /\ \E code \in {"ok", "bad"} :
         /\ jobs[j].child = "signalled" => code = "bad"
         /\ SetJob(j, "child", code)
    /\ UNCHANGED <<phase, sessions, ext, slot, mu, req, row, told, sse, calls>>

\* reader_loop(): end of file, waitpid(), and the final state is stored.
ReadEnd(j) ==
    /\ jobs[j].reader = "read" /\ jobs[j].child \in {"ok", "bad"}
    /\ jobs' = [jobs EXCEPT
          ![j].state = IF jobs[j].cancel THEN "Cancelled"
                       ELSE IF jobs[j].child = "ok" THEN "Succeeded" ELSE "Failed",
          ![j].reader = IF jobs[j].child = "ok" /\ ~jobs[j].cancel THEN "store" ELSE "notify"]
    /\ UNCHANGED <<phase, sessions, ext, slot, mu, req, row, told, sse, calls>>

\* handle_exit(): the result goes to the rows that take it (none when the file is missing);
\* an intrinsics job is marked stored before the cameras are told.
Store(j) ==
    /\ jobs[j].reader = "store"
    /\ \E ok \in SUBSET jobs[j].cams :
         /\ row' = [k \in Cams |-> IF k \in ok THEN j ELSE row[k]]
         /\ jobs' = [jobs EXCEPT ![j].ok = ok, ![j].reader = "tell",
               ![j].stored = jobs[j].kind = "cam" /\ ok # {},
               ![j].error = jobs[j].kind = "cam" /\ ok = {}]
    /\ UNCHANGED <<phase, sessions, ext, slot, mu, req, told, sse, calls>>

\* Mutant of Tell: an extrinsics job is stored once one camera took its result.
TellIfAny(j) ==
    /\ jobs[j].reader = "tell"
    /\ told' = [k \in Cams |-> IF k \in jobs[j].ok THEN row[k] ELSE told[k]]
    /\ jobs' = [jobs EXCEPT ![j].reader = "notify", ![j].stored = jobs[j].ok # {},
                            ![j].error = jobs[j].ok = {}]
    /\ UNCHANGED <<phase, sessions, ext, slot, mu, req, row, sse, calls>>

\* on_stored_: CameraSupervisor::on_camera_updated() reads the row again; an extrinsics
\* job is marked stored after it, and only when every camera took its result.
Tell(j) ==
    /\ jobs[j].reader = "tell"
    /\ told' = [k \in Cams |-> IF k \in jobs[j].ok THEN row[k] ELSE told[k]]
    /\ jobs' = [jobs EXCEPT ![j].reader = "notify",
          ![j].stored = jobs[j].ok = jobs[j].cams,
          ![j].error = jobs[j].ok # jobs[j].cams]
    /\ UNCHANGED <<phase, sessions, ext, slot, mu, req, row, sse, calls>>

Notify(j) ==
    /\ jobs[j].reader = "notify" /\ SetJob(j, "reader", "gone")
    /\ UNCHANGED <<phase, sessions, ext, slot, mu, req, row, told, sse, calls>>

-----------------------------------------------------------------------------
(* stream_job_log_sse(): a copy of the pointer is taken under mu_; every      *)
(* return of wait_for_log() (bytes, the end, or its timeout) is followed by a *)
(* look at the status.                                                       *)

OpenLog(s) ==
    /\ phase = "up" /\ mu = None /\ sse[s].at = "idle" /\ calls < MaxCalls
    /\ calls' = calls + 1
    /\ \E k \in Kinds : slot[k] # None /\ sse' = [sse EXCEPT ![s] =
          [at |-> "streaming", job |-> slot[k], stored |-> FALSE, error |-> FALSE]]
    /\ UNCHANGED <<phase, sessions, ext, slot, mu, req, jobs, row, told>>

SendDone(s) ==
    /\ sse[s].at = "streaming" /\ ~Running(sse[s].job)
    /\ sse' = [sse EXCEPT ![s].at = "done", ![s].stored = jobs[sse[s].job].stored,
                          ![s].error = jobs[sse[s].job].error]
    /\ UNCHANGED <<phase, sessions, ext, slot, mu, req, jobs, row, told, calls>>

\* The handler returns and drops its pointer: the last one joins the reader.
CloseLog(s) ==
    /\ sse[s].at = "done"
    /\ Gone(sse[s].job) \/ \E k \in Kinds : slot[k] = sse[s].job
    /\ sse' = [sse EXCEPT ![s] = NoLog]
    /\ UNCHANGED <<phase, sessions, ext, slot, mu, req, jobs, row, told, calls>>

\* ~CalibrationSupervisor(), after the server: recordings end, running jobs are
\* cancelled, and the readers joined.
Destroy ==
    /\ phase = "up" /\ \A c \in Clients : req[c].at = "idle"
    /\ \A s \in Streams : sse[s].at = "idle"
    /\ phase' = "closing" /\ sessions' = {} /\ ext' = {}
    /\ jobs' = [j \in DOMAIN jobs |->
          IF \E k \in Kinds : slot[k] = j THEN Signalled(jobs[j]) ELSE jobs[j]]
    /\ UNCHANGED <<slot, mu, req, row, told, sse, calls>>

Destroyed ==
    /\ phase = "closing" /\ \A j \in DOMAIN jobs : Gone(j)
    /\ phase' = "closed"
    /\ UNCHANGED <<sessions, ext, slot, mu, req, jobs, row, told, sse, calls>>

Client(c) == Launch(c) \/ Reap(c) \/ Cancel(c)
Child(j)  == Setpgid(j) \/ ChildExits(j)
Reader(j) == ReadEnd(j) \/ Store(j) \/ Tell(j) \/ Notify(j)
Stream(s) == SendDone(s) \/ CloseLog(s)

Next ==
    \/ \E c \in Clients :
         \/ StartSession(c) \/ StartExtrinsics(c) \/ StopSession(c) \/ StopExtrinsics(c)
         \/ Launch(c) \/ Reap(c) \/ FindToCancel(c) \/ Cancel(c)
    \/ \E j \in DOMAIN jobs : Setpgid(j) \/ ChildExits(j) \/ Reader(j)
    \/ \E s \in Streams : OpenLog(s) \/ SendDone(s) \/ CloseLog(s)
    \/ Destroy \/ Destroyed

Spec == Init /\ [][Next]_vars

\* Threads run, and Kalibr ends some day; nobody has to ask for anything.
Fairness ==
    /\ \A c \in Clients : WF_vars(Client(c))
    /\ \A j \in 1..MaxJobs :
         /\ WF_vars(j \in DOMAIN jobs /\ Child(j))
         /\ WF_vars(j \in DOMAIN jobs /\ Reader(j))
    /\ \A s \in Streams : WF_vars(Stream(s))
    /\ WF_vars(Destroyed)

FairSpec == Spec /\ Fairness

-----------------------------------------------------------------------------
TypeOK ==
    /\ phase \in {"up", "closing", "closed"} /\ mu \in Clients \cup {None}
    /\ sessions \subseteq Cams /\ ext \subseteq Cams
    /\ \A k \in Kinds : slot[k] \in DOMAIN jobs \cup {None}
    /\ \A c \in Clients : req[c].at \in {"idle", "launch", "reap", "cancel"}
    /\ \A j \in DOMAIN jobs :
         jobs[j].reader \in {"read", "store", "tell", "notify", "gone"}
    /\ \A s \in Streams : sse[s].at \in {"idle", "streaming", "done"}

\* calibration_supervisor.hpp:151: however sessions end and whoever starts a job, one job
\* of either kind runs, and no camera is in two recordings.
OneJobOneRecording ==
    /\ Cardinality({j \in DOMAIN jobs : Running(j)}) <= 1
    /\ sessions \cap ext = {}

\* Once a job's reader is gone, it is marked stored exactly when it succeeded and every
\* camera took its result; and once no reader is at work, the camera supervisor has read
\* what every row holds (handle_exit(), on_stored_).
ResultsReachCameras ==
    /\ \A j \in DOMAIN jobs : Gone(j) =>
         /\ jobs[j].stored <=> (jobs[j].state = "Succeeded" /\ jobs[j].ok = jobs[j].cams)
         /\ jobs[j].state = "Succeeded" => jobs[j].stored # jobs[j].error
    /\ (\A j \in DOMAIN jobs : jobs[j].reader # "tell") => told = row

\* A log being streamed ends, and so does a request that waits for a finished job's reader
\* with mu_ held, and the destructor.
EverybodyReturns ==
    /\ \A s \in Streams : sse[s].at = "streaming" ~> sse[s].at = "idle"
    /\ \A c \in Clients : req[c].at = "reap" ~> req[c].at = "idle"
    /\ phase = "closing" ~> phase = "closed"

\* subprocess_job.hpp: on_exit "fires before the final cv_ notify so SSE subscribers see a
\* consistent terminal state when they wake": a done event says how the job ended.
DoneTellsOutcome == \A s \in Streams :
    sse[s].at = "done" /\ jobs[sse[s].job].state = "Succeeded"
        => sse[s].stored \/ sse[s].error
=============================================================================
