----------------------------- MODULE VioRunner ------------------------------
(***************************************************************************)
(* Who runs the odometry estimator, and how: VioSupervisor                    *)
(* (src/src/server/vio_supervisor.cpp) builds, rebuilds and stops the          *)
(* OpenVinsRunner (src/src/vio/openvins_runner.cpp) that the rows ask for, and  *)
(* the runner's thread turns stereo pairs and IMU samples into odometry.       *)
(* OpenVINS is external: a filter with an identity, that is or is not          *)
(* initialised and may diverge.  The pairer is its queue of pairs (StereoSync  *)
(* has the rest of it).  The rows the supervisor reads are one: whether a       *)
(* runner can be built of them (ok), their content, and the time of the last    *)
(* write in whole seconds (stamp), as the tables keep it.                       *)
(***************************************************************************)
EXTENDS Integers, Sequences, FiniteSets

CONSTANTS
    Threads,     \* HTTP and camera threads that call the supervisor
    Values,      \* contents of the rows
    MaxGap,      \* kMaxPairGapNs
    Window,      \* reinit_window_frames
    MaxTime,     \* bound: IMU samples, and so pairs
    MaxSeconds,  \* bound on the clock of the tables
    MaxCalls,    \* bound: requests
    None

VARIABLES
    row, second,
    req,         \* thread -> "idle", "reload" (wants mu_) or "rebuild" what it read
    runner,      \* runner_ and the state of its thread, or None
    pairs, shut, \* the pairer's pairs and shutdown_
    imu, subscribed,   \* the runner's queue on the IMU bus
    time,
    epoch,       \* the supervisor's epoch_
    filters,     \* filters built so far: a filter's identity (history)
    out,         \* the last odometry published
    calls

vars == <<row, second, req, runner, pairs, shut, imu, subscribed, time, epoch, filters, out,
          calls>>

Lead == 1        \* kImuLeadNs: the sample after the pair's
NoOdometry == [t |-> 0, epoch |-> 0, filter |-> 0, covered |-> TRUE]
Idle == [at |-> "idle", target |-> None]
Waiting(t) == req[t].at = "rebuild"
Locked == \E t \in Threads : Waiting(t)
Target(ok, val, stamp) == [ok |-> ok, val |-> val, stamp |-> stamp]
Contents == [ok : BOOLEAN, val : Values]
Runners == [val : Values, stamp : Nat, filter : Nat, at : {"pop", "imu", "feed", "gone"},
            t : Nat, lastImu : Nat, lastPair : Nat, low : Nat, reinit : BOOLEAN]

\* A runner is never taken for None.
VioAssumption == None \notin Runners

Init ==
    /\ row \in {Target(c.ok, c.val, 0) : c \in Contents} /\ second = 0
    /\ req = [t \in Threads |-> Idle]
    /\ runner = None /\ pairs = <<>> /\ shut = FALSE
    /\ imu = <<>> /\ subscribed = FALSE
    /\ time = 0 /\ epoch = 0 /\ filters = 0 /\ out = NoOdometry /\ calls = 0

-----------------------------------------------------------------------------
(* The supervisor.                                                          *)

NextSecond ==
    /\ second < MaxSeconds /\ second' = second + 1
    /\ UNCHANGED <<row, req, runner, pairs, shut, imu, subscribed, time, epoch, filters, out,
                   calls>>

\* A row is written: PUT /api/vio/config, PUT /api/imu/config, a role or a calibration; the
\* same thread then calls reload() or make_consumer().
Put(t) ==
    /\ req[t].at = "idle" /\ calls < MaxCalls /\ calls' = calls + 1
    /\ \E c \in Contents : row' = Target(c.ok, c.val, second)
    /\ req' = [req EXCEPT ![t].at = "reload"]
    /\ UNCHANGED <<second, runner, pairs, shut, imu, subscribed, time, epoch, filters, out>>

\* Mutant of Reload: the old runner is joined without shutting its pairer.
ReloadWithoutShutdown(t) ==
    /\ req[t].at = "reload" /\ ~Locked
    /\ IF (~row.ok /\ runner = None) \/ (row.ok /\ runner # None /\ runner.stamp = row.stamp)
       THEN req' = [req EXCEPT ![t] = Idle] /\ UNCHANGED subscribed
       ELSE req' = [req EXCEPT ![t] = [at |-> "rebuild", target |-> row]] /\ subscribed' = FALSE
    /\ UNCHANGED <<row, second, runner, pairs, shut, imu, time, epoch, filters, out, calls>>

\* ensure_runner_locked(), mu_ taken: nothing to do when the fingerprint (ids and write
\* times) is the runner's; otherwise ~OpenVinsRunner() shuts the pairer and unsubscribes.
Reload(t) ==
    /\ req[t].at = "reload" /\ ~Locked
    /\ IF (~row.ok /\ runner = None) \/ (row.ok /\ runner # None /\ runner.stamp = row.stamp)
       THEN req' = [req EXCEPT ![t] = Idle] /\ UNCHANGED <<shut, subscribed>>
       ELSE /\ req' = [req EXCEPT ![t] = [at |-> "rebuild", target |-> row]]
            /\ shut' = (shut \/ runner # None) /\ subscribed' = FALSE
    /\ UNCHANGED <<row, second, runner, pairs, imu, time, epoch, filters, out, calls>>

\* Mutant of Rebuild: the pairer stays shut.
RebuildOnShutPairer(t) ==
    /\ Waiting(t) /\ (runner # None => runner.at = "gone")
    /\ req' = [req EXCEPT ![t] = Idle]
    /\ \/ ~req[t].target.ok /\ runner' = None
          /\ UNCHANGED <<pairs, shut, imu, subscribed, epoch, filters>>
       \/ /\ req[t].target.ok /\ imu' = <<>> /\ subscribed' = TRUE
          /\ epoch' = epoch + 1 /\ filters' = filters + 1
          /\ runner' = [val |-> req[t].target.val, stamp |-> req[t].target.stamp,
                        filter |-> filters + 1, at |-> "pop", t |-> 0, lastImu |-> 0,
                        lastPair |-> 0, low |-> 0, reinit |-> FALSE]
          /\ UNCHANGED <<pairs, shut>>
    /\ UNCHANGED <<row, second, time, out, calls>>

\* The old thread is joined; the pairer is reset and the new runner built, if one can be.
Rebuild(t) ==
    /\ Waiting(t) /\ (runner # None => runner.at = "gone")
    /\ req' = [req EXCEPT ![t] = Idle]
    /\ \/ /\ ~req[t].target.ok /\ runner' = None
          /\ UNCHANGED <<pairs, shut, imu, subscribed, epoch, filters>>
       \/ /\ req[t].target.ok /\ pairs' = <<>> /\ shut' = FALSE
          /\ imu' = <<>> /\ subscribed' = TRUE
          /\ epoch' = epoch + 1 /\ filters' = filters + 1
          /\ runner' = [val |-> req[t].target.val, stamp |-> req[t].target.stamp, filter |-> filters + 1,
                        at |-> "pop", t |-> 0, lastImu |-> 0, lastPair |-> 0, low |-> 0,
                        reinit |-> FALSE]
    /\ UNCHANGED <<row, second, time, out, calls>>

\* POST /api/vio/restart
Restart(t) ==
    /\ req[t].at = "idle" /\ ~Locked /\ calls < MaxCalls /\ calls' = calls + 1
    /\ runner # None /\ runner' = [runner EXCEPT !.reinit = TRUE]
    /\ UNCHANGED <<row, second, req, pairs, shut, imu, subscribed, time, epoch, filters, out>>

-----------------------------------------------------------------------------
(* The runner's thread.                                                     *)

\* A sample, and a pair of frames of that time unless the cameras missed it.
Tick ==
    /\ time < MaxTime /\ time' = time + 1
    /\ imu' = IF subscribed THEN Append(imu, time') ELSE imu
    /\ \/ UNCHANGED pairs
       \/ ~shut /\ pairs' = Append(pairs, time')
    /\ UNCHANGED <<row, second, req, runner, shut, subscribed, epoch, filters, out, calls>>

\* build_vio()
Built(r) == [r EXCEPT !.filter = filters + 1, !.lastImu = 0, !.lastPair = 0, !.low = 0]

\* Mutant of Pop: the epoch stays when a gap makes a new filter.
PopKeepingEpoch ==
    /\ runner # None /\ runner.at = "pop" /\ pairs # <<>> /\ pairs' = Tail(pairs)
    /\ LET t == Head(pairs)
           gap == runner.lastPair # 0 /\ t - runner.lastPair > MaxGap
           r == [(IF runner.reinit \/ gap THEN Built(runner) ELSE runner)
                    EXCEPT !.reinit = FALSE] IN
       /\ runner' = [r EXCEPT !.at = "imu", !.t = t, !.lastPair = t]
       /\ epoch' = IF runner.reinit THEN epoch + 1 ELSE epoch
       /\ filters' = IF runner.reinit \/ gap THEN filters + 1 ELSE filters
    /\ UNCHANGED <<row, second, req, shut, imu, subscribed, time, out, calls>>

\* run() pops a pair; a request or a gap between pairs makes a new filter first.
Pop ==
    /\ runner # None /\ runner.at = "pop" /\ pairs # <<>> /\ pairs' = Tail(pairs)
    /\ LET t == Head(pairs)
           gap == runner.lastPair # 0 /\ t - runner.lastPair > MaxGap
           anew == runner.reinit \/ gap
           r == [(IF anew THEN Built(runner) ELSE runner) EXCEPT !.reinit = FALSE] IN
       /\ runner' = [r EXCEPT !.at = "imu", !.t = t, !.lastPair = t]
       /\ epoch' = IF anew THEN epoch + 1 ELSE epoch
       /\ filters' = IF anew THEN filters + 1 ELSE filters
    /\ UNCHANGED <<row, second, req, shut, imu, subscribed, time, out, calls>>

\* wait_pop() gives up once the pairer is shut and its pairs are drained.
Leave ==
    /\ runner # None /\ runner.at = "pop" /\ pairs = <<>> /\ shut
    /\ runner' = [runner EXCEPT !.at = "gone"]
    /\ UNCHANGED <<row, second, req, pairs, shut, imu, subscribed, time, epoch, filters, out,
                   calls>>

\* feed_imu_until(): samples up to past the pair, or until the subscription is gone.
FeedImu ==
    /\ runner # None /\ runner.at = "imu"
    /\ \/ /\ runner.lastImu < runner.t + Lead /\ imu # <<>>
          /\ runner' = [runner EXCEPT !.lastImu = Head(imu)] /\ imu' = Tail(imu)
       \/ /\ runner.lastImu >= runner.t + Lead \/ (~subscribed /\ imu = <<>>)
          /\ runner' = [runner EXCEPT !.at = "feed"] /\ UNCHANGED imu
    /\ UNCHANGED <<row, second, req, pairs, shut, subscribed, time, epoch, filters, out, calls>>

\* process_pair(): no odometry from a pair of the wrong size or before initialisation; a
\* published one may show divergence: few features Window times over, or a large covariance.
Skip ==
    /\ runner # None /\ runner.at = "feed"
    /\ runner' = [runner EXCEPT !.at = "pop"]
    /\ UNCHANGED <<row, second, req, pairs, shut, imu, subscribed, time, epoch, filters, out,
                   calls>>

PublishOdometry ==
    /\ runner # None /\ runner.at = "feed"
    /\ out' = [t |-> runner.t, epoch |-> epoch, filter |-> runner.filter,
               covered |-> runner.lastImu >= runner.t + Lead]
    /\ \E few, exploded \in BOOLEAN :
         LET low == IF few THEN runner.low + 1 ELSE 0
             diverged == exploded \/ low >= Window
             r == IF diverged THEN Built(runner) ELSE [runner EXCEPT !.low = low] IN
         /\ runner' = [r EXCEPT !.at = "pop"]
         /\ epoch' = IF diverged THEN epoch + 1 ELSE epoch
         /\ filters' = IF diverged THEN filters + 1 ELSE filters
    /\ UNCHANGED <<row, second, req, pairs, shut, imu, subscribed, time, calls>>

Run == Pop \/ Leave \/ FeedImu \/ Skip \/ PublishOdometry

Next ==
    \/ NextSecond \/ Tick
    \/ \E t \in Threads : Put(t) \/ Reload(t) \/ Rebuild(t) \/ Restart(t)
    \/ Pop \/ Leave \/ FeedImu \/ Skip \/ PublishOdometry

Spec == Init /\ [][Next]_vars

\* A request is served in the end, and the runner's thread runs.  No fairness of Tick: the
\* cameras and the IMU may fall silent for good.
Fairness ==
    /\ \A t \in Threads : SF_vars(Reload(t)) /\ WF_vars(Rebuild(t))
    /\ WF_vars(Run)

FairSpec == Spec /\ Fairness

-----------------------------------------------------------------------------
TypeOK ==
    /\ row.val \in Values /\ row.stamp <= second
    /\ runner # None => runner.at \in {"pop", "imu", "feed", "gone"}
    /\ Cardinality({t \in Threads : Waiting(t)}) <= 1

Quiet == \A t \in Threads : req[t].at = "idle"

\* Once every writer's reload is over, a runner runs exactly when the rows allow one, with
\* the rows as of the second they were last written in, on a pairer and an IMU subscription
\* that are live (reset() after shutdown(), vio_supervisor.cpp:205).
RunnerFollowsRow == Quiet /\ calls > 0 =>
    /\ runner # None <=> row.ok
    /\ runner # None => runner.stamp = row.stamp /\ ~shut /\ subscribed

\* The contract the fusion engine relies on: odometry of one epoch comes from one filter, in
\* increasing time with no gap the estimator should not have bridged; another filter has a
\* later epoch (VioOdometry's fusion contract).
OdometryNext == out' # out =>
    \/ out'.epoch > out.epoch /\ out'.filter > out.filter
    \/ /\ out'.epoch = out.epoch /\ out'.filter = out.filter /\ out'.t > out.t
EpochPerFilter == [][OdometryNext]_vars

\* A reload returns although it joins the runner's thread under mu_, wherever that thread
\* waits and whether or not frames and samples still come.
ReloadReturns == \A t \in Threads : req[t].at # "idle" ~> req[t].at = "idle"

\* routes_vio.cpp:158: "fingerprint change => runner rebuild => reinit": once the writers
\* are done, the runner has the content of the rows.
ConfigApplied == Quiet /\ runner # None => runner.val = row.val

\* openvins_runner.hpp:15: the thread "drains the ImuBus until IMU coverage extends past
\* the pair's timestamp" before the filter sees the pair.
CoveredByImu == out.covered
=============================================================================
