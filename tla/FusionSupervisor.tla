-------------------------- MODULE FusionSupervisor --------------------------
(***************************************************************************)
(* src/src/server/fusion_supervisor.cpp: three drainer threads feed one     *)
(* bounded queue, the engine thread empties it into the engine and publishes *)
(* a snapshot, the output thread sends the snapshot to the robot, and HTTP   *)
(* threads change the configuration.  The engine itself is FusionEngine;     *)
(* here it is its configuration and whether it has a pose.  Repository calls *)
(* are taken to succeed.                                                     *)
(***************************************************************************)
EXTENDS Naturals, Sequences, FiniteSets, SequencesExt

CONSTANTS
    Callers,    \* HTTP threads
    Values,     \* values of a configured parameter
    QueueCap,   \* kQueueCap, 4096 in the code
    MaxPuts,    \* bound: PUTs of a configuration
    MaxEvents,  \* bound: measurements and resets pushed
    None

VARIABLES
    row,        \* the rows of fusion_config (enabled, params) and imu_config (imu)
    active,     \* active_cfg
    period,     \* output_period_ns: it comes with params, and is applied at once
    caller,     \* what each HTTP thread is doing, and the config it holds
    queue,
    lostOrder,  \* has the full queue dropped a Reconfigure or a Reset
    batch,      \* the engine thread's batch
    engine,     \* None or [cfg, initialized]
    snapshot,   \* snap_state: what the output thread and status() see
    sending,    \* has the output thread copied a snapshot it has not sent
    running,    \* threads not ended
    stopFlag, stopping, closed,  \* the destructor's flags; buses unsubscribed
    puts, events

config  == <<row, active, period, caller, puts>>
inbox   == <<queue, lostOrder>>
work    == <<batch, engine, snapshot>>
stops   == <<running, stopFlag, stopping, closed>>
vars    == <<config, inbox, work, sending, stops, events>>

Drainers == {"tag", "vio", "odom"}
Threads  == Drainers \cup {"engine", "output"}

EngineConfig == [enabled : BOOLEAN, params : Values, imu : Values]
Events       == [kind : Drainers \cup {"reset"}] \cup
                [kind : {"reconfigure"}, cfg : EngineConfig]
Engines      == [cfg : EngineConfig, initialized : BOOLEAN]
NoPose       == [initialized |-> FALSE, cfg |-> None]
Idle         == [at |-> "idle", cfg |-> None]

\* The queue has room for one event, a parameter has a value, and no engine is taken for None.
FusionAssumption == QueueCap \in Nat \ {0} /\ Values # {} /\ None \notin Engines

\* Mutant of Push: the queue takes one event too many.
PushOneMore(event) ==
    LET full == Len(queue) > QueueCap IN
    /\ queue' = Append(IF full THEN Tail(queue) ELSE queue, event)
    /\ lostOrder' = (lostOrder \/ (full /\ Head(queue).kind \in {"reset", "reconfigure"}))

\* push(): a full queue drops its oldest event, whatever it is, and counts it.
Push(event) ==
    LET full == Len(queue) >= QueueCap IN
    /\ queue'   = Append(IF full THEN Tail(queue) ELSE queue, event)
    /\ lostOrder' = (lostOrder \/ (full /\ Head(queue).kind \in {"reset", "reconfigure"}))

-----------------------------------------------------------------------------
\* The constructor has subscribed, reloaded once and started its threads.
Init ==
    /\ LET v == CHOOSE v \in Values : TRUE IN row = [enabled |-> TRUE, params |-> v, imu |-> v]
    /\ active = row /\ period = row.params
    /\ caller = [c \in Callers |-> Idle] /\ puts = 0
    /\ queue = <<[kind |-> "reconfigure", cfg |-> active]>>
    /\ lostOrder = FALSE
    /\ batch = <<>> /\ engine = None /\ snapshot = NoPose
    /\ sending = FALSE
    /\ running = Threads /\ stopFlag = FALSE /\ stopping = FALSE /\ closed = {}
    /\ events = 0

-----------------------------------------------------------------------------
(* HTTP threads: PUT /api/fusion/config and PUT /api/imu/config.            *)

\* The PUT commits the patched row; the two tables are two transactions.
Update(c) ==
    /\ ~stopFlag /\ caller[c] = Idle /\ puts < MaxPuts
    /\ \E v \in Values : row' \in {[row EXCEPT !.params = v], [row EXCEPT !.imu = v],
                                  [row EXCEPT !.enabled = ~@]} \ {row}
    /\ caller' = [caller EXCEPT ![c].at = "reload"]
    /\ puts' = puts + 1
    /\ UNCHANGED <<active, period, inbox, work, sending, stops, events>>

\* build_config() reads fusion_config and applies the output rate at once ...
ReadFusionRow(c) ==
    /\ caller[c].at = "reload"
    /\ period' = row.params
    /\ caller' = [caller EXCEPT ![c] = [at |-> "read", cfg |-> row]]
    /\ UNCHANGED <<row, active, puts, inbox, work, sending, stops, events>>

\* ... then imu_config.
ReadImuRow(c) ==
    /\ caller[c].at = "read"
    /\ caller' = [caller EXCEPT ![c] = [at |-> "built", cfg |-> [@.cfg EXCEPT !.imu = row.imu]]]
    /\ UNCHANGED <<row, active, period, puts, inbox, work, sending, stops, events>>

\* reload() compares with the active configuration, and replaces it, under cfg_mu.
Adopt(c) ==
    /\ caller[c].at = "built"
    /\ active' = caller[c].cfg
    /\ caller' = [caller EXCEPT ![c] =
                    IF @.cfg = active THEN Idle ELSE [@ EXCEPT !.at = "push"]]
    /\ UNCHANGED <<row, period, puts, inbox, work, sending, stops, events>>

\* The event for the engine thread is pushed after cfg_mu is released.
PushReconfigure(c) ==
    /\ caller[c].at = "push"
    /\ Push([kind |-> "reconfigure", cfg |-> caller[c].cfg])
    /\ caller' = [caller EXCEPT ![c] = Idle]
    /\ UNCHANGED <<row, active, period, puts, work, sending, stops, events>>

\* POST /api/fusion/reset.
PushReset ==
    /\ ~stopFlag /\ events < MaxEvents
    /\ Push([kind |-> "reset"])
    /\ events' = events + 1
    /\ UNCHANGED <<config, work, sending, stops>>

-----------------------------------------------------------------------------
(* The drainers.                                                            *)

\* Tags and VIO outputs are pushed, a speeds sample with no stamp is only counted.  Stamped
\* tags and speeds also feed the clock estimator, which decides whether a pose is sent.
Drain(d) ==
    /\ d \in running /\ d \notin closed /\ events < MaxEvents
    /\ events' = events + 1
    /\ \E stamped \in BOOLEAN :
        IF d = "odom" /\ ~stamped THEN UNCHANGED inbox ELSE Push([kind |-> d])
    /\ UNCHANGED <<config, work, sending, stops>>

\* wait_pop() returns false once its subscription is gone.
DrainerEnds(d) ==
    /\ d \in running \cap closed
    /\ running' = running \ {d}
    /\ UNCHANGED <<config, inbox, work, sending, stopFlag, stopping, closed, events>>

-----------------------------------------------------------------------------
(* run_engine().                                                            *)

TakeBatch ==
    /\ "engine" \in running /\ batch = <<>> /\ queue # <<>>
    /\ batch' = queue /\ queue' = <<>>
    /\ UNCHANGED <<config, lostOrder, engine, snapshot, sending, stops, events>>

\* What one event leaves of the engine: a tag may give it a pose, any measurement may
\* make it reinitialise.
Fed(event) ==
    CASE event.kind = "reconfigure" ->
            {IF event.cfg.enabled THEN [cfg |-> event.cfg, initialized |-> FALSE] ELSE None}
      [] event.kind # "reconfigure" /\ engine = None -> {None}
      [] event.kind = "reset" /\ engine # None -> {[engine EXCEPT !.initialized = FALSE]}
      [] event.kind = "tag" /\ engine # None -> {[engine EXCEPT !.initialized = b] : b \in BOOLEAN}
      [] OTHER -> {engine, [engine EXCEPT !.initialized = FALSE]}

\* The last event of the batch is followed by publish_snapshot().
FeedEngine ==
    /\ batch # <<>>
    /\ engine' \in Fed(Head(batch)) /\ batch' = Tail(batch)
    /\ snapshot' = CASE Len(batch) > 1 -> snapshot
                     [] Len(batch) = 1 /\ engine' = None -> NoPose
                     [] OTHER -> [initialized |-> engine'.initialized, cfg |-> engine'.cfg]
    /\ UNCHANGED <<config, inbox, sending, stops, events>>

EngineEnds ==
    /\ "engine" \in running /\ batch = <<>>
    /\ stopping /\ queue = <<>>
    /\ running' = running \ {"engine"}
    /\ UNCHANGED <<config, inbox, work, sending, stopFlag, stopping, closed, events>>

-----------------------------------------------------------------------------
(* run_output(): one period is a copy of the snapshot, then a send.         *)

CopySnapshot ==
    /\ "output" \in running /\ ~sending /\ ~stopFlag
    /\ snapshot.initialized /\ sending' = TRUE
    /\ UNCHANGED <<config, inbox, work, stops, events>>

\* Sent if the clock estimator is healthy, skipped otherwise.
SendPose ==
    /\ sending /\ sending' = FALSE
    /\ UNCHANGED <<config, inbox, work, stops, events>>

OutputEnds ==
    /\ "output" \in running /\ ~sending /\ stopFlag
    /\ running' = running \ {"output"}
    /\ UNCHANGED <<config, inbox, work, sending, stopFlag, stopping, closed, events>>

-----------------------------------------------------------------------------
(* ~FusionSupervisor(), after the HTTP server is gone.                      *)

Stop ==
    /\ ~stopFlag /\ \A c \in Callers : caller[c] = Idle
    /\ stopFlag' = TRUE
    /\ UNCHANGED <<config, inbox, work, sending, running, stopping, closed, events>>

Unsubscribe ==
    /\ stopFlag /\ closed # Drainers
    /\ closed' = closed \cup {<<"tag", "vio", "odom">>[Cardinality(closed) + 1]}
    /\ UNCHANGED <<config, inbox, work, sending, running, stopFlag, stopping, events>>

\* `stopping` is set under q_mu and everyone is notified; then the threads are joined.
SetStopping ==
    /\ closed = Drainers /\ ~stopping
    /\ stopping' = TRUE
    /\ UNCHANGED <<config, inbox, work, sending, running, stopFlag, closed, events>>

Reload(c) == Update(c) \/ ReadFusionRow(c) \/ ReadImuRow(c) \/ Adopt(c) \/ PushReconfigure(c)

Shutdown == Unsubscribe \/ SetStopping \/ EngineEnds \/ OutputEnds
            \/ \E d \in Drainers : DrainerEnds(d)

Next ==
    \/ \E c \in Callers : Reload(c)
    \/ PushReset
    \/ \E d \in Drainers : Drain(d)
    \/ TakeBatch \/ FeedEngine
    \/ CopySnapshot \/ SendPose
    \/ Stop \/ Shutdown

Spec == Init /\ [][Next]_vars

\* Every thread keeps running.  A drainer blocked in wait_pop() may get no measurement, and
\* nothing makes a request or the stop come.
EngineFair == WF_vars(TakeBatch \/ FeedEngine \/ EngineEnds)
OutputFair == WF_vars(SendPose \/ OutputEnds)
OthersFair == WF_vars(Unsubscribe \/ SetStopping)
              /\ \A d \in Drainers : WF_vars(DrainerEnds(d))
FairSpec   == Spec /\ EngineFair /\ OutputFair /\ OthersFair

-----------------------------------------------------------------------------
(* Properties.                                                              *)

\* Every variable has its type, and the queue respects its cap.
TypeOK ==
    /\ row \in EngineConfig /\ active \in EngineConfig /\ period \in Values
    /\ queue \in Seq(Events) /\ Len(queue) <= QueueCap
    /\ batch \in Seq(Events) /\ Len(batch) <= QueueCap
    /\ engine \in Engines \cup {None}
    /\ lostOrder \in BOOLEAN /\ sending \in BOOLEAN
    /\ running \subseteq Threads /\ closed \subseteq Drainers

Settled == /\ \A c \in Callers : caller[c] = Idle
           /\ queue = <<>> /\ batch = <<>>

\* reload()'s promise, "engine-relevant changes rebuild the engine": with no request
\* under way and nothing queued, the engine and the snapshot are those of the rows.
\* An order the full queue dropped is the exception: nothing pushes it again.
EngineFollowsRow ==
    Settled /\ ~lostOrder =>
        /\ period = row.params
        /\ IF row.enabled THEN engine # None /\ engine.cfg = row ELSE engine = None
        /\ snapshot.initialized => engine # None /\ snapshot.cfg = engine.cfg

\* The destructor's joins return, whatever the threads were doing, and every event
\* queued before the drainers ended has been taken.
DestructorReturns == stopFlag ~> running = {}
=============================================================================
