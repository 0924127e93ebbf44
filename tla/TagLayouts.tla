----------------------------- MODULE TagLayouts -----------------------------
(***************************************************************************)
(* The configuration every AprilTag camera shares, from its rows to a frame:  *)
(* the field_layouts table (src/src/server/field_layout_repository.cpp), its   *)
(* routes, T_robot_imu of the imu_config row, ApriltagSupervisor and its       *)
(* AprilTagConsumers (src/src/apriltag/apriltag_consumer.cpp).  Detection and  *)
(* pose estimation are abstract: a frame yields a pose or does not.           *)
(***************************************************************************)
EXTENDS Integers, FiniteSets

CONSTANTS
    Layouts,     \* ids of field_layouts rows
    Cams,        \* cameras that may have the apriltag role
    Threads,     \* HTTP threads
    Seeded,      \* TRUE: the default layout file was there at the first start
    MaxCalls,    \* bound: requests that write
    None

VARIABLES
    rows,        \* layouts stored
    active,      \* those with active = 1
    imu,         \* t_imu_robot of the imu_config row
    shared,      \* ApriltagSupervisor::shared_
    holder,      \* the thread that holds mu_, with what build_shared_locked() has read
    req,         \* what each HTTP thread is doing
    consumer,    \* per camera: None, or its AprilTagConsumer
    stale,       \* per camera: poses published since the last reload with an older config
    calls

vars == <<rows, active, imu, shared, holder, req, consumer, stale, calls>>

LayoutAssumption == Layouts # {} /\ None \notin Layouts /\ None \notin Threads

Free == [thread |-> None, layout |-> None]
ActiveLayout == IF active = {} THEN None ELSE CHOOSE l \in active : TRUE
Shareds == [layout : Layouts \cup {None}, imu : {None, 1, 2}]

\* main(): seed_default_field_layout(), then the supervisor's constructor reads both rows.
Init ==
    /\ rows = IF Seeded THEN {CHOOSE l \in Layouts : TRUE} ELSE {}
    /\ active = rows
    /\ imu \in {None, 1}
    /\ shared = [layout |-> ActiveLayout, imu |-> imu]
    /\ holder = Free
    /\ req = [t \in Threads |-> "idle"]
    /\ consumer = [c \in Cams |-> None]
    /\ stale = [c \in Cams |-> 0]
    /\ calls = 0

-----------------------------------------------------------------------------
Begin(t, next) ==
    /\ req[t] = "idle" /\ calls < MaxCalls
    /\ calls' = calls + 1 /\ req' = [req EXCEPT ![t] = next]
    /\ UNCHANGED <<shared, holder, consumer, stale>>

\* POST /api/field-layouts: create(), which activates the table's first row.
Create(t) ==
    /\ \E l \in Layouts \ rows :
          /\ rows' = rows \cup {l}
          /\ active' = IF rows = {} THEN {l} ELSE active
    /\ Begin(t, "idle") /\ UNCHANGED imu

\* POST activate: one transaction sets active on this row and clears it on the others,
\* or rolls back when the id is gone; then the configuration is reloaded.
Activate(t) ==
    \E l \in Layouts :
      /\ active' = IF l \in rows THEN {l} ELSE active
      /\ Begin(t, IF l \in rows THEN "reload" ELSE "idle")
      /\ UNCHANGED <<rows, imu>>

\* DELETE: refused for the active row.
Remove(t) ==
    /\ \E l \in rows : rows' = IF l \in active THEN rows ELSE rows \ {l}
    /\ Begin(t, "idle") /\ UNCHANGED <<active, imu>>

\* PUT /api/imu/config: reloads when the body has t_imu_robot.
PutImu(t) ==
    /\ imu' \in {None, 1, 2} \ {imu}
    /\ Begin(t, "reload") /\ UNCHANGED <<rows, active>>

\* reload_shared() takes mu_ and reads the active layout ...
ReadLayout(t) ==
    /\ req[t] = "reload" /\ holder = Free
    /\ holder' = [thread |-> t, layout |-> ActiveLayout]
    /\ UNCHANGED <<rows, active, imu, shared, req, consumer, stale, calls>>

\* Mutant of Publish: consumers that run keep the configuration they were made with.
PublishToNewOnes(t) ==
    /\ holder.thread = t
    /\ shared' = [layout |-> holder.layout, imu |-> imu]
    /\ stale' = [c \in Cams |-> 0]
    /\ holder' = Free /\ req' = [req EXCEPT ![t] = "idle"]
    /\ UNCHANGED <<rows, active, imu, consumer, calls>>

\* ... then the imu row, and hands the result to every consumer that is alive.
Publish(t) ==
    /\ holder.thread = t
    /\ shared' = [layout |-> holder.layout, imu |-> imu]
    /\ consumer' = [c \in Cams |-> IF consumer[c] = None THEN None
                                   ELSE [consumer[c] EXCEPT !.shared = shared']]
    /\ stale' = [c \in Cams |-> 0]
    /\ holder' = Free /\ req' = [req EXCEPT ![t] = "idle"]
    /\ UNCHANGED <<rows, active, imu, calls>>

-----------------------------------------------------------------------------
\* make_consumer(): under mu_, for a camera with the role and a usable calibration;
\* the camera supervisor attaches it.  ext: the calibration carries T_cam_imu.
MakeConsumer(c) ==
    /\ consumer[c] = None /\ holder = Free
    /\ \E ext \in BOOLEAN :
          consumer' = [consumer EXCEPT ![c] = [ext |-> ext, shared |-> shared, frame |-> None]]
    /\ UNCHANGED <<rows, active, imu, shared, holder, req, stale, calls>>

\* detach(): unsubscribes and joins the worker, so its frame is finished first.
Detach(c) ==
    /\ consumer[c] # None /\ consumer[c].frame = None
    /\ consumer' = [consumer EXCEPT ![c] = None]
    /\ UNCHANGED <<rows, active, imu, shared, holder, req, stale, calls>>

\* process_frame(): detection over, the shared configuration is taken once.
Snapshot(c) ==
    /\ consumer[c] # None /\ consumer[c].frame = None
    /\ consumer' = [consumer EXCEPT ![c].frame = consumer[c].shared]
    /\ UNCHANGED <<rows, active, imu, shared, holder, req, stale, calls>>

\* A pose needs T_cam_imu, a layout and T_robot_imu, and a solve that succeeds.
Solve(c) ==
    /\ consumer[c] # None /\ consumer[c].frame # None
    /\ consumer' = [consumer EXCEPT ![c].frame = None]
    /\ \/ UNCHANGED stale
       \/ /\ consumer[c].ext
          /\ consumer[c].frame.layout # None /\ consumer[c].frame.imu # None
          /\ stale' = [stale EXCEPT ![c] =
                         IF consumer[c].frame = shared THEN @ ELSE @ + 1]
    /\ UNCHANGED <<rows, active, imu, shared, holder, req, calls>>

Next ==
    \/ \E t \in Threads : Create(t) \/ Activate(t) \/ Remove(t) \/ PutImu(t)
                            \/ ReadLayout(t) \/ Publish(t)
    \/ \E c \in Cams : MakeConsumer(c) \/ Detach(c) \/ Snapshot(c) \/ Solve(c)

Spec == Init /\ [][Next]_vars

-----------------------------------------------------------------------------
TypeOK ==
    /\ active \subseteq rows /\ rows \subseteq Layouts
    /\ imu \in {None, 1, 2} /\ shared \in Shareds
    /\ holder.thread \in Threads \cup {None}
    /\ \A t \in Threads : req[t] \in {"idle", "reload"}
    /\ \A c \in Cams : consumer[c] # None => consumer[c].shared \in Shareds

\* database.cpp:87: exactly one layout is active as long as there is one
\* (create(), activate() and remove() together).
ExactlyOneActive == Cardinality(active) = (IF rows = {} THEN 0 ELSE 1)

\* Once no request is under way, every consumer solves with the rows as they are, however
\* two requests interleaved (reload_shared() reads the rows under mu_).
SharedFresh == (\A t \in Threads : req[t] = "idle") =>
    /\ shared = [layout |-> ActiveLayout, imu |-> imu]
    /\ \A c \in Cams : consumer[c] # None => consumer[c].shared = shared

\* After a reload a camera may publish one more pose with the configuration it had already
\* taken for the frame in hand, and no second one.
OneStalePose == \A c \in Cams : stale[c] <= 1
=============================================================================
