----------------------------- MODULE CameraSlots ----------------------------
(***************************************************************************)
(* src/src/server/camera_supervisor.cpp and src/src/server/routes_camera.cpp: *)
(* the rows of the cameras table, the supervisor's slots, the SDK's arrival   *)
(* and removal events, the HTTP threads and calibration jobs that change      *)
(* rows, and a recording that borrows a slot's frame channel.  One device and *)
(* the ids its rows may take.  Every supervisor method holds mu throughout    *)
(* and is one step; what a request does between two of them is not.           *)
(* A row is what the supervisor tells apart of it: cfg stands for the mode,   *)
(* the hardware sync flag and the pin (a change restarts the producer), stamp *)
(* for the role and the calibration times, orient for the mounting, gain for  *)
(* the live settings.                                                         *)
(***************************************************************************)
EXTENDS Integers, Sequences, FiniteSets

CONSTANTS
    Ids,         \* row ids, in the order the table hands them out
    Clients,     \* HTTP threads
    Jobs,        \* threads of calibration jobs: store a result, then on_camera_updated()
    Patches,     \* caller -> what it may change of a row (None: field absent)
    MaxGain,     \* the camera clamps a larger gain to this
    MaxCalls,    \* bound: requests started
    MaxPlugs,    \* bound: times the device is plugged or unplugged
    None

VARIABLES
    rows,        \* id -> row, or None
    nextId,      \* the table's next id
    slots,       \* slots_by_id: id -> slot, or None
    bySerial,    \* id_by_serial of the device
    phase,       \* "new", "up" after start(), "down" after the destructor
    plugged,     \* the SDK lists the device
    events,      \* SDK events whose handler has not run
    req,         \* what each caller is doing
    rec,         \* the recording's consumer: its step and the channel it borrowed
    gen,         \* channels made so far: a channel's identity
    calls, plugs

vars == <<rows, nextId, slots, bySerial, phase, plugged, events, req, rec, gen, calls,
          plugs>>

\* Rows, what a request may change of one, and slots.
Row == [cfg : Nat, gain : Nat, orient : {0, 180}, stamp : Nat]
Patch == [cfg : Nat \cup {None}, gain : Nat \cup {None}, orient : {0, 180, None},
          stamp : Nat \cup {None}]
Extra == [stamp : Nat, orient : {0, 180}]
Slot == [cfg : Nat, gain : Nat, orient : {0, 180}, stamp : Nat \cup {None},
         run : Nat \cup {None}, live : Nat \cup {None}, ext : Extra \cup {None},
         gen : Nat, failed : BOOLEAN]

Callers == Clients \cup Jobs

\* What the properties need of the constants; Safety assumes it.  A job stores a
\* calibration and nothing else of a row.
CameraAssumption ==
    /\ 1 \in Ids /\ None \notin Ids /\ MaxGain \in Nat
    /\ None \notin Nat /\ None \notin Row /\ None \notin Slot
    /\ \A c \in Callers : Patches[c] \subseteq Patch
    /\ \A c \in Jobs : \A p \in Patches[c] : p.cfg = None /\ p.gain = None /\ p.orient = None

Idle  == [at |-> "idle", id |-> None, patch |-> None]
NoRec == [at |-> "idle", gen |-> 0]
Clamp(g) == IF g > MaxGain THEN MaxGain ELSE g
Channels == {slots[i].gen : i \in {j \in Ids : slots[j] # None}} \ {0}

\* A slot keeps a copy of its row; run is the cfg its producer started with (None when
\* offline), live the gain in the camera, ext the row its role consumers were built from.
NewSlot(row) == [cfg |-> row.cfg, gain |-> row.gain, orient |-> row.orient, stamp |-> None,
                 run |-> None, live |-> None, ext |-> None, gen |-> 0, failed |-> FALSE]

\* start_extra_locked(): the factories see the row as it is now.
StartExtra(s, i) ==
    IF s.run = None \/ rows[i] = None THEN s
    ELSE [s EXCEPT !.stamp = rows[i].stamp,
                   !.ext = [stamp |-> rows[i].stamp, orient |-> rows[i].orient]]

\* stop_slot_locked(): consumers detach, then the producer and its channel go.
Stopped(s) == [s EXCEPT !.run = None, !.live = None, !.ext = None, !.gen = 0]

\* try_start_slot_locked(): a start that throws leaves the slot offline, with its reason.
TryStart(s, i) ==
    IF s.run # None \/ ~plugged THEN {s}
    ELSE {[s EXCEPT !.failed = TRUE],
          StartExtra([s EXCEPT !.failed = FALSE, !.run = s.cfg, !.gen = gen + 1,
                               !.gain = Clamp(s.gain), !.live = Clamp(s.gain)], i)}

\* Every step that may start a producer goes through here.
Put(i, s) ==
    /\ slots' = [slots EXCEPT ![i] = s]
    /\ gen' = IF s.gen > gen THEN s.gen ELSE gen

Init ==
    /\ rows \in {[i \in Ids |-> IF i = 1 THEN r ELSE None] :
                   r \in {None, [cfg |-> 1, gain |-> 1, orient |-> 0, stamp |-> 1]}}
    /\ nextId = IF rows[1] = None THEN 1 ELSE 2
    /\ slots = [i \in Ids |-> None] /\ bySerial = None
    /\ phase = "new" /\ plugged \in BOOLEAN /\ events = <<>>
    /\ req = [c \in Callers |-> Idle] /\ rec = NoRec
    /\ gen = 0 /\ calls = 0 /\ plugs = 0

-----------------------------------------------------------------------------
(* The supervisor's life and the device's.                                  *)

\* start(): the rows become slots, the handler is registered, the connected are matched.
Start ==
    /\ phase = "new" /\ phase' = "up"
    /\ IF rows[1] = None THEN UNCHANGED <<slots, bySerial, gen>>
       ELSE /\ bySerial' = 1
            /\ \E s \in TryStart(NewSlot(rows[1]), 1) : Put(1, s)
    /\ UNCHANGED <<rows, nextId, plugged, events, req, rec, calls, plugs>>

\* ~CameraSupervisor()
Destroy ==
    /\ phase = "up" /\ \A c \in Callers : req[c].at = "idle"
    /\ rec.at = "idle"
    /\ phase' = "down" /\ events' = <<>>
    /\ slots' = [i \in Ids |-> IF slots[i] = None THEN None ELSE Stopped(slots[i])]
    /\ UNCHANGED <<rows, nextId, bySerial, plugged, req, rec, gen, calls, plugs>>

Plug ==
    /\ plugs < MaxPlugs /\ plugs' = plugs + 1
    /\ plugged' = ~plugged
    /\ events' = IF phase = "up" THEN Append(events, ~plugged) ELSE events
    /\ UNCHANGED <<rows, nextId, slots, bySerial, phase, req, rec, gen, calls>>

\* on_device_arrival()
OnDeviceArrival ==
    /\ phase = "up" /\ events # <<>> /\ Head(events)
    /\ events' = Tail(events)
    /\ IF bySerial = None \/ slots[bySerial] = None THEN UNCHANGED <<slots, gen>>
       ELSE \E s \in TryStart(slots[bySerial], bySerial) : Put(bySerial, s)
    /\ UNCHANGED <<rows, nextId, bySerial, phase, plugged, req, rec, calls, plugs>>

\* on_device_removal()
OnDeviceRemoval ==
    /\ phase = "up" /\ events # <<>> /\ ~Head(events)
    /\ events' = Tail(events)
    /\ IF bySerial = None \/ slots[bySerial] = None THEN UNCHANGED slots
       ELSE slots' = [slots EXCEPT ![bySerial] = Stopped(@)]
    /\ UNCHANGED <<rows, nextId, bySerial, phase, plugged, req, rec, gen, calls, plugs>>

-----------------------------------------------------------------------------
(* Requests.                                                                *)

Begin(c, i, step, patch) ==
    /\ phase = "up" /\ req[c].at = "idle" /\ calls < MaxCalls
    /\ req' = [req EXCEPT ![c] = [at |-> step, id |-> i, patch |-> patch]]
    /\ calls' = calls + 1

At(c, step) == phase = "up" /\ req[c].at = step
Done(c) == req' = [req EXCEPT ![c] = Idle]
Goto(c, step) == req' = [req EXCEPT ![c].at = step]

\* POST: the row is created (a second serial is refused), its role and orientation
\* written by a second transaction ...
Post(c) ==
    /\ \A i \in Ids : rows[i] = None
    /\ nextId \in Ids /\ nextId' = nextId + 1
    /\ Begin(c, nextId, "role", None)
    /\ rows' = [rows EXCEPT ![nextId] = [cfg |-> 1, gain |-> 1, orient |-> 0, stamp |-> 0]]
    /\ UNCHANGED <<slots, bySerial, phase, plugged, events, rec, gen, plugs>>

PostRole(c) ==
    /\ At(c, "role")
    /\ \/ UNCHANGED rows
       \/ /\ rows[req[c].id] # None
          /\ rows' = [rows EXCEPT ![req[c].id].stamp = 1, ![req[c].id].orient = 180]
    /\ Goto(c, "added")
    /\ UNCHANGED <<nextId, slots, bySerial, phase, plugged, events, rec, gen, calls, plugs>>

\* ... and on_camera_added() makes a slot of what the row is by then.
OnCameraAdded(c) ==
    LET i == req[c].id IN
    /\ At(c, "added") /\ Done(c)
    /\ IF rows[i] = None \/ slots[i] # None THEN UNCHANGED <<slots, bySerial, gen>>
       ELSE /\ bySerial' = i
            /\ \E s \in TryStart(NewSlot(rows[i]), i) : Put(i, s)
    /\ UNCHANGED <<rows, nextId, phase, plugged, events, rec, calls, plugs>>

\* PUT, or a job with a result: settings go to the camera first if it is online now ...
Update(c) ==
    /\ \E i \in Ids, p \in Patches[c] :
          /\ rows[i] # None
          /\ Begin(c, i, IF p.gain # None /\ slots[i] # None /\ slots[i].run # None
                         THEN "apply" ELSE "write", p)
    /\ UNCHANGED <<rows, nextId, slots, bySerial, phase, plugged, events, rec, gen, plugs>>

\* ... which throws if it is offline by now, and what the camera took replaces the body.
ApplySettingsLive(c) ==
    LET i == req[c].id  g == Clamp(req[c].patch.gain) IN
    /\ At(c, "apply")
    /\ IF slots[i] = None \/ slots[i].run = None THEN Done(c) /\ UNCHANGED slots
       ELSE /\ slots' = [slots EXCEPT ![i].gain = g, ![i].live = g]
            /\ req' = [req EXCEPT ![c].at = "write", ![c].patch.gain = g]
    /\ UNCHANGED <<rows, nextId, bySerial, phase, plugged, events, rec, gen, calls, plugs>>

\* update(): refused for a row that is gone, or a name or a pin another row has.
Write(c) ==
    LET i == req[c].id  p == req[c].patch IN
    /\ At(c, "write")
    /\ \/ Done(c) /\ UNCHANGED rows
       \/ /\ rows[i] # None /\ Goto(c, "updated")
          /\ rows' = [rows EXCEPT ![i] =
                [f \in DOMAIN @ |-> IF p[f] = None THEN @[f] ELSE p[f]]]
    /\ UNCHANGED <<nextId, slots, bySerial, phase, plugged, events, rec, gen, calls, plugs>>

\* Mutant of OnCameraUpdated: a restart is not followed by the new configuration.
UpdatedKeepingCfg(c) ==
    LET i == req[c].id  row == rows[i]  s == slots[i]
        t == [s EXCEPT !.gain = row.gain, !.orient = row.orient] IN
    /\ At(c, "updated") /\ Done(c)
    /\ IF s = None \/ row = None THEN UNCHANGED <<slots, gen>>
       ELSE \E u \in TryStart(Stopped(t), i) : Put(i, u)
    /\ UNCHANGED <<rows, nextId, bySerial, phase, plugged, events, rec, calls, plugs>>

\* on_camera_updated(): a new cfg restarts a running producer; a new role, calibration
\* or orientation rebuilds the role consumers.
OnCameraUpdated(c) ==
    LET i == req[c].id  row == rows[i]
        s == slots[i]
        t == [s EXCEPT !.gain = row.gain, !.cfg = row.cfg, !.orient = row.orient]
        extraChanged == row.stamp # s.stamp \/ row.orient # s.orient IN
    /\ At(c, "updated") /\ Done(c)
    /\ IF s = None \/ row = None THEN UNCHANGED <<slots, gen>>
       ELSE IF row.cfg = s.cfg
            THEN Put(i, IF extraChanged THEN StartExtra([t EXCEPT !.ext = None], i) ELSE t)
            ELSE IF s.run = None THEN Put(i, t)
            ELSE \E u \in TryStart(Stopped(t), i) : Put(i, u)
    /\ UNCHANGED <<rows, nextId, bySerial, phase, plugged, events, rec, calls, plugs>>

\* DELETE: on_camera_removed() ...
OnCameraRemoved(c) ==
    /\ \E i \in Ids :
          /\ rows[i] # None /\ Begin(c, i, "remove", None)
          /\ slots' = [slots EXCEPT ![i] = None]
          /\ bySerial' = IF slots[i] = None THEN bySerial ELSE None
    /\ UNCHANGED <<rows, nextId, phase, plugged, events, rec, gen, plugs>>

\* ... then the row.
Remove(c) ==
    /\ At(c, "remove") /\ Done(c)
    /\ rows' = [rows EXCEPT ![req[c].id] = None]
    /\ UNCHANGED <<nextId, slots, bySerial, phase, plugged, events, rec, gen, calls, plugs>>

-----------------------------------------------------------------------------
(* A recording (CalibrationSupervisor): frame_channel_for() hands out the    *)
(* channel's address, and nothing tells the recording when the slot stops.   *)

FrameChannelFor ==
    /\ phase = "up" /\ rec.at = "idle" /\ Channels # {}
    /\ \E n \in Channels : rec' = [at |-> "recording", gen |-> n]
    /\ UNCHANGED <<rows, nextId, slots, bySerial, phase, plugged, events, req, gen, calls, plugs>>

StopRecording ==
    /\ rec.at = "recording" /\ rec' = NoRec
    /\ UNCHANGED <<rows, nextId, slots, bySerial, phase, plugged, events, req, gen, calls, plugs>>

Next ==
    \/ Start \/ Destroy \/ Plug \/ OnDeviceArrival \/ OnDeviceRemoval
    \/ FrameChannelFor \/ StopRecording
    \/ \E c \in Callers : Update(c) \/ Write(c) \/ OnCameraUpdated(c)
    \/ \E c \in Clients :
         \/ Post(c) \/ PostRole(c) \/ OnCameraAdded(c)
         \/ ApplySettingsLive(c) \/ OnCameraRemoved(c) \/ Remove(c)

Spec == Init /\ [][Next]_vars

-----------------------------------------------------------------------------
Quiet == phase = "up" /\ events = <<>> /\ \A c \in Callers : req[c].at = "idle"

TypeOK ==
    /\ phase \in {"new", "up", "down"} /\ bySerial \in Ids \cup {None}
    /\ rows \in [Ids -> Row \cup {None}] /\ slots \in [Ids -> Slot \cup {None}]
    /\ \A i \in Ids : slots[i] # None =>
         (slots[i].run = None <=> slots[i].gen = 0) /\ slots[i].gen <= gen
    /\ rec.at \in {"idle", "recording"}

\* Whatever the order of requests, stored calibrations and SDK events, once they are over
\* the slots are those of the rows, a running camera runs its row's configuration, and its
\* role consumers were built from the row (on_camera_updated(), start_extra_locked()).
SlotsFollowRows == Quiet => \A i \in Ids :
    /\ slots[i] = None <=> rows[i] = None
    /\ slots[i] # None =>
         /\ bySerial = i
         /\ slots[i].cfg = rows[i].cfg
         /\ slots[i].run # None =>
              /\ slots[i].run = rows[i].cfg
              /\ slots[i].ext = [stamp |-> rows[i].stamp, orient |-> rows[i].orient]

\* Once events and requests are over, a slot is online exactly when its device is plugged
\* in, unless its last start failed.
OnlineWhenPlugged == Quiet => \A i \in Ids : slots[i] # None =>
    /\ slots[i].run # None => plugged
    /\ plugged /\ ~slots[i].failed => slots[i].run # None

\* camera_supervisor.cpp:479: "Gain/exposure changes have already been applied live by the
\* route layer": after a PUT, the camera's gain is the row's.
SettingsApplied == Quiet => \A i \in Ids :
    slots[i] # None /\ slots[i].run # None => slots[i].live = Clamp(rows[i].gain)

\* camera_supervisor.cpp:229: "Extras (and the stream) MUST detach before the producer is
\* destroyed": no consumer is subscribed to a channel that is gone.
ChannelOutlivesConsumers == rec.at = "recording" => rec.gen \in Channels
=============================================================================
