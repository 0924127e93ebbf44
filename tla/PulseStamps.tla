----------------------------- MODULE PulseStamps -----------------------------
(***************************************************************************)
(* Stamping of hardware-triggered frames.  One trigger group fires pulses; *)
(* each streaming camera of the group exposes a frame per pulse and the    *)
(* firmware sends an event per pulse.  The host keeps the events of each   *)
(* camera's output pin (on_trigger) and capture_loop() matches frames to   *)
(* events by counting block ids (pop_pulse_ns).  A pulse is named by its   *)
(* number, which stands for its timestamp.                                 *)
(***************************************************************************)
EXTENDS Naturals, Sequences, FiniteSets

CONSTANTS
    Cameras,      \* cameras of the group, one output pin each
    FrameCap,     \* frames a camera holds (kPoolCapacity)
    RingCap,      \* kPulseRingMax
    MaxPulses,    \* bound on the pulses
    MaxStarts,    \* bound on the camera starts
    Disturbances, \* what the instance lets go wrong, a subset of Kinds
    CameraTime,   \* the camera's own timestamp
    None          \* no value

\* late_event: a frame may be read before the event of its pulse has arrived;
\* running_start: a camera may start while the group is pulsing;
\* lost_first: the first frame of a session may be lost;
\* lost_event: the firmware may drop an event;
\* long_stall: a streaming camera may fall a whole ring of pulses behind.
Kinds == {"late_event", "running_start", "lost_first", "lost_event", "long_stall"}

\* What the properties need of the constants; Safety assumes it.
StampAssumption ==
    /\ FrameCap \in Nat \ {0} /\ RingCap \in Nat \ {0}
    /\ MaxPulses \in Nat /\ MaxStarts \in Nat /\ CameraTime \notin Nat /\ None \notin Nat
    /\ Disturbances \subseteq Kinds

VARIABLES
    fired,      \* pulses fired
    wire,       \* events sent and not yet handled
    pulses,     \* PinState::pulses of each camera's pin
    last_id,    \* PinState::last_camera_frame_id
    camera,     \* "off", "starting" (between the reset and BeginAcquisition), "on"
    exposed,    \* frames the camera has exposed since it started
    frames,     \* frames waiting for GetNextImage, [id, pulse]
    stamped,    \* the last frame published: [pulse, stamp], or None
    starts      \* camera starts so far

vars == <<fired, wire, pulses, last_id, camera, exposed, frames, stamped, starts>>

Init ==
    /\ fired = 0 /\ wire = <<>> /\ starts = 0
    /\ pulses = [c \in Cameras |-> <<>>]
    /\ last_id = [c \in Cameras |-> None]
    /\ camera = [c \in Cameras |-> "off"]
    /\ exposed = [c \in Cameras |-> 0]
    /\ frames = [c \in Cameras |-> <<>>]
    /\ stamped = [c \in Cameras |-> None]

Streaming == {c \in Cameras : camera[c] = "on"}

\* trigger_timer_isr(): a pulse on every output of the group.  The cameras in
\* lost drop their frame: a full buffer pool, an incomplete image.
Pulse(lost) ==
    /\ fired < MaxPulses
    /\ lost \subseteq Streaming
    /\ \A c \in Streaming : Len(frames[c]) = FrameCap => c \in lost
    /\ "lost_first" \in Disturbances \/ \A c \in lost : exposed[c] > 0
    /\ "running_start" \in Disturbances \/ \A c \in Cameras : camera[c] # "starting"
    /\ \/ "long_stall" \in Disturbances
       \/ \A c \in Streaming : Len(pulses[c]) + Len(wire) < RingCap
    /\ fired' = fired + 1
    /\ \/ wire' = Append(wire, fired + 1)
       \/ "lost_event" \in Disturbances /\ UNCHANGED wire
    /\ exposed' = [c \in Cameras |-> IF c \in Streaming THEN exposed[c] + 1 ELSE exposed[c]]
    /\ frames' = [c \in Cameras |->
                    IF c \in Streaming \ lost
                      THEN Append(frames[c], [id |-> exposed[c] + 1, pulse |-> fired + 1])
                      ELSE frames[c]]
    /\ UNCHANGED <<pulses, last_id, camera, stamped, starts>>

\* Mutant of Keep: the ring is not bounded.
KeepAll(q) == q

\* on_trigger: the event goes to every output of the group's slot; the ring
\* drops its oldest.
Keep(q) == IF Len(q) > RingCap THEN Tail(q) ELSE q

HandleEvent ==
    /\ wire # <<>>
    /\ wire' = Tail(wire)
    /\ pulses' = [c \in Cameras |-> Keep(Append(pulses[c], Head(wire)))]
    /\ UNCHANGED <<fired, last_id, camera, exposed, frames, stamped, starts>>

\* Mutant of Consume: block ids are not looked at.
ConsumeOne(c, id) == 1

\* pop_pulse_ns(): the number of pulses to consume before the cap.
Consume(c, id) == IF last_id[c] = None THEN 1 ELSE id - last_id[c]

CappedConsume(c, id) ==
    IF Consume(c, id) > Len(pulses[c]) THEN Len(pulses[c]) ELSE Consume(c, id)

\* Nothing to match: no pulse, or a block id that did not advance.
Unmatched(c, id) == pulses[c] = <<>> \/ (last_id[c] # None /\ id <= last_id[c])

\* capture_loop(): the next frame is read, matched, stamped and published.  An
\* unmatched frame keeps the camera's own timestamp.
Stamp(c) ==
    /\ camera[c] = "on" /\ frames[c] # <<>>
    /\ LET f == Head(frames[c])
           n == CappedConsume(c, f.id) IN
         /\ "late_event" \in Disturbances \/ \A i \in 1..Len(wire) : wire[i] > f.pulse
         /\ IF Unmatched(c, f.id)
              THEN /\ stamped' = [stamped EXCEPT ![c] = [pulse |-> f.pulse, stamp |-> CameraTime]]
                   /\ UNCHANGED <<pulses, last_id>>
              ELSE /\ stamped' = [stamped EXCEPT ![c] =
                                    [pulse |-> f.pulse, stamp |-> pulses[c][n]]]
                   /\ pulses' = [pulses EXCEPT ![c] = SubSeq(@, n + 1, Len(@))]
                   /\ last_id' = [last_id EXCEPT ![c] = f.id]
    /\ frames' = [frames EXCEPT ![c] = Tail(@)]
    /\ UNCHANGED <<fired, wire, camera, exposed, starts>>

\* start(): reset_pin_state(), some time before the camera can expose.
ResetPinState(c) ==
    /\ camera[c] = "off" /\ starts < MaxStarts
    /\ "running_start" \in Disturbances \/ wire = <<>>
    /\ starts' = starts + 1
    /\ camera' = [camera EXCEPT ![c] = "starting"]
    /\ pulses' = [pulses EXCEPT ![c] = <<>>]
    /\ last_id' = [last_id EXCEPT ![c] = None]
    /\ UNCHANGED <<fired, wire, exposed, frames, stamped>>

BeginAcquisition(c) ==
    /\ camera[c] = "starting"
    /\ camera' = [camera EXCEPT ![c] = "on"]
    /\ exposed' = [exposed EXCEPT ![c] = 0]
    /\ UNCHANGED <<fired, wire, pulses, last_id, frames, stamped, starts>>

\* stop(): EndAcquisition() discards what was not read.
StopCamera(c) ==
    /\ camera[c] = "on"
    /\ camera' = [camera EXCEPT ![c] = "off"]
    /\ frames' = [frames EXCEPT ![c] = <<>>]
    /\ stamped' = [stamped EXCEPT ![c] = None]
    /\ UNCHANGED <<fired, wire, pulses, last_id, exposed, starts>>

\* The group is disarmed for good.
Quiet == fired = MaxPulses /\ UNCHANGED vars

Next ==
    \/ \E lost \in SUBSET Cameras : Pulse(lost)
    \/ HandleEvent
    \/ \E c \in Cameras :
          Stamp(c) \/ ResetPinState(c) \/ BeginAcquisition(c) \/ StopCamera(c)
    \/ Quiet

Spec == Init /\ [][Next]_vars

-----------------------------------------------------------------------------
(* Properties.                                                              *)

Pulses == 1..MaxPulses

TypeOK ==
    /\ fired \in 0..MaxPulses /\ starts \in 0..MaxStarts
    /\ wire \in Seq(Pulses)
    /\ pulses \in [Cameras -> Seq(Pulses)]
    /\ \A c \in Cameras : Len(pulses[c]) <= RingCap
    /\ last_id \in [Cameras -> Pulses \cup {None}]
    /\ camera \in [Cameras -> {"off", "starting", "on"}]
    /\ exposed \in [Cameras -> 0..MaxPulses]
    /\ frames \in [Cameras -> Seq([id : Pulses, pulse : Pulses])]
    /\ stamped \in [Cameras -> {None} \cup [pulse : Pulses, stamp : Pulses \cup {CameraTime}]]

Matched(c) == stamped[c] # None /\ stamped[c].stamp # CameraTime

\* A frame stamped with a pulse is stamped with the pulse that exposed it, across
\* any frames the camera dropped: two cameras agree on the stamp of an exposure.
StampIsOwnPulse == \A c \in Cameras : Matched(c) => stamped[c].stamp = stamped[c].pulse

\* As long as events arrive before frames, no frame falls back to camera time.
EveryFrameMatched == \A c \in Cameras : stamped[c] # None => Matched(c)
=============================================================================
