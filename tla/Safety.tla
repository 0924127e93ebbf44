------------------------------- MODULE Safety -------------------------------
(***************************************************************************)
(* Components whose properties are about states and steps, side by side as   *)
(* in Streams: pulse stamps, the trigger engine and the decoder of the       *)
(* firmware, the fusion engine, the robot link, the tag layouts, the camera  *)
(* supervisor and the configuration's tables.  They share no state; the      *)
(* initial state picks one of them (part), and only that one moves.          *)
(***************************************************************************)
EXTENDS Integers, Sequences, FiniteSets

CONSTANTS
    None,
    StampCameras, FrameCap, RingCap, MaxPulses, MaxStarts, Disturbances, CameraTime,
    Slots, Config, Width, Wrap, Lead, RingSize, MaxLatency, TimerTime, TimerCalls,
    Payloads, MaxPayload, MaxFrames, MaxDamage,
    MinStateDt, Lag, TrimMargin, InitTags, InitSpan, VioCap, CollisionWindow,
    CalmPasses, CollisionLimit, MaxTime, MaxEpochs,
    PutThreads, Senders, Fds, MaxPuts, MaxPackets, MaxSends,
    LayoutIds, Cams, Threads, Seeded, LayoutCalls,
    Ids, CameraClients, Jobs, Patches, MaxGain, CameraCalls, MaxPlugs,
    Serials, Names, Pins, NoPin, Roles, NoRole, Groups, Clients, StoreCalls

VARIABLES
    part,        \* the component of this behaviour
    fired, wire, pulses, last_id, camera, exposed, frames, stamped, starts,
    time, configured, armed, group, compare, pending, ring, drops, popped, trigFired,
    steps, armedAt, calls,
    line, buf, feeding, sent, intact, got, gone, damage,
    initialized, states, nextKey, initTags, vioDeltas, vioPrev, vioDone, window,
    collision, passes, since, out, held, factors, stray, lastVio,
    row, put, cfg, linkConfigured, learned, fd, flag, rx, open, sender, counts,
    linkCalls, crashed, puts,
    rows, active, imu, shared, holder, req, consumer, stale, layoutCalls,
    cameraRows, nextId, slots, bySerial, phase, plugged, events, cameraReq, rec, gen,
    cameraCalls, plugs,
    cams, groups, conf, slot, service, snap, storeReq, clash, storeCalls

Stamps == INSTANCE PulseStamps WITH Cameras <- StampCameras
Trigger == INSTANCE TriggerEngine WITH
    Groups <- Slots, MaxTime <- TimerTime, MaxCalls <- TimerCalls, fired <- trigFired
Decoder == INSTANCE FrameDecoder
Engine == INSTANCE FusionEngine
Link == INSTANCE RobotLink WITH
    Callers <- PutThreads, configured <- linkConfigured, calls <- linkCalls
Layouts == INSTANCE TagLayouts WITH
    Layouts <- LayoutIds, MaxCalls <- LayoutCalls, calls <- layoutCalls
Cameras == INSTANCE CameraSlots WITH
    Clients <- CameraClients, MaxCalls <- CameraCalls, rows <- cameraRows,
    req <- cameraReq, calls <- cameraCalls
Store == INSTANCE ConfigStore WITH
    MaxCalls <- StoreCalls, req <- storeReq, calls <- storeCalls

ASSUME Assumptions ==
    /\ Stamps!StampAssumption /\ Engine!EngineAssumption /\ Link!LinkAssumption
    /\ Layouts!LayoutAssumption /\ Cameras!CameraAssumption /\ Store!StoreAssumption

-----------------------------------------------------------------------------
stampsVars == <<fired, wire, pulses, last_id, camera, exposed, frames, stamped, starts>>
triggerVars == <<time, configured, armed, group, compare, pending, ring, drops, popped,
    trigFired, steps, armedAt, calls>>
decoderVars == <<line, buf, feeding, sent, intact, got, gone, damage>>
engineVars == <<initialized, states, nextKey, initTags, vioDeltas, vioPrev, vioDone,
    window, collision, passes, since, out, held, factors, stray, lastVio>>
linkVars == <<row, put, cfg, linkConfigured, learned, fd, flag, rx, open, sender,
    counts, linkCalls, crashed, puts>>
layoutsVars == <<rows, active, imu, shared, holder, req, consumer, stale, layoutCalls>>
camerasVars == <<cameraRows, nextId, slots, bySerial, phase, plugged, events, cameraReq,
    rec, gen, cameraCalls, plugs>>
storeVars == <<cams, groups, conf, slot, service, snap, storeReq, clash, storeCalls>>
vars == <<part, stampsVars, triggerVars, decoderVars, engineVars, linkVars, layoutsVars,
    camerasVars, storeVars>>

\* The variables of a component that is not in this behaviour.
NoStamps ==
    /\ fired = None /\ wire = None /\ pulses = None /\ last_id = None /\ camera = None
    /\ exposed = None /\ frames = None /\ stamped = None /\ starts = None
NoTrigger ==
    /\ time = None /\ configured = None /\ armed = None /\ group = None
    /\ compare = None /\ pending = None /\ ring = None /\ drops = None /\ popped = None
    /\ trigFired = None /\ steps = None /\ armedAt = None /\ calls = None
NoDecoder ==
    /\ line = None /\ buf = None /\ feeding = None /\ sent = None /\ intact = None
    /\ got = None /\ gone = None /\ damage = None
NoEngine ==
    /\ initialized = None /\ states = None /\ nextKey = None /\ initTags = None
    /\ vioDeltas = None /\ vioPrev = None /\ vioDone = None /\ window = None
    /\ collision = None /\ passes = None /\ since = None /\ out = None /\ held = None
    /\ factors = None /\ stray = None /\ lastVio = None
NoLink ==
    /\ row = None /\ put = None /\ cfg = None /\ linkConfigured = None /\ learned = None
    /\ fd = None /\ flag = None /\ rx = None /\ open = None /\ sender = None
    /\ counts = None /\ linkCalls = None /\ crashed = None /\ puts = None
NoLayouts ==
    /\ rows = None /\ active = None /\ imu = None /\ shared = None /\ holder = None
    /\ req = None /\ consumer = None /\ stale = None /\ layoutCalls = None
NoCameras ==
    /\ cameraRows = None /\ nextId = None /\ slots = None /\ bySerial = None
    /\ phase = None /\ plugged = None /\ events = None /\ cameraReq = None /\ rec = None
    /\ gen = None /\ cameraCalls = None /\ plugs = None
NoStore ==
    /\ cams = None /\ groups = None /\ conf = None /\ slot = None /\ service = None
    /\ snap = None /\ storeReq = None /\ clash = None /\ storeCalls = None

Init ==
    \/ part = "Stamps" /\ Stamps!Init
       /\ NoTrigger /\ NoDecoder /\ NoEngine /\ NoLink /\ NoLayouts /\ NoCameras
       /\ NoStore
    \/ part = "Trigger" /\ Trigger!Init
       /\ NoStamps /\ NoDecoder /\ NoEngine /\ NoLink /\ NoLayouts /\ NoCameras
       /\ NoStore
    \/ part = "Decoder" /\ Decoder!Init
       /\ NoStamps /\ NoTrigger /\ NoEngine /\ NoLink /\ NoLayouts /\ NoCameras
       /\ NoStore
    \/ part = "Engine" /\ Engine!Init
       /\ NoStamps /\ NoTrigger /\ NoDecoder /\ NoLink /\ NoLayouts /\ NoCameras
       /\ NoStore
    \/ part = "Link" /\ Link!Init
       /\ NoStamps /\ NoTrigger /\ NoDecoder /\ NoEngine /\ NoLayouts /\
       NoCameras /\ NoStore
    \/ part = "Layouts" /\ Layouts!Init
       /\ NoStamps /\ NoTrigger /\ NoDecoder /\ NoEngine /\ NoLink /\ NoCameras
       /\ NoStore
    \/ part = "Cameras" /\ Cameras!Init
       /\ NoStamps /\ NoTrigger /\ NoDecoder /\ NoEngine /\ NoLink /\ NoLayouts
       /\ NoStore
    \/ part = "Store" /\ Store!Init
       /\ NoStamps /\ NoTrigger /\ NoDecoder /\ NoEngine /\ NoLink /\ NoLayouts
       /\ NoCameras

\* A step of component p leaves the others alone.
Only(p) ==
    /\ part = p /\ UNCHANGED part
    /\ p # "Stamps" => UNCHANGED stampsVars
    /\ p # "Trigger" => UNCHANGED triggerVars
    /\ p # "Decoder" => UNCHANGED decoderVars
    /\ p # "Engine" => UNCHANGED engineVars
    /\ p # "Link" => UNCHANGED linkVars
    /\ p # "Layouts" => UNCHANGED layoutsVars
    /\ p # "Cameras" => UNCHANGED camerasVars
    /\ p # "Store" => UNCHANGED storeVars

Next ==
    \/ part = "Stamps" /\ Stamps!Next /\ Only("Stamps")
    \/ part = "Trigger" /\ Trigger!Next /\ Only("Trigger")
    \/ part = "Decoder" /\ Decoder!Next /\ Only("Decoder")
    \/ part = "Engine" /\ Engine!Next /\ Only("Engine")
    \/ part = "Link" /\ Link!Next /\ Only("Link")
    \/ part = "Layouts" /\ Layouts!Next /\ Only("Layouts")
    \/ part = "Cameras" /\ Cameras!Next /\ Only("Cameras")
    \/ part = "Store" /\ Store!Next /\ Only("Store")

Spec == Init /\ [][Next]_vars

-----------------------------------------------------------------------------
(* Properties: those of the components, each in its own behaviours.         *)

\* Every variable of every component has its type.
TypeOK ==
    /\ part = "Stamps" => Stamps!TypeOK
    /\ part = "Trigger" => Trigger!TypeOK
    /\ part = "Decoder" => Decoder!TypeOK
    /\ part = "Engine" => Engine!TypeOK
    /\ part = "Link" => Link!TypeOK
    /\ part = "Layouts" => Layouts!TypeOK
    /\ part = "Cameras" => Cameras!TypeOK
    /\ part = "Store" => Store!TypeOK

\* While events arrive before frames, a frame is stamped with the pulse that exposed it,
\* and none falls back to camera time.
StampIsOwnPulse == part = "Stamps" => Stamps!StampIsOwnPulse /\ Stamps!EveryFrameMatched

\* Pulses stay on the grid of their rate, the timer is set for the next of them whatever
\* the latency and the wraps, and an event is sent or counted as dropped.
PulsesOnGrid ==
    part = "Trigger" =>
        Trigger!PulsesOnGrid /\ Trigger!NextDeadlineSet /\ Trigger!EventsCounted

\* The decoder dispatches every intact frame once and nothing else, whatever damage is
\* around it, from a buffer that never holds a whole frame.
IntactFramesDelivered ==
    part = "Decoder" => Decoder!IntactFramesDelivered /\ Decoder!BufferBounded

\* The fusion engine names no key the smoother has dropped.
KeysInGraph == part = "Engine" => Engine!KeysInGraph

\* VIO motion enters the graph once.
EachDeltaOnce == part = "Engine" => Engine!EachDeltaOnce

\* The published pose never goes back in time.
PoseTimeAdvances == [][part = "Engine" => Engine!PoseForward]_vars

\* The robot link runs the row's configuration, receives on its own open socket only, and
\* counts each call of send_pose() once.
LinkMatchesRow ==
    part = "Link" => Link!LinkMatchesRow /\ Link!RxSocketOpen /\ Link!SendsCounted

\* With no request under way the tag consumers solve with the active layout, of which there
\* is one, and a reload lets at most one pose of the old configuration through.
SharedFresh ==
    part = "Layouts" => Layouts!SharedFresh /\ Layouts!ExactlyOneActive /\ Layouts!OneStalePose

\* With no request and no SDK event under way, camera slots, running cameras and their
\* consumers are those of the rows, and online exactly when plugged in.
SlotsFollowRows ==
    part = "Cameras" => Cameras!SlotsFollowRows /\ Cameras!OnlineWhenPlugged

\* No two trigger groups share an output, no two cameras an exclusive role.
TableRules == part = "Store" => Store!TableRules

\* An import that passes pins round between cameras never refuses one of them.
PinSwapsImport == part = "Store" => Store!PinSwapsImport

\* An import that reports no failure has restored the snapshot and told the services.
ImportRestores == part = "Store" => Store!ImportRestores
=============================================================================
