------------------------------ MODULE Streams ------------------------------
(***************************************************************************)
(* Five components that hand data from thread to thread and share no       *)
(* state, side by side: the user buffers, the measurement bus, the stereo  *)
(* pairer, the bag recorder and the controller link.  The initial state    *)
(* picks one of them (part), and only that one moves; the variables of the *)
(* others keep the value None.  The constants are those of the components. *)
(***************************************************************************)
EXTENDS Integers, Sequences, FiniteSets

CONSTANTS
    None,
    Slots, Releasers, MaxRefs, MaxImages, PromptReturn,
    Publishers, Subscribers, Capacity, MaxPublish,
    MaxPulse, SideCap, PairCap, MaxResets,
    NumCams, QueueCap, ImuCap, Budget, MaxFrames, MaxSamples,
    Callers, Resync, Configs, NoConfig, Ids, MaxCalls, MaxFaults, MaxEvents

VARIABLES
    part,        \* the component of this behaviour
    queued, image, in_flight, aux_data, refcount, delivered, cap, ret, badRelease,
    published, subs, queue, dropped, attached, notifying, consumer, since, popped,
    last,
    sides, pairs, shut, seen, runner, super, resets, got, paired, unmatched,
    overflow, pushed, taken, cleared,
    single, phase, channel, newest, first, pull, images, bus, imus, imu, task,
    writer, written, skipped, samples, bag,
    intent, desired, want, slot_pins, resync_needed, io, broken, pending,
    cmd_status, thread, toBoard, toHost, dtr, usb_seen, groups, armed, edges, tests,
    raced, calls, faults

Pool == INSTANCE UserBufferPool WITH Threads <- Releasers
Bus == INSTANCE MeasurementBus
Pairer == INSTANCE StereoSync WITH popped <- taken
Recorder == INSTANCE BagRecorder WITH seen <- newest, dropped <- skipped
Controller == INSTANCE SyncController

ASSUME Assumptions ==
    /\ Pool!PoolAssumption
    /\ Bus!BusAssumption
    /\ Pairer!PairerAssumption
    /\ Recorder!RecorderAssumption
    /\ Controller!ControllerAssumption

-----------------------------------------------------------------------------
poolVars == <<queued, image, in_flight, aux_data, refcount, delivered, cap, ret,
    badRelease>>
busVars == <<published, subs, queue, dropped, attached, notifying, consumer, since,
    popped, last>>
pairerVars == <<sides, pairs, shut, seen, runner, super, resets, got, paired, unmatched,
    overflow, pushed, taken, cleared>>
recorderVars == <<single, phase, channel, newest, first, pull, images, bus, imus, imu,
    task, writer, written, skipped, samples, bag>>
controllerVars == <<intent, desired, want, slot_pins, resync_needed, io, broken,
    pending, cmd_status, thread, toBoard, toHost, dtr, usb_seen, groups, armed, edges,
    tests, raced, calls, faults>>
vars == <<part, poolVars, busVars, pairerVars, recorderVars, controllerVars>>

\* The variables of a component that is not in this behaviour.
NoPool ==
    /\ queued = None /\ image = None /\ in_flight = None /\ aux_data = None
    /\ refcount = None /\ delivered = None /\ cap = None /\ ret = None
    /\ badRelease = None
NoBus ==
    /\ published = None /\ subs = None /\ queue = None /\ dropped = None
    /\ attached = None /\ notifying = None /\ consumer = None /\ since = None
    /\ popped = None /\ last = None
NoPairer ==
    /\ sides = None /\ pairs = None /\ shut = None /\ seen = None /\ runner = None
    /\ super = None /\ resets = None /\ got = None /\ paired = None /\ unmatched = None
    /\ overflow = None /\ pushed = None /\ taken = None /\ cleared = None
NoRecorder ==
    /\ single = None /\ phase = None /\ channel = None /\ newest = None /\ first = None
    /\ pull = None /\ images = None /\ bus = None /\ imus = None /\ imu = None
    /\ task = None /\ writer = None /\ written = None /\ skipped = None
    /\ samples = None /\ bag = None
NoController ==
    /\ intent = None /\ desired = None /\ want = None /\ slot_pins = None
    /\ resync_needed = None /\ io = None /\ broken = None /\ pending = None
    /\ cmd_status = None /\ thread = None /\ toBoard = None /\ toHost = None
    /\ dtr = None /\ usb_seen = None /\ groups = None /\ armed = None /\ edges = None
    /\ tests = None /\ raced = None /\ calls = None /\ faults = None

Init ==
    \/ part = "Pool" /\ Pool!Init
       /\ NoBus /\ NoPairer /\ NoRecorder /\ NoController
    \/ part = "Bus" /\ Bus!Init
       /\ NoPool /\ NoPairer /\ NoRecorder /\ NoController
    \/ part = "Pairer" /\ Pairer!Init
       /\ NoPool /\ NoBus /\ NoRecorder /\ NoController
    \/ part = "Recorder" /\ Recorder!Init
       /\ NoPool /\ NoBus /\ NoPairer /\ NoController
    \/ part = "Controller" /\ Controller!Init
       /\ NoPool /\ NoBus /\ NoPairer /\ NoRecorder

\* A step of component p leaves the others alone.
Only(p) ==
    /\ part = p /\ UNCHANGED part
    /\ p # "Pool" => UNCHANGED poolVars
    /\ p # "Bus" => UNCHANGED busVars
    /\ p # "Pairer" => UNCHANGED pairerVars
    /\ p # "Recorder" => UNCHANGED recorderVars
    /\ p # "Controller" => UNCHANGED controllerVars

Next ==
    \/ part = "Pool" /\ Pool!Next /\ Only("Pool")
    \/ part = "Bus" /\ Bus!Next /\ Only("Bus")
    \/ part = "Pairer" /\ Pairer!Next /\ Only("Pairer")
    \/ part = "Recorder" /\ Recorder!Next /\ Only("Recorder")
    \/ part = "Controller" /\ Controller!Next /\ Only("Controller")

Spec == Init /\ [][Next]_vars

-----------------------------------------------------------------------------
(* Properties: those of the components, each in its own behaviours.         *)

\* Every variable of every component has its type.
TypeOK ==
    /\ part = "Pool" => Pool!TypeOK
    /\ part = "Bus" => Bus!TypeOK
    /\ part = "Pairer" => Pairer!TypeOK
    /\ part = "Recorder" => Recorder!TypeOK
    /\ part = "Controller" => Controller!TypeOK

\* checkout() and return_buffer() never lose an image, release one twice or give the camera
\* a buffer to write while a frame over it has owners.
BuffersSound ==
    part = "Pool" => Pool!ReleasedOnce /\ Pool!FrameKeepsImage /\ Pool!NoDmaWhileOwned

\* Whatever a full queue of the bus, the pairer or the recorder drops is counted: what went
\* in came out, is queued, or is in the counter.
NothingLostUncounted ==
    /\ part = "Bus" => Bus!NothingLostUncounted
    /\ part = "Pairer" => Pairer!NothingLostUncounted
    /\ part = "Recorder" => Recorder!FramesAccounted

\* A consumer asleep in wait_pop() with a value queued has a notify_all() on its way; the
\* pairer never holds back a pair nor a frame older than a formed one, and never pairs
\* frames across a reset.
QueuesSound ==
    /\ part = "Bus" => Bus!NoLostWakeup
    /\ part = "Pairer" =>
         Pairer!NoMatchWaiting /\ Pairer!NothingStaleWaiting /\ Pairer!OnlyThisSession

\* The index of a closed bag finds every message written, in every chunk.
BagReadable == part = "Recorder" => Recorder!BagReadable

\* Values of the bus and pairs of the pairer are popped in order and at most once.
PopsInOrder ==
    [][/\ part = "Bus" => Bus!PopsNext
       /\ part = "Pairer" => Pairer!PopsNext]_vars

\* A call to the controller reports success only for a command that was acknowledged.
OkMeansAcked == [][part = "Controller" => Controller!AckedIfOk]_vars
=============================================================================
