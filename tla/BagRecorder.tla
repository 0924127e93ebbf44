----------------------------- MODULE BagRecorder ----------------------------
(***************************************************************************)
(* The two recorders of calibration datasets: RosbagRecordingConsumer (single: *)
(* one camera, src/src/consumer/rosbag_recording_consumer.cpp) and             *)
(* MultiTopicBagRecorder (cameras and the IMU, multi_topic_bag_recorder.cpp),  *)
(* from attach()/start() to the closed file.  A channel hands out its newest   *)
(* frame; its frames are numbered.  Condition variables are predicates here.   *)
(***************************************************************************)
EXTENDS Integers, Sequences, FiniteSets

CONSTANTS
    NumCams,     \* cameras that are recorded
    QueueCap,    \* kQueueCapacity, kImageQueueCapacity
    ImuCap,      \* kImuQueueCapacity, of the bus's queue and of the recorder's
    Budget,
    MaxFrames,   \* bound: frames a channel publishes
    MaxSamples,  \* bound: IMU samples
    None

\* What the properties need of the constants; Streams assumes it.
RecorderAssumption ==
    /\ NumCams \in Nat /\ None \notin 0..NumCams
    /\ QueueCap \in Nat /\ ImuCap \in Nat /\ Budget \in Nat
    /\ MaxFrames \in Nat /\ MaxSamples \in Nat

Cams == 1..NumCams

VARIABLES
    single,
    phase,       \* "on", "stopping" after unsubscribe(), "draining" (stopping_), "closed"
    channel,     \* camera -> number of the newest frame published
    seen,        \* camera -> last_seq
    first,       \* camera -> the first frame it took (history)
    pull,        \* camera -> its pull thread: "wait", "have" a frame, "done"
    images,      \* the image queue: camera numbers
    bus, imus,   \* samples in the bus's queue and in the recorder's
    imu,         \* the IMU thread: "run" or "done"
    task,        \* what the writer thread has taken: a camera, 0 for a sample, None
    writer,      \* "run" or "done"
    written, dropped,
    samples,     \* IMU samples published
    bag

vars == <<single, phase, channel, seen, first, pull, images, bus, imus, imu, task, writer,
          written, dropped, samples, bag>>

Bag == INSTANCE RosbagWriter WITH Conns <- NumCams + 1
ImuConn == NumCams + 1

\* attach(), start(): the bag opens, then everything is subscribed.
Init ==
    /\ single \in BOOLEAN /\ phase = "on"
    /\ channel \in [Cams -> {0, 1}] /\ seen = [c \in Cams |-> 0] /\ first = seen
    /\ pull = [c \in Cams |-> IF single /\ c # 1 THEN "done" ELSE "wait"]
    /\ images = <<>> /\ bus = 0 /\ imus = 0
    /\ imu = IF single THEN "done" ELSE "run"
    /\ task = None /\ writer = "run"
    /\ written = [c \in Cams |-> 0] /\ dropped = written
    /\ samples = 0 /\ bag = Bag!Opened

Publish(c) ==
    /\ channel[c] < MaxFrames /\ channel' = [channel EXCEPT ![c] = @ + 1]
    /\ UNCHANGED <<single, phase, seen, first, pull, images, bus, imus, imu, task, writer,
                   written, dropped, samples, bag>>

Sample ==
    /\ imu = "run" /\ samples < MaxSamples /\ samples' = samples + 1
    /\ bus' = IF bus < ImuCap THEN bus + 1 ELSE bus
    /\ UNCHANGED <<single, phase, channel, seen, first, pull, images, imus, imu, task, writer,
                   written, dropped, bag>>

\* run_pull(): the newest frame is taken; those it skipped count as dropped.
Take(c) ==
    /\ pull[c] = "wait" /\ phase = "on" /\ channel[c] > seen[c]
    /\ pull' = [pull EXCEPT ![c] = "have"]
    /\ seen' = [seen EXCEPT ![c] = channel[c]]
    /\ first' = [first EXCEPT ![c] = IF seen[c] = 0 THEN channel[c] ELSE @]
    /\ dropped' = [dropped EXCEPT ![c] =
                     IF seen[c] = 0 THEN @ ELSE @ + channel[c] - seen[c] - 1]
    /\ UNCHANGED <<single, phase, channel, images, bus, imus, imu, task, writer, written,
                   samples, bag>>

\* A frame without a sync stamp (not for the single recorder), or that cannot be copied, or
\* that finds the queue full is dropped; another is queued.  Nothing here waits.
Enqueue(c) ==
    /\ pull[c] = "have" /\ pull' = [pull EXCEPT ![c] = "wait"]
    /\ \/ /\ dropped' = [dropped EXCEPT ![c] = @ + 1] /\ UNCHANGED images
       \/ IF Len(images) >= QueueCap
          THEN dropped' = [dropped EXCEPT ![c] = @ + 1] /\ UNCHANGED images
          ELSE images' = Append(images, c) /\ UNCHANGED dropped
    /\ UNCHANGED <<single, phase, channel, seen, first, bus, imus, imu, task, writer, written,
                   samples, bag>>

\* The single recorder's pull thread announces the end when it is done.
EndPull(c) ==
    /\ pull[c] = "wait" /\ phase # "on" /\ pull' = [pull EXCEPT ![c] = "done"]
    /\ phase' = IF single THEN "draining" ELSE phase
    /\ UNCHANGED <<single, channel, seen, first, images, bus, imus, imu, task, writer,
                   written, dropped, samples, bag>>

\* run_imu(): the oldest sample makes room.
TakeSample ==
    /\ imu = "run" /\ phase = "on" /\ bus > 0 /\ bus' = bus - 1
    /\ imus' = IF imus < ImuCap THEN imus + 1 ELSE imus
    /\ UNCHANGED <<single, phase, channel, seen, first, pull, images, imu, task, writer,
                   written, dropped, samples, bag>>

EndImu ==
    /\ imu = "run" /\ phase # "on" /\ imu' = "done" /\ bus' = 0
    /\ UNCHANGED <<single, phase, channel, seen, first, pull, images, imus, task, writer,
                   written, dropped, samples, bag>>

\* run_writer(): samples first; it leaves when told to stop and both queues are empty.
WriterTakes ==
    /\ writer = "run" /\ task = None
    /\ \/ imus > 0 /\ task' = 0 /\ imus' = imus - 1 /\ UNCHANGED <<images, writer>>
       \/ /\ imus = 0 /\ images # <<>>
          /\ task' = Head(images) /\ images' = Tail(images) /\ UNCHANGED <<imus, writer>>
       \/ /\ imus = 0 /\ images = <<>> /\ phase = "draining"
          /\ writer' = "done" /\ UNCHANGED <<task, images, imus>>
    /\ UNCHANGED <<single, phase, channel, seen, first, pull, bus, imu, written, dropped,
                   samples, bag>>

Write ==
    /\ task # None /\ task' = None
    /\ bag' = Bag!Added(bag, IF task = 0 THEN ImuConn ELSE task)
    /\ written' = [c \in Cams |-> IF c = task THEN written[c] + 1 ELSE written[c]]
    /\ UNCHANGED <<single, phase, channel, seen, first, pull, images, bus, imus, imu, writer,
                   dropped, samples>>

\* detach(), stop(): everything is unsubscribed ...
Stop ==
    /\ phase = "on" /\ phase' = "stopping"
    /\ UNCHANGED <<single, channel, seen, first, pull, images, bus, imus, imu, task, writer,
                   written, dropped, samples, bag>>

\* ... stop() joins the threads that fill the queues before it stops the writer ...
JoinPulls ==
    /\ ~single /\ phase = "stopping" /\ imu = "done" /\ \A c \in Cams : pull[c] = "done"
    /\ phase' = "draining"
    /\ UNCHANGED <<single, channel, seen, first, pull, images, bus, imus, imu, task, writer,
                   written, dropped, samples, bag>>

\* ... and with the writer joined what is left in the queues is cleared, the file closed.
Close ==
    /\ phase = "draining" /\ writer = "done" /\ phase' = "closed"
    /\ images' = <<>> /\ imus' = 0 /\ bag' = Bag!Closed(bag)
    /\ UNCHANGED <<single, channel, seen, first, pull, bus, imu, task, writer, written,
                   dropped, samples>>

PullStep(c) == Take(c) \/ Enqueue(c) \/ EndPull(c)
ImuStep     == TakeSample \/ EndImu
WriterStep  == WriterTakes \/ Write
StopStep    == JoinPulls \/ Close

Next ==
    \/ \E c \in Cams : Publish(c) \/ PullStep(c)
    \/ Sample \/ ImuStep \/ WriterStep
    \/ Stop \/ StopStep

Fairness ==
    /\ \A c \in Cams : WF_vars(PullStep(c))
    /\ WF_vars(ImuStep) /\ WF_vars(WriterStep) /\ WF_vars(StopStep)

Spec == Init /\ [][Next]_vars
FairSpec == Spec /\ Fairness

-----------------------------------------------------------------------------
TypeOK ==
    /\ phase \in {"on", "stopping", "draining", "closed"}
    /\ \A c \in Cams : pull[c] \in {"wait", "have", "done"} /\ seen[c] <= channel[c]
    /\ Len(images) <= QueueCap /\ imus <= ImuCap /\ bus <= ImuCap
    /\ task \in Cams \cup {0, None} /\ writer \in {"run", "done"}

\* From the first frame a camera gave, each one published up to the last one taken is
\* written or counted as dropped, and none is still on its way when the file is closed,
\* whichever order the threads stopped in.
FramesAccounted == \A c \in Cams :
    LET queued == Cardinality({i \in 1..Len(images) : images[i] = c})
        moving == queued + (IF task = c THEN 1 ELSE 0) + (IF pull[c] = "have" THEN 1 ELSE 0) IN
    /\ seen[c] # 0 => written[c] + dropped[c] + moving = seen[c] - first[c] + 1
    /\ phase = "closed" => moving = 0

\* The closed bag's index leads to every message written and to nothing else
\* (prepare_message(), note_message(), end_chunk(), close()).
BagReadable == phase = "closed" =>
    /\ Bag!IndexFindsMessages(bag) /\ Bag!RegionAtIndexPos(bag)
    /\ \A c \in Cams : written[c] =
         Cardinality({p \in DOMAIN bag.file : bag.file[p] = Bag!Record("msg", c)})

\* A recording that is told to stop closes its file.
StopCloses == phase = "stopping" ~> phase = "closed"
=============================================================================
