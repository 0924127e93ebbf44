# Verification of pose-estimation

TLA+ models of the concurrent core of this repository, the TLC runs that check
them on small instances, and TLAPS proofs of what matters most for every
instance. Paths below are relative to the repository.

## 1. The system

`apps/guesswork` is one process on a Mac: it reads trigger-synchronised cameras
through Spinnaker, finds AprilTags, runs stereo VIO, fuses both with the IMU and
sends poses to a robot over UDP. A microcontroller (`firmware/`) makes the
trigger pulses, stamps them and the IMU samples with one clock, and talks to the
host over USB. A web client configures everything over HTTP.

| Component | State it keeps | Operations | Talks to | What is hard | What makes it correct |
|---|---|---|---|---|---|
| Frame path: `src/core/frame.*`, `frame_pool.*`, `frame_channel.*` | a reference count and a pool flag per frame; `latest_`, `latest_seq_`; per subscriber a token, `last_seen_seq`, `attached` | acquire, publish, subscribe, next_frame, unsubscribe, release | one producer thread, one worker per consumer | lock-free; a frame may be recycled while it is retained; token wait and notify; detach during both | counts equal owners; a held frame is not refilled; no lost wake-up; latest value only; the pool never leaks |
| User buffers: `src/producer/spinnaker_user_buffer_pool.*` | an image per slot, `aux_data` per frame | checkout, return_buffer | SDK queue, capture thread, whoever drops the last reference | last release on any thread; unlocked slot fields | each image is released once; no DMA into an owned buffer; every buffer comes back |
| Capture: `src/producer/spinnaker_producer.*` | user pool, sequence counter, running flag | start, stop, capture loop | SDK, pulse stamper, frame channel | order of reset, arm and acquisition | a frame carries the time of the pulse that exposed it |
| Pulse matching: `pop_pulse_ns` of `src/server/sync_controller_manager.cpp` | a queue of pulses and a last block id per pin | on_trigger, pop_pulse_ns, reset_pin_state | serial thread, capture threads | two streams matched by counting; dropped frames, late events | as above |
| Sync controller, host: `sync_controller_manager.*`, `routes_hardware_sync.cpp` | desired configuration, want_armed, slot pins, port, pending command | push_config, stop_outputs, test_output, resync, reconnect | HTTP threads, resync thread, serial thread, board, database | lost and late ACKs, retries, unplug, reset, stale snapshot | the board ends up as the operator asked; a test fires once |
| Sync controller, board: `firmware/src/main.cpp`, `trigger_engine.cpp` | groups, armed, event ring, receive buffer | loop, handle_command, timer interrupt | host over USB, outputs | loss of the host, full transmit buffer and event ring | outputs are LOW without a host or after a stop |
| Protocol framing: `sync_protocol_decoder.*` | receive buffer | feed | serial thread | resynchronisation after garbage | a frame is delivered whole or not at all |
| Measurement bus: `src/core/measurement_bus.hpp` | a bounded queue per subscriber | publish, subscribe, unsubscribe, try_pop, wait_pop | IMU source, VIO, fusion, recorders | slow subscribers, unsubscribe of a blocked one | in order, losses counted, no lost wake-up |
| Stereo pairing: `src/vio/stereo_sync_consumer.*` | a buffer per side, a pair queue, counters | push, wait_pop, shutdown, reset | two feeders, the runner, the VIO supervisor | a side falls behind; rebuild during pushes | pairs are of equal stamps, ordered, of one session; frames accounted for |
| VIO: `vio_supervisor.*`, `openvins_runner.*` | runner, pairer, subscriptions | reload, start, stop | bus, pairer, fusion | rebuild order | no runner outlives its inputs |
| Camera supervisor: `camera_supervisor.*` | slots, factories, SDK listener | add, start, stop, hot-plug | producers, consumers, database | SDK callbacks under the mutex | consumers detach before their channel goes |
| Calibration: `calibration_supervisor.*`, recorders | sessions, recorders, jobs | start, stop, cancel, reap | camera slots, jobs, bus | recorders outliving a slot; half-started sessions | a failed start leaves nothing behind |
| Jobs: `subprocess_job.*`, `kalibr_job.*`, `kalibr_imu_job.*` | state, pid, log ring | start, cancel, reader loop | docker, calibration | cancel before the pid is known | every job ends; cancel kills it |
| Fusion supervisor: `fusion_supervisor.*`, `sync_clock_now.*` | bounded event queue, active configuration | push, reload, worker | AprilTag, VIO, bus, robot link | in-band Reset and Reconfigure among dropped events | the engine ends on the last configuration |
| Fusion engine: `src/fusion/fusion_engine.*` | pose, delayed measurements | handle events | fusion worker | late and out-of-order measurements | time never goes back |
| AprilTag: `src/apriltag/*`, `apriltag_supervisor.*` | detector, layout, settings | process a frame, reload | frame channel, fusion | settings change during a frame | results carry the right source of their stamp |
| Robot link: `src/net/robot_link.*` | socket, peer, last exchange | configure, send_pose, receive | fusion, robot | reconfiguration while sending | the datagram goes to the configured peer |
| Clock synchronisation: `src/core/clock_sync.*` | sample window, offset, drift | add, convert, reset | serial thread, fusion | controller reset, backward jump | conversion is monotone between resets |
| IMU services, rosbag writer, streaming | filters, files, peers | per sample or frame | bus, frame channel | numerics, formats, platform encoders | - |
| Persistence: `database.*`, repositories, `config_snapshot.*` | SQLite tables | queries, export, restore | routes, supervisors | restore that fails half-way | restore is all or nothing |
| HTTP server, routes, web client | none of their own | JSON in and out | everything above | - | - |

How a picture flows: the board pulses an output; the event goes to the host over
USB and into the pin's pulse queue; the camera exposes and Spinnaker fills a
user buffer; the capture thread checks it out as a frame, matches it to a pulse,
and publishes it to the frame channel; consumers take it, and the last one to
release it hands the buffer back to the SDK. Two VIO cameras' frames meet in the
stereo pairer by equal stamps. `hazards` in `PROJECT.json` lists, line by line,
where this can go wrong in ways a test would hardly reach.

## 2. The modules

One module per component; a definition is commented with the function it stands for,
and `map` in `PROJECT.json` gives its lines. A step is what a thread does between two
points where another thread can observe or change what it uses: one access of one
atomic, or one critical section. Requests over HTTP are actors with a program counter
(`req`, `put`, `caller`, `thread`): what a handler does between two calls of a
supervisor or a repository can be interleaved with everything else.

### From the camera to the consumers

**`FrameChannel`** - `Frame`, `FramePool` and `FrameChannel` of one camera. A step
is one access of one atomic: `Acquire` is the compare-and-swap of `in_pool`,
`ResetForAcquire` the store of the count, `Exchange`, `StoreSeq`, `ReleaseOld`,
`SnapshotSubs`, `CheckTarget`, `BumpTarget`, `WakeTarget` the steps of `publish()`;
`Top` ... `Wait` those of `next_frame()` with `LoadLatest`, `TryRetain`, `Verify`,
`Release`, `Recycle` for `try_acquire_latest()`; `MarkDetached` ... `Unlist` those of
`unsubscribe()`, run by the owner of the consumer while its worker runs. The model
is sequentially consistent: the code publishes with release and reads with acquire
operations of the same atomics, and the order between `latest_` and `latest_seq_`
that the properties use is one program order on each side. A frame is its slot; its
content is its sequence number. `Holds` and `InBetween` say who owns a reference at
each control point; they are the vocabulary of the invariants.

**`LatestOnly`** - what a consumer is promised: a register from which it takes ever
newer values and never one older than what was published when it asked.
`FrameChannel` implements it under the mapping `Register` (checked and proved).

**`UserBufferPool`** - the pool the cameras run on. `GetNextImage`, `Checkout*`,
`Published`, `Retain`, `Release` and the four accesses of `return_buffer()` are
separate steps, since no lock orders them. Counts are abstract here (which owner
holds what is `FrameChannel`'s subject). `PromptReturn` says whether the SDK may
deliver a buffer again while `return_buffer()` for it is still running; the SDK is
external and its documentation does not exclude it.

**`CameraSlots`** - rows, slots, the SDK's arrival and removal events, the requests that
create, change and remove cameras, a calibration job that writes a row, and a recording
that borrows a channel. A supervisor method holds `mu` throughout and is one step. A row
is what `on_camera_updated()` tells apart: what restarts the producer (`cfg`), what
rebuilds the extra consumer (`stamp`, `orient`), and the live settings (`gain`, clamped
by the camera, written back as applied).

**`StreamPeers`** - a camera's stream: offer and answer on an HTTP thread, the encode
thread, the encoder's callback and libdatachannel's callbacks that report a peer lost.
The peer is destroyed by the encode thread alone.

**`RosbagWriter`**, **`BagRecorder`** - the file as a sequence of records with chunks,
connections and indices, as operators; and the two recorders (one camera; several and the
IMU) with their pull, IMU and writer threads, bounded queues and `stop()`.

### The trigger controller

**`TriggerEngine`** - the timer interrupt of the firmware over a counter of W bits: the
compare register, latency, the schedule with its fractional part, the event ring, and
configure, arm, stop and pop from the main loop.

**`FrameDecoder`** - `feed()` over a byte stream cut anywhere, with a byte damaged, lost or
added: header checks, resynchronisation byte by byte, dispatch. The CRC is ideal.

**`SyncController`** - HTTP callers, the resync thread, the serial thread, the wire
and the board's `loop()`. A host step is what happens between two points where
another thread can take `cmd_mu` or `cfg_mu`. The wire keeps order; a cable pull
loses what is not yet in the board's buffer; the board may drop an answer. Trigger
groups are one model value per configuration; the events and IMU records that share
the wire are left out.

**`PulseStamps`** - a trigger group and its cameras: pulses, events on their way to
the host, `PinState` queues, block ids, `pop_pulse_ns()` and the capture loop.
`Disturbances` names what an instance lets go wrong; with none, cameras may still
drop any frame but the first of a session, stop, and start while the group is quiet.

### Odometry, fusion and the robot

**`MeasurementBus`** - a step is one critical section under a subscriber's mutex or
one `notify_all()`. A time-out of `wait_pop()` is a wake-up at any moment.

**`StereoSync`** - a step is one critical section of the pairer. The feeders push
ever later stamps and skip any; the VIO supervisor rebuilds the runner by shutdown,
join, reset and start while the feeders go on.

**`VioRunner`** - `ensure_runner_locked()` from two threads (`Reload` up to the gate,
`Rebuild` with its join under the mutex) and the runner's loop: take a pair, reinitialise
after a gap, wait for IMU coverage, publish odometry of an epoch. OpenVINS is a filter with
an identity that is or is not initialised.

**`FusionSupervisor`** - drainers, the bounded queue with `Reset` and `Reconfigure` among the
measurements, the engine thread's batches, the output thread, `reload()` of a request,
destruction. **`FusionEngine`** - what the engine thread runs, one action per event:
states, smoother keys, buffered VIO deltas and their use between states, initialisation,
collision mode, reset. Gates and the smoother's exceptions are choices.

**`TagLayouts`** - the layouts table with its one active row, the requests on it, the shared
configuration and the frames that are solved with it.

**`RobotLink`** - `PUT /api/robot/config` step by step (`Update` ... `Run`), the receive
thread, and `send_pose()` in two halves.

### Configuration and jobs

**`ConfigStore`** - cameras, trigger groups and a configuration row with their constraints,
the requests that write them, export, import row by row with its pre-clearing of pins and
removal of groups, and the propagation to the services.

**`Calibration`** - sessions, jobs and their exclusions under the supervisor's mutex;
`SubprocessJob`: fork, cancel, the reader thread, exit handler, waiters; the log streams;
destruction. Kalibr is a child that exits somehow, some time.

**`ImuLog`** - `start()` with its two critical sections, the drain thread that may end the
recording itself, `stop()`, `analyze()`, `apply()`. A reboot of the controller sets time
back.

### What only TLC needs

`MCSyncController` (symmetry and a view), `MCCameraSlots` (functions as constants), and
`MCStreams`, `MCServices` and `MCSafety`, which give the compositions below their constants,
the fairness and the liveness properties that are checked of them, and, for the tables of
`Safety`, the rows from which the requests start (`SetUp`).

### Components side by side

**`Streams`** (user buffers, bus, pairer, bag recorder, controller), **`Services`** (fusion
supervisor, odometry, calibration, IMU log, streaming) and **`Safety`** (pulse stamps, timer,
decoder, fusion engine, robot link, layouts, camera slots, tables) put components next to
each other that share no state, so nothing is lost by exploring each alone: the initial
state picks one (`part`), the others' variables are `None` and stay so, and the behaviours
are the union of the components' behaviours. A property is the conjunction of what the
components state about the same question. A composition has the components' constants for
its own and assumes of them what the components need (`Assumptions`), so that its properties
can be proved as well as checked.

### What proves

`FrameChannelProofs`, `MeasurementBusProofs`, `StereoSyncProofs` and `SyncControllerProofs`
each prove about one component. `StreamsProofs` proves about the user buffers and the bag
recorder and brings all five to the composition; `ServicesProofs` does so for the services;
`SafetyProofs`, with the two longest components in `CameraEngineProofs`, for `Safety`
(section 5).

## 3. The runs

| Run | Question | Components and bounds |
|---|---|---|
| `FrameChannel` | Are counts and pool exact, is a held frame stable, is the channel a latest-value register, do frames arrive and detaches return? | 3 frames, 1 consumer, 3 publications |
| `SyncController` | Does the board end up as asked after calls, lost and late ACKs, unplugs and resets? Does a test pulse once? | 2 calls, 2 faults, 3 together; 2 configurations |
| `Streams` | Does what one thread hands to another arrive, in order, or get counted? Does everybody who waits get out? | buffers: 2, 4 images, 2 releasing threads; bus: 2 publishers, queues of 1 and 3, 3 values; pairer: 5 stamps, queues of 2, a rebuild; recorder: 2 cameras and the IMU, queues of 1, chunks of 1 or 2 messages; controller: 1 call or 1 fault |
| `Services` | Are the services those of the rows once requests have returned? Do the exclusions hold? Does everybody who joins get through? | fusion: queue of 2, 2 requests one after the other, 1 event per stream; odometry: 2 threads, 2 writes, a gap; calibration: 2 cameras, 2 clients, 2 jobs, 5 calls; IMU log: 2 clients, 4 calls, 2 recordings; stream: 2 peers |
| `Safety` | The safety properties of eight components | stamps: 2 cameras, 6 pulses, 3 starts; timer: 2 groups with fractional periods, 4-bit counter over 18 ticks, latency 2, ring of 3; decoder: 3 frames, 1 damaged byte; engine: times up to 5, lag 3, 2 epochs; link: 3 PUTs, 2 senders; layouts: 2 layouts, 2 cameras, 2 threads, 3 requests; slots: 2 rows for a device, a client and a job, 2 plug events; tables: 3 cameras, 2 pins, 2 groups, a file that passes pins round |
| `UserBufferPoolLeak` | Are buffers safe when the SDK redelivers at once? No | 2 buffers, 3 images |
| `SyncControllerStop` | Is the board unarmed after an explicit stop that overlaps a resync? No | 2 calls, no fault |
| `SyncControllerHostLoss` | Is the board unarmed once it has seen the host go? No | 1 call, 1 fault |
| `PulseStampsLate` | Are stamps right when one event is late? No | 1 camera, 4 pulses |
| `ChannelOutlivesConsumers` | Does a recorder ever outlive its channel? Yes | 1 device, 2 clients and a job, 1 plug event |
| `SseDone` | Does `done` on a log stream tell the stored outcome? No | 1 job, 1 client |
| `VioConfigApplied` | Is a changed odometry configuration always applied? No | 2 writes in one second |

What the properties say:

- `RefcountExact`, `PoolExact`, `HeldFrameStable`, `NeverStale`, `PoolSuffices`,
  `NoLostWakeup`, `ImplementsRegister`, `NewFrameSeen`, `DetachReturns`: see
  `FrameChannel`; all but the last two are also proved.
- `SettledInSync`, `Converges`: with no call that overlapped another, a settled host and
  board agree with what was asked, and they settle. `TestPulsesOnce`: a retry never
  repeats a test pulse. `OkMeansAcked`: success is reported for acknowledged commands.
- `BuffersSound`: an image is released once, kept while its frame lives, and no buffer is
  written while owned. `NothingLostUncounted`: values in, out, queued and dropped add up on
  the bus, in the pairer and in the recorders. `QueuesSound`: no sleeper beside a value, no
  pair held back, none across a reset. `PopsInOrder`. `BagReadable`: a closed file's index
  finds every message written.
- `ServicesFollowRows`, `SlotsFollowRows`, `SharedFresh`, `LinkMatchesRow`,
  `ImportRestores`: what runs is what the rows say once nothing is under way, for fusion and
  odometry, camera slots, tag layouts, the robot link, and after an import.
- `OneJobOneRecording`, `ResultsReachCameras`, `EpochPerFilter`, `PoseTimeAdvances`,
  `KeysInGraph`, `EachDeltaOnce`, `TableRules`, `PinSwapsImport`, `StampIsOwnPulse`,
  `PulsesOnGrid`, `IntactFramesDelivered`: stated where they are defined.
- `EverybodyReturns` (twice): whoever joins a thread, waits in a queue, or waits for a
  buffer, a file, a purge or a keyframe, gets through.

Why the bounds suffice. *Frames*: three frames and three publications already reuse
a slot while the consumer may hold, retain or have just loaded it; all of it but liveness
is proved for any number. *Buffers*: four images over two buffers send each round
twice. *Calls and faults*: a race needs two parties (a call and the resync, a request and
a job, a request and an event), and the third hits the recovery of the second; two values
tell old from new. *Pulses*: six pulses with rings of three reach every fill level, before
and after a restart. *Timer*: 18 ticks of a 16-tick counter wrap with either group due on
either side. *Queues*: one capacity at the minimum and one that overflows late. *Damage*:
one byte between three frames can hit any field of any of them and the next two show the
resynchronisation. *Times of the engine*: five with a lag of three trim states and keys
while a tag or an interval may be late.

Every property has a mutant in `PROJECT.json`, a plausible slip in the code
(a dropped check, a swapped order, a missing wake-up) under which TLC finds it
violated. Deadlock is not checked in the three composite runs and in
`ChannelOutlivesConsumers`, `SseDone` and `VioConfigApplied`, where a behaviour ends when its calls and inputs are used up;
who must not wait is the subject of `EverybodyReturns` instead.

### Fairness

`FrameChannel`: every thread that can take a step takes one (weak fairness of the
publish steps once a frame is acquired, of each worker, of each detach in
progress); nothing forces the camera to deliver, a consumer to attach or anybody to
detach. `Streams`, `Services`: weak fairness of each thread of the component that
moves. Forced are the capture loop and a started `return_buffer()`, notified consumers, the
runner and its rebuild, the recorders' threads and a `stop()`, the controller's threads,
wire and board loop, the engine, output and drainer threads, a request once begun, a
started child's exit, readers and log streams, the drain thread. Not forced are new
calls, faults, publications, frames, references released by consumers, peers that join.
`Services` has two strong conditions: a request that waits for the odometry
supervisor's mutex gets it in the end although others take it meanwhile, and not every frame
comes while the encoder is busy. These are the guarantees of an operating system scheduler
for runnable threads, of a mutex without starvation, and of a superloop.

## 4. What disagrees with the documentation

- `return_buffer()` hands the image back (`spinnaker_user_buffer_pool.cpp:165`) before
  it clears `aux_data` and `in_flight`. A buffer redelivered in between has its new
  image erased: it is never released and the buffer leaves the cycle
  (`UserBufferPoolLeak`). Clearing both first would remove the window.
- `run_resync()` sends a snapshot it took before a stop
  (`sync_controller_manager.cpp:484-490`): outputs run again after an acknowledged
  stop (`SyncControllerStop`). `SettledInSync` therefore speaks of calls that do not
  overlap another.
- The board handles buffered commands after it has stopped for the loss of the host
  (`firmware/src/main.cpp:222-227`): an `ARM` among them starts the outputs again,
  with no host (`SyncControllerHostLoss`).
- `pop_pulse_ns()` caps what it discards by what has arrived (`:423`): one frame read
  before its event shifts the stamps of that camera until it is restarted
  (`PulseStampsLate`). The disturbances `running_start` (the pin is reset at
  `spinnaker_producer.cpp:403`, acquisition begins at `:440`), `lost_first`,
  `lost_event` (the firmware's event ring was full; the index in the event is not
  compared) and `long_stall` (more than `kPulseRingMax` pulses behind) break
  `StampIsOwnPulse` in the same way; they have no run of their own.
- A calibration recording keeps a plain pointer to a channel that dies with the slot's
  producer (`calibration_supervisor.cpp:158`), against the rule of
  `camera_supervisor.cpp:229-231` (`ChannelOutlivesConsumers`).
- A job's final state is visible before its exit handler has run
  (`subprocess_job.cpp:236`): a log stream may say done first (`SseDone`).
- The odometry's fingerprint compares seconds: the second of two changes in one second is
  not applied (`vio_config_repository.cpp:63`, `VioConfigApplied`).
- Seen while modelling, without a run: the host has one pending-command slot for all
  threads, so the ACK of one call can end the wait of another
  (`sync_controller_manager.cpp:649-656`; this is the `crossed` case that
  `OkMeansAcked` excepts). A frame without a pulse keeps the camera's own time
  (`spinnaker_producer.cpp:526`), while `stereo_sync_consumer.hpp:20-22` and the
  drop at `stereo_sync_consumer.cpp:150` expect 0 for it. A peer lost while it is being
  added stays in the list (`stream_consumer.cpp:59-66`); a keyframe asked for by a peer
  whose track is not yet open is lost on it (`stream_consumer.cpp:69`, against
  `stream_consumer.hpp:52-53`); a close handler copied before the consumer is destroyed
  runs after it (`webrtc_peer.cpp:51`, against the comment at `:100-103`). An analysis takes
  times that go back for a very long log (`imu_allan_service.cpp:89-93`). The inflation of a
  VIO factor counts the time before its first delta and after its last, "≤ one VIO period at
  each end" (`fusion_engine.cpp:500-505`): what VIO leaves out between two deltas, when it was
  restarted or not healthy, is not counted, and at the ends it may be longer.

Hazards without a property (`hazards` gives the reason of each): a pool replaced at a
restart while frames of it are out; an arm and a stop at the same time; a new pin
assignment with events in flight; times that go back at a reboot; two overlapping fusion
reloads; a cancel at the very start or end of a child; two clients on one camera or one
role; two PUTs on the robot link and two starts of the IMU log (a joinable thread is
assigned); a peer lost while it is added. In most of them the model reaches the bad state
and the repository has no sentence that says otherwise.

## 5. What is proved

### The frame path

For any pool, any finite set of consumers and any number of publications,
`FrameChannelProofs` proves every safety property of `FrameChannel` that its run checks:

| Theorem | Module | States |
|---|---|---|
| `TypeCorrect` | `FrameChannelProofs` | `Spec => []TypeOK` |
| `RefcountIsExact` | `FrameChannelProofs` | `Spec => []RefcountExact`: the count of a frame is the number of its owners |
| `PoolIsExact` | `FrameChannelProofs` | `Spec => []PoolExact`: a slot is out of the pool exactly while it has an owner, or one thread is about to count or to recycle it |
| `HeldFrameIsStable` | `FrameChannelProofs` | `Spec => []HeldFrameStable`: a returned frame keeps its number until released |
| `NeverFallsBack` | `FrameChannelProofs` | `Spec => []NeverStale`: the fall-back of `next_frame()` is dead code |
| `NoWakeupLost` | `FrameChannelProofs` | `Spec => []NoLostWakeup` |
| `PoolNeverDry` | `FrameChannelProofs` | `Spec => []PoolSuffices`: two frames more than consumers suffice |
| `Implements` | `FrameChannelProofs` | `Spec => Register!Spec`: the channel is a latest-value register |

Assumptions: the named ones of `FrameChannel` (the null frame is no frame; the
consumers are finitely many; the producer, the channel and the consumers are
different owners; the bound on publications is a natural number).

None of the properties is inductive alone. Four invariants stand on each other.

1. `IInv` (`Inductive`) is `Control` and, for every slot, `SlotOK`. `SlotOK(s)` is
   `SlotLife(refcount, in_pool, Holders, Between)`: the slot is in one of three lives,
   *counted* (it has owners, as many as the count), *pooled* (no owner, flag set), or *in
   hand* (exactly one thread between `acquire()` and the first count, or between the last
   release and `return_to_pool()`). `Control` says which variables name a frame at which
   control point, that the frame being filled is not the published one (`Distinct`, without
   which `publish()` could exchange a frame for itself and lose a reference), and that a
   worker exists only once its consumer is attached. Lemmas `Retained`, `Counted`, `Dropped`,
   `DroppedLast`, `Returned`, `Taken` and `Swapped` say what one access does to one slot's
   life for arbitrary sets of owners; this is where finite cardinalities are used.
   `ReferenceDropped`, `ReferenceReturned` and `AllUntouched` lift them to all slots; then
   one lemma per action that moves a reference and one per group that moves none.
2. `Fresh` (`FreshInductive`): `latest_seq_` is never ahead of the published frame
   (`NumbersOK`, the reason why it is stored after the exchange), and what a worker has
   verified is not what the producer fills (`FrameFresh`). It needs `IInv`: the slot the
   producer takes from the pool is nobody's (`AcquireFresh`).
3. `Awake` (`AwakeInductive`): a worker between taking its token and sleeping has seen
   everything that was published and not yet announced to it, or its token has moved or is
   about to (`SleepOK`); the subscriber's flags agree with its owner (`OwnerOK`).
4. `Window` (`WindowInductive`): the frame a worker has verified was published after it
   called `next_frame()` and not after now (`InWindow`); `latest_` holds what is published.

The refinement takes the exchange of `latest_` for the publication of the register, the
comparison in `next_frame()` for the delivery, `subscribe()` for the seed, and every other
step for none (`Unnoticed`). `PoolNeverDry` counts with the pigeonhole principle: while the
producer acquires, every slot out of the pool is in the hands of the channel or of a
consumer, and none of them has two.

### The trigger controller

| Theorem | Module | States |
|---|---|---|
| `OnePulsePerTest` | `SyncControllerProofs` | `Spec => []TestPulsesOnce`: at most one pulse per call of `test_output()`, whatever is lost, late, unplugged or reset |
| `ControllerTypeCorrect` | `SyncControllerProofs` | `Spec => []TypeOK` |
| `SettledBoardInSync` | `SyncControllerProofs` | `Spec => []SettledInSync`: once host, wire and board are at rest with the link up, and no call overlapped another, the board is armed as the operator asked with the configuration asked for |
| `OnlyAckedIsOk` | `SyncControllerProofs` | `Spec /\ []IdsLeft => OkMeansAcked`: a call reports success for a command the board acknowledged, or whose pending slot another call took |

Assumption: `ControllerAssumption` (finitely many callers, none of them the resync thread;
at least one command id; `NoConfig` is no configuration; `None` is no status; the bounds are
natural numbers).

*Tests.* The number of edges says nothing about tests not yet executed, so the invariant `IInv`
(`ControllerInductive`) counts a test wherever it may be. `Budget`: edges made, plus
TEST_OUTPUT frames on the wire, plus calls that wait to send theirs, are at most the calls
made. `GoodCall` says why a call leaves that count once: a test's plan is one command with
one attempt (`TriesFor`, `sync_controller_manager.cpp:400-403`), and no other call's plan
holds a test. Lemmas `Written`, `Handled` and `Lost` say what sending, executing and an
unplug do to the wire's part of the count; then one lemma per group of actions. If a test
were given two attempts, as every other command has, `AttemptFailed` would not hold.

*In sync.* What the board does not know yet is still on its way, and that is what `SInv`
(`ControllerOnCourse`) says. `WillHave`, `WillArm` and `WillDisarm` read the board's state and
the wire together: a configuration or an arm state holds now or is made by a frame on the
wire, and no later frame undoes it. An attempt that timed out may still be on the wire, and so
may its repetition: only the last frame that matters counts. With no call under way and the
link up (`Fine`) the board is on course for what the database says (`RestState`); with one
call under way, its control point says what it has still to send (`BusyState`). If the link is
down, a write failed or a resync is due, nothing is claimed until that resync has run, which
is why a lost command cannot go unnoticed: every failure leaves `resync_needed` or a broken
port. `Unraced` holds as long as no two calls overlapped, `NothingAsked` (nothing arms a board
that was never configured) and `CallsShaped` (what a call has left to send is a suffix of its
plan) always. `Ends...` lemmas say what writing, handling and losing a frame do to a fact about
the wire; then one lemma per action.

*Acknowledgements.* `AckInv`: of a call that still waits, whose pending slot nobody took,
there is no Ok in the host and none on the wire with its id. The id must be fresh for
that, and `next_request_id` is 16 bits wide and wraps (`sync_controller_manager.cpp:198`,
`:630-631`): nothing in the code keeps it from meeting an id still in flight after 65535 more
commands. The model takes any id not in use and the theorem has the hypothesis `IdsLeft`,
that there is one in every state. Eight ids always leave one in the `SyncController` run.

### The measurement bus

For any publishers, subscribers, capacities and number of values:

| Theorem | Module | States |
|---|---|---|
| `NothingIsLostUncounted` | `MeasurementBusProofs` | `Spec => []NothingLostUncounted` |
| `PopsAreInOrder` | `MeasurementBusProofs` | `Spec => PopsInOrder`: pops are ever newer |
| `BusLosesNoWakeup` | `MeasurementBusProofs` | `Spec => []NoLostWakeup` |

Assumption: `BusAssumption` (a capacity is at least one: every call of `subscribe()` asks
for 1024 or more; publishers are not subscribers). It is a hypothesis of each theorem, and
`Streams` assumes it.

The invariant `BusInv` gives for each subscriber an account, `GivenOK`: values popped, queued
and dropped since it subscribed are exactly those published, the queue holds the newest
of them without a gap, and all are newer than the last one popped. For a subscriber that
has left, equality becomes at most, since `publish()` no longer reaches it while it may
still drain its queue. `Pushing` and `Popping` are the two lemmas about queues;
`NoLostWakeup` is inductive next to the types.

### The buffers

For any number of buffers, releasing threads, references and images (`Spec` is that of
`UserBufferPool`):

| Theorem | Module | States |
|---|---|---|
| `ImagesReleasedOnce` | `StreamsProofs` | `Spec => []ReleasedOnce` |
| `FramesKeepTheirImage` | `StreamsProofs` | `Spec => []FrameKeepsImage` |
| `OwnedBuffersAreStable` | `StreamsProofs` | `Spec => []NoDmaWhileOwned` |

Assumptions: `PoolAssumption` (`None` is neither a buffer nor an image; the bounds), and
`PromptReturn`: the SDK delivers a buffer again only after `return_buffer()` for it has
returned. Nothing in the code ensures that, and `UserBufferPoolLeak` shows what happens
otherwise; the theorems say that it is the only thing missing.

The invariant `PoolInv` (`PoolInductive`) puts each buffer in one of four phases: `Free` with
the SDK, `Capturing` between `GetNextImage()` and the end of `checkout()`, `Out` with the
owners of its frame, or `Back` in the hands of exactly one thread in `return_buffer()`.
`Distinct` says that no image is in two buffers, so that releasing one does not disturb
another (`OthersStay`); `Stays` that a step on one buffer leaves the others in their
phases. `PromptReturn` is used once, in `DeliverStep`: the buffer delivered is `Free` and not
`Back` with its last two accesses still to come.

### The stereo pairer

For any capacities, stamps and number of resets, and whichever frames either camera skips:

| Theorem | Module | States |
|---|---|---|
| `FramesAreCounted` | `StereoSyncProofs` | `Spec => []NothingLostUncounted` |
| `MatchesArePaired` | `StereoSyncProofs` | `Spec => []NoMatchWaiting` |
| `NothingStaleWaits` | `StereoSyncProofs` | `Spec => []NothingStaleWaiting` |
| `PairsAreOfThisSession` | `StereoSyncProofs` | `Spec => []OnlyThisSession` |
| `PairsComeInOrder` | `StereoSyncProofs` | `Spec => PopsInOrder`, across resets too |

Assumption: `PairerAssumption` (both capacities are at least one, as `kSideCap` and `kPairCap`
are; the bounds), a hypothesis that `Streams` assumes.

`purge` looks at the front of a side only. That it leaves nothing stale behind, and that a
match can only be where `push()` looks, follow from the order in `PairerInv`
(`PairerInductive`): frames on a side rise, up to the last stamp of their camera and all of
this session (`SideOK`); the pairs rise and lie between the one popped last and the frames
that wait (`PairsOK`, `SidesAhead`). `PurgeStops` says where purge stops: the
number of frames it drops is a least element of a set of naturals, which exists by
well-foundedness, so no induction over the queue is needed. `BufferStep` and `MatchStep` are the two halves of `push()`.

### Recordings

`RecorderInv` says that every frame of a camera since the first one taken is written, counted as
dropped, or *moving*: in the pull thread's hand, in the queue, or in the writer's (`FramesOf`);
and that a stop goes through its phases in order, so that the file is closed with nothing
moving (`StopsInOrder`). The number of frames of a camera in the common queue is the size of
a set of places (`Spots`), and one enqueue or dequeue changes one of these sets by one.

`BagInv` is about the file. While it is open it is *writable*: the index entries of each
chunk correspond one to one to the messages in it, of the right connection and time. Beginning and
ending a chunk and adding a message keep it so (`ChunkBegins`, `ChunkEnds`, `MessageAdded`),
and `BagCloses` turns it into what a reader needs: the header leads to the trailing region, its
chunk infos to the chunks, their indices to every message and to nothing else. And the file
has as many messages of a camera as were written.

### The composition

| Theorem | Module | States |
|---|---|---|
| `StreamsTypeCorrect` | `StreamsProofs` | `Spec => []TypeOK` (`PromptReturn`) |
| `BuffersAreSound` | `StreamsProofs` | `Spec => []BuffersSound` (`PromptReturn`) |
| `DropsAreCounted` | `StreamsProofs` | `Spec => []NothingLostUncounted`: bus, pairer, recorders |
| `QueuesAreSound` | `StreamsProofs` | `Spec => []QueuesSound`: bus and pairer |
| `BagsAreReadable` | `StreamsProofs` | `Spec => []BagReadable` |
| `PopsAreInOrder` | `StreamsProofs` | `Spec => PopsInOrder`: bus and pairer |
| `OkIsAcknowledged` | `StreamsProofs` | `Spec /\ []IdsLeft => OkMeansAcked` |

These are the properties of the `Streams` run, for all values of all constants of the five
components. Assumption: `Assumptions` of `Streams`, the conjunction of the components' own;
TLC evaluates it in the run. `PromptReturn` is not part of it, since the code does not
justify it: it is a hypothesis of the two theorems that need it.

`StreamInv` and `BufferInv` are the components' invariants, each in its own behaviours;
`Mine` says that only the component picked moves. Where a component in `Streams` and in its own
module of proofs are two instances of one module, `BusSame`, `PairerSame` and
`ControllerSame` say that their definitions agree.

### The services

For any threads, clients, cameras, streams, queue sizes and values:

| Theorem | Module | States |
|---|---|---|
| `ServicesTypeCorrect` | `ServicesProofs` | `Spec => []TypeOK` |
| `ServicesFollowTheirRows` | `ServicesProofs` | `Spec => []ServicesFollowRows`, if one thread at a time changes the fusion configuration |
| `EpochsAreFilters` | `ServicesProofs` | `Spec => EpochPerFilter` |
| `OneOfEach` | `ServicesProofs` | `Spec => []OneJobOneRecording` |
| `CamerasGetTheirResults` | `ServicesProofs` | `Spec => []ResultsReachCameras` |

Assumption: `Assumptions` of `Services`. The hypothesis of `ServicesFollowTheirRows` is needed:
two overlapping calls of `reload()` push their orders in the other order than they stored them
(a hazard in `PROJECT.json`). Requests for odometry and for noise figures may overlap freely.

*Fusion.* Nothing in a state says what the engine will become: that is in the last order of
the queue, or of the batch, or in the engine if neither has one (`Ordering`). Dropping the
oldest event keeps it unless that was the last order, and this is the exception `lostOrder`.
`Reading` says what the one request under way has read, and `Published` that the snapshot is
the engine's between batches.

*Odometry.* `Served`: the runner is the row's, or a thread is about to read the row, or it
has read the row as it is and holds `mu_`. This is why it does not matter which of two
requests comes last. `Ordered` keeps a filter, its epoch and the times of what waits, what is
being fed and what was published in order; a rebuild clears the first while the supervisor
holds the runner.

*Calibration.* `OneRuns` ties a running job to the one slot in use, and whoever holds `mu_` to
replace a job has seen that none runs; `Outcome` ties the reader thread's place to the job's
state; `Pending` says that a camera not yet told of its row is still on the list of a reader.
*IMU log*: `OneLog` says that the flag `recording_` is exactly "some drain thread has not
ended", which `start()` relies on when it replaces the thread object, and `Applying` that
figures not told are told by the request that wrote them.

### Stamps, engine, link, layouts, slots and tables

For any values of the constants:

| Theorem | Module | States | Hypothesis |
|---|---|---|---|
| `StampsAreOwnPulses` | `SafetyProofs` | `Spec => []StampIsOwnPulse` | no disturbance |
| `StatesStayInGraph` | `SafetyProofs` | `Spec => []KeysInGraph` | |
| `DeltasCountOnce` | `SafetyProofs` | `Spec => []EachDeltaOnce` | |
| `PoseGoesForward` | `SafetyProofs` | `Spec => PoseTimeAdvances` | |
| `LinkFollowsItsRow` | `SafetyProofs` | `Spec => []LinkMatchesRow` | one thread of PUTs |
| `ConsumersUseActiveLayout` | `SafetyProofs` | `Spec => []SharedFresh` | the table is seeded, as `main()` does |
| `SlotsAreRows` | `SafetyProofs` | `Spec => []SlotsFollowRows` | one client beside the jobs |
| `TablesKeepTheirRules` | `SafetyProofs` | `Spec => []TableRules` | |
| `ImportsSwapPins` | `SafetyProofs` | `Spec => []PinSwapsImport` | one client |
| `ImportsRestoreSnapshots` | `SafetyProofs` | `Spec => []ImportRestores` | one client |

Assumption: `Assumptions` of `Safety`. Among them, `CameraAssumption` says that of what the
supervisor compares in a row a calibration job changes only the stamp, and `EngineAssumption`
that the trim margin is below the lag. The hypotheses are those under which the runs check the
properties, and each excludes something the code does not: a late event
(`PulseStampsLate`) and the other disturbances; two PUTs on the link, which run `start()` over
each other; two clients on one camera, one role or one table, whose checks and writes
interleave. The hazards name the lines.

*Stamps.* `pop_pulse_ns()` matches by counting, so the invariant (`CameraHolds`) is arithmetic
on positions: pulses on the wire, in a camera's ring and consumed by it add up to what it was
exposed to (`RingHolds`); the frames that wait name later pulses, in order, and the first of a
session is not lost (`FramesWait`), since it is what the counting starts from.

*Engine.* Three parts that need each other. `ChainIn`: the states go forward in time and key,
are held by the smoother, and lie within its horizon by the trim margin; an update moves the
horizon to the newest state at most, so the keys it drops are none of the chain (this is
`KeysInGraph`). `FactorsIn`: the factors of one walk over the chain follow those of earlier
walks, hold just the deltas that end in their interval, and those still to come start where
none has been, which is what `vio_done_key_` remembers.
`DeltasIn`: deltas do not overlap and the next starts where the last ended or later, for VIO
may leave out any stretch. `EachDeltaOnce` follows from the last two, `PoseTimeAdvances` from
`OutHolds` and the first: a late tag or delta makes no state before the newest. The lemmas on
sequences (`SubSeq`, `Append`, least kept index) replace inductions over the buffers.

*Link.* `PutAt` says of each step of a PUT which half of the row it has already brought into
the link, and which sockets are open; a sender between the two halves of its call is counted
by what it holds (`SendsInv`, over the finite set of senders).

*Layouts.* `Handed`: one request reads at a time, consumers have the one shared configuration,
and a camera that let an old pose through has no older frame in hand. `Fresh`: what was shared
or read is what the rows say unless another request has still to read them.

*Slots.* `SlotHolds` says for each row what its slot may lack and who owes it: a slot is
missing only while a request adds or removes the row (`Moving`), is out of date only while
somebody has written and not told (`Pending`, `Turning`), and is not as plugged only while an
SDK event is on its way, the last of which is always true of the device.

*Tables.* `StoreInv` holds for any number of clients: outputs are unique per table and groups
are disjoint, since each of these checks is in the statement that writes. `Solo` adds, for one
client, how far an import has come (`ImportAt`): what is restored stays, what failed is in the
report, and a camera that holds an output another one is to have lets go of it first
(`LetsGo`), which is what the pass that clears pins is for.

`SafetyInductive` and `ServicesInductive` are the inductive invariants of the compositions
that need no hypothesis; `PairingInv`, `SendingInv`, `FreshInv`, `SlotsInv`, `SoloInv` and
`OrdersInv` are the others. All of them also hold in TLC on the instances of the two runs.

### What is only model-checked

- Liveness (`Converges`, `EverybodyReturns`, `NewFrameSeen`, `DetachReturns`): the prover has no
  support for `ENABLED`, and fairness is made of it.
- `PulsesOnGrid`: the timer interrupt catches up in a loop, a recursive function of the model.
  What it computes for every input needs induction, whose library theorems take an operator as
  a parameter, which no installed prover can instantiate.
- `IntactFramesDelivered`: the decoder's buffer against the concatenation of the frames sent,
  which is induction over data again.
- `TypeOK` of `Safety`, since it includes timer and decoder; the types of the other components
  are conjuncts of the invariants proved.
- Streaming: what `StreamPeers` states beyond its types is liveness.

## 6. What is not modelled

See `components` in `PROJECT.json`. Clock regression and attitude filtering are numeric
code with one writer under one mutex each; what could go wrong is in the numbers. The HTTP
server itself, the process's `main()`, the web client and packaging hold no state of their
own. Left out of modelled components: node maps and video modes of the cameras, the BMI088
driver, pose estimation and fusion arithmetic, OpenVINS and its configuration text, pixel
conversion and the preview window, JSON and SQL text, file names (an IMU log is named by the
second, so a restart within a second overwrites the first). Weak memory is not modelled;
the pixel memory of a frame is external; a disk that fills up while a bag is written is
not noticed by the writer and not in its model.

## 7. Plan

1. Done: every component with concurrent or persistent state, three composite runs; every
   safety property of the frame path, of the trigger controller's protocol and of the `Streams`
   composition, proved.
2. Done: constants and assumptions for the components behind `MCServices` and `MCSafety`, and
   every safety property of `Services` and all but three of `Safety`, proved (section 5 says
   which three and why).
3. Worth adding to the model: `StereoRig`, `PulseStamps` and `StereoSync` composed, for the
   property that a popped pair is of one exposure; a second pool generation in
   `FrameChannel`; two overlapping clients in `CameraSlots` and `RobotLink` once the code orders
   them.
