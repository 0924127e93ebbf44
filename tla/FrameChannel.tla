---------------------------- MODULE FrameChannel ----------------------------
(***************************************************************************)
(* The zero-copy frame path of one camera: the refcounted Frame, the       *)
(* FramePool it is recycled to, and the latest-only FrameChannel between   *)
(* one producer thread and its consumers (src/core/frame*.{hpp,cpp}).      *)
(*                                                                         *)
(* Every step is one atomic access of the code: a load, a store, a         *)
(* compare-and-swap or a fetch_add of one std::atomic.  A consumer is two  *)
(* threads: its worker, inside next_frame() or processing a frame, and     *)
(* its owner, which calls attach() and detach().  A frame is named by its  *)
(* slot; its pixels and stamps are abstracted to its sequence number.      *)
(***************************************************************************)
EXTENDS Naturals, FiniteSets

CONSTANTS
    Slots,       \* the frames of the pool
    Consumers,   \* single-use consumers: attach() once, detach() once
    Producer,    \* the capture thread, as an owner of references
    Channel,     \* latest_, as an owner of a reference
    NoFrame,     \* the null Frame*
    MaxPublish   \* bound on the frames the producer publishes

ASSUME SlotsAssumption == NoFrame \notin Slots
ASSUME OwnersAssumption ==
    /\ IsFiniteSet(Consumers)
    /\ Producer \notin Consumers
    /\ Channel \notin Consumers
    /\ Producer # Channel
ASSUME BoundAssumption == MaxPublish \in Nat

VARIABLES
    refcount,     \* Frame::refcount_
    sequence,     \* Frame::sequence_
    in_pool,      \* FramePool::Slot::in_pool
    latest,       \* FrameChannel::latest_
    latest_seq,   \* FrameChannel::latest_seq_
    subs,         \* FrameChannel::subs_, the current copy-on-write list
    last_seen,    \* Subscriber::last_seen_seq
    attached,     \* Subscriber::attached
    wait_token,   \* Subscriber::wait_token
    ppc,          \* control point of the producer
    pframe,       \* the frame being filled or published
    pold,         \* publish(): the frame the exchange evicted
    pcount,       \* the producer's sequence_counter
    ptargets,     \* publish(): the rest of the subscriber snapshot
    ptarget,      \* publish(): the subscriber being woken, or Producer
    cpc,          \* control point of each worker
    cframe,       \* next_frame(): the frame loaded, retained or returned
    ctoken,       \* next_frame(): the token captured before sleeping
    opc,          \* control point of each owner
    entry         \* history: what was published when next_frame() was called

channelVars == <<latest, latest_seq, subs>>
frameVars == <<refcount, sequence, in_pool>>
subVars == <<last_seen, attached, wait_token>>
prodVars == <<ppc, pframe, pold, pcount, ptargets, ptarget>>
workVars == <<cpc, cframe, ctoken, entry>>
vars == <<frameVars, channelVars, subVars, prodVars, workVars, opc>>

ProducerPoints == {"acquire", "reset", "fill", "exchange", "store_seq", "release",
                   "recycle", "snapshot", "check", "bump", "wake", "stopped",
                   "last_release", "last_recycle", "done"}
WorkerPoints == {"none", "loop", "top", "seen", "load", "retain", "verify",
                 "unretain", "unrecycle", "compare", "stale", "stale_recycle",
                 "hold", "hold_recycle", "token", "attached2", "recheck", "wait",
                 "asleep", "exit"}
OwnerPoints == {"idle", "seeded", "live", "stopping", "bumping", "notifying",
                "unlisting", "joining", "gone"}

-----------------------------------------------------------------------------
(* References.  Who owns one of the counted references of a frame.          *)

\* The worker owns a reference between a successful try_retain and its release.
Retaining == {"verify", "unretain", "compare", "stale", "hold"}
\* ... and has verified that the frame it retained is the published one.
Verified == {"compare", "stale", "hold"}
\* The thread has dropped the last reference and not yet called return_to_pool.
Recycling == {"unrecycle", "stale_recycle", "hold_recycle"}

Owners == Consumers \cup {Producer, Channel}

Holds(o, s) ==
    \/ o = Channel /\ latest = s
    \/ o = Producer /\ ppc \in {"fill", "exchange"} /\ pframe = s
    \/ o = Producer /\ ppc \in {"store_seq", "release", "last_release"} /\ pold = s
    \/ o \in Consumers /\ cpc[o] \in Retaining /\ cframe[o] = s

Holders(s) == {o \in Owners : Holds(o, s)}

\* Who is between taking slot s out of the pool and counting its first reference,
\* or between dropping the last reference and putting it back.
InBetween(o, s) ==
    \/ o = Producer /\ ppc = "reset" /\ pframe = s
    \/ o = Producer /\ ppc \in {"recycle", "last_recycle"} /\ pold = s
    \/ o \in Consumers /\ cpc[o] \in Recycling /\ cframe[o] = s

Between(s) == {o \in Owners : InBetween(o, s)}

\* Mutants of IsLast: takes fetch_sub's result for the new count; does not look
\* at it.
IsLastOffByOne(s) == refcount[s] = 0
IsLastAlways(s) == refcount[s] > 0

\* Frame::release(): fetch_sub; the thread that takes the last one recycles.
Drop(s) == refcount' = [refcount EXCEPT ![s] = @ - 1]
IsLast(s) == refcount[s] = 1

\* FramePool::return_to_pool()
ReturnToPool(s) == in_pool' = [in_pool EXCEPT ![s] = TRUE]

-----------------------------------------------------------------------------
Init ==
    /\ refcount = [s \in Slots |-> 0]
    /\ sequence = [s \in Slots |-> 0]
    /\ in_pool = [s \in Slots |-> TRUE]
    /\ latest = NoFrame
    /\ latest_seq = 0
    /\ subs = {}
    /\ last_seen = [c \in Consumers |-> 0]
    /\ attached = [c \in Consumers |-> TRUE]
    /\ wait_token = [c \in Consumers |-> 0]
    /\ ppc = "acquire"
    /\ pframe = NoFrame
    /\ pold = NoFrame
    /\ pcount = 0
    /\ ptargets = {}
    /\ ptarget = Producer
    /\ cpc = [c \in Consumers |-> "none"]
    /\ cframe = [c \in Consumers |-> NoFrame]
    /\ ctoken = [c \in Consumers |-> 0]
    /\ opc = [c \in Consumers |-> "idle"]
    /\ entry = [c \in Consumers |-> 0]

-----------------------------------------------------------------------------
(* The producer: acquire a slot, fill it, publish it.                       *)

\* FramePool::acquire(): the compare-and-swap of in_pool.  Slots never leave
\* the pool by another thread's hand, so the scan finds any slot that is free
\* when it starts; which one is left open.
Acquire(s) ==
    /\ ppc = "acquire"
    /\ pcount < MaxPublish
    /\ in_pool[s]
    /\ in_pool' = [in_pool EXCEPT ![s] = FALSE]
    /\ pframe' = s
    /\ ppc' = "reset"
    /\ UNCHANGED <<refcount, sequence, channelVars, subVars, pold, pcount,
                   ptargets, ptarget, workVars, opc>>

\* Frame::reset_for_acquire(), the end of acquire().
ResetForAcquire ==
    /\ ppc = "reset"
    /\ sequence' = [sequence EXCEPT ![pframe] = 0]
    /\ refcount' = [refcount EXCEPT ![pframe] = 1]
    /\ ppc' = "fill"
    /\ UNCHANGED <<in_pool, channelVars, subVars, pframe, pold, pcount,
                   ptargets, ptarget, workVars, opc>>

\* capture_loop(): f->set_sequence(++sequence_counter) and the stamps.
Fill ==
    /\ ppc = "fill"
    /\ pcount' = pcount + 1
    /\ sequence' = [sequence EXCEPT ![pframe] = pcount + 1]
    /\ ppc' = "exchange"
    /\ UNCHANGED <<refcount, in_pool, channelVars, subVars, pframe, pold,
                   ptargets, ptarget, workVars, opc>>

\* Mutant of Exchange: latest_seq_ is stored before the exchange.
ExchangeAfterStore ==
    /\ ppc = "exchange"
    /\ IF latest_seq < sequence[pframe]
         THEN latest_seq' = sequence[pframe] /\ UNCHANGED <<latest, pold, ppc>>
         ELSE pold' = latest /\ latest' = pframe /\ ppc' = "store_seq" /\ UNCHANGED latest_seq
    /\ UNCHANGED <<frameVars, subs, subVars, pframe, pcount, ptargets, ptarget,
                   workVars, opc>>

\* publish(): latest_.exchange(f) hands the producer's reference to the
\* channel and the channel's to the producer.
Exchange ==
    /\ ppc = "exchange"
    /\ pold' = latest
    /\ latest' = pframe
    /\ ppc' = "store_seq"
    /\ UNCHANGED <<frameVars, latest_seq, subs, subVars, pframe, pcount,
                   ptargets, ptarget, workVars, opc>>

\* Mutant of StoreSeq: the evicted frame is not released.
StoreSeqKeepOld ==
    /\ ppc = "store_seq"
    /\ latest_seq' = sequence[pframe]
    /\ ppc' = "snapshot"
    /\ UNCHANGED <<frameVars, latest, subs, subVars, pframe, pold, pcount,
                   ptargets, ptarget, workVars, opc>>

\* publish(): latest_seq_.store(f->sequence())
StoreSeq ==
    /\ ppc = "store_seq"
    /\ latest_seq' = sequence[pframe]
    /\ ppc' = IF pold = NoFrame THEN "snapshot" ELSE "release"
    /\ UNCHANGED <<frameVars, latest, subs, subVars, pframe, pold, pcount,
                   ptargets, ptarget, workVars, opc>>

\* publish(): old->release()
ReleaseOld ==
    /\ ppc = "release"
    /\ Drop(pold)
    /\ ppc' = IF IsLast(pold) THEN "recycle" ELSE "snapshot"
    /\ UNCHANGED <<sequence, in_pool, channelVars, subVars, pframe, pold,
                   pcount, ptargets, ptarget, workVars, opc>>

RecycleOld ==
    /\ ppc = "recycle"
    /\ ReturnToPool(pold)
    /\ ppc' = "snapshot"
    /\ UNCHANGED <<refcount, sequence, channelVars, subVars, pframe, pold,
                   pcount, ptargets, ptarget, workVars, opc>>

\* The wake loop goes on with the targets in T, or publish() returns.
NextTarget(T) ==
    /\ ptargets' = T
    /\ ptarget' = Producer
    /\ IF T = {}
         THEN ppc' = "acquire" /\ pframe' = NoFrame /\ pold' = NoFrame
         ELSE ppc' = "check" /\ UNCHANGED <<pframe, pold>>

\* publish(): snapshot_subs()
SnapshotSubs ==
    /\ ppc = "snapshot"
    /\ NextTarget(subs)
    /\ UNCHANGED <<frameVars, channelVars, subVars, pcount, workVars, opc>>

\* publish(): one turn of the wake loop skips a target or picks it for waking.
\* The order of the list does not matter.
CheckTarget(c) ==
    /\ ppc = "check"
    /\ c \in ptargets
    /\ IF attached[c] /\ last_seen[c] < sequence[pframe]
         THEN /\ ppc' = "bump"
              /\ ptarget' = c
              /\ ptargets' = ptargets \ {c}
              /\ UNCHANGED <<pframe, pold>>
         ELSE NextTarget(ptargets \ {c})
    /\ UNCHANGED <<frameVars, channelVars, subVars, pcount, workVars, opc>>

\* Mutant of BumpTarget: notifies without moving the token.
BumpNothing ==
    /\ ppc = "bump"
    /\ ppc' = "wake"
    /\ UNCHANGED <<frameVars, channelVars, subVars, pframe, pold, pcount,
                   ptargets, ptarget, workVars, opc>>

\* wait_token.fetch_add(1)
BumpTarget ==
    /\ ppc = "bump"
    /\ wait_token' = [wait_token EXCEPT ![ptarget] = @ + 1]
    /\ ppc' = "wake"
    /\ UNCHANGED <<frameVars, channelVars, last_seen, attached, pframe, pold,
                   pcount, ptargets, ptarget, workVars, opc>>

\* wait_token.notify_one() or notify_all(): a sleeper whose token has moved
\* leaves wait(); one whose token has not goes back to sleep.
Notify(c) ==
    IF cpc[c] = "asleep" /\ wait_token[c] # ctoken[c]
      THEN cpc' = [cpc EXCEPT ![c] = "top"] /\ ctoken' = [ctoken EXCEPT ![c] = 0]
      ELSE UNCHANGED <<cpc, ctoken>>

WakeTarget ==
    /\ ppc = "wake"
    /\ Notify(ptarget)
    /\ NextTarget(ptargets)
    /\ UNCHANGED <<frameVars, channelVars, subVars, pcount, cframe, entry, opc>>

\* SpinnakerProducer::stop(): the capture loop ends between two frames.
Stop ==
    /\ ppc = "acquire"
    /\ ppc' = "stopped"
    /\ UNCHANGED <<frameVars, channelVars, subVars, pframe, pold, pcount,
                   ptargets, ptarget, workVars, opc>>

\* ~FrameChannel(), once every consumer is detached.
Destroy ==
    /\ ppc = "stopped"
    /\ \A c \in Consumers : opc[c] \in {"idle", "gone"}
    /\ pold' = latest
    /\ latest' = NoFrame
    /\ ppc' = IF latest = NoFrame THEN "done" ELSE "last_release"
    /\ UNCHANGED <<frameVars, latest_seq, subs, subVars, pframe, pcount,
                   ptargets, ptarget, workVars, opc>>

DestroyRelease ==
    /\ ppc = "last_release"
    /\ Drop(pold)
    /\ ppc' = IF IsLast(pold) THEN "last_recycle" ELSE "done"
    /\ UNCHANGED <<sequence, in_pool, channelVars, subVars, pframe, pold,
                   pcount, ptargets, ptarget, workVars, opc>>

DestroyRecycle ==
    /\ ppc = "last_recycle"
    /\ ReturnToPool(pold)
    /\ ppc' = "done"
    /\ UNCHANGED <<refcount, sequence, channelVars, subVars, pframe, pold,
                   pcount, ptargets, ptarget, workVars, opc>>

-----------------------------------------------------------------------------
(* A worker: run() and, inside it, next_frame() and try_acquire_latest().   *)

Goto(c, p) == cpc' = [cpc EXCEPT ![c] = p]

\* Steps that touch only the worker's own control point.
OnlyMoves == UNCHANGED <<frameVars, channelVars, subVars, prodVars, cframe,
                         ctoken, entry, opc>>

\* What publish() has installed so far.
Published == IF ppc = "exchange" THEN pcount - 1 ELSE pcount

\* run(): while (running_), then the call of next_frame().
Loop(c) ==
    /\ cpc[c] = "loop"
    /\ IF opc[c] = "live"
         THEN Goto(c, "top") /\ entry' = [entry EXCEPT ![c] = Published]
         ELSE Goto(c, "exit") /\ UNCHANGED entry
    /\ UNCHANGED <<frameVars, channelVars, subVars, prodVars, cframe, ctoken, opc>>

\* next_frame(): a detached subscriber gets nullptr and its worker leaves.
Top(c) ==
    /\ cpc[c] = "top"
    /\ Goto(c, IF attached[c] THEN "seen" ELSE "exit")
    /\ OnlyMoves

\* last_seen_seq is written by this worker only, so "seen" needs no copy.
CheckSeq(c) ==
    /\ cpc[c] = "seen"
    /\ Goto(c, IF latest_seq > last_seen[c] THEN "load" ELSE "token")
    /\ OnlyMoves

\* try_acquire_latest(): latest_.load()
LoadLatest(c) ==
    /\ cpc[c] = "load"
    /\ cframe' = [cframe EXCEPT ![c] = latest]
    /\ Goto(c, IF latest = NoFrame THEN "top" ELSE "retain")
    /\ UNCHANGED <<frameVars, channelVars, subVars, prodVars, ctoken, entry, opc>>

\* Mutant of TryRetain: retain(), whatever the count.
RetainUnchecked(c) ==
    /\ cpc[c] = "retain"
    /\ refcount' = [refcount EXCEPT ![cframe[c]] = @ + 1]
    /\ Goto(c, "verify")
    /\ UNCHANGED <<sequence, in_pool, channelVars, subVars, prodVars, cframe,
                   ctoken, entry, opc>>

\* Frame::try_retain(): the reference is taken only while the count is not 0.
TryRetain(c) ==
    /\ cpc[c] = "retain"
    /\ IF refcount[cframe[c]] > 0
         THEN /\ refcount' = [refcount EXCEPT ![cframe[c]] = @ + 1]
              /\ Goto(c, "verify")
              /\ UNCHANGED cframe
         ELSE /\ Goto(c, "load")
              /\ cframe' = [cframe EXCEPT ![c] = NoFrame]
              /\ UNCHANGED refcount
    /\ UNCHANGED <<sequence, in_pool, channelVars, subVars, prodVars, ctoken,
                   entry, opc>>

\* Mutant of Verify: no post-load verification.
VerifyNothing(c) ==
    /\ cpc[c] = "verify"
    /\ Goto(c, "compare")
    /\ OnlyMoves

\* The post-load verification.
Verify(c) ==
    /\ cpc[c] = "verify"
    /\ Goto(c, IF latest = cframe[c] THEN "compare" ELSE "unretain")
    /\ OnlyMoves

\* Frame::release() by a worker, after a failed verification, a stale sequence
\* or the processing of the frame; the last owner recycles before going on.
RecycleAt == [unretain |-> "unrecycle", stale |-> "stale_recycle",
              hold |-> "hold_recycle"]
ResumeAt == [unretain |-> "load", unrecycle |-> "load",
             stale |-> "top", stale_recycle |-> "top",
             hold |-> "loop", hold_recycle |-> "loop"]

\* The worker has let go of its frame.
Forget(c) ==
    /\ Goto(c, ResumeAt[cpc[c]])
    /\ cframe' = [cframe EXCEPT ![c] = NoFrame]

Release(c) ==
    /\ cpc[c] \in {"unretain", "stale", "hold"}
    /\ Drop(cframe[c])
    /\ IF IsLast(cframe[c])
         THEN Goto(c, RecycleAt[cpc[c]]) /\ UNCHANGED cframe
         ELSE Forget(c)
    /\ UNCHANGED <<sequence, in_pool, channelVars, subVars, prodVars, ctoken,
                   entry, opc>>

Recycle(c) ==
    /\ cpc[c] \in Recycling
    /\ ReturnToPool(cframe[c])
    /\ Forget(c)
    /\ UNCHANGED <<refcount, sequence, channelVars, subVars, prodVars, ctoken,
                   entry, opc>>

\* next_frame(): fseq > seen returns the frame, anything else drops it.
Compare(c) ==
    /\ cpc[c] = "compare"
    /\ IF sequence[cframe[c]] > last_seen[c]
         THEN /\ last_seen' = [last_seen EXCEPT ![c] = sequence[cframe[c]]]
              /\ Goto(c, "hold")
         ELSE /\ Goto(c, "stale")
              /\ UNCHANGED last_seen
    /\ UNCHANGED <<frameVars, channelVars, attached, wait_token, prodVars,
                   cframe, ctoken, entry, opc>>

\* next_frame(): nothing new.  Capture the token, check twice, sleep.
CaptureToken(c) ==
    /\ cpc[c] = "token"
    /\ ctoken' = [ctoken EXCEPT ![c] = wait_token[c]]
    /\ Goto(c, "attached2")
    /\ UNCHANGED <<frameVars, channelVars, subVars, prodVars, cframe, entry, opc>>

\* The worker leaves the wait for p; its token goes out of scope.
LeaveWait(c, p) == Goto(c, p) /\ ctoken' = [ctoken EXCEPT ![c] = 0]

RecheckAttached(c) ==
    /\ cpc[c] = "attached2"
    /\ IF attached[c] THEN Goto(c, "recheck") /\ UNCHANGED ctoken
                      ELSE LeaveWait(c, "exit")
    /\ UNCHANGED <<frameVars, channelVars, subVars, prodVars, cframe, entry, opc>>

\* Mutant of RecheckSeq: sleeps without looking at latest_seq_ again.
RecheckNothing(c) ==
    /\ cpc[c] = "recheck"
    /\ Goto(c, "wait")
    /\ UNCHANGED <<frameVars, channelVars, subVars, prodVars, cframe, ctoken,
                   entry, opc>>

RecheckSeq(c) ==
    /\ cpc[c] = "recheck"
    /\ IF latest_seq > last_seen[c] THEN LeaveWait(c, "top")
                                    ELSE Goto(c, "wait") /\ UNCHANGED ctoken
    /\ UNCHANGED <<frameVars, channelVars, subVars, prodVars, cframe, entry, opc>>

\* wait_token.wait(token): sleeps only if the token has not moved.
Wait(c) ==
    /\ cpc[c] = "wait"
    /\ IF wait_token[c] = ctoken[c] THEN Goto(c, "asleep") /\ UNCHANGED ctoken
                                    ELSE LeaveWait(c, "top")
    /\ UNCHANGED <<frameVars, channelVars, subVars, prodVars, cframe, entry, opc>>

WorkerStep(c) ==
    \/ Loop(c) \/ Top(c) \/ CheckSeq(c) \/ LoadLatest(c) \/ TryRetain(c)
    \/ Verify(c) \/ Compare(c) \/ Release(c) \/ Recycle(c) \/ CaptureToken(c)
    \/ RecheckAttached(c) \/ RecheckSeq(c) \/ Wait(c)

-----------------------------------------------------------------------------
(* The owner of a consumer: attach() and detach().                          *)

\* subscribe(): seed last_seen_seq before the list is locked.
Subscribe(c) ==
    /\ opc[c] = "idle"
    /\ ppc \notin {"last_release", "last_recycle", "done"}
    /\ last_seen' = [last_seen EXCEPT ![c] = latest_seq]
    /\ opc' = [opc EXCEPT ![c] = "seeded"]
    /\ UNCHANGED <<frameVars, channelVars, attached, wait_token, prodVars, workVars>>

\* subscribe(): append to the list; attach() then starts the worker.
Attach(c) ==
    /\ opc[c] = "seeded"
    /\ subs' = subs \cup {c}
    /\ opc' = [opc EXCEPT ![c] = "live"]
    /\ Goto(c, "loop")
    /\ UNCHANGED <<frameVars, latest, latest_seq, subVars, prodVars, cframe,
                   ctoken, entry>>

\* detach(): running_.exchange(false)
BeginDetach(c) ==
    /\ opc[c] = "live"
    /\ opc' = [opc EXCEPT ![c] = "stopping"]
    /\ UNCHANGED <<frameVars, channelVars, subVars, prodVars, workVars>>

\* unsubscribe(): attached = false, bump the token, notify, leave the list.
MarkDetached(c) ==
    /\ opc[c] = "stopping"
    /\ attached' = [attached EXCEPT ![c] = FALSE]
    /\ opc' = [opc EXCEPT ![c] = "bumping"]
    /\ UNCHANGED <<frameVars, channelVars, last_seen, wait_token, prodVars, workVars>>

\* Mutant of DetachBump: notifies without moving the token.
DetachWithoutBump(c) ==
    /\ opc[c] = "bumping"
    /\ opc' = [opc EXCEPT ![c] = "notifying"]
    /\ UNCHANGED <<frameVars, channelVars, subVars, prodVars, workVars>>

DetachBump(c) ==
    /\ opc[c] = "bumping"
    /\ wait_token' = [wait_token EXCEPT ![c] = @ + 1]
    /\ opc' = [opc EXCEPT ![c] = "notifying"]
    /\ UNCHANGED <<frameVars, channelVars, last_seen, attached, prodVars, workVars>>

DetachNotify(c) ==
    /\ opc[c] = "notifying"
    /\ Notify(c)
    /\ opc' = [opc EXCEPT ![c] = "unlisting"]
    /\ UNCHANGED <<frameVars, channelVars, subVars, prodVars, cframe, entry>>

Unlist(c) ==
    /\ opc[c] = "unlisting"
    /\ subs' = subs \ {c}
    /\ opc' = [opc EXCEPT ![c] = "joining"]
    /\ UNCHANGED <<frameVars, latest, latest_seq, subVars, prodVars, workVars>>

\* detach(): join the worker.
Join(c) ==
    /\ opc[c] = "joining"
    /\ cpc[c] = "exit"
    /\ opc' = [opc EXCEPT ![c] = "gone"]
    /\ UNCHANGED <<frameVars, channelVars, subVars, prodVars, workVars>>

DetachStep(c) ==
    \/ MarkDetached(c) \/ DetachBump(c) \/ DetachNotify(c) \/ Unlist(c) \/ Join(c)

-----------------------------------------------------------------------------
\* publish() once begun, and the destructor.
PublishStep ==
    \/ ResetForAcquire \/ Fill \/ Exchange \/ StoreSeq \/ ReleaseOld \/ RecycleOld
    \/ SnapshotSubs \/ (\E c \in Consumers : CheckTarget(c)) \/ BumpTarget \/ WakeTarget

DestroyStep == Destroy \/ DestroyRelease \/ DestroyRecycle

\* With the producer stopped, nothing else has to happen.
Terminated ==
    /\ ppc \in {"stopped", "done"}
    /\ UNCHANGED vars

Next ==
    \/ \E s \in Slots : Acquire(s)
    \/ PublishStep
    \/ Stop
    \/ DestroyStep
    \/ \E c \in Consumers :
          WorkerStep(c) \/ Subscribe(c) \/ Attach(c) \/ BeginDetach(c) \/ DetachStep(c)
    \/ Terminated

Fairness ==
    /\ WF_vars(PublishStep)
    /\ \A c \in Consumers : WF_vars(WorkerStep(c)) /\ WF_vars(DetachStep(c))

Spec == Init /\ [][Next]_vars
FairSpec == Spec /\ Fairness

-----------------------------------------------------------------------------
(* Properties.                                                              *)

TypeOK ==
    /\ refcount \in [Slots -> Nat]
    /\ sequence \in [Slots -> Nat]
    /\ in_pool \in [Slots -> BOOLEAN]
    /\ latest \in Slots \cup {NoFrame}
    /\ latest_seq \in Nat
    /\ subs \subseteq Consumers
    /\ last_seen \in [Consumers -> Nat]
    /\ attached \in [Consumers -> BOOLEAN]
    /\ wait_token \in [Consumers -> Nat]
    /\ ppc \in ProducerPoints
    /\ pframe \in Slots \cup {NoFrame}
    /\ pold \in Slots \cup {NoFrame}
    /\ pcount \in Nat
    /\ ptargets \subseteq Consumers
    /\ ptarget \in Consumers \cup {Producer}
    /\ cpc \in [Consumers -> WorkerPoints]
    /\ cframe \in [Consumers -> Slots \cup {NoFrame}]
    /\ ctoken \in [Consumers -> Nat]
    /\ opc \in [Consumers -> OwnerPoints]
    /\ entry \in [Consumers -> Nat]

\* The atomic count of a frame is exactly the number of its owners: the channel,
\* the producer and the workers that retained it, the failed retains of workers
\* that lost a race with publish() included.
RefcountExact == \A s \in Slots : refcount[s] = Cardinality(Holders(s))

\* A slot is out of the pool exactly while somebody owns a reference to it or
\* is between taking it out and counting it, or between dropping the last
\* reference and putting it back: no slot leaks, none is recycled while in use.
PoolExact == \A s \in Slots : in_pool[s] <=> Holders(s) = {} /\ Between(s) = {}

\* A frame that next_frame() returned is not refilled until it is released: the
\* consumer keeps reading the sequence it was given.
HeldFrameStable ==
    \A c \in Consumers : cpc[c] = "hold" => sequence[cframe[c]] = last_seen[c]

\* The fall-back of next_frame() for a frame it "had already advanced past" is
\* never taken: storing latest_seq_ after the exchange rules it out.
NeverStale == \A c \in Consumers : cpc[c] # "stale"

\* A pool of two frames more than there are consumers is never found empty by
\* the producer, whatever the consumers hold.
PoolSuffices ==
    Cardinality(Slots) >= Cardinality(Consumers) + 2 /\ ppc = "acquire"
       => \E s \in Slots : in_pool[s]

\* No lost wake-up: a worker asleep with a newer frame published, or detached,
\* has a producer or an owner on its way to wake it.
WakePending(c) ==
    \/ ppc \in {"release", "recycle", "snapshot"} /\ c \in subs
    \/ ppc = "check" /\ c \in ptargets
    \/ ppc \in {"bump", "wake"} /\ (c = ptarget \/ c \in ptargets)
    \/ opc[c] \in {"bumping", "notifying"}

NoLostWakeup ==
    \A c \in Consumers :
        cpc[c] = "asleep" /\ (latest_seq > last_seen[c] \/ ~attached[c])
            => WakePending(c)

\* A subscriber sees each published frame or a newer one, unless it detaches.
NewFrameSeen ==
    \A c \in Consumers : \A n \in 1..MaxPublish :
        (opc[c] = "live" /\ latest_seq >= n) ~> (last_seen[c] >= n \/ opc[c] # "live")

\* detach() returns: unsubscribe() gets a worker out of next_frame(), asleep or not.
DetachReturns ==
    \A c \in Consumers : (opc[c] = "stopping") ~> (opc[c] = "gone")

\* The promise of the channel, as an abstract latest-value register.
Register == INSTANCE LatestOnly WITH
    published <- Published,
    view <- last_seen,
    floor <- entry,
    state <- [c \in Consumers |->
                IF cpc[c] = "none" THEN "out"
                ELSE IF cpc[c] = "exit" THEN "left"
                ELSE IF cpc[c] \in {"loop", "hold", "hold_recycle"} THEN "busy"
                ELSE "waiting"]

ImplementsRegister == Register!Spec
=============================================================================
