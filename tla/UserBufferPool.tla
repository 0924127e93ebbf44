--------------------------- MODULE UserBufferPool ---------------------------
(***************************************************************************)
(* The pool the cameras really run on: IOSurface buffers that Spinnaker    *)
(* DMAs into (src/producer/spinnaker_user_buffer_pool.cpp).  A buffer      *)
(* cycles between the SDK's queue, the capture thread that checks it out   *)
(* as a Frame, the owners of the Frame's references, and whichever thread  *)
(* drops the last reference and hands the buffer back.                     *)
(*                                                                         *)
(* Steps are the separate accesses of checkout() and return_buffer() to    *)
(* the slot and to the frame's aux_data_, which no lock orders.  The       *)
(* reference count is abstract here (FrameChannel models who owns it): any *)
(* owner may retain a live frame and any owner may release it.             *)
(***************************************************************************)
EXTENDS Naturals, FiniteSets

CONSTANTS
    Slots,        \* user buffers registered with the SDK
    Threads,      \* threads that may drop a last reference
    MaxRefs,      \* bound on the references of one frame
    MaxImages,    \* bound on the images the SDK delivers
    PromptReturn, \* TRUE: the SDK never fills and delivers a buffer again while
                  \* return_buffer() for it is still running; FALSE: it may
    None          \* a null pointer

Images == 1..MaxImages

\* What the properties need of the constants; Streams assumes it.
PoolAssumption ==
    /\ None \notin Slots \cup Images
    /\ MaxRefs \in Nat \ {0}
    /\ MaxImages \in Nat
    /\ PromptReturn \in BOOLEAN

VARIABLES
    queued,      \* buffers in the SDK's queue, free for the next DMA
    image,       \* state of each ImagePtr object: "none", "held", "released"
    in_flight,   \* Slot::in_flight, an image or None
    aux_data,    \* Frame::aux_data_, an image or None
    refcount,    \* Frame::refcount_
    delivered,   \* number of images the SDK has delivered
    cap,         \* capture thread: [at, slot, img]
    ret,         \* each thread in return_buffer(): [at, slot, held]
    badRelease   \* an image was released twice, or after it was deleted

vars == <<queued, image, in_flight, aux_data, refcount, delivered, cap, ret, badRelease>>

NoCapture == [at |-> "idle", slot |-> None, img |-> None]
NoReturn == [at |-> "idle", slot |-> None, held |-> None]

Init ==
    /\ queued = Slots
    /\ image = [i \in Images |-> "none"]
    /\ in_flight = [s \in Slots |-> None]
    /\ aux_data = [s \in Slots |-> None]
    /\ refcount = [s \in Slots |-> 0]
    /\ delivered = 0
    /\ cap = NoCapture
    /\ ret = [t \in Threads |-> NoReturn]
    /\ badRelease = FALSE

\* Image::Release() and the delete that follows: the SDK takes the buffer back.
ReleaseImage(i, s) ==
    /\ image' = [image EXCEPT ![i] = "released"]
    /\ badRelease' = (badRelease \/ image[i] # "held")
    /\ queued' = queued \cup {s}

-----------------------------------------------------------------------------
(* The capture thread.                                                      *)

\* Some thread is still inside return_buffer() for this slot.
Returning(s) == \E t \in Threads : ret[t].at # "idle" /\ ret[t].slot = s

\* External: GetNextImage() delivers a filled buffer of the queue.
GetNextImage(s) ==
    /\ cap.at = "idle"
    /\ s \in queued
    /\ delivered < MaxImages
    /\ PromptReturn => ~Returning(s)
    /\ queued' = queued \ {s}
    /\ delivered' = delivered + 1
    /\ image' = [image EXCEPT ![delivered + 1] = "held"]
    /\ cap' = [at |-> "deliver", slot |-> s, img |-> delivered + 1]
    /\ UNCHANGED <<in_flight, aux_data, refcount, ret, badRelease>>

\* capture_loop(): an incomplete image goes straight back.
DropIncomplete ==
    /\ cap.at = "deliver"
    /\ ReleaseImage(cap.img, cap.slot)
    /\ cap' = NoCapture
    /\ UNCHANGED <<in_flight, aux_data, refcount, delivered, ret>>

\* checkout(): "guard defensively", release an image still bound to the slot.
CheckoutGuard ==
    /\ cap.at = "deliver"
    /\ cap' = [cap EXCEPT !.at = "bind"]
    /\ LET old == in_flight[cap.slot] IN
         IF old = None
           THEN UNCHANGED <<image, badRelease, in_flight>>
           ELSE /\ image' = [image EXCEPT ![old] = "released"]
                /\ badRelease' = (badRelease \/ image[old] # "held")
                /\ in_flight' = [in_flight EXCEPT ![cap.slot] = None]
    /\ UNCHANGED <<queued, aux_data, refcount, delivered, ret>>

\* checkout(): slot->in_flight = new ImagePtr
CheckoutBind ==
    /\ cap.at = "bind"
    /\ in_flight' = [in_flight EXCEPT ![cap.slot] = cap.img]
    /\ cap' = [cap EXCEPT !.at = "reset"]
    /\ UNCHANGED <<queued, image, aux_data, refcount, delivered, ret, badRelease>>

\* checkout(): frame->reset_for_acquire()
CheckoutReset ==
    /\ cap.at = "reset"
    /\ aux_data' = [aux_data EXCEPT ![cap.slot] = None]
    /\ refcount' = [refcount EXCEPT ![cap.slot] = 1]
    /\ cap' = [cap EXCEPT !.at = "stash"]
    /\ UNCHANGED <<queued, image, in_flight, delivered, ret, badRelease>>

\* checkout(): frame->set_aux_data(slot->in_flight); the frame is published.
CheckoutStash ==
    /\ cap.at = "stash"
    /\ aux_data' = [aux_data EXCEPT ![cap.slot] = in_flight[cap.slot]]
    /\ cap' = NoCapture
    /\ UNCHANGED <<queued, image, in_flight, refcount, delivered, ret, badRelease>>

-----------------------------------------------------------------------------
(* The owners of references.                                                *)

\* The producer owns the frame until checkout() has returned it.
Published(s) == refcount[s] > 0 /\ cap.slot # s

Retain(s) ==
    /\ Published(s)
    /\ refcount[s] < MaxRefs
    /\ refcount' = [refcount EXCEPT ![s] = @ + 1]
    /\ UNCHANGED <<queued, image, in_flight, aux_data, delivered, cap, ret, badRelease>>

\* Mutants of Release: does not look whether the caller owns a reference; recycles
\* whatever the count was.
ReleaseUnowned(t, s) ==
    /\ ret[t].at = "idle"
    /\ cap.slot # s
    /\ refcount' = [refcount EXCEPT ![s] = @ - 1]
    /\ UNCHANGED <<queued, image, in_flight, aux_data, delivered, cap, ret, badRelease>>

\* Frame::release(); the last one enters recycle_thunk() and return_buffer().
Release(t, s) ==
    /\ ret[t].at = "idle"
    /\ Published(s)
    /\ refcount' = [refcount EXCEPT ![s] = @ - 1]
    /\ ret' = IF refcount[s] = 1
                THEN [ret EXCEPT ![t] = [at |-> "read", slot |-> s, held |-> None]]
                ELSE ret
    /\ UNCHANGED <<queued, image, in_flight, aux_data, delivered, cap, badRelease>>

\* return_buffer(): held = f->aux_data()
ReturnRead(t) ==
    /\ ret[t].at = "read"
    /\ ret' = [ret EXCEPT ![t].held = aux_data[ret[t].slot],
                          ![t].at = IF aux_data[ret[t].slot] = None
                                      THEN "clear_aux" ELSE "release"]
    /\ UNCHANGED <<queued, image, in_flight, aux_data, refcount, delivered, cap, badRelease>>

\* return_buffer(): (*held)->Release(); delete held
ReturnRelease(t) ==
    /\ ret[t].at = "release"
    /\ ReleaseImage(ret[t].held, ret[t].slot)
    /\ ret' = [ret EXCEPT ![t].at = "clear_aux"]
    /\ UNCHANGED <<in_flight, aux_data, refcount, delivered, cap>>

\* return_buffer(): f->set_aux_data(nullptr)
ReturnClearAux(t) ==
    /\ ret[t].at = "clear_aux"
    /\ aux_data' = [aux_data EXCEPT ![ret[t].slot] = None]
    /\ ret' = [ret EXCEPT ![t].at = "clear_slot"]
    /\ UNCHANGED <<queued, image, in_flight, refcount, delivered, cap, badRelease>>

\* Mutant of ReturnClearSlot: the slot keeps its pointer.
ReturnKeepSlot(t) ==
    /\ ret[t].at = "clear_slot"
    /\ ret' = [ret EXCEPT ![t] = NoReturn]
    /\ UNCHANGED <<queued, image, in_flight, aux_data, refcount, delivered, cap, badRelease>>

\* return_buffer(): slot->in_flight = nullptr
ReturnClearSlot(t) ==
    /\ ret[t].at = "clear_slot"
    /\ in_flight' = [in_flight EXCEPT ![ret[t].slot] = None]
    /\ ret' = [ret EXCEPT ![t] = NoReturn]
    /\ UNCHANGED <<queued, image, aux_data, refcount, delivered, cap, badRelease>>

ReturnStep(t) ==
    ReturnRead(t) \/ ReturnRelease(t) \/ ReturnClearAux(t) \/ ReturnClearSlot(t)

CaptureStep ==
    DropIncomplete \/ CheckoutGuard \/ CheckoutBind \/ CheckoutReset \/ CheckoutStash

\* The camera may deliver nothing more.
Quiet ==
    /\ cap.at = "idle"
    /\ UNCHANGED vars

Next ==
    \/ \E s \in Slots : GetNextImage(s) \/ Retain(s)
    \/ \E t \in Threads, s \in Slots : Release(t, s)
    \/ CaptureStep
    \/ \E t \in Threads : ReturnStep(t)
    \/ Quiet

Fairness ==
    /\ WF_vars(CaptureStep)
    /\ \A t \in Threads : WF_vars(ReturnStep(t))

Spec == Init /\ [][Next]_vars
FairSpec == Spec /\ Fairness

-----------------------------------------------------------------------------
(* Properties.                                                              *)

TypeOK ==
    /\ queued \subseteq Slots
    /\ image \in [Images -> {"none", "held", "released"}]
    /\ in_flight \in [Slots -> Images \cup {None}]
    /\ aux_data \in [Slots -> Images \cup {None}]
    /\ refcount \in [Slots -> 0..MaxRefs]
    /\ delivered \in 0..MaxImages
    /\ cap \in [at : {"idle", "deliver", "bind", "reset", "stash"},
                slot : Slots \cup {None}, img : Images \cup {None}]
    /\ ret \in [Threads -> [at : {"idle", "read", "release", "clear_aux", "clear_slot"},
                            slot : Slots \cup {None}, held : Images \cup {None}]]
    /\ badRelease \in BOOLEAN

\* Each image is released at most once: not by checkout() again after
\* return_buffer() released it.
ReleasedOnce == ~badRelease

\* A frame that is out with its owners carries the image its last release will
\* give back, and the slot agrees ("aux_data set to a heap-allocated copy").
FrameKeepsImage ==
    \A s \in Slots :
        Published(s) => /\ aux_data[s] # None
                        /\ aux_data[s] = in_flight[s]
                        /\ image[aux_data[s]] = "held"

\* A buffer is never in the SDK's queue, hence written by DMA, while a frame
\* over it has owners.
NoDmaWhileOwned == \A s \in Slots : refcount[s] > 0 => s \notin queued

\* When the last reference to a frame is dropped its buffer gets back to the SDK.
BufferComesBack ==
    \A s \in Slots : (refcount[s] = 0 /\ cap.slot # s) ~> (s \in queued \/ cap.slot = s)
=============================================================================
