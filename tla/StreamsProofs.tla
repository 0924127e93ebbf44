---------------------------- MODULE StreamsProofs ----------------------------
(***************************************************************************)
(* The components side by side, for any values of the constants: what is   *)
(* proved of each component in its own module holds of it here.  Two have  *)
(* no other module of proofs: the user buffers (PoolInv), and the bag      *)
(* recorder, whose invariants are that every frame is somewhere            *)
(* (RecorderInv), and that the index of the file leads to every message in *)
(* it (BagInv).                                                            *)
(*                                                                         *)
(* A component here (Bus) and in its proofs (BusP) are two instances of    *)
(* one module, whose definitions are the same once they are expanded.      *)
(***************************************************************************)
EXTENDS Streams, FiniteSetTheorems, FunctionTheorems, SequenceTheorems, TLAPS

-----------------------------------------------------------------------------
(* The user buffers: each slot is in one of four phases, for any number of  *)
(* buffers, threads, references and images, if the SDK delivers a buffer    *)
(* again only after return_buffer() for it has returned (PromptReturn).     *)
(* Without that, the run UserBufferPoolLeak shows what happens.             *)

\* The slot and the frame name one image, which has not been released.
Loaded(s) ==
    /\ in_flight[s] # None
    /\ aux_data[s] = in_flight[s]
    /\ image[in_flight[s]] = "held"

\* The SDK has the buffer, and nothing is left of its last image.
Free(s) ==
    /\ s \in queued /\ cap.slot # s /\ ~Pool!Returning(s)
    /\ refcount[s] = 0 /\ in_flight[s] = None /\ aux_data[s] = None

\* The capture thread has it, from GetNextImage() to the end of checkout().
Capturing(s) ==
    /\ s \notin queued /\ cap.slot = s /\ cap.at # "idle" /\ ~Pool!Returning(s)
    /\ cap.img # None /\ image[cap.img] = "held"
    /\ in_flight[s] = (IF cap.at \in {"deliver", "bind"} THEN None ELSE cap.img)
    /\ refcount[s] = (IF cap.at = "stash" THEN 1 ELSE 0)
    /\ aux_data[s] = None

\* Somebody owns the frame over it.
Out(s) ==
    /\ s \notin queued /\ cap.slot # s /\ ~Pool!Returning(s)
    /\ refcount[s] > 0
    /\ Loaded(s)

\* One thread is in return_buffer() for it.
Back(t, s) ==
    /\ ret[t].slot = s /\ ret[t].at # "idle"
    /\ \A u \in Releasers : ret[u].slot = s => u = t
    /\ cap.slot # s /\ refcount[s] = 0
    /\ \/ s \notin queued /\ Loaded(s) /\ ret[t].at = "read"
       \/ s \notin queued /\ Loaded(s) /\ ret[t].at = "release" /\ ret[t].held = in_flight[s]
       \/ s \in queued /\ ret[t].at = "clear_aux"
       \/ s \in queued /\ ret[t].at = "clear_slot" /\ aux_data[s] = None

SlotOK(s) == Free(s) \/ Capturing(s) \/ Out(s) \/ \E t \in Releasers : Back(t, s)

\* The image that was last delivered in the buffer, until the slot forgets it.
Carried(s) == IF cap.slot = s THEN cap.img ELSE in_flight[s]

\* No image is in two buffers, or in one before it is delivered.
Distinct ==
    /\ \A s \in Slots : Carried(s) # None => Carried(s) <= delivered
    /\ \A r, s \in Slots : Carried(r) # None /\ Carried(r) = Carried(s) => r = s

\* A thread outside names no slot, one inside names one.
Named ==
    /\ cap.at = "idle" => cap = Pool!NoCapture
    /\ cap.at # "idle" => cap.slot # None
    /\ \A t \in Releasers : /\ ret[t].at = "idle" => ret[t] = Pool!NoReturn
                            /\ ret[t].at # "idle" => ret[t].slot # None

PoolInv == /\ Pool!TypeOK
           /\ Named
           /\ Distinct
           /\ \A s \in Slots : SlotOK(s)
           /\ ~badRelease

-----------------------------------------------------------------------------
(* A slot that a step does not touch stays in its phase.                    *)

\* What the phase of s depends on.
Untouched(s) ==
    /\ s \in queued' <=> s \in queued
    /\ refcount'[s] = refcount[s] /\ in_flight'[s] = in_flight[s] /\ aux_data'[s] = aux_data[s]
    /\ cap' = cap \/ (cap.slot # s /\ cap'.slot # s)
    /\ Carried(s) # None => image'[Carried(s)] = image[Carried(s)]
    /\ \A t \in Releasers : ret'[t] = ret[t] \/ (ret[t].slot # s /\ ret'[t].slot # s)

LEMMA Stays ==
  ASSUME NEW s \in Slots, SlotOK(s), Untouched(s)
  PROVE  SlotOK(s)'
  <1>1. Pool!Returning(s)' => Pool!Returning(s)
    BY DEF Pool!Returning, Untouched
  <1>2. CASE Free(s)
    BY <1>1, <1>2 DEF Free, Untouched, SlotOK
  <1>3. CASE Capturing(s)
    <2>1. cap' = cap
      BY <1>3 DEF Capturing, Untouched
    <2>2. image'[cap.img] = image[cap.img]
      BY <1>3 DEF Capturing, Untouched, Carried
    <2> QED BY <1>1, <1>3, <2>1, <2>2 DEF Capturing, Untouched, SlotOK
  <1>4. ASSUME cap.slot # s, Loaded(s)
        PROVE  Loaded(s)'
    BY <1>4 DEF Loaded, Untouched, Carried
  <1>5. CASE Out(s)
    <2>1. cap'.slot # s
      BY <1>5 DEF Out, Untouched
    <2> QED BY <1>1, <1>4, <1>5, <2>1 DEF Out, Untouched, SlotOK
  <1>6. ASSUME NEW t \in Releasers, Back(t, s)
        PROVE  SlotOK(s)'
    <2>1. ret'[t] = ret[t]
      BY <1>6 DEF Back, Untouched
    <2>2. \A u \in Releasers : ret'[u].slot = s => u = t
      BY <1>6 DEF Back, Untouched
    <2>3. cap'.slot # s
      BY <1>6 DEF Back, Untouched
    <2>4. Back(t, s)'
      BY <1>4, <1>6, <2>1, <2>2, <2>3 DEF Back, Untouched
    <2> QED BY <2>4 DEF SlotOK
  <1> QED BY <1>2, <1>3, <1>5, <1>6 DEF SlotOK

\* One image changes hands; only the slot that carries it notices.
LEMMA OthersStay ==
  ASSUME PoolInv, NEW s \in Slots, NEW r \in Slots, r # s,
         Carried(s) # None, NEW v, image' = [image EXCEPT ![Carried(s)] = v]
  PROVE  Carried(r) # None => image'[Carried(r)] = image[Carried(r)]
  <1>1. Carried(r) # None => Carried(r) # Carried(s)
    BY DEF PoolInv, Distinct
  <1>2. Carried(r) # None => Carried(r) \in Pool!Images
    BY DEF PoolInv, Pool!TypeOK, Carried
  <1> QED BY <1>1, <1>2 DEF PoolInv, Pool!TypeOK

-----------------------------------------------------------------------------
(* The capture thread.                                                      *)

LEMMA PoolInit == ASSUME Pool!PoolAssumption PROVE Pool!Init => PoolInv
  <1> SUFFICES ASSUME Pool!Init PROVE PoolInv
    OBVIOUS
  <1>1. Pool!TypeOK
    <2>1. MaxImages \in Nat /\ MaxRefs \in Nat \ {0}
      BY DEF Pool!PoolAssumption
    <2>2. cap \in [at : {"idle", "deliver", "bind", "reset", "stash"},
                   slot : Slots \cup {None}, img : Pool!Images \cup {None}]
      BY DEF Pool!Init, Pool!NoCapture
    <2>3. Pool!NoReturn \in [at : {"idle", "read", "release", "clear_aux", "clear_slot"},
                        slot : Slots \cup {None}, held : Pool!Images \cup {None}]
      BY DEF Pool!NoReturn
    <2>4. ret \in [Releasers -> [at : {"idle", "read", "release", "clear_aux", "clear_slot"},
                              slot : Slots \cup {None}, held : Pool!Images \cup {None}]]
      BY <2>3 DEF Pool!Init
    <2>5. /\ queued \subseteq Slots /\ delivered \in 0..MaxImages
          /\ refcount \in [Slots -> 0..MaxRefs]
          /\ image \in [Pool!Images -> {"none", "held", "released"}]
          /\ in_flight \in [Slots -> Pool!Images \cup {None}]
          /\ aux_data \in [Slots -> Pool!Images \cup {None}]
      BY <2>1 DEF Pool!Init
    <2>6. badRelease \in BOOLEAN
      BY DEF Pool!Init
    <2> QED BY <2>2, <2>4, <2>5, <2>6 DEF Pool!TypeOK
  <1>2. Named
    BY DEF Pool!Init, Named, Pool!NoCapture, Pool!NoReturn
  <1>3. \A s \in Slots : Carried(s) = None
    BY DEF Pool!Init, Carried, Pool!NoCapture
  <1>4. \A s \in Slots : Free(s)
    BY DEF Pool!Init, Free, Pool!NoCapture, Pool!NoReturn, Pool!Returning, Pool!PoolAssumption
  <1> QED BY <1>1, <1>2, <1>3, <1>4 DEF PoolInv, Distinct, SlotOK, Pool!Init

LEMMA DeliverStep ==
  ASSUME Pool!PoolAssumption, PromptReturn, PoolInv, NEW s \in Slots, Pool!GetNextImage(s)
  PROVE  PoolInv'
  <1>1. Free(s)
    BY DEF PoolInv, SlotOK, Pool!GetNextImage, Capturing, Out, Back, Pool!Returning
  <1>2. /\ delivered + 1 \in Pool!Images /\ delivered + 1 # None
        /\ delivered \in Nat /\ cap.slot = None
    BY DEF PoolInv, Pool!TypeOK, Named, Pool!NoCapture, Pool!GetNextImage, Pool!PoolAssumption,
       Pool!Images
  <1>3. Pool!TypeOK'
    BY <1>2 DEF PoolInv, Pool!TypeOK, Pool!GetNextImage, Pool!Images, Pool!PoolAssumption
  <1>4. Named'
    BY DEF PoolInv, Named, Pool!GetNextImage, Pool!PoolAssumption
  <1>5. Carried(s)' = delivered + 1 /\ \A r \in Slots \ {s} : Carried(r)' = Carried(r)
    BY <1>2 DEF Carried, Pool!GetNextImage, PoolInv, Named, Pool!NoCapture, Pool!PoolAssumption
  <1>6. \A r \in Slots : Carried(r) \in Pool!Images \cup {None}
    BY DEF PoolInv, Pool!TypeOK, Carried
  <1>7. Distinct'
    <2>1. \A r \in Slots : Carried(r) # None => Carried(r) <= delivered /\ Carried(r) \in Nat
      BY <1>6 DEF PoolInv, Distinct, Pool!Images
    <2>2. delivered' = delivered + 1
      BY DEF Pool!GetNextImage
    <2> QED BY <1>2, <1>5, <2>1, <2>2 DEF PoolInv, Distinct
  <1>8. Capturing(s)'
    BY <1>1, <1>2 DEF Free, Capturing, Pool!GetNextImage, Pool!Returning, PoolInv, Pool!TypeOK
  <1>9. ASSUME NEW r \in Slots, r # s
        PROVE  Untouched(r)
    <2>1. Carried(r) # None => Carried(r) # delivered + 1
      BY <1>2, <1>6 DEF PoolInv, Distinct, Pool!Images
    <2> QED BY <1>2, <1>6, <1>9, <2>1
            DEF Untouched, Pool!GetNextImage, PoolInv, Pool!TypeOK, Pool!PoolAssumption
  <1>10. \A r \in Slots : SlotOK(r)'
    BY <1>8, <1>9, Stays DEF SlotOK, PoolInv
  <1> QED BY <1>3, <1>4, <1>7, <1>10 DEF PoolInv, Pool!GetNextImage

\* Between GetNextImage() and the end of checkout() the slot is Capturing.
LEMMA CaptureFacts ==
  ASSUME Pool!PoolAssumption, PoolInv, cap.at # "idle"
  PROVE  /\ cap.slot \in Slots /\ cap.img \in Pool!Images
         /\ Capturing(cap.slot) /\ Carried(cap.slot) = cap.img /\ cap.img # None
  <1>1. cap.slot \in Slots
    BY DEF PoolInv, Named, Pool!TypeOK
  <1>2. Capturing(cap.slot)
    BY <1>1 DEF PoolInv, SlotOK, Free, Out, Back
  <1> QED BY <1>1, <1>2 DEF Capturing, Carried, PoolInv, Pool!TypeOK

LEMMA DropStep ==
  ASSUME Pool!PoolAssumption, PoolInv, NEW s, s = cap.slot, Pool!DropIncomplete
  PROVE  PoolInv'
  <1>1. /\ s \in Slots /\ cap.img \in Pool!Images /\ Capturing(s)
        /\ Carried(s) = cap.img /\ cap.img # None
    BY CaptureFacts DEF Pool!DropIncomplete
  <1>2. Pool!TypeOK'
    BY <1>1 DEF PoolInv, Pool!TypeOK, Pool!DropIncomplete, Pool!ReleaseImage, Pool!NoCapture
  <1>3. Named'
    BY DEF PoolInv, Named, Pool!DropIncomplete, Pool!NoCapture
  <1>4. cap'.slot = None /\ s # None
    BY <1>1 DEF Pool!DropIncomplete, Pool!NoCapture, Pool!PoolAssumption
  <1>5. Carried(s)' = None /\ \A r \in Slots \ {s} : Carried(r)' = Carried(r)
    BY <1>1, <1>4 DEF Carried, Pool!DropIncomplete, Capturing, Pool!PoolAssumption
  <1>6. Distinct'
    BY <1>5 DEF PoolInv, Distinct, Pool!DropIncomplete
  <1>7. Free(s)'
    BY <1>1, <1>4 DEF Capturing, Free, Pool!DropIncomplete, Pool!ReleaseImage, Pool!Returning
  <1>8. ASSUME NEW r \in Slots, r # s
        PROVE  Untouched(r)
    <2>1. Carried(r) # None => image'[Carried(r)] = image[Carried(r)]
      BY <1>1, <1>8, OthersStay DEF Pool!DropIncomplete, Pool!ReleaseImage
    <2> QED BY <1>4, <1>8, <2>1
            DEF Untouched, Pool!DropIncomplete, Pool!ReleaseImage, Pool!PoolAssumption
  <1>9. \A r \in Slots : SlotOK(r)'
    BY <1>7, <1>8, Stays DEF SlotOK, PoolInv
  <1>10. ~badRelease'
    BY <1>1 DEF PoolInv, Capturing, Pool!DropIncomplete, Pool!ReleaseImage
  <1> QED BY <1>2, <1>3, <1>6, <1>9, <1>10 DEF PoolInv

\* "guard defensively": nothing is bound to the slot any more.
LEMMA CheckoutSteps ==
  ASSUME Pool!PoolAssumption, PoolInv, NEW s, s = cap.slot,
         Pool!CheckoutGuard \/ Pool!CheckoutBind \/ Pool!CheckoutReset \/ Pool!CheckoutStash
  PROVE  PoolInv'
  <1>0. cap.at # "idle"
    BY DEF Pool!CheckoutGuard, Pool!CheckoutBind, Pool!CheckoutReset, Pool!CheckoutStash
  <1>1. /\ s \in Slots /\ cap.img \in Pool!Images /\ Capturing(s)
        /\ Carried(s) = cap.img /\ cap.img # None /\ s # None
    BY <1>0, CaptureFacts DEF Pool!PoolAssumption
  <1>2. /\ image' = image /\ badRelease' = badRelease /\ queued' = queued
        /\ delivered' = delivered /\ ret' = ret
    BY <1>1 DEF Capturing, Pool!CheckoutGuard, Pool!CheckoutBind, Pool!CheckoutReset,
       Pool!CheckoutStash
  <1>3. Pool!TypeOK'
    BY <1>1, <1>2 DEF PoolInv, Pool!TypeOK, Capturing, Pool!CheckoutGuard, Pool!CheckoutBind,
                      Pool!CheckoutReset, Pool!CheckoutStash, Pool!NoCapture, Pool!PoolAssumption
  <1>4. Named'
    BY <1>1, <1>2 DEF PoolInv, Pool!TypeOK, Named, Pool!CheckoutGuard, Pool!CheckoutBind,
                      Pool!CheckoutReset, Pool!CheckoutStash, Pool!NoCapture
  <1>5. SlotOK(s)' /\ Carried(s)' = Carried(s)
    <2>1. ~Pool!Returning(s)'
      BY <1>1, <1>2 DEF Capturing, Pool!Returning
    <2>2. CASE Pool!CheckoutGuard
      <3>1. Capturing(s)'
        BY <1>1, <1>2, <2>1, <2>2 DEF Capturing, Pool!CheckoutGuard, PoolInv, Pool!TypeOK
      <3> QED BY <1>1, <2>2, <3>1 DEF SlotOK, Carried, Pool!CheckoutGuard, PoolInv, Pool!TypeOK
    <2>3. CASE Pool!CheckoutBind
      <3>1. Capturing(s)'
        BY <1>1, <1>2, <2>1, <2>3 DEF Capturing, Pool!CheckoutBind, PoolInv, Pool!TypeOK
      <3> QED BY <1>1, <2>3, <3>1 DEF SlotOK, Carried, Pool!CheckoutBind, PoolInv, Pool!TypeOK
    <2>4. CASE Pool!CheckoutReset
      <3>1. Capturing(s)'
        BY <1>1, <1>2, <2>1, <2>4 DEF Capturing, Pool!CheckoutReset, PoolInv, Pool!TypeOK
      <3> QED BY <1>1, <2>4, <3>1 DEF SlotOK, Carried, Pool!CheckoutReset, PoolInv, Pool!TypeOK
    <2>5. CASE Pool!CheckoutStash
      <3>1. cap'.slot = None /\ in_flight'[s] = cap.img
        BY <1>1, <2>5 DEF Capturing, Pool!CheckoutStash, Pool!NoCapture
      <3>2. Out(s)'
        BY <1>1, <1>2, <2>1, <2>5, <3>1 DEF Capturing, Out, Loaded, Pool!CheckoutStash, PoolInv,
           Pool!TypeOK
      <3> QED BY <1>1, <3>1, <3>2 DEF SlotOK, Carried
    <2> QED BY <2>2, <2>3, <2>4, <2>5
  <1>6. ASSUME NEW r \in Slots, r # s
        PROVE  Untouched(r) /\ Carried(r)' = Carried(r)
    <2>1. cap'.slot # r
      BY <1>6 DEF Pool!CheckoutGuard, Pool!CheckoutBind, Pool!CheckoutReset, Pool!CheckoutStash,
         Pool!NoCapture,
                  PoolInv, Pool!TypeOK, Pool!PoolAssumption
    <2>2. refcount'[r] = refcount[r] /\ in_flight'[r] = in_flight[r] /\ aux_data'[r] = aux_data[r]
      BY <1>6 DEF Pool!CheckoutGuard, Pool!CheckoutBind, Pool!CheckoutReset, Pool!CheckoutStash,
                  PoolInv, Pool!TypeOK
    <2> QED BY <1>2, <1>6, <2>1, <2>2 DEF Untouched, Carried
  <1>7. Distinct'
    BY <1>2, <1>5, <1>6 DEF PoolInv, Distinct
  <1>8. \A r \in Slots : SlotOK(r)'
    BY <1>5, <1>6, Stays DEF PoolInv
  <1> QED BY <1>2, <1>3, <1>4, <1>7, <1>8 DEF PoolInv

-----------------------------------------------------------------------------
(* The owners and return_buffer().                                          *)

\* A slot with published references is Out.
LEMMA PublishedIsOut ==
  ASSUME PoolInv, NEW s \in Slots, Pool!Published(s)
  PROVE  Out(s)
  BY DEF PoolInv, Pool!Published, SlotOK, Free, Capturing, Back

LEMMA RetainStep ==
  ASSUME Pool!PoolAssumption, PoolInv, NEW s \in Slots, Pool!Retain(s)
  PROVE  PoolInv'
  <1>1. Out(s)
    BY PublishedIsOut DEF Pool!Retain
  <1>2. Pool!TypeOK'
    BY DEF PoolInv, Pool!TypeOK, Pool!Retain, Pool!PoolAssumption
  <1>3. Out(s)'
    BY <1>1 DEF Out, Loaded, Pool!Retain, Pool!Returning, PoolInv, Pool!TypeOK
  <1>4. \A r \in Slots : Carried(r)' = Carried(r)
    BY DEF Carried, Pool!Retain
  <1>5. ASSUME NEW r \in Slots, r # s
        PROVE  Untouched(r)
    BY <1>5 DEF Untouched, Pool!Retain, PoolInv, Pool!TypeOK
  <1>6. \A r \in Slots : SlotOK(r)'
    BY <1>3, <1>5, Stays DEF SlotOK, PoolInv
  <1> QED BY <1>2, <1>4, <1>6 DEF PoolInv, Named, Distinct, Pool!Retain

\* A thread that is not in return_buffer() has no slot.
LEMMA IdleIs ==
  ASSUME PoolInv
  PROVE  \A u \in Releasers : ret[u].at = "idle" => ret[u].slot = None
  <1>1. \A u \in Releasers : ret[u].at = "idle" => ret[u] = Pool!NoReturn
    <2>1. Named
      BY DEF PoolInv
    <2> QED BY <2>1 DEF Named
  <1>2. Pool!NoReturn.slot = None
    BY DEF Pool!NoReturn
  <1> QED BY <1>1, <1>2

LEMMA ReleaseStep ==
  ASSUME Pool!PoolAssumption, PoolInv, NEW s \in Slots, NEW t \in Releasers, Pool!Release(t, s)
  PROVE  PoolInv'
  <1>1. Out(s) /\ s # None /\ ret[t].slot = None
    <2>1. Out(s)
      BY PublishedIsOut DEF Pool!Release
    <2>2. s # None
      BY DEF Pool!PoolAssumption
    <2>3. ret[t].slot = None
      BY IdleIs DEF Pool!Release
    <2> QED BY <2>1, <2>2, <2>3
  <1>2. Pool!TypeOK'
    BY DEF PoolInv, Pool!TypeOK, Pool!Release, Pool!Published, Pool!PoolAssumption
  <1>3. Named'
    BY <1>1 DEF PoolInv, Named, Pool!Release, Pool!TypeOK
  <1>4. \A r \in Slots : Carried(r)' = Carried(r)
    BY DEF Carried, Pool!Release
  <1>5. SlotOK(s)'
    <2>1. Loaded(s)'
      BY <1>1 DEF Out, Loaded, Pool!Release
    <2>2. CASE refcount[s] = 1
      <3>1. Back(t, s)'
        <4>1. /\ ret'[t] = [at |-> "read", slot |-> s, held |-> None]
              /\ \A u \in Releasers : u # t => ret'[u] = ret[u]
          BY <2>2 DEF Pool!Release, PoolInv, Pool!TypeOK
        <4>2. \A u \in Releasers : ret'[u].slot = s => u = t
          BY <1>1, <4>1, IdleIs DEF Out, Pool!Returning
        <4>3. refcount'[s] = 0
          BY <2>2 DEF Pool!Release, PoolInv, Pool!TypeOK
        <4> QED BY <1>1, <2>1, <4>1, <4>2, <4>3 DEF Out, Back, Pool!Release
      <3> QED BY <3>1 DEF SlotOK
    <2>3. CASE refcount[s] # 1
      <3>1. Out(s)'
        BY <1>1, <2>1, <2>3 DEF Out, Pool!Release, Pool!Returning, PoolInv, Pool!TypeOK,
           Pool!PoolAssumption
      <3> QED BY <3>1 DEF SlotOK
    <2> QED BY <2>2, <2>3
  <1>6. ASSUME NEW r \in Slots, r # s
        PROVE  Untouched(r)
    BY <1>1, <1>6 DEF Untouched, Pool!Release, PoolInv, Pool!TypeOK, Pool!PoolAssumption
  <1>7. \A r \in Slots : SlotOK(r)'
    BY <1>5, <1>6, Stays DEF PoolInv
  <1> QED BY <1>2, <1>3, <1>4, <1>7 DEF PoolInv, Distinct, Pool!Release

\* A thread in return_buffer() has a slot to itself.
LEMMA ReturnFacts ==
  ASSUME Pool!PoolAssumption, PoolInv, NEW t \in Releasers, ret[t].at # "idle"
  PROVE  ret[t].slot \in Slots /\ Back(t, ret[t].slot) /\ ret[t].slot # None
  <1>1. ret[t].slot \in Slots
    BY DEF PoolInv, Named, Pool!TypeOK
  <1>2. Back(t, ret[t].slot)
    BY <1>1 DEF PoolInv, SlotOK, Free, Capturing, Out, Back, Pool!Returning
  <1> QED BY <1>1, <1>2 DEF Pool!PoolAssumption

LEMMA ReadStep ==
  ASSUME Pool!PoolAssumption, PoolInv, NEW t \in Releasers, NEW s, s = ret[t].slot,
         Pool!ReturnRead(t)
  PROVE  PoolInv'
  <1>1. s \in Slots /\ Back(t, s) /\ s # None
    BY ReturnFacts DEF Pool!ReturnRead
  <1>2. Loaded(s) /\ s \notin queued /\ aux_data[s] = in_flight[s] /\ in_flight[s] # None
    BY <1>1 DEF Back, Loaded, Pool!ReturnRead
  <1>3. ret' = [ret EXCEPT ![t].held = in_flight[s], ![t].at = "release"]
    BY <1>2 DEF Pool!ReturnRead
  <1>4. ret'[t].slot = s /\ ret'[t].at = "release" /\ ret'[t].held = in_flight[s]
    BY <1>3 DEF PoolInv, Pool!TypeOK
  <1>5. \A u \in Releasers : u # t => ret'[u] = ret[u]
    BY <1>3 DEF PoolInv, Pool!TypeOK
  <1>6. Pool!TypeOK'
    BY <1>1, <1>3 DEF PoolInv, Pool!TypeOK, Pool!ReturnRead
  <1>7. Named'
    BY <1>1, <1>4, <1>5 DEF PoolInv, Named, Pool!ReturnRead
  <1>8. Back(t, s)'
    BY <1>1, <1>2, <1>4, <1>5 DEF Back, Loaded, Pool!ReturnRead
  <1>9. ASSUME NEW r \in Slots, r # s
        PROVE  Untouched(r)
    BY <1>4, <1>5, <1>9 DEF Untouched, Pool!ReturnRead
  <1>10. \A r \in Slots : SlotOK(r)'
    BY <1>8, <1>9, Stays DEF SlotOK, PoolInv
  <1>11. Distinct'
    BY DEF PoolInv, Distinct, Carried, Pool!ReturnRead
  <1> QED BY <1>6, <1>7, <1>10, <1>11 DEF PoolInv, Pool!ReturnRead

LEMMA ReleaseImageStep ==
  ASSUME Pool!PoolAssumption, PoolInv, NEW t \in Releasers, NEW s, s = ret[t].slot,
         Pool!ReturnRelease(t)
  PROVE  PoolInv'
  <1>1. s \in Slots /\ Back(t, s) /\ s # None
    BY ReturnFacts DEF Pool!ReturnRelease
  <1>2. Loaded(s) /\ ret[t].held = in_flight[s] /\ in_flight[s] \in Pool!Images
    BY <1>1 DEF Back, Loaded, Pool!ReturnRelease, PoolInv, Pool!TypeOK
  <1>3. Carried(s) = in_flight[s] /\ in_flight[s] # None
    BY <1>1, <1>2 DEF Back, Carried, Loaded
  <1>4. ret'[t].slot = s /\ ret'[t].at = "clear_aux"
    BY DEF Pool!ReturnRelease, PoolInv, Pool!TypeOK
  <1>5. \A u \in Releasers : u # t => ret'[u] = ret[u]
    BY DEF Pool!ReturnRelease, PoolInv, Pool!TypeOK
  <1>6. Pool!TypeOK'
    BY <1>1, <1>2 DEF PoolInv, Pool!TypeOK, Pool!ReturnRelease, Pool!ReleaseImage
  <1>7. Named'
    BY <1>1, <1>4, <1>5 DEF PoolInv, Named, Pool!ReturnRelease
  <1>8. Back(t, s)'
    BY <1>1, <1>4, <1>5 DEF Back, Pool!ReturnRelease, Pool!ReleaseImage
  <1>9. ASSUME NEW r \in Slots, r # s
        PROVE  Untouched(r)
    <2>1. image' = [image EXCEPT ![Carried(s)] = "released"]
      BY <1>2, <1>3 DEF Pool!ReturnRelease, Pool!ReleaseImage
    <2>2. Carried(r) # None => image'[Carried(r)] = image[Carried(r)]
      BY <1>1, <1>3, <1>9, <2>1, OthersStay
    <2> QED BY <1>4, <1>5, <1>9, <2>2 DEF Untouched, Pool!ReturnRelease, Pool!ReleaseImage
  <1>10. \A r \in Slots : SlotOK(r)'
    BY <1>8, <1>9, Stays DEF SlotOK, PoolInv
  <1>11. Distinct'
    BY DEF PoolInv, Distinct, Carried, Pool!ReturnRelease
  <1>12. ~badRelease'
    BY <1>2 DEF PoolInv, Loaded, Pool!ReturnRelease, Pool!ReleaseImage
  <1> QED BY <1>6, <1>7, <1>10, <1>11, <1>12 DEF PoolInv

LEMMA ClearAuxStep ==
  ASSUME Pool!PoolAssumption, PoolInv, NEW t \in Releasers, NEW s, s = ret[t].slot,
         Pool!ReturnClearAux(t)
  PROVE  PoolInv'
  <1>1. s \in Slots /\ Back(t, s) /\ s # None
    BY ReturnFacts DEF Pool!ReturnClearAux
  <1>2. ret'[t].slot = s /\ ret'[t].at = "clear_slot"
    BY DEF Pool!ReturnClearAux, PoolInv, Pool!TypeOK
  <1>3. \A u \in Releasers : u # t => ret'[u] = ret[u]
    BY DEF Pool!ReturnClearAux, PoolInv, Pool!TypeOK
  <1>4. Pool!TypeOK'
    BY <1>1 DEF PoolInv, Pool!TypeOK, Pool!ReturnClearAux
  <1>5. Named'
    BY <1>1, <1>2, <1>3 DEF PoolInv, Named, Pool!ReturnClearAux
  <1>6. Back(t, s)'
    BY <1>1, <1>2, <1>3 DEF Back, Pool!ReturnClearAux, PoolInv, Pool!TypeOK
  <1>7. ASSUME NEW r \in Slots, r # s
        PROVE  Untouched(r)
    BY <1>2, <1>3, <1>7 DEF Untouched, Pool!ReturnClearAux, PoolInv, Pool!TypeOK
  <1>8. \A r \in Slots : SlotOK(r)'
    BY <1>6, <1>7, Stays DEF SlotOK, PoolInv
  <1>9. Distinct'
    BY DEF PoolInv, Distinct, Carried, Pool!ReturnClearAux
  <1> QED BY <1>4, <1>5, <1>8, <1>9 DEF PoolInv, Pool!ReturnClearAux

LEMMA ClearSlotStep ==
  ASSUME Pool!PoolAssumption, PoolInv, NEW t \in Releasers, NEW s, s = ret[t].slot,
         Pool!ReturnClearSlot(t)
  PROVE  PoolInv'
  <1>1. s \in Slots /\ Back(t, s) /\ s # None
    BY ReturnFacts DEF Pool!ReturnClearSlot
  <1>2. ret'[t].slot = None /\ ret'[t] = Pool!NoReturn
    BY DEF Pool!ReturnClearSlot, Pool!NoReturn, PoolInv, Pool!TypeOK
  <1>3. \A u \in Releasers : u # t => ret'[u] = ret[u]
    BY DEF Pool!ReturnClearSlot, PoolInv, Pool!TypeOK
  <1>4. Pool!TypeOK'
    BY <1>1 DEF PoolInv, Pool!TypeOK, Pool!ReturnClearSlot, Pool!NoReturn
  <1>5. Named'
    BY <1>2, <1>3 DEF PoolInv, Named, Pool!ReturnClearSlot, Pool!NoReturn
  <1>6. Free(s)'
    <2>1. ~Pool!Returning(s)'
      BY <1>1, <1>2, <1>3 DEF Back, Pool!Returning
    <2> QED BY <1>1, <2>1 DEF Back, Free, Pool!ReturnClearSlot, PoolInv, Pool!TypeOK
  <1>7. Carried(s)' = None /\ \A r \in Slots \ {s} : Carried(r)' = Carried(r)
    BY <1>1 DEF Back, Carried, Pool!ReturnClearSlot, PoolInv, Pool!TypeOK
  <1>8. ASSUME NEW r \in Slots, r # s
        PROVE  Untouched(r)
    BY <1>1, <1>2, <1>3, <1>8 DEF Untouched, Pool!ReturnClearSlot, PoolInv, Pool!TypeOK,
       Pool!PoolAssumption
  <1>9. \A r \in Slots : SlotOK(r)'
    BY <1>6, <1>8, Stays DEF SlotOK, PoolInv
  <1>10. Distinct'
    BY <1>7 DEF PoolInv, Distinct, Pool!ReturnClearSlot
  <1> QED BY <1>4, <1>5, <1>9, <1>10 DEF PoolInv, Pool!ReturnClearSlot

-----------------------------------------------------------------------------
(* The theorems.                                                            *)

LEMMA PoolNext ==
  ASSUME Pool!PoolAssumption, PromptReturn
  PROVE  PoolInv /\ [Pool!Next]_(Pool!vars) => PoolInv'
  <1> SUFFICES ASSUME PoolInv, [Pool!Next]_(Pool!vars) PROVE PoolInv'
    OBVIOUS
  <1>1. ASSUME NEW s \in Slots, Pool!GetNextImage(s) PROVE PoolInv'
    BY <1>1, DeliverStep
  <1>2. ASSUME NEW s \in Slots, Pool!Retain(s) PROVE PoolInv'
    BY <1>2, RetainStep
  <1>3. ASSUME NEW t \in Releasers, NEW s \in Slots, Pool!Release(t, s) PROVE PoolInv'
    BY <1>3, ReleaseStep
  <1>4. CASE Pool!CaptureStep
    BY <1>4, DropStep, CheckoutSteps DEF Pool!CaptureStep
  <1>5. ASSUME NEW t \in Releasers, Pool!ReturnStep(t) PROVE PoolInv'
    BY <1>5, ReadStep, ReleaseImageStep, ClearAuxStep, ClearSlotStep DEF Pool!ReturnStep
  <1>6. CASE Pool!Quiet \/ UNCHANGED Pool!vars
    BY <1>6 DEF Pool!Quiet, Pool!vars, PoolInv, Pool!TypeOK, Named, Pool!NoCapture,
       Pool!NoReturn, Distinct, Carried,
                SlotOK, Free, Capturing, Out, Back, Loaded, Pool!Returning
  <1> QED BY <1>1, <1>2, <1>3, <1>4, <1>5, <1>6 DEF Pool!Next

\* What the invariant says of every reachable state.
LEMMA PoolSafe ==
  ASSUME PoolInv
  PROVE  Pool!TypeOK /\ Pool!ReleasedOnce /\ Pool!FrameKeepsImage /\ Pool!NoDmaWhileOwned
  <1>1. Pool!TypeOK /\ Pool!ReleasedOnce
    BY DEF PoolInv, Pool!ReleasedOnce
  <1>2. Pool!FrameKeepsImage
    BY PublishedIsOut DEF Out, Loaded, Pool!FrameKeepsImage
  <1>3. Pool!NoDmaWhileOwned
    BY DEF PoolInv, SlotOK, Free, Capturing, Out, Back, Pool!NoDmaWhileOwned, Pool!TypeOK
  <1> QED BY <1>1, <1>2, <1>3

\* A buffer is with the SDK, with the capture thread, with its owners, or with the one
\* thread that returns it.
THEOREM PoolInductive ==
  ASSUME Pool!PoolAssumption, PromptReturn
  PROVE  Pool!Spec => []PoolInv
  BY PoolInit, PoolNext, PTL DEF Pool!Spec

\* No image is released twice, neither by two threads that drop references nor by
\* checkout() of the next image in the same buffer.
THEOREM ImagesReleasedOnce ==
  ASSUME Pool!PoolAssumption, PromptReturn
  PROVE  Pool!Spec => []Pool!ReleasedOnce
  <1>1. PoolInv => Pool!ReleasedOnce
    BY PoolSafe
  <1> QED BY <1>1, PoolInductive, PTL

\* A frame with owners carries the image that its last release gives back.
THEOREM FramesKeepTheirImage ==
  ASSUME Pool!PoolAssumption, PromptReturn
  PROVE  Pool!Spec => []Pool!FrameKeepsImage
  <1>1. PoolInv => Pool!FrameKeepsImage
    BY PoolSafe
  <1> QED BY <1>1, PoolInductive, PTL

\* The SDK never writes into a buffer whose frame somebody owns.
THEOREM OwnedBuffersAreStable ==
  ASSUME Pool!PoolAssumption, PromptReturn
  PROVE  Pool!Spec => []Pool!NoDmaWhileOwned
  <1>1. PoolInv => Pool!NoDmaWhileOwned
    BY PoolSafe
  <1> QED BY <1>1, PoolInductive, PTL

-----------------------------------------------------------------------------
(* The bag recorder: every frame is somewhere.                              *)

Cameras == 1..NumCams

Spots(q, c) == {i \in 1..Len(q) : q[i] = c}

\* Frames of camera c between its channel and the bag.
Moving(c) == Cardinality(Spots(images, c)) + (IF task = c THEN 1 ELSE 0)
                                           + (IF pull[c] = "have" THEN 1 ELSE 0)

RecorderTyped ==
    /\ single \in BOOLEAN /\ phase \in {"on", "stopping", "draining", "closed"}
    /\ channel \in [Cameras -> Nat] /\ newest \in [Cameras -> Nat]
    /\ first \in [Cameras -> Nat]
    /\ pull \in [Cameras -> {"wait", "have", "done"}]
    /\ images \in Seq(Cameras) /\ Len(images) <= QueueCap
    /\ bus \in 0..ImuCap /\ imus \in 0..ImuCap /\ imu \in {"run", "done"}
    /\ task \in Cameras \cup {0, None} /\ writer \in {"run", "done"}
    /\ written \in [Cameras -> Nat] /\ skipped \in [Cameras -> Nat]
    /\ \A c \in Cameras : first[c] <= newest[c] /\ newest[c] <= channel[c]

\* Nobody fills a queue when the writer is told to drain them, and the file is closed
\* with both its queues drained.
StopsInOrder ==
    /\ single => \A c \in Cameras : c # 1 => pull[c] = "done"
    /\ phase \in {"draining", "closed"} => \A c \in Cameras : pull[c] = "done"
    /\ writer = "done" => phase \in {"draining", "closed"} /\ images = <<>> /\ task = None
    /\ phase = "closed" => writer = "done"

\* From the first frame taken of camera c, each is written, counted as dropped or moving.
FramesOf(c) ==
    /\ newest[c] = 0 => written[c] = 0 /\ skipped[c] = 0 /\ Moving(c) = 0
    /\ newest[c] # 0 => written[c] + skipped[c] + Moving(c) = newest[c] - first[c] + 1

RecorderInv == RecorderTyped /\ StopsInOrder /\ \A c \in Cameras : FramesOf(c)

LEMMA SpotsFinite ==
  ASSUME NEW q \in Seq(Cameras), NEW c
  PROVE  IsFiniteSet(Spots(q, c)) /\ Cardinality(Spots(q, c)) \in Nat
  <1>1. Spots(q, c) \in SUBSET (1..Len(q)) /\ Len(q) \in Nat
    BY DEF Spots
  <1>2. IsFiniteSet(1..Len(q))
    BY <1>1, FS_Interval
  <1> QED BY <1>1, <1>2, FS_Subset, FS_CardinalityType

LEMMA NoSpots == \A c : Cardinality(Spots(<<>>, c)) = 0
  <1>1. \A c : Spots(<<>>, c) = {}
    BY DEF Spots
  <1> QED BY <1>1, FS_EmptySet

\* A frame that is queued.
LEMMA Queued ==
  ASSUME NEW q \in Seq(Cameras), NEW d \in Cameras, NEW c
  PROVE  Cardinality(Spots(Append(q, d), c))
           = Cardinality(Spots(q, c)) + (IF d = c THEN 1 ELSE 0)
  <1>1. Spots(Append(q, d), c) = IF d = c THEN Spots(q, c) \cup {Len(q) + 1} ELSE Spots(q, c)
    BY DEF Spots
  <1>2. Len(q) + 1 \notin Spots(q, c)
    BY DEF Spots
  <1>3. IsFiniteSet(Spots(q, c)) /\ Cardinality(Spots(q, c)) \in Nat
    BY SpotsFinite
  <1>4. Cardinality(Spots(q, c) \cup {Len(q) + 1}) = Cardinality(Spots(q, c)) + 1
    BY <1>2, <1>3, FS_AddElement
  <1> QED BY <1>1, <1>3, <1>4

\* A frame that the writer takes.
LEMMA Dequeued ==
  ASSUME NEW q \in Seq(Cameras), q # <<>>, NEW c
  PROVE  Cardinality(Spots(q, c))
           = Cardinality(Spots(Tail(q), c)) + (IF Head(q) = c THEN 1 ELSE 0)
  <1> DEFINE R == Spots(q, c) \ {1}
             T == Spots(Tail(q), c)
             next == [i \in T |-> i + 1]
  <1>1. Tail(q) \in Seq(Cameras) /\ Len(Tail(q)) = Len(q) - 1 /\ Len(q) \in Nat \ {0}
    OBVIOUS
  <1>2. \A i \in 1..Len(Tail(q)) : Tail(q)[i] = q[i + 1]
    OBVIOUS
  <1>3. \A i \in T : i \in Nat /\ i + 1 \in R
    BY <1>1, <1>2 DEF Spots
  <1>4. \A j \in R : j - 1 \in T /\ next[j - 1] = j
    <2>1. TAKE j \in R
    <2>2. j \in 2..Len(q) /\ q[j] = c
      BY <1>1 DEF Spots
    <2>3. j - 1 \in 1..Len(Tail(q)) /\ Tail(q)[j - 1] = q[j]
      BY <2>2, <1>1, <1>2
    <2> QED BY <2>2, <2>3 DEF Spots
  <1>5. next \in Bijection(T, R)
    <2> HIDE DEF T, R
    <2>1. next \in [T -> R] /\ \A i \in T : next[i] = i + 1
      BY <1>3
    <2>2. next \in Injection(T, R)
      BY <2>1, <1>3 DEF Injection, IsInjective
    <2>3. next \in Surjection(T, R)
      BY <2>1, <1>4 DEF Surjection
    <2> QED BY <2>2, <2>3 DEF Bijection
  <1>6. Cardinality(R) = Cardinality(T)
    <2>1. IsFiniteSet(T)
      BY <1>1, SpotsFinite
    <2> HIDE DEF T, R, next
    <2>2. ExistsBijection(T, R)
      BY <1>5 DEF ExistsBijection
    <2> QED BY <2>1, <2>2, FS_Bijection
  <1>7. 1 \in Spots(q, c) <=> Head(q) = c
    BY <1>1 DEF Spots
  <1>8. Cardinality(Spots(q, c)) \in Nat /\ Cardinality(T) \in Nat /\ IsFiniteSet(Spots(q, c))
    BY <1>1, SpotsFinite
  <1>9. Cardinality(R) = IF 1 \in Spots(q, c) THEN Cardinality(Spots(q, c)) - 1
                                              ELSE Cardinality(Spots(q, c))
    BY <1>8, FS_RemoveElement
  <1> QED BY <1>6, <1>7, <1>8, <1>9

LEMMA RecorderStarts ==
  ASSUME Recorder!RecorderAssumption, Recorder!Init
  PROVE  RecorderInv
  <1> USE DEF Recorder!Cams
  <1>1. RecorderTyped
    BY DEF Recorder!Init, Recorder!RecorderAssumption, RecorderTyped, Cameras
  <1>2. StopsInOrder
    BY DEF Recorder!Init, StopsInOrder, Cameras
  <1>3. \A c \in Cameras : FramesOf(c)
    BY NoSpots DEF Recorder!Init, FramesOf, Moving, Cameras, Recorder!RecorderAssumption
  <1> QED BY <1>1, <1>2, <1>3 DEF RecorderInv

LEMMA MovingTyped ==
  ASSUME RecorderTyped, NEW c \in Cameras
  PROVE  Moving(c) \in Nat /\ Cardinality(Spots(images, c)) \in Nat
  <1>1. Cardinality(Spots(images, c)) \in Nat
    BY SpotsFinite DEF RecorderTyped
  <1> QED BY <1>1 DEF Moving

\* Another camera's frames are where they were.
LEMMA SameFrames ==
  ASSUME RecorderInv, NEW c \in Cameras, Moving(c)' = Moving(c), written'[c] = written[c],
         skipped'[c] = skipped[c], newest'[c] = newest[c], first'[c] = first[c]
  PROVE  FramesOf(c)'
  BY DEF RecorderInv, FramesOf

LEMMA TakeStep ==
  ASSUME Recorder!RecorderAssumption, RecorderInv, NEW d \in Cameras, Recorder!Take(d)
  PROVE  RecorderInv'
  <1>1. /\ pull[d] = "wait" /\ phase = "on" /\ channel[d] > newest[d]
        /\ pull' = [pull EXCEPT ![d] = "have"]
        /\ newest' = [newest EXCEPT ![d] = channel[d]]
        /\ first' = [first EXCEPT ![d] = IF newest[d] = 0 THEN channel[d] ELSE @]
        /\ skipped' = [skipped EXCEPT ![d] = IF newest[d] = 0 THEN @
                                             ELSE @ + channel[d] - newest[d] - 1]
        /\ UNCHANGED <<single, phase, channel, images, bus, imus, imu, task, writer,
                       written, samples, bag>>
    BY DEF Recorder!Take
  <1>2. /\ channel \in [Cameras -> Nat] /\ newest \in [Cameras -> Nat]
        /\ first \in [Cameras -> Nat] /\ skipped \in [Cameras -> Nat]
        /\ written \in [Cameras -> Nat] /\ pull \in [Cameras -> {"wait", "have", "done"}]
    BY DEF RecorderInv, RecorderTyped
  <1>3. /\ newest'[d] = channel[d] /\ pull'[d] = "have"
        /\ first'[d] = (IF newest[d] = 0 THEN channel[d] ELSE first[d])
        /\ skipped'[d] = (IF newest[d] = 0 THEN skipped[d]
                                           ELSE skipped[d] + channel[d] - newest[d] - 1)
        /\ \A c \in Cameras : c # d => /\ newest'[c] = newest[c] /\ pull'[c] = pull[c]
                                       /\ first'[c] = first[c] /\ skipped'[c] = skipped[c]
    BY <1>1, <1>2
  <1>4. /\ channel[d] \in Nat /\ newest[d] \in Nat /\ first[d] \in Nat /\ skipped[d] \in Nat
        /\ written[d] \in Nat /\ first[d] <= newest[d]
    BY <1>2 DEF RecorderInv, RecorderTyped
  <1>5. first'[d] \in Nat /\ skipped'[d] \in Nat /\ first'[d] <= newest'[d]
    BY <1>1, <1>3, <1>4
  <1>6. RecorderTyped'
    <2>1. /\ first' \in [Cameras -> Nat] /\ skipped' \in [Cameras -> Nat]
          /\ newest' \in [Cameras -> Nat] /\ pull' \in [Cameras -> {"wait", "have", "done"}]
      BY <1>1, <1>2, <1>3, <1>4, <1>5
    <2>2. \A c \in Cameras : first'[c] <= newest'[c] /\ newest'[c] <= channel'[c]
      BY <1>1, <1>3, <1>4, <1>5 DEF RecorderInv, RecorderTyped
    <2> QED BY <2>1, <2>2, <1>1 DEF RecorderInv, RecorderTyped
  <1>7. StopsInOrder'
    BY <1>1, <1>3 DEF RecorderInv, StopsInOrder
  <1>8. ASSUME NEW c \in Cameras, c # d PROVE FramesOf(c)'
    <2>1. Moving(c)' = Moving(c)
      BY <1>1, <1>3, <1>8 DEF Moving
    <2> QED BY <2>1, <1>1, <1>3, <1>8, SameFrames
  <1>9. FramesOf(d)'
    <2>1. Moving(d)' = Moving(d) + 1 /\ Moving(d) \in Nat
      <3> DEFINE n == Cardinality(Spots(images, d))
                 k == IF task = d THEN 1 ELSE 0
      <3>1. n \in Nat /\ k \in Nat /\ Moving(d) = n + k + 0 /\ Moving(d)' = n + k + 1
        BY <1>1, <1>3, MovingTyped DEF Moving, RecorderInv
      <3> HIDE DEF n, k
      <3> QED BY <3>1
    <2>2. FramesOf(d)
      BY DEF RecorderInv
    <2>3. newest'[d] # 0 /\ written'[d] = written[d]
      BY <1>1, <1>3, <1>4
    <2>4. written'[d] + skipped'[d] + Moving(d)' = newest'[d] - first'[d] + 1
      <3>1. CASE newest[d] = 0
        <4>1. written[d] = 0 /\ skipped[d] = 0 /\ Moving(d) = 0
          BY <2>2, <3>1 DEF FramesOf
        <4> QED BY <4>1, <2>1, <2>3, <3>1, <1>3, <1>4
      <3>2. CASE newest[d] # 0
        <4>1. written[d] + skipped[d] + Moving(d) = newest[d] - first[d] + 1
          BY <2>2, <3>2 DEF FramesOf
        <4> QED BY <4>1, <2>1, <2>3, <3>2, <1>3, <1>4
      <3> QED BY <3>1, <3>2
    <2> QED BY <2>3, <2>4 DEF FramesOf
  <1> QED BY <1>6, <1>7, <1>8, <1>9 DEF RecorderInv

\* A frame changes places.
LEMMA Conserved ==
  ASSUME RecorderInv, RecorderTyped', NEW c \in Cameras,
         newest'[c] = newest[c], first'[c] = first[c],
         written'[c] + skipped'[c] + Moving(c)' = written[c] + skipped[c] + Moving(c)
  PROVE  FramesOf(c)'
  <1>1. Moving(c) \in Nat
    BY MovingTyped DEF RecorderInv
  <1>2. Moving(c)' \in Nat
    <2>1. Cardinality(Spots(images', c)) \in Nat
      BY SpotsFinite DEF RecorderTyped
    <2> QED BY <2>1 DEF Moving
  <1>3. /\ written[c] \in Nat /\ skipped[c] \in Nat
        /\ written'[c] \in Nat /\ skipped'[c] \in Nat
    BY DEF RecorderInv, RecorderTyped
  <1>4. FramesOf(c)
    BY DEF RecorderInv
  <1>5. CASE newest[c] = 0
    <2>1. written[c] = 0 /\ skipped[c] = 0 /\ Moving(c) = 0
      BY <1>4, <1>5 DEF FramesOf
    <2>2. written'[c] + skipped'[c] + Moving(c)' = 0
      BY <2>1
    <2>3. written'[c] = 0 /\ skipped'[c] = 0 /\ Moving(c)' = 0
      <3> DEFINE x == written'[c]
                 y == skipped'[c]
                 z == Moving(c)'
      <3>1. x \in Nat /\ y \in Nat /\ z \in Nat /\ x + y + z = 0
        BY <2>2, <1>2, <1>3
      <3> HIDE DEF x, y, z
      <3>2. x = 0 /\ y = 0 /\ z = 0
        BY <3>1
      <3> QED BY <3>2 DEF x, y, z
    <2> QED BY <2>3, <1>5 DEF FramesOf
  <1>6. CASE newest[c] # 0
    BY <1>4, <1>6 DEF FramesOf
  <1> QED BY <1>5, <1>6

LEMMA EnqueueStep ==
  ASSUME Recorder!RecorderAssumption, RecorderInv, NEW d \in Cameras, Recorder!Enqueue(d)
  PROVE  RecorderInv'
  <1>1. /\ pull[d] = "have" /\ pull' = [pull EXCEPT ![d] = "wait"]
        /\ UNCHANGED <<single, phase, channel, newest, first, bus, imus, imu, task, writer,
                       written, samples, bag>>
    BY DEF Recorder!Enqueue
  <1>2. \/ skipped' = [skipped EXCEPT ![d] = @ + 1] /\ images' = images
        \/ Len(images) < QueueCap /\ images' = Append(images, d) /\ skipped' = skipped
    BY SMTT(30) DEF Recorder!Enqueue, Recorder!RecorderAssumption, RecorderInv, RecorderTyped
  <1>3. /\ images \in Seq(Cameras) /\ Len(images) \in Nat /\ Len(images) <= QueueCap
        /\ QueueCap \in Nat
        /\ skipped \in [Cameras -> Nat] /\ pull \in [Cameras -> {"wait", "have", "done"}]
        /\ written \in [Cameras -> Nat]
    BY DEF Recorder!RecorderAssumption, RecorderInv, RecorderTyped
  <1>4. pull'[d] = "wait" /\ \A c \in Cameras : c # d => pull'[c] = pull[c]
    BY <1>1, <1>3
  <1>5. RecorderTyped'
    <2>1. images' \in Seq(Cameras) /\ Len(images') <= QueueCap
      <3>1. CASE images' = images
        BY <3>1, <1>3
      <3>2. CASE Len(images) < QueueCap /\ images' = Append(images, d)
        <4>1. images' \in Seq(Cameras) /\ Len(images') = Len(images) + 1
          BY <3>2, <1>3
        <4> QED BY <4>1, <3>2, <1>3
      <3> QED BY <3>1, <3>2, <1>2
    <2>2. skipped' \in [Cameras -> Nat]
      <3>1. CASE skipped' = skipped
        BY <3>1, <1>3
      <3>2. CASE skipped' = [skipped EXCEPT ![d] = @ + 1]
        BY <3>2, <1>3
      <3> QED BY <3>1, <3>2, <1>2
    <2>3. pull' \in [Cameras -> {"wait", "have", "done"}]
      BY <1>1, <1>3
    <2> QED BY <2>1, <2>2, <2>3, <1>1 DEF RecorderInv, RecorderTyped
  <1>6. StopsInOrder'
    <2>1. phase \notin {"draining", "closed"} /\ writer # "done" /\ (single => d = 1)
      BY <1>1 DEF RecorderInv, StopsInOrder
    <2> QED BY <2>1, <1>1, <1>4 DEF RecorderInv, StopsInOrder
  <1>7. ASSUME NEW c \in Cameras PROVE FramesOf(c)'
    <2> DEFINE n == Cardinality(Spots(images, c))
               m == Cardinality(Spots(images', c))
               k == IF task = c THEN 1 ELSE 0
    <2>1. n \in Nat /\ k \in Nat /\ skipped[c] \in Nat /\ written[c] \in Nat
      BY <1>3, SpotsFinite
    <2>2. /\ Moving(c) = n + k + (IF pull[c] = "have" THEN 1 ELSE 0)
          /\ Moving(c)' = m + k + (IF pull'[c] = "have" THEN 1 ELSE 0)
      BY <1>1 DEF Moving
    <2>3. \/ /\ skipped'[c] = skipped[c] + (IF d = c THEN 1 ELSE 0) /\ m = n
          \/ skipped'[c] = skipped[c] /\ m = n + (IF d = c THEN 1 ELSE 0)
      <3>1. CASE skipped' = [skipped EXCEPT ![d] = @ + 1] /\ images' = images
        <4>1. skipped'[c] = skipped[c] + (IF d = c THEN 1 ELSE 0)
          BY <3>1, <1>3, <2>1
        <4> QED BY <4>1, <3>1
      <3>2. CASE images' = Append(images, d) /\ skipped' = skipped
        <4>1. m = n + (IF d = c THEN 1 ELSE 0)
          BY <3>2, <1>3, Queued
        <4> QED BY <4>1, <3>2
      <3> QED BY <3>1, <3>2, <1>2
    <2> HIDE DEF n, m, k
    <2>4. written[c] + skipped'[c] + Moving(c)' = written[c] + skipped[c] + Moving(c)
      <3>1. CASE d = c
        BY <3>1, <2>1, <2>2, <2>3, <1>1, <1>4
      <3>2. CASE d # c
        BY <3>2, <2>1, <2>2, <2>3, <1>1, <1>4
      <3> QED BY <3>1, <3>2
    <2> QED BY <2>4, <1>1, <1>5, Conserved
  <1> QED BY <1>5, <1>6, <1>7 DEF RecorderInv

LEMMA EndPullStep ==
  ASSUME RecorderInv, NEW d \in Cameras, Recorder!EndPull(d)
  PROVE  RecorderInv'
  <1>1. /\ pull[d] = "wait" /\ phase # "on" /\ pull' = [pull EXCEPT ![d] = "done"]
        /\ phase' = IF single THEN "draining" ELSE phase
        /\ UNCHANGED <<single, channel, newest, first, images, bus, imus, imu, task, writer,
                       written, skipped, samples, bag>>
    BY DEF Recorder!EndPull
  <1>2. pull'[d] = "done" /\ \A c \in Cameras : c # d => pull'[c] = pull[c]
    BY <1>1 DEF RecorderInv, RecorderTyped
  <1>3. RecorderTyped'
    BY <1>1 DEF RecorderInv, RecorderTyped
  <1>4. StopsInOrder'
    <2>1. phase \notin {"draining", "closed"} /\ writer # "done"
      BY <1>1 DEF RecorderInv, StopsInOrder
    <2>2. single => d = 1
      BY <1>1 DEF RecorderInv, StopsInOrder
    <2> QED BY <2>1, <2>2, <1>1, <1>2 DEF RecorderInv, StopsInOrder
  <1>5. ASSUME NEW c \in Cameras PROVE FramesOf(c)'
    <2>1. Moving(c)' = Moving(c)
      BY <1>1, <1>2 DEF Moving
    <2> QED BY <2>1, <1>1, SameFrames
  <1> QED BY <1>3, <1>4, <1>5 DEF RecorderInv

LEMMA WriterTakesStep ==
  ASSUME Recorder!RecorderAssumption, RecorderInv, Recorder!WriterTakes
  PROVE  RecorderInv'
  <1>1. /\ writer = "run" /\ task = None
        /\ UNCHANGED <<single, phase, channel, newest, first, pull, bus, imu, written,
                       skipped, samples, bag>>
    BY DEF Recorder!WriterTakes
  <1>2. None \notin Cameras /\ None # 0
    BY DEF Recorder!RecorderAssumption, Cameras
  <1>3. CASE imus > 0 /\ task' = 0 /\ imus' = imus - 1 /\ UNCHANGED <<images, writer>>
    <2>1. RecorderTyped'
      BY <1>1, <1>3 DEF Recorder!RecorderAssumption, RecorderInv, RecorderTyped
    <2>2. StopsInOrder'
      BY <1>1, <1>3 DEF RecorderInv, StopsInOrder
    <2>3. ASSUME NEW c \in Cameras PROVE FramesOf(c)'
      <3>1. task # c /\ task' # c
        BY <1>1, <1>2, <1>3 DEF Cameras
      <3>2. Moving(c)' = Moving(c)
        BY <3>1, <1>1, <1>3 DEF Moving
      <3> QED BY <3>2, <1>1, SameFrames
    <2> QED BY <2>1, <2>2, <2>3 DEF RecorderInv
  <1>4. CASE images # <<>> /\ task' = Head(images) /\ images' = Tail(images)
             /\ UNCHANGED <<imus, writer>>
    <2>1. /\ images \in Seq(Cameras) /\ Len(images) \in Nat /\ Len(images) <= QueueCap
          /\ QueueCap \in Nat /\ written \in [Cameras -> Nat] /\ skipped \in [Cameras -> Nat]
      BY DEF Recorder!RecorderAssumption, RecorderInv, RecorderTyped
    <2>2. images' \in Seq(Cameras) /\ Len(images') <= QueueCap /\ task' \in Cameras
      BY <1>4, <2>1
    <2>3. RecorderTyped'
      BY <1>1, <1>4, <2>2 DEF RecorderInv, RecorderTyped
    <2>4. StopsInOrder'
      BY <1>1, <1>4 DEF RecorderInv, StopsInOrder
    <2>5. ASSUME NEW c \in Cameras PROVE FramesOf(c)'
      <3> DEFINE n == Cardinality(Spots(images, c))
                 m == Cardinality(Spots(images', c))
                 k == IF pull[c] = "have" THEN 1 ELSE 0
      <3>1. n \in Nat /\ m \in Nat /\ k \in Nat
        BY <2>1, <2>2, SpotsFinite
      <3>2. n = m + (IF task' = c THEN 1 ELSE 0)
        BY <1>4, <2>1, Dequeued
      <3>3. Moving(c) = n + 0 + k
        BY <1>1, <1>2 DEF Moving
      <3>4. Moving(c)' = m + (IF task' = c THEN 1 ELSE 0) + k
        BY <1>1 DEF Moving
      <3> HIDE DEF n, m, k
      <3>5. Moving(c)' = Moving(c)
        BY <3>1, <3>2, <3>3, <3>4
      <3> QED BY <3>5, <1>1, SameFrames
    <2> QED BY <2>3, <2>4, <2>5 DEF RecorderInv
  <1>5. CASE images = <<>> /\ phase = "draining" /\ writer' = "done"
             /\ UNCHANGED <<task, images, imus>>
    <2>1. RecorderTyped'
      BY <1>1, <1>5 DEF RecorderInv, RecorderTyped
    <2>2. StopsInOrder'
      BY <1>1, <1>5 DEF RecorderInv, StopsInOrder
    <2>3. ASSUME NEW c \in Cameras PROVE FramesOf(c)'
      <3>1. Moving(c)' = Moving(c)
        BY <1>1, <1>5 DEF Moving
      <3> QED BY <3>1, <1>1, SameFrames
    <2> QED BY <2>1, <2>2, <2>3 DEF RecorderInv
  <1> QED BY <1>3, <1>4, <1>5 DEF Recorder!WriterTakes

LEMMA WriteStep ==
  ASSUME Recorder!RecorderAssumption, RecorderInv, Recorder!Write
  PROVE  RecorderInv'
  <1>1. /\ task # None /\ task' = None
        /\ written' = [c \in Cameras |-> IF c = task THEN written[c] + 1 ELSE written[c]]
        /\ UNCHANGED <<single, phase, channel, newest, first, pull, images, bus, imus, imu,
                       writer, skipped, samples>>
    BY DEF Recorder!Write, Recorder!Cams, Cameras
  <1>2. None \notin Cameras
    BY DEF Recorder!RecorderAssumption, Cameras
  <1>3. written \in [Cameras -> Nat] /\ skipped \in [Cameras -> Nat] /\ images \in Seq(Cameras)
    BY DEF RecorderInv, RecorderTyped
  <1>4. RecorderTyped'
    <2>1. written' \in [Cameras -> Nat]
      BY <1>1, <1>3
    <2> QED BY <2>1, <1>1 DEF RecorderInv, RecorderTyped
  <1>5. StopsInOrder'
    BY <1>1 DEF RecorderInv, StopsInOrder
  <1>6. ASSUME NEW c \in Cameras PROVE FramesOf(c)'
    <2> DEFINE n == Cardinality(Spots(images, c))
               k == IF pull[c] = "have" THEN 1 ELSE 0
    <2>1. n \in Nat /\ k \in Nat /\ written[c] \in Nat /\ skipped[c] \in Nat
      BY <1>3, SpotsFinite
    <2>2. Moving(c) = n + (IF task = c THEN 1 ELSE 0) + k /\ Moving(c)' = n + 0 + k
      BY <1>1, <1>2 DEF Moving
    <2>3. written'[c] = written[c] + (IF task = c THEN 1 ELSE 0)
      BY <1>1, <2>1
    <2> HIDE DEF n, k
    <2>4. written'[c] + skipped[c] + Moving(c)' = written[c] + skipped[c] + Moving(c)
      BY <2>1, <2>2, <2>3
    <2> QED BY <2>4, <1>1, <1>4, Conserved
  <1> QED BY <1>4, <1>5, <1>6 DEF RecorderInv

LEMMA CloseStep ==
  ASSUME Recorder!RecorderAssumption, RecorderInv, Recorder!Close
  PROVE  RecorderInv'
  <1>1. /\ phase = "draining" /\ writer = "done" /\ phase' = "closed"
        /\ images' = <<>> /\ imus' = 0
        /\ UNCHANGED <<single, channel, newest, first, pull, bus, imu, task, writer, written,
                       skipped, samples>>
    BY DEF Recorder!Close
  <1>2. images = <<>>
    BY <1>1 DEF RecorderInv, StopsInOrder
  <1>3. RecorderTyped'
    BY <1>1, <1>2 DEF Recorder!RecorderAssumption, RecorderInv, RecorderTyped
  <1>4. StopsInOrder'
    BY <1>1 DEF RecorderInv, StopsInOrder
  <1>5. ASSUME NEW c \in Cameras PROVE FramesOf(c)'
    <2>1. Moving(c)' = Moving(c)
      BY <1>1, <1>2 DEF Moving
    <2> QED BY <2>1, <1>1, SameFrames
  <1> QED BY <1>3, <1>4, <1>5 DEF RecorderInv

\* The steps that touch no camera's frames.
RecorderElsewhere ==
  \/ \E c \in Cameras : Recorder!Publish(c)
  \/ Recorder!Sample \/ Recorder!ImuStep \/ Recorder!Stop \/ Recorder!JoinPulls
  \/ UNCHANGED recorderVars

LEMMA ElsewhereStep ==
  ASSUME Recorder!RecorderAssumption, RecorderInv, RecorderElsewhere
  PROVE  RecorderInv'
  <1> USE DEF Recorder!RecorderAssumption, RecorderInv, RecorderTyped
  <1>1. UNCHANGED <<single, newest, first, pull, images, task, writer, written, skipped>>
    BY DEF RecorderElsewhere, Recorder!Publish, Recorder!Sample, Recorder!ImuStep,
           Recorder!TakeSample, Recorder!EndImu, Recorder!Stop, Recorder!JoinPulls,
           recorderVars
  <1>2. channel' \in [Cameras -> Nat] /\ \A c \in Cameras : channel'[c] >= channel[c]
    <2>1. ASSUME NEW d \in Cameras, Recorder!Publish(d)
          PROVE  channel' \in [Cameras -> Nat] /\ \A c \in Cameras : channel'[c] >= channel[c]
      <3>1. channel \in [Cameras -> Nat] /\ channel' = [channel EXCEPT ![d] = @ + 1]
        BY <2>1 DEF Recorder!Publish
      <3>2. \A c \in Cameras : channel'[c] = IF c = d THEN channel[c] + 1 ELSE channel[c]
        BY <3>1
      <3>3. \A c \in Cameras : channel[c] \in Nat /\ channel'[c] \in Nat
        BY <3>1, <3>2
      <3>4. ASSUME NEW c \in Cameras PROVE channel'[c] >= channel[c]
        <4> DEFINE m == channel[c]
                   n == channel'[c]
        <4>1. m \in Nat /\ (n = m + 1 \/ n = m)
          BY <3>2, <3>3
        <4> HIDE DEF m, n
        <4>2. n >= m
          BY <4>1
        <4> QED BY <4>2 DEF m, n
      <3>5. channel' \in [Cameras -> Nat]
        BY <3>1
      <3> QED BY <3>4, <3>5
    <2>2. CASE UNCHANGED channel
      BY <2>2
    <2> QED BY <2>1, <2>2 DEF RecorderElsewhere, Recorder!Sample, Recorder!ImuStep,
           Recorder!TakeSample, Recorder!EndImu, Recorder!Stop, Recorder!JoinPulls,
           recorderVars
  <1>3. bus' \in 0..ImuCap /\ imus' \in 0..ImuCap /\ imu' \in {"run", "done"}
    BY SMTT(30) DEF RecorderElsewhere, Recorder!Publish, Recorder!Sample, Recorder!ImuStep,
           Recorder!TakeSample, Recorder!EndImu, Recorder!Stop, Recorder!JoinPulls,
           recorderVars
  <1>4. \/ phase' = phase
        \/ phase = "on" /\ phase' = "stopping"
        \/ phase = "stopping" /\ phase' = "draining" /\ \A c \in Cameras : pull[c] = "done"
    BY DEF RecorderElsewhere, Recorder!Publish, Recorder!Sample, Recorder!ImuStep,
           Recorder!TakeSample, Recorder!EndImu, Recorder!Stop, Recorder!JoinPulls,
           recorderVars, Recorder!Cams, Cameras
  <1>5. RecorderTyped'
    <2>1. \A c \in Cameras : newest'[c] <= channel'[c]
      BY <1>1, <1>2
    <2> QED BY <2>1, <1>1, <1>2, <1>3, <1>4
  <1>6. StopsInOrder'
    BY <1>1, <1>4 DEF StopsInOrder
  <1>7. ASSUME NEW c \in Cameras PROVE FramesOf(c)'
    <2>1. Moving(c)' = Moving(c)
      BY <1>1 DEF Moving
    <2> QED BY <2>1, <1>1, SameFrames
  <1> QED BY <1>5, <1>6, <1>7

LEMMA RecorderNext ==
  ASSUME Recorder!RecorderAssumption, RecorderInv, [Recorder!Next]_recorderVars
  PROVE  RecorderInv'
  <1>1. ASSUME NEW c \in Cameras, Recorder!PullStep(c) PROVE RecorderInv'
    BY <1>1, TakeStep, EnqueueStep, EndPullStep DEF Recorder!PullStep
  <1>2. CASE Recorder!WriterStep
    BY <1>2, WriterTakesStep, WriteStep DEF Recorder!WriterStep
  <1>3. CASE Recorder!Close
    BY <1>3, CloseStep
  <1>4. CASE RecorderElsewhere
    BY <1>4, ElsewhereStep
  <1> QED BY <1>1, <1>2, <1>3, <1>4
      DEF Recorder!Next, Recorder!StopStep, Recorder!Cams, Cameras, RecorderElsewhere

LEMMA RecorderSafe ==
  ASSUME Recorder!RecorderAssumption, RecorderInv
  PROVE  Recorder!TypeOK /\ Recorder!FramesAccounted
  <1>1. Recorder!TypeOK
    BY DEF RecorderInv, RecorderTyped, Recorder!TypeOK, Recorder!Cams, Cameras,
           Recorder!RecorderAssumption
  <1>2. \A S : Recorder!Cardinality(S) = Cardinality(S)
    BY DEF Recorder!Cardinality, Cardinality, Recorder!IsFiniteSet, IsFiniteSet
  <1>3. ASSUME NEW c \in Cameras
        PROVE  /\ newest[c] # 0 => written[c] + skipped[c] + Moving(c) = newest[c] - first[c] + 1
               /\ phase = "closed" => Moving(c) = 0
    <2>1. FramesOf(c)
      BY DEF RecorderInv
    <2>2. phase = "closed" => images = <<>> /\ task = None /\ pull[c] = "done"
      BY DEF RecorderInv, StopsInOrder
    <2>3. None # c
      BY DEF Recorder!RecorderAssumption, Cameras
    <2>4. phase = "closed" => Moving(c) = 0
      BY <2>2, <2>3, NoSpots DEF Moving
    <2> QED BY <2>1, <2>4 DEF FramesOf
  <1>4. \A c \in Cameras :
          Recorder!Cardinality({i \in 1..Len(images) : images[i] = c})
            + (IF task = c THEN 1 ELSE 0) + (IF pull[c] = "have" THEN 1 ELSE 0) = Moving(c)
    BY <1>2 DEF Moving, Spots
  <1>5. Recorder!FramesAccounted
    BY <1>3, <1>4 DEF Recorder!FramesAccounted, Recorder!Cams, Cameras
  <1> QED BY <1>1, <1>5

-----------------------------------------------------------------------------
(* The bag recorder: the index of the file.                                 *)

Conns == 1..(NumCams + 1)

Record(op, c) == [op |-> op, conn |-> c]
Ops == {"header", "chunk", "conn", "msg", "index", "info"}
Records == [op : Ops, conn : Nat]
Chunks == [pos : Nat, start : Nat, size : Nat, index : [Conns -> Seq(Nat)]]
Bags == [file : Seq(Records), chunks : Seq(Chunks), open : BOOLEAN, indexPos : Nat,
         closed : BOOLEAN]

\* The entries of the index, as chunk, connection and number, and where one leads.
Entries(b) == {e \in (1..Len(b.chunks)) \X Conns \X Nat :
                 e[3] \in 1..Len(b.chunks[e[1]].index[e[2]])}
At(b, e) == b.chunks[e[1]].start + b.chunks[e[1]].index[e[2]][e[3]] + 1

\* An entry leads to a message of its connection, and if its chunk is finished, inside it.
Leads(b, e) ==
  /\ At(b, e) \in 1..Len(b.file) /\ b.file[At(b, e)] = Record("msg", e[2])
  /\ e[3] <= Len(b.file)
  /\ e[1] < Len(b.chunks) \/ ~b.open =>
       At(b, e) - b.chunks[e[1]].start <= b.chunks[e[1]].size

Indexed(b) ==
  /\ \A e \in Entries(b) : Leads(b, e)
  /\ \A d, e \in Entries(b) : At(b, d) = At(b, e) => d = e
  /\ \A p \in 1..Len(b.file) :
       b.file[p].op = "msg" => \E e \in Entries(b) : At(b, e) = p

Writable(b) ==
  /\ b \in Bags /\ Indexed(b)
  /\ \A p \in 1..Len(b.file) : b.file[p].op # "info"
  /\ b.open => b.chunks # <<>> /\ b.chunks[Len(b.chunks)].start <= Len(b.file)

\* Records that are neither messages nor of the region at the end.
Plain(s) == s \in Seq(Records) /\ \A p \in 1..Len(s) : s[p].op \notin {"msg", "info"}

\* g is f with the records of s after it.
Longer(f, s, g) ==
  /\ f \in Seq(Records) /\ g \in Seq(Records) /\ Len(g) = Len(f) + Len(s)
  /\ Len(f) \in Nat /\ Len(s) \in Nat
  /\ \A p \in 1..Len(f) : g[p] = f[p]
  /\ \A p \in 1..Len(g) : p \in 1..Len(f) \/ g[p].op \notin {"msg", "info"}

LEMMA Grown ==
  ASSUME NEW f \in Seq(Records), NEW s, Plain(s)
  PROVE  Longer(f, s, f \o s)
  <1> DEFINE g == f \o s
             m == Len(f)
             k == Len(s)
  <1>2. s \in Seq(Records)
    BY DEF Plain
  <1>4. g \in Seq(Records) /\ m \in Nat /\ k \in Nat /\ Len(g) = m + k
    BY <1>2
  <1>5. /\ \A p \in 1..m : g[p] = f[p]
        /\ \A p \in 1..k : g[m + p] = s[p]
    BY <1>2
  <1> HIDE DEF g
  <1>6. ASSUME NEW p \in 1..Len(g), p \notin 1..m
        PROVE  g[p].op \notin {"msg", "info"}
    <2> HIDE DEF m, k
    <2>1. p - m \in 1..k /\ p = m + (p - m)
      BY <1>4, <1>6
    <2>2. g[p] = s[p - m]
      BY <2>1, <1>5
    <2> QED BY <2>1, <2>2 DEF Plain, k
  <1> HIDE DEF m, k
  <1>7. Longer(f, s, g)
    BY <1>4, <1>5, <1>6 DEF Longer, m, k
  <1> QED BY <1>7 DEF g

\* A file that grows by other records keeps its index.
LEMMA Kept ==
  ASSUME NEW b, Writable(b), NEW c \in Bags, NEW s, Plain(s), c.file = b.file \o s,
         Entries(c) = Entries(b), \A e \in Entries(b) : At(c, e) = At(b, e),
         \A e \in Entries(b) : e[1] < Len(c.chunks) \/ ~c.open =>
             At(b, e) - c.chunks[e[1]].start <= c.chunks[e[1]].size,
         c.open => c.chunks # <<>> /\ c.chunks[Len(c.chunks)].start <= Len(c.file)
  PROVE  Writable(c)
  <1>1. /\ Len(c.file) = Len(b.file) + Len(s)
        /\ Len(b.file) \in Nat /\ Len(s) \in Nat
        /\ \A p \in 1..Len(b.file) : c.file[p] = b.file[p]
        /\ \A p \in 1..Len(c.file) :
             p \in 1..Len(b.file) \/ c.file[p].op \notin {"msg", "info"}
    <2>1. b.file \in Seq(Records)
      BY DEF Writable, Bags
    <2>2. Longer(b.file, s, c.file)
      BY <2>1, Grown
    <2> QED BY <2>2 DEF Longer
  <1> DEFINE m == Len(b.file)
             n == Len(c.file)
  <1>2. m \in Nat /\ n \in Nat /\ m <= n
    BY <1>1
  <1>3. \A e \in Entries(b) : Leads(b, e)
    BY DEF Writable, Indexed
  <1>4. ASSUME NEW e \in Entries(c)
        PROVE  Leads(c, e)
    <2>1. At(b, e) \in 1..m /\ b.file[At(b, e)] = Record("msg", e[2]) /\ e[3] <= m
      BY <1>3 DEF Leads
    <2>2. e[3] \in Nat
      BY DEF Entries
    <2> HIDE DEF m, n
    <2>3. At(b, e) \in 1..n /\ e[3] <= n
      BY <2>1, <2>2, <1>2
    <2> QED BY <2>1, <2>3, <1>1 DEF Leads, m, n
  <1>5. \A d, e \in Entries(c) : At(c, d) = At(c, e) => d = e
    BY DEF Writable, Indexed
  <1>6. ASSUME NEW p \in 1..Len(c.file), c.file[p].op = "msg"
        PROVE  \E e \in Entries(c) : At(c, e) = p
    <2>1. p \in 1..Len(b.file) /\ b.file[p].op = "msg"
      BY <1>1, <1>6
    <2> QED BY <2>1 DEF Writable, Indexed
  <1>7. \A p \in 1..Len(c.file) : c.file[p].op # "info"
    BY <1>1 DEF Writable
  <1> QED BY <1>4, <1>5, <1>6, <1>7 DEF Writable, Indexed

\* The positions of connection d's messages.
Messages(b, d) == {p \in 1..Len(b.file) : b.file[p] = Record("msg", d)}

LEMMA SameMessages ==
  ASSUME NEW b \in Bags, NEW c, NEW s, Plain(s), c.file = b.file \o s, NEW d
  PROVE  Messages(c, d) = Messages(b, d)
  <1>1. Longer(b.file, s, c.file)
    BY Grown DEF Bags
  <1> DEFINE f == b.file
             g == c.file
             m == Len(f)
             n == Len(g)
  <1> HIDE DEF f, g
  <1>2. /\ m \in Nat /\ n \in Nat /\ m <= n
        /\ \A p \in 1..m : g[p] = f[p]
        /\ \A p \in 1..n : p \in 1..m \/ g[p].op # "msg"
    BY <1>1 DEF Longer, f, g
  <1> HIDE DEF m, n
  <1>3. 1..m \subseteq 1..n
    BY <1>2
  <1>4. \A p : p \in 1..n /\ g[p] = Record("msg", d) <=> p \in 1..m /\ f[p] = Record("msg", d)
    BY <1>2, <1>3 DEF Record
  <1> QED BY <1>4 DEF Messages, f, g, m, n

LEMMA RowOfRecords ==
  ASSUME NEW n \in Nat, NEW op \in Ops, op \notin {"msg", "info"}
  PROVE  Plain([c \in 1..n |-> Record(op, c)]) /\ Len([c \in 1..n |-> Record(op, c)]) = n
  <1> DEFINE s == [c \in 1..n |-> Record(op, c)]
  <1>1. \A c \in 1..n : Record(op, c) \in Records
    BY DEF Record, Records
  <1>2. s \in Seq(Records) /\ Len(s) = n
    <2>1. s \in [1..n -> Records]
      BY <1>1
    <2>2. s \in Seq(Records)
      BY <2>1, SeqDef
    <2> QED BY <2>1, <2>2, LenProperties
  <1>3. \A p \in 1..n : s[p].op = op
    BY DEF Record
  <1> QED BY <1>2, <1>3 DEF Plain

LEMMA OneRecord ==
  ASSUME NEW op \in Ops, op \notin {"msg", "info"}, NEW k \in Nat
  PROVE  Plain(<<Record(op, k)>>) /\ Len(<<Record(op, k)>>) = 1
  BY DEF Plain, Record, Records

LEMMA PlainTogether ==
  ASSUME NEW s, NEW t, Plain(s), Plain(t)
  PROVE  Plain(s \o t) /\ Len(s \o t) = Len(s) + Len(t) /\ Len(s) \in Nat /\ Len(t) \in Nat
  <1>1. s \in Seq(Records) /\ t \in Seq(Records)
    BY DEF Plain
  <1>2. Longer(s, t, s \o t)
    BY <1>1, Grown
  <1> QED BY <1>2 DEF Longer, Plain

ConnRecords == [c \in Conns |-> Record("conn", c)]
EmptyChunk(p) == [pos |-> p, start |-> p + 1, size |-> 0, index |-> [c \in Conns |-> <<>>]]

LEMMA Counts == NumCams \in Nat /\ NumCams + 1 \in Nat /\ QueueCap \in Nat
  BY Assumptions DEF Recorder!RecorderAssumption

\* begin_chunk(): a finished bag has a new chunk with no entries.
LEMMA ChunkBegins ==
  ASSUME NEW b, Writable(b), ~b.open, NEW c, c = Recorder!Bag!BeginChunk(b)
  PROVE  Writable(c) /\ c.open /\ \A d : Messages(c, d) = Messages(b, d)
  <1> DEFINE s == <<Record("chunk", 0)>> \o ConnRecords
             p == Len(b.file)
             k == Len(b.chunks)
  <1>1. b \in Bags /\ b.file \in Seq(Records) /\ b.chunks \in Seq(Chunks)
    BY DEF Writable, Bags
  <1>2. p \in Nat /\ k \in Nat
    BY <1>1
  <1>3. Plain(<<Record("chunk", 0)>>) /\ Plain(ConnRecords) /\ Len(ConnRecords) \in Nat
    <2>1. Plain(<<Record("chunk", 0)>>)
      <3>1. "chunk" \in Ops /\ "chunk" \notin {"msg", "info"} /\ 0 \in Nat
        BY DEF Ops
      <3> QED BY <3>1, OneRecord, Zenon
    <2>2. Plain(ConnRecords) /\ Len(ConnRecords) = NumCams + 1
      <3>1. "conn" \in Ops /\ "conn" \notin {"msg", "info"} /\ NumCams + 1 \in Nat
        BY Counts DEF Ops
      <3> QED BY <3>1, RowOfRecords, Zenon DEF ConnRecords, Conns
    <2> QED BY <2>1, <2>2, Counts
  <1>4. Plain(s) /\ Len(s) = 1 + Len(ConnRecords)
    BY <1>3, OneRecord, PlainTogether
  <1>5. c = [b EXCEPT !.file = (b.file \o <<Record("chunk", 0)>>) \o ConnRecords,
                      !.chunks = Append(b.chunks, EmptyChunk(p)),
                      !.open = TRUE]
    BY DEF Recorder!Bag!BeginChunk, Recorder!Bag!Record, Recorder!Bag!ConnRecords, Record,
           ConnRecords, Conns, EmptyChunk
  <1>6. (b.file \o <<Record("chunk", 0)>>) \o ConnRecords = b.file \o s
    <2>1. <<Record("chunk", 0)>> \in Seq(Records) /\ ConnRecords \in Seq(Records)
      BY <1>3 DEF Plain
    <2> DEFINE x == <<Record("chunk", 0)>>
               f == b.file
    <2>2. f \in Seq(Records) /\ x \in Seq(Records) /\ ConnRecords \in Seq(Records)
      BY <1>1, <2>1
    <2> HIDE DEF x, f
    <2>3. (f \o x) \o ConnRecords = f \o (x \o ConnRecords)
      BY <2>2, ConcatAssociative
    <2> QED BY <2>3 DEF x, f
  <1>7. /\ c.file = b.file \o s /\ c.chunks = Append(b.chunks, EmptyChunk(p)) /\ c.open
        /\ c.indexPos = b.indexPos /\ c.closed = b.closed
    BY <1>1, <1>5, <1>6 DEF Bags
  <1>8. EmptyChunk(p) \in Chunks
    BY <1>2 DEF EmptyChunk, Chunks
  <1>9. Longer(b.file, s, c.file)
    BY <1>1, <1>4, <1>7, Grown
  <1>10. c \in Bags
    <2>1. c.file \in Seq(Records) /\ c.chunks \in Seq(Chunks)
      BY <1>1, <1>7, <1>8, <1>9 DEF Longer
    <2>2. c = [file |-> c.file, chunks |-> c.chunks, open |-> c.open,
               indexPos |-> c.indexPos, closed |-> c.closed]
      BY <1>1, <1>5 DEF Bags
    <2> QED BY <1>1, <2>1, <2>2, <1>7 DEF Bags
  <1>11. /\ Len(c.chunks) = k + 1 /\ c.chunks[k + 1] = EmptyChunk(p)
         /\ \A i \in 1..k : c.chunks[i] = b.chunks[i]
    BY <1>1, <1>7
  <1>12. Entries(c) = Entries(b) /\ \A e \in Entries(b) : At(c, e) = At(b, e) /\ e[1] \in 1..k
    <2> HIDE DEF k
    <2>1. \A e \in Entries(b) : e[1] \in 1..k /\ e[2] \in Conns /\ e[3] \in Nat
      BY DEF Entries, k
    <2>2. \A e \in Entries(b) : At(c, e) = At(b, e)
      BY <2>1, <1>11 DEF At
    <2>3. Entries(b) \subseteq Entries(c)
      BY <2>1, <1>2, <1>11 DEF Entries, k
    <2>4. ASSUME NEW e \in Entries(c) PROVE e \in Entries(b)
      <3>1. /\ e \in (1..(k + 1)) \X Conns \X Nat
            /\ e[3] \in 1..Len(c.chunks[e[1]].index[e[2]])
        BY <1>11 DEF Entries
      <3>2. e[1] # k + 1
        <4> SUFFICES ASSUME e[1] = k + 1 PROVE FALSE
          OBVIOUS
        <4>1. c.chunks[e[1]].index[e[2]] = <<>>
          BY <3>1, <1>11 DEF EmptyChunk
        <4> QED BY <4>1, <3>1
      <3>3. e[1] \in 1..k
        BY <3>1, <3>2, <1>2
      <3>4. e \in (1..k) \X Conns \X Nat
        BY <3>1, <3>3
      <3> QED BY <3>1, <3>3, <3>4, <1>11 DEF Entries, k
    <2> QED BY <2>1, <2>2, <2>3, <2>4
  <1>13. \A e \in Entries(b) : At(b, e) - c.chunks[e[1]].start <= c.chunks[e[1]].size
    BY <1>11, <1>12 DEF Writable, Indexed, Leads
  <1>14. c.chunks # <<>> /\ c.chunks[Len(c.chunks)].start <= Len(c.file)
    <2>1. c.chunks[Len(c.chunks)].start = p + 1 /\ Len(c.file) = p + (1 + Len(ConnRecords))
      BY <1>4, <1>9, <1>11 DEF EmptyChunk, Longer
    <2>2. c.chunks # <<>>
      BY <1>2, <1>11
    <2> QED BY <2>1, <2>2, <1>2, <1>3
  <1>15. Writable(c)
    BY <1>4, <1>7, <1>10, <1>12, <1>13, <1>14, Kept
  <1> QED BY <1>1, <1>4, <1>7, <1>15, SameMessages

IndexRecords == [c \in Conns |-> Record("index", c)]

\* end_chunk(): every entry of the chunk lies within the size that is patched in.
LEMMA ChunkEnds ==
  ASSUME NEW b, Writable(b), NEW c, c = Recorder!Bag!EndChunk(b)
  PROVE  Writable(c) /\ ~c.open /\ \A d : Messages(c, d) = Messages(b, d)
  <1>1. CASE ~b.open
    <2>1. c = b
      BY <1>1 DEF Recorder!Bag!EndChunk
    <2> QED BY <1>1, <2>1
  <1>2. CASE b.open
    <2> DEFINE p == Len(b.file)
               k == Len(b.chunks)
               w == b.chunks[k].start
    <2>1. b \in Bags /\ b.file \in Seq(Records) /\ b.chunks \in Seq(Chunks)
      BY DEF Writable, Bags
    <2>2. p \in Nat /\ k \in Nat /\ b.chunks # <<>> /\ w <= p
      BY <1>2, <2>1 DEF Writable
    <2>3. k \in 1..k /\ b.chunks[k] \in Chunks
      <3>1. k # 0
        BY <2>1, <2>2
      <3> QED BY <3>1, <2>1, <2>2
    <2>4. w \in Nat /\ p - w \in Nat
      <3>1. w \in Nat
        BY <2>3 DEF Chunks
      <3> HIDE DEF w, p
      <3> QED BY <3>1, <2>2
    <2>5. Plain(IndexRecords) /\ Len(IndexRecords) \in Nat
      <3>1. "index" \in Ops /\ "index" \notin {"msg", "info"} /\ NumCams + 1 \in Nat
        BY Counts DEF Ops
      <3>2. Plain(IndexRecords) /\ Len(IndexRecords) = NumCams + 1
        BY <3>1, RowOfRecords, Zenon DEF IndexRecords, Conns
      <3> QED BY <3>1, <3>2
    <2>6. c = [b EXCEPT !.chunks = [b.chunks EXCEPT ![k].size = p - w],
                        !.file = b.file \o IndexRecords,
                        !.open = FALSE]
      BY <1>2, <2>1 DEF Recorder!Bag!EndChunk, Recorder!Bag!Record, Record, IndexRecords,
           Conns, Bags
    <2>7. /\ c.file = b.file \o IndexRecords
          /\ c.chunks = [b.chunks EXCEPT ![k].size = p - w] /\ ~c.open
          /\ c.indexPos = b.indexPos /\ c.closed = b.closed
      BY <2>1, <2>6 DEF Bags
    <2>8. /\ c.chunks \in Seq(Chunks) /\ Len(c.chunks) = k
          /\ c.chunks[k] = [b.chunks[k] EXCEPT !.size = p - w]
          /\ \A i \in 1..k : i # k => c.chunks[i] = b.chunks[i]
      <3> DEFINE new == [b.chunks[k] EXCEPT !.size = p - w]
      <3>1. new \in Chunks
        BY <2>3, <2>4 DEF Chunks
      <3>2. c.chunks = [b.chunks EXCEPT ![k] = new]
        BY <2>7
      <3> HIDE DEF new, p, w
      <3> QED BY <2>1, <2>3, <3>1, <3>2, ExceptSeq DEF new
    <2>9. /\ c.chunks[k].size = p - w
          /\ \A i \in 1..k : /\ c.chunks[i].start = b.chunks[i].start
                             /\ c.chunks[i].index = b.chunks[i].index
                             /\ i # k => c.chunks[i].size = b.chunks[i].size
      <3>1. /\ c.chunks[k].size = p - w /\ c.chunks[k].start = b.chunks[k].start
            /\ c.chunks[k].index = b.chunks[k].index
        BY <2>3, <2>8 DEF Chunks
      <3> HIDE DEF k, p, w
      <3> QED BY <3>1, <2>8
    <2>10. Longer(b.file, IndexRecords, c.file)
      BY <2>1, <2>5, <2>7, Grown
    <2>11. c \in Bags
      <3>1. c.file \in Seq(Records)
        BY <2>10 DEF Longer
      <3>2. c = [file |-> c.file, chunks |-> c.chunks, open |-> c.open,
                 indexPos |-> c.indexPos, closed |-> c.closed]
        BY <2>1, <2>6 DEF Bags
      <3>3. c.open \in BOOLEAN
        BY <2>1, <2>6 DEF Bags
      <3> QED BY <2>1, <2>7, <2>8, <3>1, <3>2, <3>3 DEF Bags
    <2>12. /\ Entries(c) = Entries(b)
           /\ \A e \in Entries(b) : At(c, e) = At(b, e) /\ e[1] \in 1..k
      <3> HIDE DEF p, w
      <3>1. \A e \in Entries(b) : e[1] \in 1..k
        BY DEF Entries
      <3>2. \A e \in Entries(b) : At(c, e) = At(b, e)
        BY <3>1, <2>9 DEF At
      <3>3. \A e \in (1..k) \X Conns \X Nat :
              c.chunks[e[1]].index[e[2]] = b.chunks[e[1]].index[e[2]]
        BY <2>9
      <3>4. Entries(c) = Entries(b)
        BY <3>3, <2>8 DEF Entries
      <3> QED BY <3>1, <3>2, <3>4
    <2>13. ASSUME NEW e \in Entries(b)
           PROVE  At(b, e) - c.chunks[e[1]].start <= c.chunks[e[1]].size
      <3>1. Leads(b, e) /\ e[1] \in 1..k
        BY <2>12 DEF Writable, Indexed
      <3>2. CASE e[1] = k
        <4>1. At(b, e) \in 1..p
          BY <3>1 DEF Leads
        <4>2. c.chunks[e[1]].start = w /\ c.chunks[e[1]].size = p - w
          BY <2>3, <2>9, <3>2
        <4> DEFINE a == At(b, e)
        <4> HIDE DEF a, p, w
        <4>3. a - w <= p - w
          BY <4>1, <2>2, <2>4 DEF a
        <4> QED BY <4>2, <4>3 DEF a
      <3>3. CASE e[1] # k
        <4>1. e[1] < k
          BY <3>1, <3>3, <2>2
        <4>2. At(b, e) - b.chunks[e[1]].start <= b.chunks[e[1]].size
          BY <4>1, <3>1 DEF Leads
        <4> QED BY <4>2, <3>1, <3>3, <2>9
      <3> QED BY <3>2, <3>3
    <2>14. Writable(c)
      BY <2>5, <2>7, <2>11, <2>12, <2>13, Kept
    <2> QED BY <2>1, <2>5, <2>7, <2>14, SameMessages
  <1> QED BY <1>1, <1>2

\* prepare_message(): a chunk with room is open.
LEMMA MessagePrepared ==
  ASSUME NEW b, Writable(b), NEW c, c = Recorder!Bag!Prepared(b)
  PROVE  Writable(c) /\ c.open /\ \A d : Messages(c, d) = Messages(b, d)
  <1> DEFINE g == IF b.open THEN b ELSE Recorder!Bag!BeginChunk(b)
             e == Recorder!Bag!EndChunk(g)
  <1>1. Writable(g) /\ g.open /\ \A d : Messages(g, d) = Messages(b, d)
    BY ChunkBegins
  <1> HIDE DEF g
  <1>2. Writable(e) /\ ~e.open /\ \A d : Messages(e, d) = Messages(g, d)
    BY <1>1, ChunkEnds
  <1>3. c = g \/ c = Recorder!Bag!BeginChunk(e)
    BY DEF Recorder!Bag!Prepared, g
  <1> HIDE DEF e
  <1> QED BY <1>1, <1>2, <1>3, ChunkBegins

LEMMA MessagesFinite ==
  ASSUME NEW b \in Bags, NEW d
  PROVE  IsFiniteSet(Messages(b, d)) /\ Cardinality(Messages(b, d)) \in Nat
  <1>1. Messages(b, d) \in SUBSET (1..Len(b.file)) /\ Len(b.file) \in Nat
    BY DEF Messages, Bags
  <1>2. IsFiniteSet(1..Len(b.file))
    BY <1>1, FS_Interval
  <1> QED BY <1>1, <1>2, FS_Subset, FS_CardinalityType

\* add_mono8_image(), add_imu_sample(): the new message has the new entry.
LEMMA MessageAdded ==
  ASSUME NEW a, Writable(a), NEW n \in Conns, NEW c, c = Recorder!Bag!Added(a, n)
  PROVE  /\ Writable(c)
         /\ \A d : Cardinality(Messages(c, d))
                     = Cardinality(Messages(a, d)) + (IF d = n THEN 1 ELSE 0)
  <1> DEFINE b == Recorder!Bag!Prepared(a)
             p == Len(b.file)
             k == Len(b.chunks)
             w == b.chunks[k].start
             q == b.chunks[k].index[n]
  <1>1. Writable(b) /\ b.open /\ \A d : Messages(b, d) = Messages(a, d)
    BY MessagePrepared
  <1>2. c = [b EXCEPT !.file = Append(b.file, Record("msg", n)),
                      !.chunks = [b.chunks EXCEPT ![k].index[n] = Append(q, p - w)]]
    BY DEF Recorder!Bag!Added, Recorder!Bag!Record, Record, Recorder!Bag!Last
  <1> HIDE DEF b
  <1>3. b \in Bags /\ b.file \in Seq(Records) /\ b.chunks \in Seq(Chunks)
    BY <1>1 DEF Writable, Bags
  <1>4. p \in Nat /\ k \in Nat /\ b.chunks # <<>> /\ w <= p
    BY <1>1, <1>3 DEF Writable
  <1>5. k \in 1..k /\ b.chunks[k] \in Chunks
    <2>1. k # 0
      BY <1>3, <1>4
    <2> QED BY <2>1, <1>3, <1>4
  <1>6. w \in Nat /\ p - w \in Nat /\ q \in Seq(Nat) /\ b.chunks[k].index \in [Conns -> Seq(Nat)]
    <2>1. w \in Nat /\ b.chunks[k].index \in [Conns -> Seq(Nat)]
      BY <1>5 DEF Chunks
    <2> HIDE DEF w, p
    <2> QED BY <2>1, <1>4
  <1>7. /\ c.file = Append(b.file, Record("msg", n))
        /\ c.chunks = [b.chunks EXCEPT ![k].index[n] = Append(q, p - w)]
        /\ c.open = b.open /\ c.indexPos = b.indexPos /\ c.closed = b.closed
    BY <1>2, <1>3 DEF Bags
  <1>8. Record("msg", n) \in Records /\ n \in Nat
    BY Counts DEF Record, Records, Ops, Conns
  <1>9. /\ c.file \in Seq(Records) /\ Len(c.file) = p + 1
        /\ c.file[p + 1] = Record("msg", n)
        /\ \A i \in 1..p : c.file[i] = b.file[i]
    BY <1>3, <1>7, <1>8
  <1> DEFINE new == [b.chunks[k] EXCEPT !.index[n] = Append(q, p - w)]
  <1>10. new \in Chunks /\ new.start = w /\ new.size = b.chunks[k].size
         /\ new.index = [b.chunks[k].index EXCEPT ![n] = Append(q, p - w)]
    <2>1. Append(q, p - w) \in Seq(Nat)
      BY <1>6
    <2> HIDE DEF q, p, w
    <2>2. [b.chunks[k].index EXCEPT ![n] = Append(q, p - w)] \in [Conns -> Seq(Nat)]
      BY <2>1, <1>6
    <2> QED BY <2>2, <1>5 DEF Chunks, w
  <1>11. /\ c.chunks \in Seq(Chunks) /\ Len(c.chunks) = k /\ c.chunks[k] = new
         /\ \A i \in 1..k : i # k => c.chunks[i] = b.chunks[i]
    <2>1. c.chunks = [b.chunks EXCEPT ![k] = new]
      BY <1>7
    <2> HIDE DEF new
    <2> QED BY <1>3, <1>5, <1>10, <2>1, ExceptSeq
  <1> HIDE DEF new
  <1>12. c \in Bags
    <2>1. c = [file |-> c.file, chunks |-> c.chunks, open |-> c.open,
               indexPos |-> c.indexPos, closed |-> c.closed]
      BY <1>2, <1>3 DEF Bags
    <2> QED BY <1>3, <1>7, <1>9, <1>11, <2>1 DEF Bags
  <1> DEFINE m == Len(q)
             z == <<k, n, m + 1>>
  <1>13. m \in Nat /\ Len(Append(q, p - w)) = m + 1 /\ Append(q, p - w)[m + 1] = p - w
         /\ \A i \in 1..m : Append(q, p - w)[i] = q[i]
    <2> DEFINE v == p - w
    <2>1. q \in Seq(Nat) /\ v \in Nat
      BY <1>6
    <2> HIDE DEF q, v
    <2>2. m \in Nat /\ Len(Append(q, v)) = m + 1 /\ Append(q, v)[m + 1] = v
          /\ \A i \in 1..m : Append(q, v)[i] = q[i]
      BY <2>1
    <2> QED BY <2>2 DEF v
  <1>14. /\ c.chunks[k].index[n] = Append(q, p - w)
         /\ \A d \in Conns : d # n => c.chunks[k].index[d] = b.chunks[k].index[d]
         /\ \A i \in 1..k : c.chunks[i].start = b.chunks[i].start
                            /\ c.chunks[i].size = b.chunks[i].size
    <2> DEFINE r == Append(q, p - w)
    <2> HIDE DEF q, p, r
    <2> QED BY <1>6, <1>10, <1>11
  <1>15. z \in Entries(c) /\ At(c, z) = p + 1
    <2>1. z \in (1..Len(c.chunks)) \X Conns \X Nat
      <3>1. k \in 1..Len(c.chunks) /\ m + 1 \in Nat
        BY <1>5, <1>11, <1>13
      <3> HIDE DEF k, m
      <3> QED BY <3>1
    <2>2. z[1] = k /\ z[2] = n /\ z[3] = m + 1
      OBVIOUS
    <2>3. z \in Entries(c)
      <3>1. Len(c.chunks[z[1]].index[z[2]]) = m + 1 /\ m + 1 \in Nat
        <4> DEFINE r == Append(q, p - w)
        <4>1. c.chunks[k].index[n] = r /\ Len(r) = m + 1 /\ m \in Nat
          BY <1>13, <1>14
        <4> HIDE DEF z, r, k, m
        <4> QED BY <2>2, <4>1
      <3> HIDE DEF m, z
      <3>2. z[3] \in 1..Len(c.chunks[z[1]].index[z[2]])
        BY <2>2, <3>1, <1>13
      <3> QED BY <2>1, <3>2 DEF Entries
    <2>4. At(c, z) = w + (p - w) + 1
      BY <2>2, <1>5, <1>13, <1>14 DEF At
    <2> HIDE DEF w, p, z
    <2> QED BY <2>3, <2>4, <1>4, <1>6
  <1>16. ASSUME NEW e \in Entries(b)
         PROVE  e \in Entries(c) /\ At(c, e) = At(b, e) /\ e # z /\ e[1] \in 1..k
    <2>1. e[1] \in 1..k /\ e[2] \in Conns /\ e[3] \in 1..Len(b.chunks[e[1]].index[e[2]])
          /\ e \in (1..k) \X Conns \X Nat
      BY DEF Entries
    <2>2. CASE e[1] = k /\ e[2] = n
      <3>1. e[3] \in 1..m /\ e # z
        <4>1. e[3] \in 1..m
          BY <2>1, <2>2
        <4>2. z[3] = m + 1
          OBVIOUS
        <4> HIDE DEF m, z
        <4>3. e[3] # m + 1
          BY <4>1, <1>13
        <4> QED BY <4>1, <4>2, <4>3
      <3>2. c.chunks[e[1]].index[e[2]] = Append(q, p - w)
        BY <2>2, <1>14
      <3>3. b.chunks[e[1]].index[e[2]] = q
        BY <2>2
      <3>4. e[3] \in 1..(m + 1)
        <4> HIDE DEF m
        <4> QED BY <3>1, <1>13
      <3>5. c.chunks[e[1]].index[e[2]][e[3]] = b.chunks[e[1]].index[e[2]][e[3]]
        BY <3>1, <3>2, <3>3, <1>13
      <3>6. e \in Entries(c)
        BY <2>1, <3>2, <3>4, <1>11, <1>13 DEF Entries
      <3> QED BY <2>1, <3>1, <3>5, <3>6, <1>14 DEF At
    <2>3. CASE ~(e[1] = k /\ e[2] = n)
      <3>1. c.chunks[e[1]].index[e[2]] = b.chunks[e[1]].index[e[2]]
        BY <2>1, <2>3, <1>11, <1>14
      <3>2. e # z
        BY <2>3
      <3> HIDE DEF k, z
      <3> QED BY <2>1, <3>1, <3>2, <1>11, <1>14 DEF At, Entries
    <2> QED BY <2>2, <2>3
  <1>17. ASSUME NEW e \in Entries(c), e # z
         PROVE  e \in Entries(b)
    <2>1. e[1] \in 1..k /\ e[2] \in Conns /\ e[3] \in 1..Len(c.chunks[e[1]].index[e[2]])
          /\ e \in (1..k) \X Conns \X Nat
      BY <1>11 DEF Entries
    <2>2. CASE e[1] = k /\ e[2] = n
      <3>1. e[3] \in 1..(m + 1) /\ e[3] # m + 1
        <4>1. e[3] \in 1..(m + 1)
          BY <2>1, <2>2, <1>13, <1>14
        <4>2. e = <<e[1], e[2], e[3]>>
          BY <2>1
        <4> HIDE DEF m, k
        <4>3. e[3] = m + 1 => e = z
          BY <2>2, <4>2
        <4> QED BY <4>1, <4>3, <1>17
      <3>2. e[3] \in 1..m
        <4> HIDE DEF m
        <4> QED BY <3>1, <1>13
      <3> QED BY <2>1, <2>2, <3>2 DEF Entries
    <2>3. CASE ~(e[1] = k /\ e[2] = n)
      <3>1. c.chunks[e[1]].index[e[2]] = b.chunks[e[1]].index[e[2]]
        BY <2>1, <2>3, <1>11, <1>14
      <3> QED BY <2>1, <3>1 DEF Entries
    <2> QED BY <2>2, <2>3
  <1> DEFINE s == Entries(b)
  <1>18. \A e \in s : Leads(b, e) /\ At(b, e) \in 1..p
    BY <1>1 DEF Writable, Indexed, Leads
  <1>19. m + 1 <= p + 1
    <2>1. CASE m = 0
      <3> HIDE DEF p, m
      <3> QED BY <2>1, <1>4
    <2>2. CASE m # 0
      <3>1. <<k, n, m>> \in Entries(b)
        <4> DEFINE y == <<k, n, m>>
        <4>1. y \in (1..k) \X Conns \X Nat /\ y[1] = k /\ y[2] = n /\ y[3] = m
          BY <1>5, <1>13
        <4>2. m \in 1..m
          <5> HIDE DEF m
          <5> QED BY <2>2, <1>13
        <4> HIDE DEF y
        <4>3. y[3] \in 1..Len(b.chunks[y[1]].index[y[2]])
          BY <4>1, <4>2
        <4>4. y \in Entries(b)
          BY <4>1, <4>3 DEF Entries
        <4> QED BY <4>4 DEF y
      <3>2. m <= p
        BY <3>1, <1>18 DEF Leads
      <3> HIDE DEF m, p
      <3> QED BY <3>2, <1>4, <1>13
    <2> QED BY <2>1, <2>2
  <1>20. ASSUME NEW e \in Entries(c)
         PROVE  Leads(c, e)
    <2>1. CASE e = z
      <3>1. /\ e[2] = n /\ e[3] = m + 1 /\ e[1] = k /\ At(c, e) = p + 1
            /\ Len(c.chunks) = k /\ Len(c.file) = p + 1 /\ c.open
        BY <2>1, <1>1, <1>7, <1>9, <1>11, <1>15
      <3> HIDE DEF p, k, m, z
      <3>2. p + 1 \in 1..(p + 1) /\ ~(k < k)
        BY <1>4
      <3> QED BY <3>1, <3>2, <1>9, <1>19 DEF Leads
    <2>2. CASE e # z
      <3>1. /\ e \in Entries(b) /\ At(c, e) = At(b, e) /\ Leads(b, e) /\ e[1] \in 1..k
        BY <2>2, <1>16, <1>17, <1>18
      <3>2. e[3] \in Nat /\ At(b, e) \in 1..p /\ e[3] <= p
        BY <3>1, <1>18 DEF Leads, Entries
      <3>3. At(c, e) \in 1..(p + 1) /\ e[3] <= p + 1
        <4> HIDE DEF p, s
        <4> QED BY <3>1, <3>2, <1>4
      <3>4. c.file[At(c, e)] = Record("msg", e[2])
        BY <3>1, <3>2, <1>9 DEF Leads
      <3>5. e[1] < Len(c.chunks) \/ ~c.open =>
              At(c, e) - c.chunks[e[1]].start <= c.chunks[e[1]].size
        BY <3>1, <1>7, <1>11, <1>14 DEF Leads
      <3> QED BY <3>3, <3>4, <3>5, <1>9 DEF Leads
    <2> QED BY <2>1, <2>2
  <1>21. ASSUME NEW d \in Entries(c), NEW e \in Entries(c), At(c, d) = At(c, e)
         PROVE  d = e
    <2>1. \A x \in Entries(c) : x # z => x \in Entries(b) /\ At(c, x) = At(b, x)
                                          /\ At(c, x) # p + 1
      <3> SUFFICES ASSUME NEW x \in Entries(c), x # z
                   PROVE  x \in Entries(b) /\ At(c, x) = At(b, x) /\ At(c, x) # p + 1
        OBVIOUS
      <3>1. x \in Entries(b) /\ At(c, x) = At(b, x) /\ At(b, x) \in 1..p
        BY <1>16, <1>17, <1>18
      <3> HIDE DEF p, z, s
      <3> QED BY <3>1, <1>4
    <2> HIDE DEF z, p
    <2> QED BY <2>1, <1>1, <1>15, <1>21 DEF Writable, Indexed
  <1>22. ASSUME NEW i \in 1..Len(c.file), c.file[i].op = "msg"
         PROVE  \E e \in Entries(c) : At(c, e) = i
    <2>1. CASE i = p + 1
      BY <2>1, <1>15
    <2>2. CASE i # p + 1
      <3>1. i \in 1..p
        BY <2>2, <1>4, <1>9
      <3>2. b.file[i].op = "msg"
        BY <3>1, <1>9, <1>22
      <3>3. PICK e \in Entries(b) : At(b, e) = i
        BY <3>1, <3>2, <1>1 DEF Writable, Indexed
      <3> QED BY <3>3, <1>16
    <2> QED BY <2>1, <2>2
  <1>23. \A i \in 1..Len(c.file) : c.file[i].op # "info"
    <2> SUFFICES ASSUME NEW i \in 1..Len(c.file) PROVE c.file[i].op # "info"
      OBVIOUS
    <2>1. CASE i = p + 1
      BY <2>1, <1>9 DEF Record
    <2>2. CASE i # p + 1
      <3>1. i \in 1..p
        BY <2>2, <1>4, <1>9
      <3> QED BY <3>1, <1>1, <1>9 DEF Writable
    <2> QED BY <2>1, <2>2
  <1>24. c.chunks # <<>> /\ c.chunks[Len(c.chunks)].start <= Len(c.file)
    <2>1. c.chunks # <<>>
      BY <1>5, <1>11
    <2>2. c.chunks[Len(c.chunks)].start = w /\ Len(c.file) = p + 1
      BY <1>5, <1>9, <1>11, <1>14
    <2> HIDE DEF w, p
    <2> QED BY <2>1, <2>2, <1>4, <1>6
  <1>25. Writable(c)
    <2>1. Indexed(c)
      BY <1>20, <1>21, <1>22 DEF Indexed
    <2> QED BY <2>1, <1>12, <1>23, <1>24 DEF Writable
  <1>26. ASSUME NEW d
         PROVE  Cardinality(Messages(c, d)) = Cardinality(Messages(b, d)) + (IF d = n THEN 1 ELSE 0)
    <2>1. Messages(c, d) = IF d = n THEN Messages(b, d) \cup {p + 1} ELSE Messages(b, d)
      <3>1. \A i : i \in 1..Len(c.file) <=> i \in 1..p \/ i = p + 1
        BY <1>4, <1>9
      <3>2. Record("msg", n) = Record("msg", d) <=> d = n
        BY DEF Record
      <3>3. p + 1 \notin 1..p
        BY <1>4
      <3> HIDE DEF p
      <3>4. \A i : i \in Messages(c, d) <=> i \in Messages(b, d) \/ (i = p + 1 /\ d = n)
        BY <3>1, <3>2, <3>3, <1>9 DEF Messages, p
      <3> QED BY <3>4
    <2>2. p + 1 \notin Messages(b, d)
      BY <1>4 DEF Messages
    <2>3. IsFiniteSet(Messages(b, d)) /\ Cardinality(Messages(b, d)) \in Nat
      BY <1>3, MessagesFinite
    <2>4. Cardinality(Messages(b, d) \cup {p + 1}) = Cardinality(Messages(b, d)) + 1
      BY <2>2, <2>3, FS_AddElement
    <2> QED BY <2>1, <2>3, <2>4
  <1> QED BY <1>1, <1>25, <1>26

\* open(): a header and the first chunk.
LEMMA BagOpens ==
  /\ Writable(Recorder!Bag!Opened)
  /\ \A d : Cardinality(Messages(Recorder!Bag!Opened, d)) = 0
  <1> DEFINE b == [file |-> <<Record("header", 0)>>, chunks |-> <<>>, open |-> FALSE,
                   indexPos |-> 0, closed |-> FALSE]
  <1>1. b \in Bags /\ Len(b.file) = 1 /\ b.file[1] = Record("header", 0) /\ Len(b.chunks) = 0
    BY DEF Bags, Record, Records, Ops
  <1>2. ~b.open /\ Recorder!Bag!Opened = Recorder!Bag!BeginChunk(b)
    BY DEF Recorder!Bag!Opened, Recorder!Bag!Record, Record
  <1> HIDE DEF b
  <1>3. Entries(b) = {}
    BY <1>1 DEF Entries
  <1>4. \A p \in 1..Len(b.file) : b.file[p].op = "header"
    BY <1>1 DEF Record
  <1>5. Writable(b)
    BY <1>1, <1>2, <1>3, <1>4 DEF Writable, Indexed
  <1>6. \A d : Messages(b, d) = {}
    BY <1>4 DEF Messages, Record
  <1> QED BY <1>2, <1>5, <1>6, ChunkBegins, FS_EmptySet

\* h is f with the connections and a record for each of k chunks after it.
WithRegion(f, k, h) ==
  /\ h \in Seq(Records) /\ Len(h) = Len(f) + (NumCams + 1) + k
  /\ \A p \in 1..Len(f) : h[p] = f[p]
  /\ \A p \in 1..(NumCams + 1) : h[Len(f) + p] = Record("conn", p)
  /\ \A p \in 1..k : h[Len(f) + (NumCams + 1) + p] = Record("info", p)

LEMMA Region ==
  ASSUME NEW f \in Seq(Records), NEW k \in Nat
  PROVE  WithRegion(f, k, (f \o ConnRecords) \o [i \in 1..k |-> Record("info", i)])
  <1> DEFINE r == [i \in 1..k |-> Record("info", i)]
             N == NumCams + 1
             s == ConnRecords
             g == f \o s
             h == g \o r
             m == Len(f)
  <1>1. N \in Nat
    BY Counts
  <1>2. s \in Seq(Records) /\ Len(s) = N /\ \A p \in 1..N : s[p] = Record("conn", p)
    <2>1. "conn" \in Ops /\ "conn" \notin {"msg", "info"}
      BY DEF Ops
    <2> HIDE DEF N
    <2>2. Plain([c \in 1..N |-> Record("conn", c)])
          /\ Len([c \in 1..N |-> Record("conn", c)]) = N
      BY <1>1, <2>1, RowOfRecords, Zenon
    <2> QED BY <2>2 DEF ConnRecords, Conns, Plain, N
  <1>3. r \in Seq(Records) /\ Len(r) = k /\ \A p \in 1..k : r[p] = Record("info", p)
    <2>1. r \in [1..k -> Records]
      BY DEF Record, Records, Ops
    <2>2. r \in Seq(Records)
      BY <2>1, SeqDef
    <2> QED BY <2>1, <2>2, LenProperties
  <1>4. m \in Nat
    OBVIOUS
  <1> HIDE DEF r, s, N
  <1>5. g \in Seq(Records) /\ Len(g) = m + N
        /\ (\A p \in 1..m : g[p] = f[p]) /\ \A p \in 1..N : g[m + p] = s[p]
    <2>1. g \in Seq(Records) /\ Len(g) = Len(f) + Len(s)
      BY <1>2
    <2>2. (\A p \in 1..Len(f) : g[p] = f[p]) /\ \A p \in 1..Len(s) : g[Len(f) + p] = s[p]
      BY <1>2
    <2> QED BY <2>1, <2>2, <1>2
  <1> HIDE DEF g
  <1>7. h \in Seq(Records) /\ Len(h) = Len(g) + k
        /\ (\A p \in 1..Len(g) : h[p] = g[p]) /\ \A p \in 1..k : h[Len(g) + p] = r[p]
    <2>1. h \in Seq(Records) /\ Len(h) = Len(g) + Len(r)
      BY <1>3, <1>5, SMTT(30)
    <2>2. (\A p \in 1..Len(g) : h[p] = g[p]) /\ \A p \in 1..Len(r) : h[Len(g) + p] = r[p]
      BY <1>3, <1>5
    <2> QED BY <2>1, <2>2, <1>3
  <1> HIDE DEF m, h
  <1>8. /\ \A p \in 1..m : p \in 1..(m + N)
        /\ \A p \in 1..N : m + p \in 1..(m + N)
    BY <1>1, <1>4
  <1>9. /\ h \in Seq(Records) /\ Len(h) = m + N + k
        /\ \A p \in 1..m : h[p] = f[p]
        /\ \A p \in 1..N : h[m + p] = Record("conn", p)
        /\ \A p \in 1..k : h[m + N + p] = Record("info", p)
    BY <1>2, <1>3, <1>5, <1>7, <1>8
  <1>10. WithRegion(f, k, h)
    BY <1>9 DEF WithRegion, m, N
  <1> QED BY <1>10 DEF h, g, r, s

\* close(): the index of the finished file leads to every message, and the region at the
\* end is where index_pos says.
LEMMA BagCloses ==
  ASSUME NEW a, Writable(a), NEW c, c = Recorder!Bag!Closed(a)
  PROVE  /\ Recorder!Bag!IndexFindsMessages(c) /\ Recorder!Bag!RegionAtIndexPos(c)
         /\ \A d : Messages(c, d) = Messages(a, d)
         /\ c.file \in Seq(Records)
  <1> DEFINE b == Recorder!Bag!EndChunk(a)
             m == Len(b.file)
             k == Len(b.chunks)
             N == NumCams + 1
  <1>1. Writable(b) /\ ~b.open /\ \A d : Messages(b, d) = Messages(a, d)
    BY ChunkEnds
  <1>2. b \in Bags /\ b.file \in Seq(Records) /\ b.chunks \in Seq(Chunks)
    BY <1>1 DEF Writable, Bags
  <1>3. m \in Nat /\ k \in Nat /\ DOMAIN b.chunks = 1..k /\ N \in Nat
    BY <1>2, Counts
  <1>4. /\ c.indexPos = m /\ c.chunks = b.chunks
        /\ c.file = (b.file \o ConnRecords) \o [i \in 1..k |-> Record("info", i)]
    BY <1>2, <1>3 DEF Recorder!Bag!Closed, Recorder!Bag!Record, Record, Bags,
       Recorder!Bag!ConnRecords, ConnRecords, Conns
  <1> HIDE DEF b
  <1>5. /\ c.file \in Seq(Records) /\ Len(c.file) = m + N + k
        /\ \A p \in 1..m : c.file[p] = b.file[p]
        /\ \A p \in 1..N : c.file[m + p] = Record("conn", p)
        /\ \A p \in 1..k : c.file[m + N + p] = Record("info", p)
    <2> DEFINE f == b.file
               h == c.file
    <2> HIDE DEF k
    <2>1. WithRegion(f, k, h)
      <3>1. f \in Seq(Records) /\ h = (f \o ConnRecords) \o [i \in 1..k |-> Record("info", i)]
        BY <1>2, <1>4
      <3> HIDE DEF f, h
      <3> QED BY <3>1, <1>3, Region
    <2> QED BY <2>1 DEF WithRegion
  <1> HIDE DEF m, k, N
  <1>6. ASSUME NEW p \in 1..Len(c.file)
        PROVE  \/ p \in 1..m /\ c.file[p] = b.file[p] /\ c.file[p].op # "info"
               \/ p \in (m + 1)..(m + N) /\ c.file[p].op = "conn"
               \/ p \in (m + N + 1)..(m + N + k) /\ c.file[p].op = "info"
    <2>1. CASE p \in 1..m
      BY <2>1, <1>1, <1>5 DEF Writable, m
    <2>2. CASE p \in (m + 1)..(m + N)
      <3>1. p - m \in 1..N /\ m + (p - m) = p
        BY <2>2, <1>3
      <3>2. c.file[p] = Record("conn", p - m)
        BY <3>1, <1>5
      <3> QED BY <2>2, <3>2 DEF Record
    <2>3. CASE p \in (m + N + 1)..(m + N + k)
      <3>1. p - m - N \in 1..k /\ m + N + (p - m - N) = p
        BY <2>3, <1>3
      <3>2. c.file[p] = Record("info", p - m - N)
        BY <3>1, <1>5
      <3> QED BY <2>3, <3>2 DEF Record
    <2>4. p \in 1..m \/ p \in (m + 1)..(m + N) \/ p \in (m + N + 1)..(m + N + k)
      BY <1>3, <1>5
    <2> QED BY <2>1, <2>2, <2>3, <2>4
  <1>7. \A p \in 1..m : p \in 1..Len(c.file)
    BY <1>3, <1>5
  <1>8. DOMAIN c.file = 1..Len(c.file)
    BY <1>5
  <1> DEFINE Ms == Recorder!Bag!Positions(c, "msg")
             Is == Recorder!Bag!Positions(c, "info")
  <1>9. Ms = {p \in 1..m : b.file[p].op = "msg"}
    <2>1. \A p : p \in 1..Len(c.file) /\ c.file[p].op = "msg"
                   <=> p \in 1..m /\ b.file[p].op = "msg"
      BY <1>5, <1>6, <1>7
    <2> QED BY <2>1, <1>8 DEF Recorder!Bag!Positions
  <1>10. Is = (m + N + 1)..(m + N + k)
    <2>1. \A p \in 1..m : b.file[p].op # "info"
      BY <1>1 DEF Writable, m
    <2>2. \A p \in (m + N + 1)..(m + N + k) : p \in 1..Len(c.file)
      BY <1>3, <1>5
    <2>3. \A p \in (m + N + 1)..(m + N + k) : ~(p \in 1..m) /\ ~(p \in (m + 1)..(m + N))
      BY <1>3
    <2>4. \A p : p \in 1..Len(c.file) /\ c.file[p].op = "info"
                   <=> p \in (m + N + 1)..(m + N + k)
      BY <1>6, <2>2, <2>3
    <2> QED BY <2>4, <1>8 DEF Recorder!Bag!Positions
  <1>11. \A d : Messages(c, d) = Messages(a, d)
    <2> SUFFICES ASSUME NEW d PROVE Messages(c, d) = Messages(b, d)
      BY <1>1
    <2>1. \A p : p \in 1..Len(c.file) /\ c.file[p] = Record("msg", d)
                   <=> p \in 1..m /\ b.file[p] = Record("msg", d)
      BY <1>5, <1>6, <1>7 DEF Record
    <2> QED BY <2>1 DEF Messages, m
  <1>12. Recorder!Bag!RegionAtIndexPos(c)
    <2>1. SubSeq(c.file, m + 1, m + N) = ConnRecords
      <3> DEFINE s == SubSeq(c.file, m + 1, m + N)
      <3>1. \A i \in (m + 1)..(m + N) : i \in 1..Len(c.file)
        BY <1>3, <1>5
      <3>2. \A i \in (m + 1)..(m + N) : c.file[i] \in Records
        BY <1>5, <3>1
      <3>3. m + 1 \in Int /\ m + N \in Int /\ (m + N) - (m + 1) + 1 = N
            /\ (m + 1 <= m + N <=> 1 <= N)
        BY <1>3
      <3>4. /\ s \in Seq(Records) /\ Len(s) = (IF m + 1 <= m + N THEN N ELSE 0)
            /\ \A i \in 1..N : s[i] = c.file[(m + 1) + i - 1]
        BY <3>2, <3>3, SubSeqProperties
      <3>5. Len(s) = N
        BY <3>3, <3>4, <1>3
      <3>6. \A i \in 1..N : (m + 1) + i - 1 = m + i
        BY <1>3
      <3>7. \A i \in 1..N : s[i] = Record("conn", i)
        BY <3>4, <3>6, <1>5
      <3>8. s = [i \in 1..N |-> s[i]]
        <4> HIDE DEF s
        <4>1. DOMAIN s = 1..N
          BY <3>4, <3>5, LenProperties
        <4> QED BY <4>1, <3>4, LenProperties
      <3> HIDE DEF s
      <3>9. s = [i \in 1..N |-> Record("conn", i)]
        BY <3>7, <3>8
      <3> QED BY <3>9 DEF s, ConnRecords, Conns, N
    <2>2. {p - m - N : p \in Is} = 1..k
      <3>1. \A p \in Is : p - m - N \in 1..k
        BY <1>3, <1>10
      <3>2. \A i \in 1..k : m + N + i \in Is /\ (m + N + i) - m - N = i
        BY <1>3, <1>10
      <3> HIDE DEF Is
      <3> QED BY <3>1, <3>2
    <2>3. ConnRecords = Recorder!Bag!ConnRecords
      BY DEF ConnRecords, Recorder!Bag!ConnRecords, Conns, Record, Recorder!Bag!Record
    <2>4. {p - c.indexPos - (NumCams + 1) : p \in Is} = DOMAIN c.chunks
      BY <2>2, <1>3, <1>4, ZenonT(60) DEF N
    <2> HIDE DEF Is
    <2> QED BY <2>1, <2>3, <2>4, <1>4 DEF Recorder!Bag!RegionAtIndexPos, N, Is
  <1>13. Recorder!Bag!IndexFindsMessages(c)
    <2> DEFINE es == Entries(b)
               at == [e \in es |-> At(b, e)]
               all == {e \in (DOMAIN c.chunks) \X (1..(NumCams + 1)) \X (1..Len(c.file)) :
                         e[3] \in DOMAIN c.chunks[e[1]].index[e[2]]}
               to(e) == c.chunks[e[1]].start + c.chunks[e[1]].index[e[2]][e[3]] + 1
    <2>1. \A e \in es : Leads(b, e) /\ At(b, e) \in 1..m /\ e[3] \in 1..m /\ e[1] \in 1..k
      <3>1. \A e \in es : Leads(b, e) /\ At(b, e) \in 1..m /\ e[3] <= m
        BY <1>1 DEF Writable, Indexed, Leads, m
      <3>2. \A e \in es : e[1] \in 1..k /\ e[3] \in Nat /\ e[3] \in 1..Len(b.chunks[e[1]].index[e[2]])
        BY DEF Entries, k
      <3>3. \A e \in es : e[3] \in Nat /\ e[3] >= 1
        <4> SUFFICES ASSUME NEW e \in es PROVE e[3] \in Nat /\ e[3] >= 1
          OBVIOUS
        <4> DEFINE l == Len(b.chunks[e[1]].index[e[2]])
        <4>1. e[3] \in Nat /\ e[3] \in 1..l
          BY <3>2
        <4> HIDE DEF l, es
        <4> QED BY <4>1
      <3> HIDE DEF es
      <3> QED BY <3>1, <3>2, <3>3, <1>3
    <2>2. \A i \in 1..k, d \in Conns :
            DOMAIN c.chunks[i].index[d] = 1..Len(b.chunks[i].index[d])
      <3> SUFFICES ASSUME NEW i \in 1..k, NEW d \in Conns
                   PROVE  DOMAIN c.chunks[i].index[d] = 1..Len(b.chunks[i].index[d])
        OBVIOUS
      <3>1. b.chunks[i] \in Chunks
        BY <1>2 DEF k
      <3>2. b.chunks[i].index[d] \in Seq(Nat)
        BY <3>1 DEF Chunks
      <3> QED BY <3>2, <1>4
    <2>3. all = es
      <3>1. ASSUME NEW e \in all PROVE e \in es
        <4>1. e[1] \in 1..k /\ e[2] \in Conns /\ e[3] \in 1..Len(c.file)
              /\ e \in (1..k) \X Conns \X (1..Len(c.file))
              /\ e[3] \in DOMAIN c.chunks[e[1]].index[e[2]]
          BY <1>3, <1>4 DEF Conns
        <4>2. e[3] \in 1..Len(b.chunks[e[1]].index[e[2]])
          BY <4>1, <2>2
        <4>3. e \in (1..k) \X Conns \X Nat
          BY <4>1
        <4> HIDE DEF all
        <4> QED BY <4>2, <4>3 DEF Entries, k
      <3>2. ASSUME NEW e \in es PROVE e \in all
        <4>1. e \in (1..k) \X Conns \X Nat /\ e[1] \in 1..k /\ e[2] \in Conns
              /\ e[3] \in 1..Len(b.chunks[e[1]].index[e[2]])
          BY DEF Entries, k
        <4>2. e[3] \in 1..Len(c.file)
          BY <2>1, <1>7
        <4>3. e \in (1..k) \X Conns \X (1..Len(c.file))
          BY <4>1, <4>2
        <4>4. e[3] \in DOMAIN c.chunks[e[1]].index[e[2]]
          BY <4>1, <2>2
        <4> HIDE DEF es
        <4> QED BY <4>3, <4>4, <1>3, <1>4 DEF Conns
      <3> HIDE DEF all, es
      <3> QED BY <3>1, <3>2
    <2>4. \A e \in es : to(e) = At(b, e)
      BY <1>4 DEF At
    <2>5. ASSUME NEW e \in es
          PROVE  /\ to(e) \in DOMAIN c.file /\ c.file[to(e)] = Record("msg", e[2])
                 /\ to(e) - c.chunks[e[1]].start <= c.chunks[e[1]].size
      <3>1. Leads(b, e) /\ to(e) = At(b, e) /\ At(b, e) \in 1..m
        BY <2>1, <2>4
      <3>2. c.file[At(b, e)] = Record("msg", e[2])
        BY <3>1, <1>5 DEF Leads
      <3>3. At(b, e) - c.chunks[e[1]].start <= c.chunks[e[1]].size
        BY <3>1, <1>1, <1>4 DEF Leads
      <3> HIDE DEF to
      <3> QED BY <3>1, <3>2, <3>3, <1>7, <1>8
    <2>6. at \in Bijection(es, Ms)
      <3>1. \A e \in es : At(b, e) \in Ms
        <4>1. \A e \in es : At(b, e) \in 1..m /\ b.file[At(b, e)].op = "msg"
          <5> SUFFICES ASSUME NEW e \in es
                       PROVE  At(b, e) \in 1..m /\ b.file[At(b, e)].op = "msg"
            OBVIOUS
          <5> HIDE DEF es
          <5>1. At(b, e) \in 1..m /\ b.file[At(b, e)] = Record("msg", e[2])
            BY <2>1 DEF Leads
          <5> QED BY <5>1 DEF Record
        <4> HIDE DEF es, Ms
        <4> QED BY <4>1, <1>9
      <3>2. \A p \in Ms : \E e \in es : At(b, e) = p
        BY <1>1, <1>9 DEF Writable, Indexed, m
      <3>3. \A d, e \in es : At(b, d) = At(b, e) => d = e
        BY <1>1 DEF Writable, Indexed
      <3> HIDE DEF es, Ms
      <3>4. at \in Injection(es, Ms)
        BY <3>1, <3>3 DEF Injection, IsInjective
      <3>5. at \in Surjection(es, Ms)
        BY <3>1, <3>2 DEF Surjection
      <3> QED BY <3>4, <3>5 DEF Bijection
    <2>7. {to(e) : e \in es} = Ms
      <3>1. \A e \in es : at[e] = to(e)
        BY <2>4
      <3> HIDE DEF es, Ms, at, to
      <3>2. at \in [es -> Ms] /\ \A p \in Ms : \E e \in es : at[e] = p
        BY <2>6 DEF Bijection, Injection, Surjection
      <3> QED BY <3>1, <3>2
    <2>8. Cardinality(es) = Cardinality(Ms)
      <3>1. IsFiniteSet(Ms)
        <4>1. Ms \in SUBSET (1..m)
          BY <1>9
        <4>2. IsFiniteSet(1..m)
          BY <1>3, FS_Interval
        <4> HIDE DEF Ms
        <4> QED BY <4>1, <4>2, FS_Subset
      <3> HIDE DEF es, Ms, at
      <3>2. ExistsBijection(es, Ms) /\ ExistsBijection(Ms, es)
        BY <2>6, Fun_ExistsBijSymmetric DEF ExistsBijection
      <3> QED BY <3>1, <3>2, FS_Bijection
    <2>9. \A S : Recorder!Bag!Cardinality(S) = Cardinality(S)
      BY DEF Recorder!Bag!Cardinality, Cardinality, Recorder!Bag!IsFiniteSet, IsFiniteSet
    <2>10. \A d : Recorder!Bag!Record("msg", d) = Record("msg", d)
      BY DEF Record, Recorder!Bag!Record
    <2> HIDE DEF es, Ms, at, all, to
    <2>11. /\ \A e \in all :
              /\ to(e) \in DOMAIN c.file /\ c.file[to(e)] = Recorder!Bag!Record("msg", e[2])
              /\ to(e) - c.chunks[e[1]].start <= c.chunks[e[1]].size
           /\ {to(e) : e \in all} = Ms
           /\ Recorder!Bag!Cardinality(all) = Recorder!Bag!Cardinality(Ms)
      BY <2>3, <2>5, <2>7, <2>8, <2>9, <2>10
    <2> QED BY <2>11 DEF Recorder!Bag!IndexFindsMessages, all, to, Ms
  <1> QED BY <1>5, <1>11, <1>12, <1>13

\* The file can be extended until it is closed, and has each camera's messages.
BagInv ==
  /\ phase # "closed" => Writable(bag)
  /\ phase = "closed" => /\ Recorder!Bag!IndexFindsMessages(bag)
                         /\ Recorder!Bag!RegionAtIndexPos(bag)
                         /\ bag.file \in Seq(Records)
  /\ \A c \in Cameras : written[c] = Cardinality(Messages(bag, c))

LEMMA BagStarts ==
  ASSUME Recorder!Init
  PROVE  BagInv
  BY BagOpens DEF Recorder!Init, BagInv, Recorder!Cams, Cameras

LEMMA BagNext ==
  ASSUME RecorderInv, BagInv, [Recorder!Next]_recorderVars
  PROVE  BagInv'
  <1>1. CASE Recorder!Write
    <2>1. /\ task # None
          /\ bag' = Recorder!Bag!Added(bag, IF task = 0 THEN NumCams + 1 ELSE task)
          /\ written' = [c \in Cameras |-> IF c = task THEN written[c] + 1 ELSE written[c]]
          /\ phase' = phase
      BY <1>1 DEF Recorder!Write, Recorder!ImuConn, Recorder!Cams, Cameras
    <2>2. phase # "closed" /\ task \in Cameras \cup {0}
      BY <2>1 DEF RecorderInv, RecorderTyped, StopsInOrder
    <2> DEFINE n == IF task = 0 THEN NumCams + 1 ELSE task
    <2>3. n \in Conns /\ \A c \in Cameras : c = n <=> c = task
      BY <2>2, Counts DEF Conns, Cameras
    <2> HIDE DEF n
    <2>4. bag' = Recorder!Bag!Added(bag, n) /\ Writable(bag)
      BY <2>1, <2>2 DEF n, BagInv
    <2>5. /\ Writable(bag')
          /\ \A d : Cardinality(Messages(bag', d))
                      = Cardinality(Messages(bag, d)) + (IF d = n THEN 1 ELSE 0)
      BY <2>3, <2>4, MessageAdded
    <2>6. ASSUME NEW c \in Cameras
          PROVE  written'[c] = Cardinality(Messages(bag', c))
      <3>1. written[c] = Cardinality(Messages(bag, c)) /\ written[c] \in Nat
        BY DEF BagInv, RecorderInv, RecorderTyped
      <3>2. written'[c] = IF c = n THEN written[c] + 1 ELSE written[c]
        BY <2>1, <2>3
      <3> QED BY <3>1, <3>2, <2>5
    <2> QED BY <2>1, <2>2, <2>5, <2>6 DEF BagInv
  <1>2. CASE Recorder!Close
    <2>1. /\ phase = "draining" /\ phase' = "closed" /\ written' = written
          /\ bag' = Recorder!Bag!Closed(bag)
      BY <1>2 DEF Recorder!Close
    <2>2. Writable(bag)
      BY <2>1 DEF BagInv
    <2>3. /\ Recorder!Bag!IndexFindsMessages(bag') /\ Recorder!Bag!RegionAtIndexPos(bag')
          /\ \A d : Messages(bag', d) = Messages(bag, d)
          /\ bag'.file \in Seq(Records)
      BY <2>1, <2>2, BagCloses
    <2> QED BY <2>1, <2>3 DEF BagInv
  <1>3. CASE ~Recorder!Write /\ ~Recorder!Close
    <2>1. bag' = bag /\ written' = written /\ (phase' = "closed" <=> phase = "closed")
      BY <1>3 DEF Recorder!Next, Recorder!PullStep, Recorder!ImuStep, Recorder!WriterStep,
         Recorder!StopStep, Recorder!Publish, Recorder!Take, Recorder!Enqueue,
         Recorder!EndPull, Recorder!Sample, Recorder!TakeSample, Recorder!EndImu,
         Recorder!WriterTakes, Recorder!Stop, Recorder!JoinPulls, recorderVars,
         RecorderInv, RecorderTyped, StopsInOrder, Cameras, Recorder!Cams
    <2> QED BY <2>1 DEF BagInv
  <1> QED BY <1>1, <1>2, <1>3

LEMMA BagSafe ==
  ASSUME BagInv
  PROVE  Recorder!BagReadable
  <1> SUFFICES ASSUME phase = "closed"
               PROVE  /\ Recorder!Bag!IndexFindsMessages(bag)
                      /\ Recorder!Bag!RegionAtIndexPos(bag)
                      /\ \A c \in Recorder!Cams : written[c] =
                           Recorder!Cardinality({p \in DOMAIN bag.file :
                               bag.file[p] = Recorder!Bag!Record("msg", c)})
    BY DEF Recorder!BagReadable
  <1>1. /\ Recorder!Bag!IndexFindsMessages(bag) /\ Recorder!Bag!RegionAtIndexPos(bag)
        /\ DOMAIN bag.file = 1..Len(bag.file)
    BY DEF BagInv
  <1>2. \A S : Recorder!Cardinality(S) = Cardinality(S)
    BY DEF Recorder!Cardinality, Cardinality, Recorder!IsFiniteSet, IsFiniteSet
  <1>3. \A c : Recorder!Bag!Record("msg", c) = Record("msg", c)
    BY DEF Record, Recorder!Bag!Record
  <1>4. ASSUME NEW c \in Cameras
        PROVE  written[c] = Recorder!Cardinality({p \in DOMAIN bag.file :
                               bag.file[p] = Recorder!Bag!Record("msg", c)})
    <2>1. {p \in DOMAIN bag.file : bag.file[p] = Recorder!Bag!Record("msg", c)}
            = Messages(bag, c)
      BY <1>1, <1>3 DEF Messages
    <2> QED BY <2>1, <1>2 DEF BagInv
  <1> QED BY <1>1, <1>4 DEF Recorder!Cams, Cameras

-----------------------------------------------------------------------------
(* Each component is the one of its proofs.                                 *)

BusP == INSTANCE MeasurementBusProofs
PairerP == INSTANCE StereoSyncProofs WITH popped <- taken
ControllerP == INSTANCE SyncControllerProofs

LEMMA BusSame ==
  /\ Bus!Init <=> BusP!Init
  /\ Bus!Next <=> BusP!Next
  /\ Bus!BusAssumption <=> BusP!BusAssumption
  /\ Bus!TypeOK <=> BusP!TypeOK
  /\ Bus!NothingLostUncounted <=> BusP!NothingLostUncounted
  /\ Bus!NoLostWakeup <=> BusP!NoLostWakeup
  /\ Bus!PopsNext <=> BusP!PopsNext
  BY DEF
      Bus!BusAssumption, Bus!vars, Bus!Init, Bus!Subscribe, Bus!Full, Bus!Pushed,
      Bus!Publish, Bus!Unsubscribe, Bus!NotifyAll, Bus!WaitPop, Bus!TryPop,
      Bus!Quiet, Bus!Next, Bus!TypeOK, Bus!NothingLostUncounted, Bus!PopsNext,
      Bus!NoLostWakeup, BusP!BusAssumption, BusP!vars, BusP!Init, BusP!Subscribe,
      BusP!Full, BusP!Pushed, BusP!Publish, BusP!Unsubscribe, BusP!NotifyAll,
      BusP!WaitPop, BusP!TryPop, BusP!Quiet, BusP!Next, BusP!TypeOK,
      BusP!NothingLostUncounted, BusP!PopsNext, BusP!NoLostWakeup

LEMMA PairerSame ==
  /\ Pairer!Init <=> PairerP!Init
  /\ Pairer!Next <=> PairerP!Next
  /\ Pairer!PairerAssumption <=> PairerP!PairerAssumption
  /\ Pairer!TypeOK <=> PairerP!TypeOK
  /\ Pairer!NothingLostUncounted <=> PairerP!NothingLostUncounted
  /\ Pairer!NoMatchWaiting <=> PairerP!NoMatchWaiting
  /\ Pairer!NothingStaleWaiting <=> PairerP!NothingStaleWaiting
  /\ Pairer!OnlyThisSession <=> PairerP!OnlyThisSession
  /\ Pairer!PopsNext <=> PairerP!PopsNext
  BY DEF
      Pairer!PairerAssumption, Pairer!Sides, Pairer!Other, Pairer!counts,
      Pairer!vars, Pairer!Init, Pairer!Frame, Pairer!Partner, Pairer!Leading,
      Pairer!Purge, Pairer!Stale, Pairer!Match, Pairer!Buffer, Pairer!Push,
      Pairer!WaitPop, Pairer!Shutdown, Pairer!Notify, Pairer!Join, Pairer!Reset,
      Pairer!Start, Pairer!SuperStep, Pairer!Quiet, Pairer!Next, Pairer!TypeOK,
      Pairer!NothingLostUncounted, Pairer!NoMatchWaiting,
      Pairer!NothingStaleWaiting, Pairer!OnlyThisSession, Pairer!PopsNext,
      Pairer!Cardinality, PairerP!PairerAssumption, PairerP!Sides, PairerP!Other,
      PairerP!counts, PairerP!vars, PairerP!Init, PairerP!Frame, PairerP!Partner,
      PairerP!Leading, PairerP!Purge, PairerP!Stale, PairerP!Match, PairerP!Buffer,
      PairerP!Push, PairerP!WaitPop, PairerP!Shutdown, PairerP!Notify, PairerP!Join,
      PairerP!Reset, PairerP!Start, PairerP!SuperStep, PairerP!Quiet, PairerP!Next,
      PairerP!TypeOK, PairerP!NothingLostUncounted, PairerP!NoMatchWaiting,
      PairerP!NothingStaleWaiting, PairerP!OnlyThisSession, PairerP!PopsNext,
      PairerP!Cardinality

LEMMA ControllerSame ==
  /\ Controller!Init <=> ControllerP!Init
  /\ Controller!Next <=> ControllerP!Next
  /\ Controller!TypeOK <=> ControllerP!TypeOK
  /\ Controller!AckedIfOk <=> ControllerP!AckedIfOk
  BY DEF
      Controller!hostVars, Controller!cmdVars, Controller!wireVars,
      Controller!boardVars, Controller!history, Controller!vars, Controller!Threads,
      Controller!Idle, Controller!Init, Controller!Fault, Controller!Alone,
      Controller!Begin, Controller!MayCall, Controller!CallArm, Controller!CallStop,
      Controller!CallTest, Controller!Plan, Controller!TriesFor, Controller!Finish,
      Controller!StartIfConnected, Controller!SetDesired, Controller!SetSlotPins,
      Controller!ClearWant, Controller!CheckConnected, Controller!ResyncWake,
      Controller!ResyncSnapshot, Controller!InUse, Controller!FreshId,
      Controller!Failed, Controller!Succeeded, Controller!SendFails,
      Controller!Payload, Controller!Send, Controller!Wake, Controller!AckOnItsWay,
      Controller!Timeout, Controller!CallStep, Controller!Open, Controller!ProbeOk,
      Controller!ProbeFails, Controller!Disconnect, Controller!Correlates,
      Controller!ReadFrame, Controller!IoStep, Controller!PollDtr,
      Controller!Execute, Controller!StatusOf, Controller!HandleCommand,
      Controller!BoardStep, Controller!Unplug, Controller!Reset, Controller!Settled,
      Controller!Rest, Controller!Next, Controller!Commands, Controller!Statuses,
      Controller!AllConfigs, Controller!Call, Controller!Request, Controller!Answer,
      Controller!TypeOK, Controller!ReportsOk, Controller!AckedIfOk,
      Controller!ToSet, ControllerP!hostVars, ControllerP!cmdVars,
      ControllerP!wireVars, ControllerP!boardVars, ControllerP!history,
      ControllerP!vars, ControllerP!Threads, ControllerP!Idle, ControllerP!Init,
      ControllerP!Fault, ControllerP!Alone, ControllerP!Begin, ControllerP!MayCall,
      ControllerP!CallArm, ControllerP!CallStop, ControllerP!CallTest,
      ControllerP!Plan, ControllerP!TriesFor, ControllerP!Finish,
      ControllerP!StartIfConnected, ControllerP!SetDesired, ControllerP!SetSlotPins,
      ControllerP!ClearWant, ControllerP!CheckConnected, ControllerP!ResyncWake,
      ControllerP!ResyncSnapshot, ControllerP!InUse, ControllerP!FreshId,
      ControllerP!Failed, ControllerP!Succeeded, ControllerP!SendFails,
      ControllerP!Payload, ControllerP!Send, ControllerP!Wake,
      ControllerP!AckOnItsWay, ControllerP!Timeout, ControllerP!CallStep,
      ControllerP!Open, ControllerP!ProbeOk, ControllerP!ProbeFails,
      ControllerP!Disconnect, ControllerP!Correlates, ControllerP!ReadFrame,
      ControllerP!IoStep, ControllerP!PollDtr, ControllerP!Execute,
      ControllerP!StatusOf, ControllerP!HandleCommand, ControllerP!BoardStep,
      ControllerP!Unplug, ControllerP!Reset, ControllerP!Settled, ControllerP!Rest,
      ControllerP!Next, ControllerP!Commands, ControllerP!Statuses,
      ControllerP!AllConfigs, ControllerP!Call, ControllerP!Request,
      ControllerP!Answer, ControllerP!TypeOK, ControllerP!ReportsOk,
      ControllerP!AckedIfOk, ControllerP!ToSet

-----------------------------------------------------------------------------
(* The composition.                                                         *)

\* The inductive invariants of the components, each in its own behaviours.
StreamInv ==
  /\ part = "Bus" => BusP!BusInv
  /\ part = "Pairer" => PairerP!PairerInv
  /\ part = "Recorder" => RecorderInv /\ BagInv
  /\ part = "Controller" => ControllerP!IInv /\ ControllerP!SInv

\* That of the pool rests on PromptReturn: no delivery during return_buffer().
BufferInv == part = "Pool" => PoolInv

\* A request id that no command in flight has is left.
IdsLeft == part = "Controller" => ControllerP!IdsLeft

AcksInv == part = "Controller" => ControllerP!AckInv

LEMMA ControllerOK == ControllerP!ControllerAssumption
  BY Assumptions DEF Controller!ControllerAssumption, Controller!IsFiniteSet,
                     ControllerP!ControllerAssumption, ControllerP!IsFiniteSet

LEMMA Starts == Init => StreamInv /\ AcksInv
  <1> SUFFICES ASSUME Init PROVE StreamInv /\ AcksInv
    OBVIOUS
  <1>1. part = "Bus" => BusP!BusInv
    BY Assumptions, BusSame, BusP!BusInit DEF Init
  <1>2. part = "Pairer" => PairerP!PairerInv
    BY Assumptions, PairerSame, PairerP!PairerStarts DEF Init
  <1>3. part = "Recorder" => RecorderInv /\ BagInv
    BY Assumptions, RecorderStarts, BagStarts DEF Init
  <1>4. part = "Controller" => ControllerP!IInv /\ ControllerP!SInv /\ ControllerP!AckInv
    BY ControllerOK, ControllerSame, ControllerP!InitInv, ControllerP!InitSafe,
       ControllerP!InitAck DEF Init
  <1> QED BY <1>1, <1>2, <1>3, <1>4 DEF StreamInv, AcksInv

LEMMA BufferStarts == Init => BufferInv
  BY Assumptions, PoolInit DEF Init, BufferInv

\* A step of the composition is one of its component.
LEMMA Mine ==
  ASSUME [Next]_vars
  PROVE  /\ part' = part
         /\ part = "Pool" => [Pool!Next]_(Pool!vars)
         /\ part = "Bus" => [BusP!Next]_(BusP!vars)
         /\ part = "Pairer" => [PairerP!Next]_(PairerP!vars)
         /\ part = "Recorder" => [Recorder!Next]_recorderVars
         /\ part = "Controller" => [ControllerP!Next]_(ControllerP!vars)
  <1>1. part' = part
    BY DEF Next, Only, vars
  <1>2. UNCHANGED vars =>
          /\ UNCHANGED Pool!vars /\ UNCHANGED BusP!vars /\ UNCHANGED PairerP!vars
          /\ UNCHANGED recorderVars /\ UNCHANGED ControllerP!vars
    BY DEF vars, poolVars, busVars, pairerVars, controllerVars, Pool!vars, BusP!vars,
           PairerP!vars, PairerP!counts, ControllerP!vars, ControllerP!hostVars,
           ControllerP!cmdVars, ControllerP!wireVars, ControllerP!boardVars,
           ControllerP!history
  <1>3. Next =>
          /\ part = "Pool" => Pool!Next
          /\ part = "Bus" => Bus!Next
          /\ part = "Pairer" => Pairer!Next
          /\ part = "Recorder" => Recorder!Next
          /\ part = "Controller" => Controller!Next
    BY DEF Next
  <1> QED BY <1>1, <1>2, <1>3, BusSame, PairerSame, ControllerSame

\* What popping in order means of a step.
InOrder ==
  /\ part = "Bus" => Bus!PopsNext
  /\ part = "Pairer" => Pairer!PopsNext

LEMMA Steps == StreamInv /\ [Next]_vars => StreamInv' /\ InOrder
  <1> SUFFICES ASSUME StreamInv, [Next]_vars PROVE StreamInv' /\ InOrder
    OBVIOUS
  <1>1. part = "Bus" => BusP!BusInv' /\ (BusP!PopsNext \/ UNCHANGED BusP!vars)
    BY Assumptions, Mine, BusSame, BusP!BusNext DEF StreamInv
  <1>2. part = "Pairer" => PairerP!PairerInv' /\ PairerP!PopsNext
    BY Assumptions, Mine, PairerSame, PairerP!PairerNext DEF StreamInv
  <1>3. part = "Recorder" => RecorderInv' /\ BagInv'
    BY Assumptions, Mine, RecorderNext, BagNext DEF StreamInv
  <1>4. part = "Controller" => ControllerP!IInv' /\ ControllerP!SInv'
    BY ControllerOK, Mine, ControllerP!NextInv, ControllerP!NextSafe DEF StreamInv
  <1>5. StreamInv'
    BY <1>1, <1>2, <1>3, <1>4, Mine DEF StreamInv
  <1>6. UNCHANGED BusP!vars => BusP!PopsNext
    BY DEF BusP!vars, BusP!PopsNext
  <1> QED BY <1>1, <1>2, <1>5, <1>6, BusSame, PairerSame DEF InOrder

LEMMA BufferSteps == ASSUME PromptReturn PROVE BufferInv /\ [Next]_vars => BufferInv'
  <1> SUFFICES ASSUME BufferInv, [Next]_vars PROVE BufferInv'
    OBVIOUS
  <1>1. part = "Pool" => PoolInv'
    BY PromptReturn, Assumptions, Mine, PoolNext DEF BufferInv
  <1> QED BY <1>1, Mine DEF BufferInv

LEMMA AckSteps ==
  ASSUME StreamInv, AcksInv, [Next]_vars
  PROVE  /\ IdsLeft => AcksInv'
         /\ [part = "Controller" => Controller!AckedIfOk]_vars
  <1>1. ASSUME IdsLeft PROVE AcksInv'
    BY <1>1, ControllerOK, Mine, ControllerP!NextAck DEF StreamInv, AcksInv, IdsLeft
  <1>2. part = "Controller" => [ControllerP!AckedIfOk]_(ControllerP!vars)
    BY ControllerOK, Mine, ControllerP!ReportsOnlyAcked DEF StreamInv, AcksInv, ControllerP!SInv
  <1>3. ASSUME part = "Controller" PROVE Controller!AckedIfOk \/ UNCHANGED vars
    <2>1. CASE UNCHANGED vars
      BY <2>1
    <2>2. CASE ControllerP!AckedIfOk
      BY <2>2, ControllerSame
    <2>3. CASE UNCHANGED ControllerP!vars /\ ~UNCHANGED vars
      <3>1. UNCHANGED controllerVars
        BY <2>3 DEF controllerVars, ControllerP!vars, ControllerP!hostVars,
           ControllerP!cmdVars, ControllerP!wireVars, ControllerP!boardVars,
           ControllerP!history
      <3>2. Next => Only("Controller")
        BY <1>3 DEF Next
      <3> QED BY <3>1, <3>2, <1>3, <2>3 DEF Only, vars
    <2> QED BY <1>2, <1>3, <2>1, <2>2, <2>3
  <1> QED BY <1>1, <1>3

\* The inductive invariants hold, each where its component is.
THEOREM StreamsInductive == Spec => []StreamInv
  BY Starts, Steps, PTL DEF Spec

\* So does the invariant of the buffers, if the SDK delivers a buffer again only after
\* return_buffer() for it has returned.
THEOREM BuffersInductive == ASSUME PromptReturn PROVE Spec => []BufferInv
  BY BufferStarts, BufferSteps, PTL DEF Spec

\* Every variable of the five components has its type, if the SDK delivers a buffer again
\* only after return_buffer() for it has returned.
THEOREM StreamsTypeCorrect == ASSUME PromptReturn PROVE Spec => []TypeOK
  <1>1. BufferInv /\ StreamInv => TypeOK
    <2> SUFFICES ASSUME BufferInv, StreamInv PROVE TypeOK
      OBVIOUS
    <2>1. part = "Pool" => Pool!TypeOK
      BY PoolSafe DEF BufferInv
    <2>2. part = "Bus" => Bus!TypeOK
      BY Assumptions, BusSame, BusP!BusSafe DEF StreamInv
    <2>3. part = "Pairer" => Pairer!TypeOK
      BY Assumptions, PairerSame, PairerP!PairerSafe DEF StreamInv
    <2>4. part = "Recorder" => Recorder!TypeOK
      BY Assumptions, RecorderSafe DEF StreamInv
    <2>5. part = "Controller" => Controller!TypeOK
      BY ControllerSame DEF StreamInv, ControllerP!IInv
    <2> QED BY <2>1, <2>2, <2>3, <2>4, <2>5 DEF TypeOK
  <1> QED BY <1>1, StreamsInductive, BuffersInductive, PTL

\* checkout() and return_buffer() lose no image, release none twice and leave the camera no
\* buffer to write while a frame over it has owners, on the same condition.
THEOREM BuffersAreSound == ASSUME PromptReturn PROVE Spec => []BuffersSound
  <1>1. BufferInv => BuffersSound
    BY PoolSafe DEF BufferInv, BuffersSound
  <1> QED BY <1>1, BuffersInductive, PTL

\* What a full queue of the bus, the pairer or the recorder drops is in a counter, at any
\* number of publishers, subscribers, cameras and places in the queues.
THEOREM DropsAreCounted == Spec => []NothingLostUncounted
  <1>1. StreamInv => NothingLostUncounted
    BY Assumptions, BusSame, PairerSame, BusP!BusSafe, PairerP!PairerSafe, RecorderSafe
       DEF StreamInv, NothingLostUncounted
  <1> QED BY <1>1, StreamsInductive, PTL

\* wait_pop() misses no notify_all(), and push() leaves no pair, no frame older than a
\* pair and no frame of an earlier session behind.
THEOREM QueuesAreSound == Spec => []QueuesSound
  <1>1. StreamInv => QueuesSound
    BY Assumptions, BusSame, PairerSame, BusP!BusSafe, PairerP!PairerSafe
       DEF StreamInv, QueuesSound
  <1> QED BY <1>1, StreamsInductive, PTL

\* The index of a closed recording leads to every message in the file and to nothing else,
\* whatever the number of cameras and wherever the chunks were split.
THEOREM BagsAreReadable == Spec => []BagReadable
  <1>1. StreamInv => BagReadable
    BY BagSafe DEF StreamInv, BagReadable
  <1> QED BY <1>1, StreamsInductive, PTL

\* Nothing is popped twice or out of order.
THEOREM PopsAreInOrder == Spec => PopsInOrder
  <1>1. StreamInv /\ [Next]_vars =>
          [/\ part = "Bus" => Bus!PopsNext
           /\ part = "Pairer" => Pairer!PopsNext]_vars
    BY Steps DEF InOrder
  <1> QED BY <1>1, StreamsInductive, PTL DEF Spec, PopsInOrder

\* execute_command() reports Ok only for what the board acknowledged, while the counter of
\* request ids does not come round to one in use.
THEOREM OkIsAcknowledged == Spec /\ []IdsLeft => OkMeansAcked
  <1>1. Init => AcksInv
    BY Starts
  <1>2. StreamInv /\ AcksInv /\ IdsLeft /\ [Next]_vars => AcksInv'
    BY AckSteps
  <1>3. StreamInv /\ AcksInv /\ [Next]_vars =>
          [part = "Controller" => Controller!AckedIfOk]_vars
    BY AckSteps
  <1> QED BY <1>1, <1>2, <1>3, StreamsInductive, PTL DEF Spec, OkMeansAcked
=============================================================================
