------------------------- MODULE FrameChannelProofs -------------------------
(***************************************************************************)
(* Theorems about FrameChannel for any pool, any finite set of consumers   *)
(* and any number of frames.                                               *)
(***************************************************************************)
EXTENDS FrameChannel, FiniteSetTheorems, TLAPS

-----------------------------------------------------------------------------
(* The inductive invariant.                                                 *)

\* Control points at which a variable names a frame or a consumer.
PointsOK ==
    /\ ppc \in {"reset", "fill", "exchange", "store_seq", "release", "recycle",
                "snapshot", "check", "bump", "wake"} => pframe \in Slots
    /\ ppc = "exchange" => pcount > 0
    /\ ppc \in {"release", "recycle", "last_release", "last_recycle"} => pold \in Slots
    /\ ppc \in {"bump", "wake"} => ptarget \in Consumers
    /\ \A c \in Consumers :
         cpc[c] \in Retaining \cup Recycling \cup {"retain"} => cframe[c] \in Slots

\* The frame the producer owns is not the published one.
Distinct ==
    /\ ppc \in {"reset", "fill", "exchange"} => pframe # latest
    /\ ppc \in {"store_seq", "release", "last_release"} => pold = NoFrame \/ pold # latest

\* A worker exists only once attach() has started it.
NotStarted == \A c \in Consumers : opc[c] \in {"idle", "seeded"} => cpc[c] = "none"

\* The life of a slot with count n, pool flag p, owners H and threads in between
\* B: counted, pooled, or in the hands of exactly one thread.
SlotLife(n, p, H, B) ==
    /\ n = Cardinality(H)
    /\ p <=> H = {} /\ B = {}
    /\ H # {} => B = {}
    /\ \A o, q \in B : o = q

SlotOK(s) == SlotLife(refcount[s], in_pool[s], Holders(s), Between(s))

Control == TypeOK /\ PointsOK /\ Distinct /\ NotStarted
IInv == Control /\ \A s \in Slots : SlotOK(s)

-----------------------------------------------------------------------------
(* What can happen to a slot, for any owners and any thread in between.     *)

\* Another owner retains a frame that is counted.
LEMMA Retained ==
    ASSUME NEW n \in Nat, NEW p, NEW H, NEW B, NEW o, IsFiniteSet(H),
           SlotLife(n, p, H, B), n > 0, o \notin H
    PROVE  SlotLife(n + 1, p, H \cup {o}, B)
<1>1. H # {}
  BY FS_EmptySet DEF SlotLife
<1>2. Cardinality(H \cup {o}) = n + 1
  BY FS_AddElement DEF SlotLife
<1> QED
  BY <1>1, <1>2 DEF SlotLife

\* The thread that took the slot out of the pool becomes its first owner.
LEMMA Counted ==
    ASSUME NEW n, NEW p, NEW H, NEW B, NEW o,
           SlotLife(n, p, H, B), o \in B
    PROVE  SlotLife(1, p, {o}, {})
<1>1. H = {} /\ ~p
  BY DEF SlotLife
<1>2. Cardinality({o}) = 1
  BY FS_Singleton
<1> QED
  BY <1>1, <1>2 DEF SlotLife

\* An owner, not the last, releases.
LEMMA Dropped ==
    ASSUME NEW n \in Nat, NEW p, NEW H, NEW B, NEW o, IsFiniteSet(H),
           SlotLife(n, p, H, B), o \in H, n # 1
    PROVE  SlotLife(n - 1, p, H \ {o}, B)
<1>1. Cardinality(H \ {o}) = n - 1 /\ IsFiniteSet(H \ {o})
  BY FS_RemoveElement DEF SlotLife
<1>2. H \ {o} # {}
  <2> SUFFICES ASSUME H \ {o} = {} PROVE FALSE
    OBVIOUS
  <2>1. Cardinality(H \ {o}) = 0
    BY FS_EmptySet
  <2> QED
    BY <1>1, <2>1
<1> QED
  BY <1>1, <1>2 DEF SlotLife

\* The last owner releases, and is now the thread in between.
LEMMA DroppedLast ==
    ASSUME NEW p, NEW H, NEW B, NEW o, IsFiniteSet(H),
           SlotLife(1, p, H, B), o \in H
    PROVE  SlotLife(0, p, H \ {o}, B \cup {o})
<1>1. Cardinality(H \ {o}) = 0 /\ IsFiniteSet(H \ {o})
  BY FS_RemoveElement DEF SlotLife
<1>2. H \ {o} = {}
  BY <1>1, FS_EmptySet
<1> QED
  BY <1>1, <1>2 DEF SlotLife

\* The thread in between puts the slot back.
LEMMA Returned ==
    ASSUME NEW n, NEW p, NEW H, NEW B, NEW o,
           SlotLife(n, p, H, B), o \in B
    PROVE  SlotLife(n, TRUE, H, B \ {o})
BY DEF SlotLife

\* A thread takes the slot out of the pool.
LEMMA Taken ==
    ASSUME NEW n, NEW p, NEW H, NEW B, NEW o,
           SlotLife(n, p, H, B), p
    PROVE  SlotLife(n, FALSE, H, B \cup {o})
BY DEF SlotLife

\* One owner hands its reference to another.
LEMMA Swapped ==
    ASSUME NEW n, NEW p, NEW H, NEW B, NEW o, NEW q, IsFiniteSet(H),
           SlotLife(n, p, H, B), o \in H, q \notin H
    PROVE  SlotLife(n, p, (H \ {o}) \cup {q}, B)
<1>1. Cardinality((H \ {o}) \cup {q}) = Cardinality(H)
  <2>1. IsFiniteSet(H \ {o}) /\ Cardinality(H \ {o}) = Cardinality(H) - 1
    BY FS_RemoveElement
  <2>2. Cardinality((H \ {o}) \cup {q}) = Cardinality(H) - 1 + 1
    BY <2>1, FS_AddElement
  <2>3. Cardinality(H) \in Nat
    BY FS_CardinalityType
  <2> QED
    BY <2>2, <2>3
<1> QED
  BY <1>1 DEF SlotLife

\* Only finitely many threads can own a reference.
LEMMA OwnersFinite == IsFiniteSet(Owners)
<1>1. IsFiniteSet(Consumers \cup {Producer})
  BY OwnersAssumption, FS_AddElement
<1>2. IsFiniteSet((Consumers \cup {Producer}) \cup {Channel})
  BY <1>1, FS_AddElement
<1>3. Owners = (Consumers \cup {Producer}) \cup {Channel}
  BY DEF Owners
<1> QED
  BY <1>2, <1>3

\* So every frame has finitely many owners.
LEMMA HoldersFinite == \A s : IsFiniteSet(Holders(s))
BY OwnersFinite, FS_Subset DEF Holders

\* A step takes slot s out of nobody's hands and puts it into nobody's.
SameHands(s) ==
    \A o \in Owners : /\ Holds(o, s)' <=> Holds(o, s)
                      /\ InBetween(o, s)' <=> InBetween(o, s)

\* A step that touches neither the count nor the pool flag of a slot, and neither
\* its owners nor the thread in between, keeps SlotOK.
LEMMA Untouched ==
    ASSUME NEW s \in Slots, SlotOK(s), refcount'[s] = refcount[s], in_pool'[s] = in_pool[s],
           SameHands(s)
    PROVE  SlotOK(s)'
<1>1. Holders(s)' = Holders(s)
  BY DEF Holders, SameHands
<1>2. Between(s)' = Between(s)
  BY DEF Between, SameHands
<1> QED
  BY <1>1, <1>2 DEF SlotOK

\* A step that leaves the counts, the pool and every hand alone keeps every slot
\* in order.
LEMMA AllUntouched ==
    ASSUME IInv, UNCHANGED <<refcount, in_pool>>, \A s \in Slots : SameHands(s)
    PROVE  \A s \in Slots : SlotOK(s)'
BY Untouched DEF IInv

\* A frame that has an owner has a positive count.
LEMMA HeldIsCounted ==
    ASSUME IInv, NEW s \in Slots, NEW o, o \in Holders(s)
    PROVE  refcount[s] \in Nat \ {0}
<1>1. refcount[s] = Cardinality(Holders(s)) /\ refcount[s] \in Nat
  BY DEF IInv, Control, TypeOK, SlotOK, SlotLife
<1> QED
  BY <1>1, HoldersFinite, FS_EmptySet

\* One owner drops its reference to one frame; the last one is then in between.
LEMMA ReferenceDropped ==
    ASSUME IInv, NEW x \in Slots, NEW o, o \in Holders(x),
           refcount' = [refcount EXCEPT ![x] = @ - 1], in_pool' = in_pool,
           Holders(x)' = Holders(x) \ {o},
           Between(x)' = IF refcount[x] = 1 THEN Between(x) \cup {o} ELSE Between(x),
           \A s \in Slots : s # x => SameHands(s)
    PROVE  \A s \in Slots : SlotOK(s)'
<1>1. refcount \in [Slots -> Nat] /\ SlotOK(x) /\ IsFiniteSet(Holders(x))
  BY HoldersFinite DEF IInv, Control, TypeOK
<1>2. ASSUME refcount[x] # 1 PROVE SlotOK(x)'
  <2>1. SlotLife(refcount[x] - 1, in_pool[x], Holders(x) \ {o}, Between(x))
    BY <1>1, <1>2, Dropped DEF SlotOK
  <2> QED
    BY <1>1, <1>2, <2>1 DEF SlotOK
<1>3. ASSUME refcount[x] = 1 PROVE SlotOK(x)'
  <2>1. SlotLife(0, in_pool[x], Holders(x) \ {o}, Between(x) \cup {o})
    BY <1>1, <1>3, DroppedLast DEF SlotOK
  <2>2. refcount'[x] = 0
    BY <1>1, <1>3
  <2> QED
    BY <1>3, <2>1, <2>2 DEF SlotOK
<1>4. ASSUME NEW s \in Slots, s # x PROVE SlotOK(s)'
  BY <1>1, <1>4, Untouched DEF IInv
<1> QED
  BY <1>2, <1>3, <1>4

\* One thread puts the slot it is in between of back into the pool.
LEMMA ReferenceReturned ==
    ASSUME IInv, NEW x \in Slots, NEW o, o \in Between(x),
           in_pool' = [in_pool EXCEPT ![x] = TRUE], refcount' = refcount,
           Holders(x)' = Holders(x), Between(x)' = Between(x) \ {o},
           \A s \in Slots : s # x => SameHands(s)
    PROVE  \A s \in Slots : SlotOK(s)'
<1>1. in_pool \in [Slots -> BOOLEAN] /\ SlotOK(x)
  BY DEF IInv, Control, TypeOK
<1>2. SlotOK(x)'
  <2>1. SlotLife(refcount[x], TRUE, Holders(x), Between(x) \ {o})
    BY <1>1, Returned DEF SlotOK
  <2>2. in_pool'[x] = TRUE
    BY <1>1
  <2> QED
    BY <2>1, <2>2 DEF SlotOK
<1>3. ASSUME NEW s \in Slots, s # x PROVE SlotOK(s)'
  BY <1>1, <1>3, Untouched DEF IInv
<1> QED
  BY <1>2, <1>3

-----------------------------------------------------------------------------
(* Steps that leave every slot in the same hands.                          *)

\* The producer fills the frame, stores latest_seq_ or wakes a subscriber.
LEMMA ProducerQuiet ==
    ASSUME IInv,
           \/ Fill \/ StoreSeq \/ SnapshotSubs \/ BumpTarget \/ WakeTarget \/ Stop
           \/ \E c \in Consumers : CheckTarget(c)
    PROVE  IInv'
<1>1. CASE Fill
  <2>1. Control'
    BY <1>1
    DEF IInv, Control, TypeOK, PointsOK, Distinct, NotStarted, Fill, ProducerPoints,
       WorkerPoints, OwnerPoints, Retaining, Recycling, channelVars, subVars, workVars
  <2>2. ASSUME NEW s \in Slots PROVE SameHands(s)
    BY <1>1, SlotsAssumption, OwnersAssumption
    DEF SameHands, Holds, InBetween, Owners, IInv, Control, TypeOK, PointsOK, Distinct,
       NotStarted, Fill, Retaining, Recycling, channelVars, subVars, workVars
  <2>3. UNCHANGED <<refcount, in_pool>>
    BY <1>1 DEF Fill
  <2> QED
    BY <2>1, <2>2, <2>3, AllUntouched DEF IInv
<1>2. CASE StoreSeq
  <2>1. Control'
    BY <1>2
    DEF IInv, Control, TypeOK, PointsOK, Distinct, NotStarted, StoreSeq, ProducerPoints,
       WorkerPoints, OwnerPoints, Retaining, Recycling, frameVars, subVars, workVars
  <2>2. ASSUME NEW s \in Slots PROVE SameHands(s)
    BY <1>2, SlotsAssumption, OwnersAssumption
    DEF SameHands, Holds, InBetween, Owners, IInv, Control, TypeOK, PointsOK, Distinct,
       NotStarted, StoreSeq, Retaining, Recycling, frameVars, subVars, workVars
  <2>3. UNCHANGED <<refcount, in_pool>>
    BY <1>2 DEF StoreSeq, frameVars
  <2> QED
    BY <2>1, <2>2, <2>3, AllUntouched DEF IInv
<1>3. CASE SnapshotSubs
  <2>1. Control'
    BY <1>3
    DEF IInv, Control, TypeOK, PointsOK, Distinct, NotStarted, SnapshotSubs, NextTarget,
       ProducerPoints, WorkerPoints, OwnerPoints, Retaining, Recycling, channelVars,
       frameVars, subVars, workVars
  <2>2. ASSUME NEW s \in Slots PROVE SameHands(s)
    BY <1>3, SlotsAssumption, OwnersAssumption
    DEF SameHands, Holds, InBetween, Owners, IInv, Control, TypeOK, PointsOK, Distinct,
       NotStarted, SnapshotSubs, NextTarget, Retaining, Recycling, channelVars,
       frameVars, subVars, workVars
  <2>3. UNCHANGED <<refcount, in_pool>>
    BY <1>3 DEF SnapshotSubs, NextTarget, frameVars
  <2> QED
    BY <2>1, <2>2, <2>3, AllUntouched DEF IInv
<1>4. ASSUME NEW c \in Consumers, CheckTarget(c) PROVE IInv'
  <2>1. Control'
    BY <1>4
    DEF IInv, Control, TypeOK, PointsOK, Distinct, NotStarted, CheckTarget, NextTarget,
       ProducerPoints, WorkerPoints, OwnerPoints, Retaining, Recycling, channelVars,
       frameVars, subVars, workVars
  <2>2. ASSUME NEW s \in Slots PROVE SameHands(s)
    BY <1>4, SlotsAssumption, OwnersAssumption
    DEF SameHands, Holds, InBetween, Owners, IInv, Control, TypeOK, PointsOK, Distinct,
       NotStarted, CheckTarget, NextTarget, Retaining, Recycling, channelVars,
       frameVars, subVars, workVars
  <2>3. UNCHANGED <<refcount, in_pool>>
    BY <1>4 DEF CheckTarget, NextTarget, frameVars
  <2> QED
    BY <2>1, <2>2, <2>3, AllUntouched DEF IInv
<1>5. CASE BumpTarget
  <2>1. Control'
    BY <1>5
    DEF IInv, Control, TypeOK, PointsOK, Distinct, NotStarted, BumpTarget,
       ProducerPoints, WorkerPoints, OwnerPoints, Retaining, Recycling, channelVars,
       frameVars, workVars
  <2>2. ASSUME NEW s \in Slots PROVE SameHands(s)
    BY <1>5, SlotsAssumption, OwnersAssumption
    DEF SameHands, Holds, InBetween, Owners, IInv, Control, TypeOK, PointsOK, Distinct,
       NotStarted, BumpTarget, Retaining, Recycling, channelVars, frameVars, workVars
  <2>3. UNCHANGED <<refcount, in_pool>>
    BY <1>5 DEF BumpTarget, frameVars
  <2> QED
    BY <2>1, <2>2, <2>3, AllUntouched DEF IInv
<1>6. CASE WakeTarget
  <2>1. Control'
    BY <1>6
    DEF IInv, Control, TypeOK, PointsOK, Distinct, NotStarted, WakeTarget, NextTarget,
       Notify, ProducerPoints, WorkerPoints, OwnerPoints, Retaining, Recycling,
       channelVars, frameVars, subVars
  <2>2. ASSUME NEW s \in Slots PROVE SameHands(s)
    BY <1>6, SlotsAssumption, OwnersAssumption
    DEF SameHands, Holds, InBetween, Owners, IInv, Control, TypeOK, PointsOK, Distinct,
       NotStarted, WakeTarget, NextTarget, Notify, Retaining, Recycling, channelVars,
       frameVars, subVars
  <2>3. UNCHANGED <<refcount, in_pool>>
    BY <1>6 DEF WakeTarget, NextTarget, Notify, frameVars
  <2> QED
    BY <2>1, <2>2, <2>3, AllUntouched DEF IInv
<1>7. CASE Stop
  <2>1. Control'
    BY <1>7
    DEF IInv, Control, TypeOK, PointsOK, Distinct, NotStarted, Stop, ProducerPoints,
       WorkerPoints, OwnerPoints, Retaining, Recycling, channelVars, frameVars, subVars,
       workVars
  <2>2. ASSUME NEW s \in Slots PROVE SameHands(s)
    BY <1>7, SlotsAssumption, OwnersAssumption
    DEF SameHands, Holds, InBetween, Owners, IInv, Control, TypeOK, PointsOK, Distinct,
       NotStarted, Stop, Retaining, Recycling, channelVars, frameVars, subVars, workVars
  <2>3. UNCHANGED <<refcount, in_pool>>
    BY <1>7 DEF Stop, frameVars
  <2> QED
    BY <2>1, <2>2, <2>3, AllUntouched DEF IInv
<1> QED
  BY <1>1, <1>2, <1>3, <1>4, <1>5, <1>6, <1>7

\* A worker loads, compares, or goes to sleep.
LEMMA WorkerQuiet ==
    ASSUME IInv, NEW c \in Consumers,
           \/ Loop(c) \/ Top(c) \/ CheckSeq(c) \/ LoadLatest(c) \/ Verify(c)
           \/ Compare(c) \/ CaptureToken(c) \/ RecheckAttached(c)
           \/ RecheckSeq(c) \/ Wait(c)
    PROVE  IInv'
<1>1. CASE Loop(c)
  <2>1. Control'
    BY <1>1
    DEF IInv, Control, TypeOK, PointsOK, Distinct, NotStarted, Loop, Goto, Published,
       ProducerPoints, WorkerPoints, OwnerPoints, Retaining, Recycling, channelVars,
       frameVars, subVars, prodVars
  <2>2. ASSUME NEW s \in Slots PROVE SameHands(s)
    BY <1>1, SlotsAssumption, OwnersAssumption
    DEF SameHands, Holds, InBetween, Owners, IInv, Control, TypeOK, PointsOK, Distinct,
       NotStarted, Loop, Goto, Published, Retaining, Recycling, channelVars, frameVars,
       subVars, prodVars
  <2>3. UNCHANGED <<refcount, in_pool>>
    BY <1>1 DEF Loop, Goto, Published, frameVars
  <2> QED
    BY <2>1, <2>2, <2>3, AllUntouched DEF IInv
<1>2. CASE Top(c)
  <2>1. Control'
    BY <1>2
    DEF IInv, Control, TypeOK, PointsOK, Distinct, NotStarted, Top, Goto, OnlyMoves,
       ProducerPoints, WorkerPoints, OwnerPoints, Retaining, Recycling, channelVars,
       frameVars, subVars, prodVars
  <2>2. ASSUME NEW s \in Slots PROVE SameHands(s)
    BY <1>2, SlotsAssumption, OwnersAssumption
    DEF SameHands, Holds, InBetween, Owners, IInv, Control, TypeOK, PointsOK, Distinct,
       NotStarted, Top, Goto, OnlyMoves, Retaining, Recycling, channelVars, frameVars,
       subVars, prodVars
  <2>3. UNCHANGED <<refcount, in_pool>>
    BY <1>2 DEF Top, Goto, OnlyMoves, frameVars
  <2> QED
    BY <2>1, <2>2, <2>3, AllUntouched DEF IInv
<1>3. CASE CheckSeq(c)
  <2>1. Control'
    BY <1>3
    DEF IInv, Control, TypeOK, PointsOK, Distinct, NotStarted, CheckSeq, Goto,
       OnlyMoves, ProducerPoints, WorkerPoints, OwnerPoints, Retaining, Recycling,
       channelVars, frameVars, subVars, prodVars
  <2>2. ASSUME NEW s \in Slots PROVE SameHands(s)
    BY <1>3, SlotsAssumption, OwnersAssumption
    DEF SameHands, Holds, InBetween, Owners, IInv, Control, TypeOK, PointsOK, Distinct,
       NotStarted, CheckSeq, Goto, OnlyMoves, Retaining, Recycling, channelVars,
       frameVars, subVars, prodVars
  <2>3. UNCHANGED <<refcount, in_pool>>
    BY <1>3 DEF CheckSeq, Goto, OnlyMoves, frameVars
  <2> QED
    BY <2>1, <2>2, <2>3, AllUntouched DEF IInv
<1>4. CASE LoadLatest(c)
  <2>1. Control'
    BY <1>4
    DEF IInv, Control, TypeOK, PointsOK, Distinct, NotStarted, LoadLatest, Goto,
       ProducerPoints, WorkerPoints, OwnerPoints, Retaining, Recycling, channelVars,
       frameVars, subVars, prodVars
  <2>2. ASSUME NEW s \in Slots PROVE SameHands(s)
    BY <1>4, SlotsAssumption, OwnersAssumption
    DEF SameHands, Holds, InBetween, Owners, IInv, Control, TypeOK, PointsOK, Distinct,
       NotStarted, LoadLatest, Goto, Retaining, Recycling, channelVars, frameVars,
       subVars, prodVars
  <2>3. UNCHANGED <<refcount, in_pool>>
    BY <1>4 DEF LoadLatest, Goto, frameVars
  <2> QED
    BY <2>1, <2>2, <2>3, AllUntouched DEF IInv
<1>5. CASE Verify(c)
  <2>1. Control'
    BY <1>5
    DEF IInv, Control, TypeOK, PointsOK, Distinct, NotStarted, Verify, Goto, OnlyMoves,
       ProducerPoints, WorkerPoints, OwnerPoints, Retaining, Recycling, channelVars,
       frameVars, subVars, prodVars
  <2>2. ASSUME NEW s \in Slots PROVE SameHands(s)
    BY <1>5, SlotsAssumption, OwnersAssumption
    DEF SameHands, Holds, InBetween, Owners, IInv, Control, TypeOK, PointsOK, Distinct,
       NotStarted, Verify, Goto, OnlyMoves, Retaining, Recycling, channelVars,
       frameVars, subVars, prodVars
  <2>3. UNCHANGED <<refcount, in_pool>>
    BY <1>5 DEF Verify, Goto, OnlyMoves, frameVars
  <2> QED
    BY <2>1, <2>2, <2>3, AllUntouched DEF IInv
<1>6. CASE Compare(c)
  <2>1. Control'
    BY <1>6
    DEF IInv, Control, TypeOK, PointsOK, Distinct, NotStarted, Compare, Goto,
       ProducerPoints, WorkerPoints, OwnerPoints, Retaining, Recycling, channelVars,
       frameVars, prodVars
  <2>2. ASSUME NEW s \in Slots PROVE SameHands(s)
    BY <1>6, SlotsAssumption, OwnersAssumption
    DEF SameHands, Holds, InBetween, Owners, IInv, Control, TypeOK, PointsOK, Distinct,
       NotStarted, Compare, Goto, Retaining, Recycling, channelVars, frameVars, prodVars
  <2>3. UNCHANGED <<refcount, in_pool>>
    BY <1>6 DEF Compare, Goto, frameVars
  <2> QED
    BY <2>1, <2>2, <2>3, AllUntouched DEF IInv
<1>7. CASE CaptureToken(c)
  <2>1. Control'
    BY <1>7
    DEF IInv, Control, TypeOK, PointsOK, Distinct, NotStarted, CaptureToken, Goto,
       ProducerPoints, WorkerPoints, OwnerPoints, Retaining, Recycling, channelVars,
       frameVars, subVars, prodVars
  <2>2. ASSUME NEW s \in Slots PROVE SameHands(s)
    BY <1>7, SlotsAssumption, OwnersAssumption
    DEF SameHands, Holds, InBetween, Owners, IInv, Control, TypeOK, PointsOK, Distinct,
       NotStarted, CaptureToken, Goto, Retaining, Recycling, channelVars, frameVars,
       subVars, prodVars
  <2>3. UNCHANGED <<refcount, in_pool>>
    BY <1>7 DEF CaptureToken, Goto, frameVars
  <2> QED
    BY <2>1, <2>2, <2>3, AllUntouched DEF IInv
<1>8. CASE RecheckAttached(c)
  <2>1. Control'
    BY <1>8
    DEF IInv, Control, TypeOK, PointsOK, Distinct, NotStarted, RecheckAttached, Goto,
       LeaveWait, ProducerPoints, WorkerPoints, OwnerPoints, Retaining, Recycling,
       channelVars, frameVars, subVars, prodVars
  <2>2. ASSUME NEW s \in Slots PROVE SameHands(s)
    BY <1>8, SlotsAssumption, OwnersAssumption
    DEF SameHands, Holds, InBetween, Owners, IInv, Control, TypeOK, PointsOK, Distinct,
       NotStarted, RecheckAttached, Goto, LeaveWait, Retaining, Recycling, channelVars,
       frameVars, subVars, prodVars
  <2>3. UNCHANGED <<refcount, in_pool>>
    BY <1>8 DEF RecheckAttached, Goto, LeaveWait, frameVars
  <2> QED
    BY <2>1, <2>2, <2>3, AllUntouched DEF IInv
<1>9. CASE RecheckSeq(c)
  <2>1. Control'
    BY <1>9
    DEF IInv, Control, TypeOK, PointsOK, Distinct, NotStarted, RecheckSeq, Goto,
       LeaveWait, ProducerPoints, WorkerPoints, OwnerPoints, Retaining, Recycling,
       channelVars, frameVars, subVars, prodVars
  <2>2. ASSUME NEW s \in Slots PROVE SameHands(s)
    BY <1>9, SlotsAssumption, OwnersAssumption
    DEF SameHands, Holds, InBetween, Owners, IInv, Control, TypeOK, PointsOK, Distinct,
       NotStarted, RecheckSeq, Goto, LeaveWait, Retaining, Recycling, channelVars,
       frameVars, subVars, prodVars
  <2>3. UNCHANGED <<refcount, in_pool>>
    BY <1>9 DEF RecheckSeq, Goto, LeaveWait, frameVars
  <2> QED
    BY <2>1, <2>2, <2>3, AllUntouched DEF IInv
<1>10. CASE Wait(c)
  <2>1. Control'
    BY <1>10
    DEF IInv, Control, TypeOK, PointsOK, Distinct, NotStarted, Wait, Goto, LeaveWait,
       ProducerPoints, WorkerPoints, OwnerPoints, Retaining, Recycling, channelVars,
       frameVars, subVars, prodVars
  <2>2. ASSUME NEW s \in Slots PROVE SameHands(s)
    BY <1>10, SlotsAssumption, OwnersAssumption
    DEF SameHands, Holds, InBetween, Owners, IInv, Control, TypeOK, PointsOK, Distinct,
       NotStarted, Wait, Goto, LeaveWait, Retaining, Recycling, channelVars, frameVars,
       subVars, prodVars
  <2>3. UNCHANGED <<refcount, in_pool>>
    BY <1>10 DEF Wait, Goto, LeaveWait, frameVars
  <2> QED
    BY <2>1, <2>2, <2>3, AllUntouched DEF IInv
<1> QED
  BY <1>1, <1>2, <1>3, <1>4, <1>5, <1>6, <1>7, <1>8, <1>9, <1>10

\* An owner attaches or detaches.
LEMMA OwnerQuiet ==
    ASSUME IInv, NEW c \in Consumers,
           \/ Subscribe(c) \/ Attach(c) \/ BeginDetach(c) \/ MarkDetached(c)
           \/ DetachBump(c) \/ DetachNotify(c) \/ Unlist(c) \/ Join(c)
    PROVE  IInv'
<1>1. CASE Subscribe(c)
  <2>1. Control'
    BY <1>1
    DEF IInv, Control, TypeOK, PointsOK, Distinct, NotStarted, Subscribe,
       ProducerPoints, WorkerPoints, OwnerPoints, Retaining, Recycling, channelVars,
       frameVars, prodVars, workVars
  <2>2. ASSUME NEW s \in Slots PROVE SameHands(s)
    BY <1>1, SlotsAssumption, OwnersAssumption
    DEF SameHands, Holds, InBetween, Owners, IInv, Control, TypeOK, PointsOK, Distinct,
       NotStarted, Subscribe, Retaining, Recycling, channelVars, frameVars, prodVars,
       workVars
  <2>3. UNCHANGED <<refcount, in_pool>>
    BY <1>1 DEF Subscribe, frameVars
  <2> QED
    BY <2>1, <2>2, <2>3, AllUntouched DEF IInv
<1>2. CASE Attach(c)
  <2>1. Control'
    BY <1>2
    DEF IInv, Control, TypeOK, PointsOK, Distinct, NotStarted, Attach, Goto,
       ProducerPoints, WorkerPoints, OwnerPoints, Retaining, Recycling, frameVars,
       subVars, prodVars
  <2>2. ASSUME NEW s \in Slots PROVE SameHands(s)
    BY <1>2, SlotsAssumption, OwnersAssumption
    DEF SameHands, Holds, InBetween, Owners, IInv, Control, TypeOK, PointsOK, Distinct,
       NotStarted, Attach, Goto, Retaining, Recycling, frameVars, subVars, prodVars
  <2>3. UNCHANGED <<refcount, in_pool>>
    BY <1>2 DEF Attach, Goto, frameVars
  <2> QED
    BY <2>1, <2>2, <2>3, AllUntouched DEF IInv
<1>3. CASE BeginDetach(c)
  <2>1. Control'
    BY <1>3
    DEF IInv, Control, TypeOK, PointsOK, Distinct, NotStarted, BeginDetach,
       ProducerPoints, WorkerPoints, OwnerPoints, Retaining, Recycling, channelVars,
       frameVars, subVars, prodVars, workVars
  <2>2. ASSUME NEW s \in Slots PROVE SameHands(s)
    BY <1>3, SlotsAssumption, OwnersAssumption
    DEF SameHands, Holds, InBetween, Owners, IInv, Control, TypeOK, PointsOK, Distinct,
       NotStarted, BeginDetach, Retaining, Recycling, channelVars, frameVars, subVars,
       prodVars, workVars
  <2>3. UNCHANGED <<refcount, in_pool>>
    BY <1>3 DEF BeginDetach, frameVars
  <2> QED
    BY <2>1, <2>2, <2>3, AllUntouched DEF IInv
<1>4. CASE MarkDetached(c)
  <2>1. Control'
    BY <1>4
    DEF IInv, Control, TypeOK, PointsOK, Distinct, NotStarted, MarkDetached,
       ProducerPoints, WorkerPoints, OwnerPoints, Retaining, Recycling, channelVars,
       frameVars, prodVars, workVars
  <2>2. ASSUME NEW s \in Slots PROVE SameHands(s)
    BY <1>4, SlotsAssumption, OwnersAssumption
    DEF SameHands, Holds, InBetween, Owners, IInv, Control, TypeOK, PointsOK, Distinct,
       NotStarted, MarkDetached, Retaining, Recycling, channelVars, frameVars, prodVars,
       workVars
  <2>3. UNCHANGED <<refcount, in_pool>>
    BY <1>4 DEF MarkDetached, frameVars
  <2> QED
    BY <2>1, <2>2, <2>3, AllUntouched DEF IInv
<1>5. CASE DetachBump(c)
  <2>1. Control'
    BY <1>5
    DEF IInv, Control, TypeOK, PointsOK, Distinct, NotStarted, DetachBump,
       ProducerPoints, WorkerPoints, OwnerPoints, Retaining, Recycling, channelVars,
       frameVars, prodVars, workVars
  <2>2. ASSUME NEW s \in Slots PROVE SameHands(s)
    BY <1>5, SlotsAssumption, OwnersAssumption
    DEF SameHands, Holds, InBetween, Owners, IInv, Control, TypeOK, PointsOK, Distinct,
       NotStarted, DetachBump, Retaining, Recycling, channelVars, frameVars, prodVars,
       workVars
  <2>3. UNCHANGED <<refcount, in_pool>>
    BY <1>5 DEF DetachBump, frameVars
  <2> QED
    BY <2>1, <2>2, <2>3, AllUntouched DEF IInv
<1>6. CASE DetachNotify(c)
  <2>1. Control'
    BY <1>6
    DEF IInv, Control, TypeOK, PointsOK, Distinct, NotStarted, DetachNotify, Notify,
       ProducerPoints, WorkerPoints, OwnerPoints, Retaining, Recycling, channelVars,
       frameVars, subVars, prodVars
  <2>2. ASSUME NEW s \in Slots PROVE SameHands(s)
    BY <1>6, SlotsAssumption, OwnersAssumption
    DEF SameHands, Holds, InBetween, Owners, IInv, Control, TypeOK, PointsOK, Distinct,
       NotStarted, DetachNotify, Notify, Retaining, Recycling, channelVars, frameVars,
       subVars, prodVars
  <2>3. UNCHANGED <<refcount, in_pool>>
    BY <1>6 DEF DetachNotify, Notify, frameVars
  <2> QED
    BY <2>1, <2>2, <2>3, AllUntouched DEF IInv
<1>7. CASE Unlist(c)
  <2>1. Control'
    BY <1>7
    DEF IInv, Control, TypeOK, PointsOK, Distinct, NotStarted, Unlist, ProducerPoints,
       WorkerPoints, OwnerPoints, Retaining, Recycling, frameVars, subVars, prodVars,
       workVars
  <2>2. ASSUME NEW s \in Slots PROVE SameHands(s)
    BY <1>7, SlotsAssumption, OwnersAssumption
    DEF SameHands, Holds, InBetween, Owners, IInv, Control, TypeOK, PointsOK, Distinct,
       NotStarted, Unlist, Retaining, Recycling, frameVars, subVars, prodVars, workVars
  <2>3. UNCHANGED <<refcount, in_pool>>
    BY <1>7 DEF Unlist, frameVars
  <2> QED
    BY <2>1, <2>2, <2>3, AllUntouched DEF IInv
<1>8. CASE Join(c)
  <2>1. Control'
    BY <1>8
    DEF IInv, Control, TypeOK, PointsOK, Distinct, NotStarted, Join, ProducerPoints,
       WorkerPoints, OwnerPoints, Retaining, Recycling, channelVars, frameVars, subVars,
       prodVars, workVars
  <2>2. ASSUME NEW s \in Slots PROVE SameHands(s)
    BY <1>8, SlotsAssumption, OwnersAssumption
    DEF SameHands, Holds, InBetween, Owners, IInv, Control, TypeOK, PointsOK, Distinct,
       NotStarted, Join, Retaining, Recycling, channelVars, frameVars, subVars,
       prodVars, workVars
  <2>3. UNCHANGED <<refcount, in_pool>>
    BY <1>8 DEF Join, frameVars
  <2> QED
    BY <2>1, <2>2, <2>3, AllUntouched DEF IInv
<1> QED
  BY <1>1, <1>2, <1>3, <1>4, <1>5, <1>6, <1>7, <1>8

-----------------------------------------------------------------------------
(* Steps that move one slot.                                               *)

\* acquire() takes a free slot out of the pool.
LEMMA AcquireMoves ==
    ASSUME IInv, NEW x \in Slots, Acquire(x)
    PROVE  IInv'
<1>1. SlotOK(x) /\ Holders(x) = {} /\ Between(x) = {} /\ latest # x
  BY OwnersAssumption DEF IInv, SlotOK, SlotLife, Acquire, Holders, Holds, Owners
<1>2. Control'
  BY <1>1
  DEF IInv, Control, TypeOK, PointsOK, Distinct, NotStarted, Acquire, ProducerPoints,
     WorkerPoints, OwnerPoints, Retaining, Recycling, channelVars, subVars, workVars
<1>3. SlotOK(x)'
  <2>1. Holders(x)' = Holders(x) /\ Between(x)' = Between(x) \cup {Producer}
    BY <1>1, OwnersAssumption
    DEF Holders, Between, Holds, InBetween, Owners, Acquire, Retaining, Recycling,
       channelVars, subVars, workVars
  <2>2. refcount'[x] = refcount[x] /\ in_pool'[x] = FALSE /\ in_pool[x]
    BY DEF IInv, Control, TypeOK, PointsOK, Distinct, NotStarted, Acquire
  <2>3. SlotLife(refcount[x], FALSE, Holders(x), Between(x) \cup {Producer})
    BY <1>1, <2>2, Taken DEF SlotOK
  <2> QED
    BY <2>1, <2>2, <2>3 DEF SlotOK
<1>4. ASSUME NEW s \in Slots, s # x PROVE SlotOK(s)'
  <2>1. SameHands(s)
    BY <1>4, OwnersAssumption
    DEF SameHands, Holds, InBetween, Owners, IInv, Control, TypeOK, PointsOK, Distinct,
       NotStarted, Acquire, Retaining, Recycling, channelVars, subVars, workVars
  <2>2. refcount'[s] = refcount[s] /\ in_pool'[s] = in_pool[s]
    BY <1>4 DEF IInv, Control, TypeOK, PointsOK, Distinct, NotStarted, Acquire
  <2> QED
    BY <2>1, <2>2, Untouched DEF IInv
<1> QED
  BY <1>2, <1>3, <1>4 DEF IInv

\* reset_for_acquire() counts the producer's reference.
LEMMA ResetCounts ==
    ASSUME IInv, ResetForAcquire
    PROVE  IInv'
<1> DEFINE x == pframe
<1>1. x \in Slots /\ SlotOK(x) /\ Producer \in Between(x)
  BY DEF IInv, Control, TypeOK, PointsOK, Distinct, NotStarted, ResetForAcquire,
     Between, InBetween, Owners
<1>2. Control'
  BY <1>1
  DEF IInv, Control, TypeOK, PointsOK, Distinct, NotStarted, ResetForAcquire,
     ProducerPoints, WorkerPoints, OwnerPoints, Retaining, Recycling, channelVars,
     subVars, workVars
<1>3. SlotOK(x)'
  <2>1. Holders(x) = {} /\ Between(x) = {Producer}
    BY <1>1 DEF SlotOK, SlotLife
  <2>2. Holders(x)' = {Producer}
    BY <2>1, OwnersAssumption
    DEF Holders, Holds, Owners, ResetForAcquire, Retaining, channelVars, subVars,
       workVars
  <2>3. Between(x)' = {}
    BY <2>1, OwnersAssumption
    DEF Between, InBetween, Owners, ResetForAcquire, Recycling, channelVars, subVars,
       workVars
  <2>4. refcount'[x] = 1 /\ in_pool'[x] = in_pool[x] /\ x' = x
    BY <1>1 DEF IInv, Control, TypeOK, PointsOK, Distinct, NotStarted, ResetForAcquire
  <2> QED
    BY <1>1, <2>2, <2>3, <2>4, Counted DEF SlotOK
<1>4. ASSUME NEW s \in Slots, s # x PROVE SlotOK(s)'
  <2>1. SameHands(s)
    BY <1>4, OwnersAssumption
    DEF SameHands, Holds, InBetween, Owners, IInv, Control, TypeOK, PointsOK, Distinct,
       NotStarted, ResetForAcquire, Retaining, Recycling, channelVars, subVars, workVars
  <2>2. refcount'[s] = refcount[s] /\ in_pool'[s] = in_pool[s]
    BY <1>4 DEF IInv, Control, TypeOK, PointsOK, Distinct, NotStarted, ResetForAcquire
  <2> QED
    BY <2>1, <2>2, Untouched DEF IInv
<1>5. x' = x
  BY DEF ResetForAcquire
<1> QED
  BY <1>2, <1>3, <1>4, <1>5 DEF IInv

\* exchange() hands the new frame to the channel and the old one to the producer.
LEMMA ExchangeSwaps ==
    ASSUME IInv, Exchange
    PROVE  IInv'
<1> DEFINE x == pframe
<1> DEFINE y == latest
<1>1. /\ x \in Slots /\ x # y /\ SlotOK(x)
      /\ Producer \in Holders(x) /\ Channel \notin Holders(x)
  BY OwnersAssumption
  DEF IInv, Control, TypeOK, PointsOK, Distinct, NotStarted, Exchange, Holders, Holds,
     Owners
<1>2. Control'
  BY <1>1
  DEF IInv, Control, TypeOK, PointsOK, Distinct, NotStarted, Exchange, ProducerPoints,
     WorkerPoints, OwnerPoints, Retaining, Recycling, frameVars, subVars, workVars
<1>3. ASSUME NEW s \in Slots, s = x PROVE SlotOK(s)'
  <2>1. Holders(s)' = (Holders(s) \ {Producer}) \cup {Channel}
    BY <1>1, <1>3, OwnersAssumption
    DEF Holders, Holds, Owners, Exchange, Retaining, frameVars, subVars, workVars
  <2>2. Between(s)' = Between(s)
    BY <1>1, <1>3, OwnersAssumption
    DEF Between, InBetween, Owners, Exchange, Recycling, frameVars, subVars, workVars
  <2>3. SlotLife(refcount[s], in_pool[s],
                (Holders(s) \ {Producer}) \cup {Channel}, Between(s))
    BY <1>1, <1>3, Swapped, HoldersFinite DEF SlotOK
  <2> QED
    BY <2>1, <2>2, <2>3 DEF SlotOK, Exchange, frameVars
<1>4. ASSUME NEW s \in Slots, s = y PROVE SlotOK(s)'
  <2>1. Channel \in Holders(s) /\ Producer \notin Holders(s)
    BY <1>1, <1>4, OwnersAssumption DEF Holders, Holds, Owners, Exchange
  <2>2. Holders(s)' = (Holders(s) \ {Channel}) \cup {Producer}
    BY <1>1, <1>4, <2>1, OwnersAssumption
    DEF Holders, Holds, Owners, Exchange, Retaining, frameVars, subVars, workVars
  <2>3. Between(s)' = Between(s)
    BY <1>1, <1>4, OwnersAssumption
    DEF Between, InBetween, Owners, Exchange, Recycling, frameVars, subVars, workVars
  <2>4. SlotLife(refcount[s], in_pool[s],
                (Holders(s) \ {Channel}) \cup {Producer}, Between(s))
    BY <1>4, <2>1, Swapped, HoldersFinite DEF SlotOK, IInv
  <2> QED
    BY <2>2, <2>3, <2>4 DEF SlotOK, Exchange, frameVars
<1>5. ASSUME NEW s \in Slots, s # x, s # y PROVE SlotOK(s)'
  <2>1. SameHands(s)
    BY <1>5, OwnersAssumption
    DEF SameHands, Holds, InBetween, Owners, Exchange, Retaining, Recycling, frameVars,
       subVars, workVars
  <2>2. UNCHANGED <<refcount, in_pool>>
    BY DEF Exchange, frameVars
  <2> QED
    BY <2>1, <2>2, Untouched DEF IInv
<1> QED
  BY <1>2, <1>3, <1>4, <1>5 DEF IInv

\* The destructor of the channel takes over the reference of latest_.
LEMMA DestroySwaps ==
    ASSUME IInv, Destroy
    PROVE  IInv'
<1> DEFINE y == latest
<1>1. Control'
  BY SlotsAssumption
  DEF IInv, Control, TypeOK, PointsOK, Distinct, NotStarted, Destroy, ProducerPoints,
     WorkerPoints, OwnerPoints, Retaining, Recycling, frameVars, subVars, workVars
<1>2. ASSUME NEW s \in Slots, s = y PROVE SlotOK(s)'
  <2>1. Channel \in Holders(s) /\ Producer \notin Holders(s)
    BY <1>2, OwnersAssumption DEF Holders, Holds, Owners, Destroy
  <2>2. Holders(s)' = (Holders(s) \ {Channel}) \cup {Producer}
    BY <1>2, <2>1, SlotsAssumption, OwnersAssumption
    DEF Holders, Holds, Owners, Destroy, Retaining, frameVars, subVars, workVars
  <2>3. Between(s)' = Between(s)
    BY <1>2, OwnersAssumption
    DEF Between, InBetween, Owners, Destroy, Recycling, frameVars, subVars, workVars
  <2>4. SlotLife(refcount[s], in_pool[s],
                (Holders(s) \ {Channel}) \cup {Producer}, Between(s))
    BY <1>2, <2>1, Swapped, HoldersFinite DEF SlotOK, IInv
  <2> QED
    BY <2>2, <2>3, <2>4 DEF SlotOK, Destroy, frameVars
<1>3. ASSUME NEW s \in Slots, s # y PROVE SlotOK(s)'
  <2>1. SameHands(s)
    BY <1>3, SlotsAssumption, OwnersAssumption
    DEF SameHands, Holds, InBetween, Owners, Destroy, Retaining, Recycling, frameVars,
       subVars, workVars
  <2>2. UNCHANGED <<refcount, in_pool>>
    BY DEF Destroy, frameVars
  <2> QED
    BY <2>1, <2>2, Untouched DEF IInv
<1> QED
  BY <1>1, <1>2, <1>3 DEF IInv

\* publish() releases the frame it evicted.
LEMMA ReleaseOldDrops ==
    ASSUME IInv, ReleaseOld
    PROVE  IInv'
<1>1. PICK x \in Slots : x = pold
  BY DEF IInv, Control, TypeOK, PointsOK, Distinct, NotStarted, ReleaseOld, Drop,
     IsLast, Retaining
<1>2. Producer \in Holders(x)
  BY <1>1, OwnersAssumption
  DEF Holders, Holds, Owners, Retaining, ReleaseOld, Drop, IsLast
<1>3. refcount[x] \in Nat \ {0}
  BY <1>2, HeldIsCounted
<1>4. Control'
  BY <1>1, <1>3, SlotsAssumption
  DEF IInv, Control, TypeOK, PointsOK, Distinct, NotStarted, ReleaseOld, Drop, IsLast,
     ProducerPoints, WorkerPoints, OwnerPoints, Retaining, Recycling, channelVars,
     subVars, workVars
<1>5. refcount' = [refcount EXCEPT ![x] = @ - 1] /\ in_pool' = in_pool
  BY <1>1 DEF ReleaseOld, Drop, IsLast
<1>6. Holders(x)' = Holders(x) \ {Producer}
  BY <1>1, SlotsAssumption, OwnersAssumption
  DEF Holders, Holds, Owners, IInv, Control, TypeOK, PointsOK, Distinct, NotStarted,
     ReleaseOld, Drop, IsLast, Retaining, channelVars, subVars, workVars
<1>7. Between(x)' = IF refcount[x] = 1 THEN Between(x) \cup {Producer} ELSE Between(x)
  BY <1>1, SlotsAssumption, OwnersAssumption
  DEF Between, InBetween, Owners, IInv, Control, TypeOK, PointsOK, Distinct, NotStarted,
     ReleaseOld, Drop, IsLast, Retaining, Recycling, channelVars, subVars, workVars
<1>8. ASSUME NEW s \in Slots, s # x PROVE SameHands(s)
  BY <1>1, <1>8, SlotsAssumption, OwnersAssumption
  DEF SameHands, Holds, InBetween, Owners, IInv, Control, TypeOK, PointsOK, Distinct,
     NotStarted, ReleaseOld, Drop, IsLast, Retaining, Recycling, channelVars, subVars,
     workVars
<1> QED
  BY <1>2, <1>4, <1>5, <1>6, <1>7, <1>8, ReferenceDropped DEF IInv

\* The destructor releases the last published frame.
LEMMA DestroyReleaseDrops ==
    ASSUME IInv, DestroyRelease
    PROVE  IInv'
<1>1. PICK x \in Slots : x = pold
  BY DEF IInv, Control, TypeOK, PointsOK, Distinct, NotStarted, DestroyRelease, Drop,
     IsLast, Retaining
<1>2. Producer \in Holders(x)
  BY <1>1, OwnersAssumption
  DEF Holders, Holds, Owners, Retaining, DestroyRelease, Drop, IsLast
<1>3. refcount[x] \in Nat \ {0}
  BY <1>2, HeldIsCounted
<1>4. Control'
  BY <1>1, <1>3, SlotsAssumption
  DEF IInv, Control, TypeOK, PointsOK, Distinct, NotStarted, DestroyRelease, Drop,
     IsLast, ProducerPoints, WorkerPoints, OwnerPoints, Retaining, Recycling,
     channelVars, subVars, workVars
<1>5. refcount' = [refcount EXCEPT ![x] = @ - 1] /\ in_pool' = in_pool
  BY <1>1 DEF DestroyRelease, Drop, IsLast
<1>6. Holders(x)' = Holders(x) \ {Producer}
  BY <1>1, SlotsAssumption, OwnersAssumption
  DEF Holders, Holds, Owners, IInv, Control, TypeOK, PointsOK, Distinct, NotStarted,
     DestroyRelease, Drop, IsLast, Retaining, channelVars, subVars, workVars
<1>7. Between(x)' = IF refcount[x] = 1 THEN Between(x) \cup {Producer} ELSE Between(x)
  BY <1>1, SlotsAssumption, OwnersAssumption
  DEF Between, InBetween, Owners, IInv, Control, TypeOK, PointsOK, Distinct, NotStarted,
     DestroyRelease, Drop, IsLast, Retaining, Recycling, channelVars, subVars, workVars
<1>8. ASSUME NEW s \in Slots, s # x PROVE SameHands(s)
  BY <1>1, <1>8, SlotsAssumption, OwnersAssumption
  DEF SameHands, Holds, InBetween, Owners, IInv, Control, TypeOK, PointsOK, Distinct,
     NotStarted, DestroyRelease, Drop, IsLast, Retaining, Recycling, channelVars,
     subVars, workVars
<1> QED
  BY <1>2, <1>4, <1>5, <1>6, <1>7, <1>8, ReferenceDropped DEF IInv

\* A worker releases its frame.
LEMMA WorkerDrops ==
    ASSUME IInv, NEW c \in Consumers, Release(c)
    PROVE  IInv'
<1>1. PICK x \in Slots : x = cframe[c]
  BY DEF IInv, Control, TypeOK, PointsOK, Distinct, NotStarted, Release, Drop, IsLast,
     Forget, Goto, RecycleAt, ResumeAt, Retaining
<1>2. c \in Holders(x)
  BY <1>1, OwnersAssumption
  DEF Holders, Holds, Owners, Retaining, Release, Drop, IsLast, Forget, Goto, RecycleAt,
     ResumeAt
<1>3. refcount[x] \in Nat \ {0}
  BY <1>2, HeldIsCounted
<1>4. Control'
  BY <1>1, <1>3, SlotsAssumption
  DEF IInv, Control, TypeOK, PointsOK, Distinct, NotStarted, Release, Drop, IsLast,
     Forget, Goto, RecycleAt, ResumeAt, ProducerPoints, WorkerPoints, OwnerPoints,
     Retaining, Recycling, channelVars, subVars, prodVars
<1>5. refcount' = [refcount EXCEPT ![x] = @ - 1] /\ in_pool' = in_pool
  BY <1>1 DEF Release, Drop, IsLast, Forget, Goto, RecycleAt, ResumeAt
<1>6. Holders(x)' = Holders(x) \ {c}
  BY <1>1, SlotsAssumption, OwnersAssumption
  DEF Holders, Holds, Owners, IInv, Control, TypeOK, PointsOK, Distinct, NotStarted,
     Release, Drop, IsLast, Forget, Goto, RecycleAt, ResumeAt, Retaining, channelVars,
     subVars, prodVars
<1>7. Between(x)' = IF refcount[x] = 1 THEN Between(x) \cup {c} ELSE Between(x)
  BY <1>1, SlotsAssumption, OwnersAssumption
  DEF Between, InBetween, Owners, IInv, Control, TypeOK, PointsOK, Distinct, NotStarted,
     Release, Drop, IsLast, Forget, Goto, RecycleAt, ResumeAt, Retaining, Recycling,
     channelVars, subVars, prodVars
<1>8. ASSUME NEW s \in Slots, s # x PROVE SameHands(s)
  BY <1>1, <1>8, SlotsAssumption, OwnersAssumption
  DEF SameHands, Holds, InBetween, Owners, IInv, Control, TypeOK, PointsOK, Distinct,
     NotStarted, Release, Drop, IsLast, Forget, Goto, RecycleAt, ResumeAt, Retaining,
     Recycling, channelVars, subVars, prodVars
<1> QED
  BY <1>2, <1>4, <1>5, <1>6, <1>7, <1>8, ReferenceDropped DEF IInv

\* publish() recycles the frame it evicted.
LEMMA RecycleOldReturns ==
    ASSUME IInv, RecycleOld
    PROVE  IInv'
<1>1. PICK x \in Slots : x = pold
  BY DEF IInv, Control, TypeOK, PointsOK, Distinct, NotStarted, RecycleOld,
     ReturnToPool, Recycling
<1>2. Producer \in Between(x)
  BY <1>1, OwnersAssumption
  DEF Between, InBetween, Owners, Recycling, RecycleOld, ReturnToPool
<1>3. Control'
  BY <1>1, SlotsAssumption
  DEF IInv, Control, TypeOK, PointsOK, Distinct, NotStarted, RecycleOld, ReturnToPool,
     ProducerPoints, WorkerPoints, OwnerPoints, Retaining, Recycling, channelVars,
     subVars, workVars
<1>4. in_pool' = [in_pool EXCEPT ![x] = TRUE] /\ refcount' = refcount
  BY <1>1 DEF RecycleOld, ReturnToPool
<1>5. Holders(x)' = Holders(x)
  BY <1>1, SlotsAssumption, OwnersAssumption
  DEF Holders, Holds, Owners, IInv, Control, TypeOK, PointsOK, Distinct, NotStarted,
     RecycleOld, ReturnToPool, Retaining, Recycling, channelVars, subVars, workVars
<1>6. Between(x)' = Between(x) \ {Producer}
  BY <1>1, SlotsAssumption, OwnersAssumption
  DEF Between, InBetween, Owners, IInv, Control, TypeOK, PointsOK, Distinct, NotStarted,
     RecycleOld, ReturnToPool, Retaining, Recycling, channelVars, subVars, workVars
<1>7. ASSUME NEW s \in Slots, s # x PROVE SameHands(s)
  BY <1>1, <1>7, SlotsAssumption, OwnersAssumption
  DEF SameHands, Holds, InBetween, Owners, IInv, Control, TypeOK, PointsOK, Distinct,
     NotStarted, RecycleOld, ReturnToPool, Retaining, Recycling, channelVars, subVars,
     workVars
<1> QED
  BY <1>2, <1>3, <1>4, <1>5, <1>6, <1>7, ReferenceReturned DEF IInv

\* The destructor recycles the last published frame.
LEMMA DestroyRecycleReturns ==
    ASSUME IInv, DestroyRecycle
    PROVE  IInv'
<1>1. PICK x \in Slots : x = pold
  BY DEF IInv, Control, TypeOK, PointsOK, Distinct, NotStarted, DestroyRecycle,
     ReturnToPool, Recycling
<1>2. Producer \in Between(x)
  BY <1>1, OwnersAssumption
  DEF Between, InBetween, Owners, Recycling, DestroyRecycle, ReturnToPool
<1>3. Control'
  BY <1>1, SlotsAssumption
  DEF IInv, Control, TypeOK, PointsOK, Distinct, NotStarted, DestroyRecycle,
     ReturnToPool, ProducerPoints, WorkerPoints, OwnerPoints, Retaining, Recycling,
     channelVars, subVars, workVars
<1>4. in_pool' = [in_pool EXCEPT ![x] = TRUE] /\ refcount' = refcount
  BY <1>1 DEF DestroyRecycle, ReturnToPool
<1>5. Holders(x)' = Holders(x)
  BY <1>1, SlotsAssumption, OwnersAssumption
  DEF Holders, Holds, Owners, IInv, Control, TypeOK, PointsOK, Distinct, NotStarted,
     DestroyRecycle, ReturnToPool, Retaining, Recycling, channelVars, subVars, workVars
<1>6. Between(x)' = Between(x) \ {Producer}
  BY <1>1, SlotsAssumption, OwnersAssumption
  DEF Between, InBetween, Owners, IInv, Control, TypeOK, PointsOK, Distinct, NotStarted,
     DestroyRecycle, ReturnToPool, Retaining, Recycling, channelVars, subVars, workVars
<1>7. ASSUME NEW s \in Slots, s # x PROVE SameHands(s)
  BY <1>1, <1>7, SlotsAssumption, OwnersAssumption
  DEF SameHands, Holds, InBetween, Owners, IInv, Control, TypeOK, PointsOK, Distinct,
     NotStarted, DestroyRecycle, ReturnToPool, Retaining, Recycling, channelVars,
     subVars, workVars
<1> QED
  BY <1>2, <1>3, <1>4, <1>5, <1>6, <1>7, ReferenceReturned DEF IInv

\* A worker recycles its frame.
LEMMA WorkerReturns ==
    ASSUME IInv, NEW c \in Consumers, Recycle(c)
    PROVE  IInv'
<1>1. PICK x \in Slots : x = cframe[c]
  BY DEF IInv, Control, TypeOK, PointsOK, Distinct, NotStarted, Recycle, ReturnToPool,
     Forget, Goto, ResumeAt, Recycling
<1>2. c \in Between(x)
  BY <1>1, OwnersAssumption
  DEF Between, InBetween, Owners, Recycling, Recycle, ReturnToPool, Forget, Goto,
     ResumeAt
<1>3. Control'
  BY <1>1, SlotsAssumption
  DEF IInv, Control, TypeOK, PointsOK, Distinct, NotStarted, Recycle, ReturnToPool,
     Forget, Goto, ResumeAt, ProducerPoints, WorkerPoints, OwnerPoints, Retaining,
     Recycling, channelVars, subVars, prodVars
<1>4. in_pool' = [in_pool EXCEPT ![x] = TRUE] /\ refcount' = refcount
  BY <1>1 DEF Recycle, ReturnToPool, Forget, Goto, ResumeAt
<1>5. Holders(x)' = Holders(x)
  BY <1>1, SlotsAssumption, OwnersAssumption
  DEF Holders, Holds, Owners, IInv, Control, TypeOK, PointsOK, Distinct, NotStarted,
     Recycle, ReturnToPool, Forget, Goto, ResumeAt, Retaining, Recycling, channelVars,
     subVars, prodVars
<1>6. Between(x)' = Between(x) \ {c}
  BY <1>1, SlotsAssumption, OwnersAssumption
  DEF Between, InBetween, Owners, IInv, Control, TypeOK, PointsOK, Distinct, NotStarted,
     Recycle, ReturnToPool, Forget, Goto, ResumeAt, Retaining, Recycling, channelVars,
     subVars, prodVars
<1>7. ASSUME NEW s \in Slots, s # x PROVE SameHands(s)
  BY <1>1, <1>7, SlotsAssumption, OwnersAssumption
  DEF SameHands, Holds, InBetween, Owners, IInv, Control, TypeOK, PointsOK, Distinct,
     NotStarted, Recycle, ReturnToPool, Forget, Goto, ResumeAt, Retaining, Recycling,
     channelVars, subVars, prodVars
<1> QED
  BY <1>2, <1>3, <1>4, <1>5, <1>6, <1>7, ReferenceReturned DEF IInv

\* try_retain() counts the worker's reference, or gives up on a count of 0.
LEMMA TryRetainCounts ==
    ASSUME IInv, NEW c \in Consumers, TryRetain(c)
    PROVE  IInv'
<1> DEFINE x == cframe[c]
<1>1. x \in Slots /\ SlotOK(x) /\ refcount[x] \in Nat /\ c \notin Holders(x)
  BY OwnersAssumption
  DEF IInv, Control, TypeOK, PointsOK, Distinct, NotStarted, TryRetain, Holders,
     Retaining, Holds, Owners
<1>2. Control'
  BY <1>1, SlotsAssumption
  DEF IInv, Control, TypeOK, PointsOK, Distinct, NotStarted, TryRetain, Goto,
     ProducerPoints, WorkerPoints, OwnerPoints, Retaining, Recycling, channelVars,
     subVars, prodVars
<1>3. ASSUME NEW s \in Slots, s = x, refcount[x] > 0 PROVE SlotOK(s)'
  <2>1. Holders(s)' = Holders(s) \cup {c}
    BY <1>1, <1>3, OwnersAssumption
    DEF Holders, Holds, Owners, IInv, Control, TypeOK, PointsOK, Distinct, NotStarted,
       TryRetain, Goto, Retaining, channelVars, subVars, prodVars
  <2>2. Between(s)' = Between(s)
    BY <1>1, <1>3, OwnersAssumption
    DEF Between, InBetween, Owners, IInv, Control, TypeOK, PointsOK, Distinct,
       NotStarted, TryRetain, Goto, Recycling, channelVars, subVars, prodVars
  <2>3. SlotLife(refcount[s] + 1, in_pool[s], Holders(s) \cup {c}, Between(s))
    BY <1>1, <1>3, Retained, HoldersFinite DEF SlotOK
  <2>4. refcount'[s] = refcount[s] + 1 /\ in_pool' = in_pool
    BY <1>1, <1>3 DEF IInv, Control, TypeOK, PointsOK, Distinct, NotStarted, TryRetain
  <2> QED
    BY <2>1, <2>2, <2>3, <2>4 DEF SlotOK
<1>4. ASSUME NEW s \in Slots, s # x \/ ~(refcount[x] > 0) PROVE SlotOK(s)'
  <2>1. SameHands(s)
    BY <1>1, <1>4, SlotsAssumption, OwnersAssumption
    DEF SameHands, Holds, InBetween, Owners, IInv, Control, TypeOK, PointsOK, Distinct,
       NotStarted, TryRetain, Goto, Retaining, Recycling, channelVars, subVars, prodVars
  <2>2. refcount'[s] = refcount[s] /\ in_pool'[s] = in_pool[s]
    BY <1>1, <1>4 DEF IInv, Control, TypeOK, PointsOK, Distinct, NotStarted, TryRetain
  <2> QED
    BY <2>1, <2>2, Untouched DEF IInv
<1> QED
  BY <1>2, <1>3, <1>4 DEF IInv

-----------------------------------------------------------------------------
(* The theorems.                                                            *)

\* At the start every slot is in the pool and nobody owns a frame.
LEMMA InitIInv == Init => IInv
<1> SUFFICES ASSUME Init PROVE IInv
  OBVIOUS
<1>1. Control
  BY SlotsAssumption
  DEF Init, Control, TypeOK, PointsOK, Distinct, NotStarted, ProducerPoints,
     WorkerPoints, OwnerPoints, Retaining, Recycling
<1>2. ASSUME NEW s \in Slots PROVE SlotOK(s)
  <2>1. Holders(s) = {} /\ Between(s) = {}
    BY <1>2, SlotsAssumption, OwnersAssumption
    DEF Init, Holders, Between, Holds, InBetween, Owners, Retaining, Recycling
  <2>2. refcount[s] = 0 /\ in_pool[s] = TRUE
    BY <1>2 DEF Init
  <2> QED
    BY <2>1, <2>2, FS_EmptySet DEF SlotOK, SlotLife
<1> QED
  BY <1>1, <1>2 DEF IInv

\* A step that changes nothing keeps the invariant.
LEMMA Stutter == IInv /\ UNCHANGED vars => IInv'
<1> SUFFICES ASSUME IInv, UNCHANGED vars PROVE IInv'
  OBVIOUS
<1>1. Control'
  BY DEF IInv, Control, TypeOK, PointsOK, Distinct, NotStarted, vars, ProducerPoints,
     WorkerPoints, OwnerPoints, Retaining, Recycling, channelVars, frameVars, subVars,
     prodVars, workVars
<1>2. ASSUME NEW s \in Slots PROVE SlotOK(s)'
  <2>1. SameHands(s)
    BY DEF SameHands, Holds, InBetween, Owners, vars, Retaining, Recycling, channelVars,
       frameVars, subVars, prodVars, workVars
  <2> QED
    BY <2>1, Untouched DEF IInv, vars, frameVars
<1> QED
  BY <1>1, <1>2 DEF IInv

\* Whatever the interleaving of the producer, the workers and the owners, a step
\* keeps every slot counted, pooled, or in the hands of exactly one thread.
THEOREM Inductive == IInv /\ [Next]_vars => IInv'
<1> SUFFICES ASSUME IInv, [Next]_vars PROVE IInv'
  OBVIOUS
<1>1. ASSUME NEW s \in Slots, Acquire(s) PROVE IInv'
  BY <1>1, AcquireMoves
<1>2. CASE PublishStep
  <2>1. CASE ResetForAcquire
    BY <2>1, ResetCounts
  <2>2. CASE Exchange
    BY <2>2, ExchangeSwaps
  <2>3. CASE ReleaseOld
    BY <2>3, ReleaseOldDrops
  <2>4. CASE RecycleOld
    BY <2>4, RecycleOldReturns
  <2>5. CASE Fill \/ StoreSeq \/ SnapshotSubs \/ BumpTarget \/ WakeTarget
    BY <2>5, ProducerQuiet
  <2>6. CASE \E c \in Consumers : CheckTarget(c)
    BY <2>6, ProducerQuiet
  <2> QED
    BY <1>2, <2>1, <2>2, <2>3, <2>4, <2>5, <2>6 DEF PublishStep
<1>3. CASE Stop
  BY <1>3, ProducerQuiet
<1>4. CASE DestroyStep
  BY <1>4, DestroySwaps, DestroyReleaseDrops, DestroyRecycleReturns DEF DestroyStep
<1>5. ASSUME NEW c \in Consumers, WorkerStep(c) PROVE IInv'
  <2>1. CASE TryRetain(c)
    BY <2>1, TryRetainCounts
  <2>2. CASE Release(c)
    BY <2>2, WorkerDrops
  <2>3. CASE Recycle(c)
    BY <2>3, WorkerReturns
  <2> QED
    BY <1>5, <2>1, <2>2, <2>3, WorkerQuiet DEF WorkerStep
<1>6. ASSUME NEW c \in Consumers,
             Subscribe(c) \/ Attach(c) \/ BeginDetach(c) \/ DetachStep(c)
      PROVE  IInv'
  BY <1>6, OwnerQuiet DEF DetachStep
<1>7. CASE Terminated \/ UNCHANGED vars
  BY <1>7, Stutter DEF Terminated
<1> QED
  BY <1>1, <1>2, <1>3, <1>4, <1>5, <1>6, <1>7 DEF Next

\* The invariant holds in every state the channel reaches.
THEOREM Invariance == Spec => []IInv
<1>1. Init => IInv
  BY InitIInv
<1>2. IInv /\ [Next]_vars => IInv'
  BY Inductive
<1> QED
  BY <1>1, <1>2, PTL DEF Spec

\* Every variable of the frame path keeps its type, for any pool and any set of
\* consumers.
THEOREM TypeCorrect == Spec => []TypeOK
<1>1. IInv => TypeOK
  BY DEF IInv, Control
<1> QED
  BY <1>1, Invariance, PTL

\* Frame::refcount_ is at every step the number of owners of the frame: no
\* interleaving of publish() and try_acquire_latest() over-retains or
\* double-releases one.
THEOREM RefcountIsExact == Spec => []RefcountExact
<1>1. IInv => RefcountExact
  BY DEF IInv, SlotOK, SlotLife, RefcountExact
<1> QED
  BY <1>1, Invariance, PTL

\* FramePool hands out a slot only while nobody owns it, and gets every slot
\* back from the thread that dropped its last reference.
THEOREM PoolIsExact == Spec => []PoolExact
<1>1. IInv => PoolExact
  BY DEF IInv, SlotOK, SlotLife, PoolExact
<1> QED
  BY <1>1, Invariance, PTL

-----------------------------------------------------------------------------
(***************************************************************************)
(* What a consumer of FrameChannel relies on, for any pool, any finite set *)
(* of consumers and any number of frames: the frame it holds is not         *)
(* refilled, the frame it retains is newer than the last, and its worker    *)
(* does not sleep through a new frame or a detach.  Both invariants stand   *)
(* on the one proved above.  Then, with the exchange of latest_ taken      *)
(* for the publication, FrameChannel implements LatestOnly: whatever the    *)
(* frames, their counts and the wake-ups do, a consumer is given ever newer *)
(* frames and none older than what was published when it asked.             *)
(***************************************************************************)

(* Sequence numbers.                                                        *)

\* Where the producer's frame carries its last number, and where it owns the frame alone.
Numbered == {"exchange", "store_seq"}
Refilling == {"reset", "fill", "exchange"}
\* A worker that has seen a newer number and has not yet verified a frame.
Trying == {"load", "retain", "verify", "unretain", "unrecycle"}

\* The published number lags the published frame, never leads it.
NumbersOK ==
    /\ ppc \in Numbered => sequence[pframe] = pcount
    /\ ppc = "store_seq" => latest = pframe
    /\ latest_seq <= pcount
    /\ latest # NoFrame => latest_seq <= sequence[latest]

\* What worker c looks at is newer than what it saw, and not being refilled.
FrameFresh(c) ==
    /\ cpc[c] \in Trying => latest_seq > last_seen[c]
    /\ cpc[c] = "compare" => sequence[cframe[c]] > last_seen[c]
    /\ cpc[c] = "hold" => sequence[cframe[c]] = last_seen[c]
    /\ cpc[c] \in Verified /\ ppc \in Refilling => pframe # cframe[c]
    /\ cpc[c] \notin {"stale", "stale_recycle"}

Fresh == NumbersOK /\ \A c \in Consumers : FrameFresh(c)

-----------------------------------------------------------------------------
(* Wake-ups.                                                                *)

\* publish() after latest_seq_ is stored.
Waking == {"release", "recycle", "snapshot", "check", "bump", "wake"}

\* publish() is on its way to move the token of c.
BumpPending(c) ==
    \/ ppc \in {"release", "recycle", "snapshot"} /\ c \in subs
    \/ ppc \in {"check", "bump", "wake"} /\ c \in ptargets
    \/ ppc = "bump" /\ ptarget = c

\* Subscriber and owner agree.
OwnerOK(c) ==
    /\ attached[c] <=> opc[c] \in {"idle", "seeded", "live", "stopping"}
    /\ opc[c] \in {"live", "stopping"} => c \in subs
    /\ cpc[c] # "none" => opc[c] \notin {"idle", "seeded"}

\* A worker on its way to sleep has seen everything before its token, or the token will
\* move; one asleep on a token that moved will be notified.
SleepOK(c) ==
    /\ cpc[c] \in {"attached2", "recheck", "wait", "asleep"} => ctoken[c] <= wait_token[c]
    /\ cpc[c] = "asleep" /\ ctoken[c] # wait_token[c]
         => (ppc = "wake" /\ ptarget = c) \/ opc[c] = "notifying"
    /\ cpc[c] \in {"wait", "asleep"} /\ ctoken[c] = wait_token[c]
         /\ attached[c] /\ latest_seq > last_seen[c] => BumpPending(c)
    /\ cpc[c] \in {"recheck", "wait", "asleep"} /\ ctoken[c] = wait_token[c]
         /\ ~attached[c] => opc[c] = "bumping"

Awake ==
    /\ ppc \in Waking => latest_seq = sequence[pframe]
    /\ \A c \in Consumers : OwnerOK(c) /\ SleepOK(c)

-----------------------------------------------------------------------------
(* Fresh is inductive.                                                      *)

\* The slot the producer takes from the pool is nobody's frame.
LEMMA AcquireFresh ==
    ASSUME IInv, Fresh, NEW s \in Slots, Acquire(s)
    PROVE  Fresh'
<1>1. ASSUME NEW c \in Consumers, cpc[c] \in Verified PROVE s # cframe[c]
  <2>1. c \in Holders(cframe[c]) /\ cframe[c] \in Slots
    BY <1>1, OwnersAssumption
    DEF Holders, Holds, Owners, Verified, Retaining, IInv, Control, PointsOK
  <2>2. ~in_pool[cframe[c]]
    BY <2>1 DEF IInv, SlotOK, SlotLife
  <2> QED
    BY <2>2 DEF Acquire
<1> QED
  BY <1>1
  DEF Fresh, NumbersOK, FrameFresh, Numbered, Refilling, Trying, Acquire, channelVars,
     subVars, workVars

\* The producer counts, stamps, publishes and wakes.
LEMMA ProducerFresh ==
    ASSUME IInv, Fresh, PublishStep \/ Stop \/ DestroyStep
    PROVE  Fresh'
<1> USE DEF IInv, Control, TypeOK, PointsOK, Distinct, Fresh, NumbersOK, FrameFresh,
       Numbered, Refilling, Trying, Verified, Retaining, Recycling
<1>1. CASE ResetForAcquire
  BY <1>1 DEF ResetForAcquire, channelVars, subVars, workVars
<1>2. CASE Fill
  BY <1>2 DEF Fill, channelVars, subVars, workVars
<1>3. CASE Exchange
  BY <1>3 DEF Exchange, frameVars, subVars, workVars
<1>4. CASE StoreSeq
  BY <1>4 DEF StoreSeq, frameVars, subVars, workVars
<1>5. CASE ReleaseOld \/ RecycleOld
  BY <1>5 DEF ReleaseOld, RecycleOld, channelVars, subVars, workVars
<1>6. CASE SnapshotSubs
  BY <1>6 DEF SnapshotSubs, NextTarget, frameVars, channelVars, subVars, workVars
<1>7. ASSUME NEW d \in Consumers, CheckTarget(d) PROVE Fresh'
  BY <1>7 DEF CheckTarget, NextTarget, frameVars, channelVars, subVars, workVars
<1>8. CASE BumpTarget
  BY <1>8 DEF BumpTarget, frameVars, channelVars, workVars
<1>9. CASE WakeTarget
  BY <1>9 DEF WakeTarget, Notify, NextTarget, frameVars, channelVars, subVars
<1>10. CASE Stop
  BY <1>10 DEF Stop, frameVars, channelVars, subVars, workVars
<1>11. CASE DestroyStep
  BY <1>11, SlotsAssumption
  DEF DestroyStep, Destroy, DestroyRelease, DestroyRecycle, frameVars, channelVars,
     subVars, workVars
<1> QED
  BY <1>1, <1>2, <1>3, <1>4, <1>5, <1>6, <1>7, <1>8, <1>9, <1>10, <1>11 DEF PublishStep

\* A worker verifies a frame that the producer does not own, and keeps it.
LEMMA WorkerFresh ==
    ASSUME IInv, Fresh, NEW c \in Consumers, WorkerStep(c)
    PROVE  Fresh'
<1> USE DEF IInv, Control, TypeOK, PointsOK, Distinct, Fresh, NumbersOK, FrameFresh,
       Numbered, Refilling, Trying, Verified, Retaining, Recycling, Goto
<1>1. CASE Loop(c) \/ Top(c)
  BY <1>1 DEF Loop, Top, OnlyMoves, frameVars, channelVars, subVars, prodVars
<1>2. CASE CheckSeq(c)
  BY <1>2 DEF CheckSeq, OnlyMoves, frameVars, channelVars, subVars, prodVars
<1>3. CASE LoadLatest(c)
  BY <1>3 DEF LoadLatest, frameVars, channelVars, subVars, prodVars
<1>4. CASE TryRetain(c)
  BY <1>4 DEF TryRetain, channelVars, subVars, prodVars
<1>5. CASE Verify(c)
  BY <1>5, SlotsAssumption DEF Verify, OnlyMoves, frameVars, channelVars, subVars, prodVars
<1>6. CASE Compare(c)
  BY <1>6 DEF Compare, frameVars, channelVars, prodVars
<1>7. CASE Release(c)
  BY <1>7 DEF Release, Forget, ResumeAt, RecycleAt, channelVars, subVars, prodVars
<1>8. CASE Recycle(c)
  BY <1>8 DEF Recycle, Forget, ResumeAt, channelVars, subVars, prodVars
<1>9. CASE CaptureToken(c) \/ RecheckAttached(c) \/ RecheckSeq(c) \/ Wait(c)
  BY <1>9
  DEF CaptureToken, RecheckAttached, RecheckSeq, Wait, LeaveWait, frameVars, channelVars,
     subVars, prodVars
<1> QED
  BY <1>1, <1>2, <1>3, <1>4, <1>5, <1>6, <1>7, <1>8, <1>9 DEF WorkerStep

\* The owner seeds last_seen_seq before there is a worker.
LEMMA OwnerFresh ==
    ASSUME IInv, Fresh, NEW c \in Consumers,
           Subscribe(c) \/ Attach(c) \/ BeginDetach(c) \/ DetachStep(c)
    PROVE  Fresh'
<1> USE DEF IInv, Control, TypeOK, PointsOK, NotStarted, Fresh, NumbersOK, FrameFresh,
       Numbered, Refilling, Trying, Verified
<1>1. CASE Subscribe(c)
  BY <1>1 DEF Subscribe, frameVars, channelVars, prodVars, workVars
<1>2. CASE Attach(c)
  BY <1>2 DEF Attach, Goto, frameVars, subVars, prodVars
<1>3. CASE BeginDetach(c) \/ MarkDetached(c) \/ DetachBump(c) \/ Unlist(c) \/ Join(c)
  BY <1>3
  DEF BeginDetach, MarkDetached, DetachBump, Unlist, Join, frameVars, channelVars,
     subVars, prodVars, workVars
<1>4. CASE DetachNotify(c)
  BY <1>4 DEF DetachNotify, Notify, frameVars, channelVars, subVars, prodVars
<1> QED
  BY <1>1, <1>2, <1>3, <1>4 DEF DetachStep

LEMMA FreshInductive == IInv /\ Fresh /\ [Next]_vars => Fresh'
<1> SUFFICES ASSUME IInv, Fresh, [Next]_vars PROVE Fresh'
  OBVIOUS
<1>1. CASE Terminated \/ UNCHANGED vars
  BY <1>1
  DEF Terminated, vars, frameVars, channelVars, subVars, prodVars, workVars, Fresh,
     NumbersOK, FrameFresh
<1> QED
  BY <1>1, AcquireFresh, ProducerFresh, WorkerFresh, OwnerFresh DEF Next

-----------------------------------------------------------------------------
(* Awake is inductive.                                                      *)

\* The producer stores a newer number, then goes through everybody on the list: it passes a
\* consumer over only when that one has seen the number or is detached.
LEMMA ProducerAwake ==
    ASSUME IInv, Fresh, Awake,
           (\E s \in Slots : Acquire(s)) \/ PublishStep \/ Stop \/ DestroyStep
    PROVE  Awake'
<1> USE DEF IInv, Control, TypeOK, PointsOK, Fresh, NumbersOK, Numbered, Awake, OwnerOK,
       SleepOK, BumpPending, Waking
<1>1. CASE (\E s \in Slots : Acquire(s)) \/ Stop \/ DestroyStep
  BY <1>1
  DEF Acquire, Stop, DestroyStep, Destroy, DestroyRelease, DestroyRecycle, frameVars,
     channelVars, subVars, workVars
<1>2. CASE ResetForAcquire \/ Fill \/ Exchange
  BY <1>2 DEF ResetForAcquire, Fill, Exchange, frameVars, channelVars, subVars, workVars
<1>3. CASE StoreSeq
  BY <1>3 DEF StoreSeq, OwnerPoints, frameVars, subVars, workVars
<1>4. CASE ReleaseOld \/ RecycleOld
  BY <1>4 DEF ReleaseOld, RecycleOld, channelVars, subVars, workVars
<1>5. CASE SnapshotSubs
  BY <1>5 DEF SnapshotSubs, NextTarget, frameVars, channelVars, subVars, workVars
<1>6. ASSUME NEW d \in Consumers, CheckTarget(d) PROVE Awake'
  BY <1>6 DEF CheckTarget, NextTarget, frameVars, channelVars, subVars, workVars
<1>7. CASE BumpTarget
  BY <1>7 DEF BumpTarget, frameVars, channelVars, workVars
<1>8. CASE WakeTarget
  BY <1>8 DEF WakeTarget, Notify, NextTarget, frameVars, channelVars, subVars
<1> QED
  BY <1>1, <1>2, <1>3, <1>4, <1>5, <1>6, <1>7, <1>8 DEF PublishStep

\* A worker captures its token before it looks again, and looks before it waits.
LEMMA WorkerAwake ==
    ASSUME IInv, Awake, NEW c \in Consumers, WorkerStep(c)
    PROVE  Awake'
<1> USE DEF IInv, Control, TypeOK, Awake, OwnerOK, SleepOK, BumpPending, Waking, Goto
<1>1. CASE Loop(c) \/ Top(c) \/ CheckSeq(c) \/ LoadLatest(c) \/ Verify(c)
  BY <1>1
  DEF Loop, Top, CheckSeq, LoadLatest, Verify, OnlyMoves, frameVars, channelVars, subVars,
     prodVars
<1>2. CASE TryRetain(c) \/ Compare(c)
  BY <1>2 DEF TryRetain, Compare, frameVars, channelVars, subVars, prodVars
<1>3. CASE Release(c)
  BY <1>3 DEF Release, Forget, ResumeAt, RecycleAt, channelVars, subVars, prodVars
<1>4. CASE Recycle(c)
  BY <1>4 DEF Recycle, Recycling, Forget, ResumeAt, channelVars, subVars, prodVars
<1>5. CASE CaptureToken(c)
  BY <1>5 DEF CaptureToken, frameVars, channelVars, subVars, prodVars
<1>6. CASE RecheckAttached(c)
  BY <1>6 DEF RecheckAttached, LeaveWait, frameVars, channelVars, subVars, prodVars
<1>7. CASE RecheckSeq(c)
  BY <1>7 DEF RecheckSeq, LeaveWait, frameVars, channelVars, subVars, prodVars
<1>8. CASE Wait(c)
  BY <1>8 DEF Wait, LeaveWait, frameVars, channelVars, subVars, prodVars
<1> QED
  BY <1>1, <1>2, <1>3, <1>4, <1>5, <1>6, <1>7, <1>8 DEF WorkerStep

\* An owner that marks its subscriber detached then moves the token, and notifies.
LEMMA OwnerAwake ==
    ASSUME IInv, Awake, NEW c \in Consumers,
           Subscribe(c) \/ Attach(c) \/ BeginDetach(c) \/ DetachStep(c)
    PROVE  Awake'
<1> USE DEF IInv, Control, TypeOK, NotStarted, Awake, OwnerOK, SleepOK, BumpPending, Waking
<1>1. CASE Subscribe(c)
  BY <1>1 DEF Subscribe, frameVars, channelVars, prodVars, workVars
<1>2. CASE Attach(c)
  BY <1>2 DEF Attach, Goto, frameVars, subVars, prodVars
<1>3. CASE BeginDetach(c) \/ MarkDetached(c)
  BY <1>3
  DEF BeginDetach, MarkDetached, frameVars, channelVars, subVars, prodVars, workVars
<1>4. CASE DetachBump(c)
  BY <1>4 DEF DetachBump, frameVars, channelVars, prodVars, workVars
<1>5. CASE DetachNotify(c)
  BY <1>5 DEF DetachNotify, Notify, frameVars, channelVars, subVars, prodVars
<1>6. CASE Unlist(c)
  BY <1>6 DEF Unlist, frameVars, subVars, prodVars, workVars
<1>7. CASE Join(c)
  BY <1>7 DEF Join, frameVars, channelVars, subVars, prodVars, workVars
<1> QED
  BY <1>1, <1>2, <1>3, <1>4, <1>5, <1>6, <1>7 DEF DetachStep

LEMMA AwakeInductive == IInv /\ Fresh /\ Awake /\ [Next]_vars => Awake'
<1> SUFFICES ASSUME IInv, Fresh, Awake, [Next]_vars PROVE Awake'
  OBVIOUS
<1>1. CASE Terminated \/ UNCHANGED vars
  BY <1>1
  DEF Terminated, vars, frameVars, channelVars, subVars, prodVars, workVars, Awake,
     OwnerOK, SleepOK, BumpPending
<1> QED
  BY <1>1, ProducerAwake, WorkerAwake, OwnerAwake DEF Next

-----------------------------------------------------------------------------
(* The theorems.                                                            *)

\* Both invariants hold in every state the channel reaches.
THEOREM FreshAndAwake == Spec => [](Fresh /\ Awake)
<1>1. Init => Fresh /\ Awake
  BY DEF Init, Fresh, NumbersOK, FrameFresh, Numbered, Refilling, Trying, Verified, Awake,
     Waking, OwnerOK, SleepOK
<1>2. IInv /\ Fresh /\ Awake /\ [Next]_vars => (Fresh /\ Awake)'
  BY FreshInductive, AwakeInductive
<1> QED
  BY <1>1, <1>2, Invariance, PTL DEF Spec

\* A frame that next_frame() returned keeps its sequence number until it is released, however
\* the producer and the other consumers go on.
THEOREM HeldFrameIsStable == Spec => []HeldFrameStable
<1>1. Fresh => HeldFrameStable
  BY DEF Fresh, FrameFresh, HeldFrameStable
<1> QED
  BY <1>1, FreshAndAwake, PTL

\* A frame that passed the post-load verification is newer than the last one returned: the
\* fall-back of next_frame() is dead code.
THEOREM NeverFallsBack == Spec => []NeverStale
<1>1. Fresh => NeverStale
  BY DEF Fresh, FrameFresh, NeverStale
<1> QED
  BY <1>1, FreshAndAwake, PTL

\* A worker asleep while a newer frame is out, or after a detach, is about to be woken.
THEOREM NoWakeupLost == Spec => []NoLostWakeup
<1>1. Awake => NoLostWakeup
  <2> SUFFICES ASSUME Awake, NEW c \in Consumers, cpc[c] = "asleep",
                      latest_seq > last_seen[c] \/ ~attached[c]
               PROVE  WakePending(c)
    BY DEF NoLostWakeup
  <2>1. CASE ctoken[c] # wait_token[c]
    BY <2>1 DEF Awake, SleepOK, WakePending
  <2>2. CASE ctoken[c] = wait_token[c]
    BY <2>2 DEF Awake, SleepOK, BumpPending, WakePending
  <2> QED
    BY <2>1, <2>2
<1> QED
  BY <1>1, FreshAndAwake, PTL
\* The channel and each consumer keep at most one slot each out of the pool.
LEMMA OneSlotEach ==
    ASSUME IInv, ppc = "acquire", NEW s \in Slots, ~in_pool[s]
    PROVE  \E o \in Consumers \cup {Channel} :
             IF o = Channel THEN s = latest ELSE s = cframe[o]
<1>1. Holders(s) # {} \/ Between(s) # {}
  BY DEF IInv, SlotOK, SlotLife
<1>2. PICK o \in Owners : Holds(o, s) \/ InBetween(o, s)
  BY <1>1 DEF Holders, Between
<1>3. o # Producer
  BY <1>2, OwnersAssumption DEF Holds, InBetween
<1> QED
  BY <1>2, <1>3, OwnersAssumption DEF Holds, InBetween, Owners

\* A pool of two frames more than consumers always has one for the producer: the channel
\* and the consumers keep out at most one slot fewer than there are.
THEOREM PoolNeverDry == Spec => []PoolSuffices
<1>1. IInv => PoolSuffices
  <2> SUFFICES ASSUME IInv, ppc = "acquire", \A s \in Slots : ~in_pool[s],
                      Cardinality(Slots) >= Cardinality(Consumers) + 2
               PROVE  FALSE
    BY DEF PoolSuffices
  <2> DEFINE T == Consumers \cup {Channel}
             Owner(s) == CHOOSE o \in T : IF o = Channel THEN s = latest ELSE s = cframe[o]
             f == [s \in Slots |-> Owner(s)]
  <2>1. ASSUME NEW s \in Slots
        PROVE  /\ Owner(s) \in T
               /\ IF Owner(s) = Channel THEN s = latest ELSE s = cframe[Owner(s)]
    BY <2>1, OneSlotEach
  <2>2. f \in Injection(Slots, T)
    BY <2>1 DEF Injection, IsInjective
  <2>3. IsFiniteSet(T) /\ Cardinality(T) = Cardinality(Consumers) + 1
    BY OwnersAssumption, FS_AddElement
  <2>4. Cardinality(Slots) <= Cardinality(T) /\ IsFiniteSet(Slots)
    BY <2>2, <2>3, FS_Injection
  <2>5. Cardinality(Slots) \in Nat /\ Cardinality(Consumers) \in Nat
    BY <2>4, OwnersAssumption, FS_CardinalityType
  <2> QED
    BY <2>3, <2>4, <2>5
<1> QED
  BY <1>1, Invariance, PTL

-----------------------------------------------------------------------------
(* What is published.                                                       *)

\* The producer has a number left for the frame it fills.
WithinBound ==
    /\ pcount <= MaxPublish
    /\ ppc \in {"reset", "fill"} => pcount < MaxPublish
    /\ ppc = "exchange" => pcount > 0

\* latest_ holds what is published; latest_seq_ follows it once publish() has stored it.
LatestPublished ==
    /\ latest # NoFrame => sequence[latest] = Published
    /\ IF ppc = "store_seq" THEN latest_seq + 1 = Published ELSE latest_seq = Published

\* A verified frame was published after its consumer called next_frame().
InWindow(c) ==
    /\ entry[c] <= Published
    /\ cpc[c] = "compare"
         => entry[c] <= sequence[cframe[c]] /\ sequence[cframe[c]] <= Published

Window == WithinBound /\ LatestPublished /\ \A c \in Consumers : InWindow(c)

-----------------------------------------------------------------------------
(* Window is inductive.                                                     *)

\* Only the exchange publishes; the number of the published frame does not change.
LEMMA ProducerWindow ==
    ASSUME IInv, Fresh, Window,
           (\E s \in Slots : Acquire(s)) \/ PublishStep \/ Stop \/ DestroyStep
    PROVE  Window'
<1> USE BoundAssumption
    DEF IInv, Control, TypeOK, PointsOK, Distinct, Fresh, NumbersOK, FrameFresh, Numbered,
       Refilling, Verified, Window, WithinBound, LatestPublished, InWindow, Published
<1>1. CASE (\E s \in Slots : Acquire(s)) \/ Stop
  BY <1>1 DEF Acquire, Stop, frameVars, channelVars, subVars, workVars
<1>2. CASE ResetForAcquire
  BY <1>2 DEF ResetForAcquire, Retaining, channelVars, subVars, workVars
<1>3. CASE Fill
  BY <1>3 DEF Fill, channelVars, subVars, workVars
<1>4. CASE Exchange
  <2>1. Published' = Published + 1 /\ Published' = sequence'[latest']
    BY <1>4 DEF Exchange, frameVars
  <2>2. (WithinBound /\ LatestPublished)'
    BY <1>4, <2>1 DEF Exchange, frameVars
  <2>3. ASSUME NEW c \in Consumers PROVE InWindow(c)'
    BY <1>4, <2>1 DEF Exchange, Retaining, frameVars, workVars
  <2> QED
    BY <2>2, <2>3
<1>5. CASE StoreSeq
  BY <1>5 DEF StoreSeq, frameVars, subVars, workVars
<1>6. CASE ReleaseOld \/ RecycleOld
  BY <1>6 DEF ReleaseOld, RecycleOld, channelVars, subVars, workVars
<1>7. CASE SnapshotSubs
  BY <1>7 DEF SnapshotSubs, NextTarget, frameVars, channelVars, subVars, workVars
<1>8. ASSUME NEW d \in Consumers, CheckTarget(d) PROVE Window'
  BY <1>8 DEF CheckTarget, NextTarget, frameVars, channelVars, subVars, workVars
<1>9. CASE BumpTarget
  BY <1>9 DEF BumpTarget, frameVars, channelVars, workVars
<1>10. CASE WakeTarget
  BY <1>10 DEF WakeTarget, Notify, NextTarget, frameVars, channelVars, subVars
<1>11. CASE DestroyStep
  BY <1>11
  DEF DestroyStep, Destroy, DestroyRelease, DestroyRecycle, frameVars, channelVars,
     subVars, workVars
<1> QED
  BY <1>1, <1>2, <1>3, <1>4, <1>5, <1>6, <1>7, <1>8, <1>9, <1>10, <1>11 DEF PublishStep

\* A worker notes what is published when it calls, and verifies what is published.
LEMMA WorkerWindow ==
    ASSUME IInv, Window, NEW c \in Consumers, WorkerStep(c)
    PROVE  Window'
<1> USE DEF IInv, Control, TypeOK, PointsOK, Window, WithinBound, LatestPublished,
       InWindow, Published, Goto, Retaining, Recycling
<1>1. CASE Loop(c)
  BY <1>1 DEF Loop, frameVars, channelVars, subVars, prodVars
<1>2. CASE Top(c) \/ CheckSeq(c) \/ LoadLatest(c) \/ TryRetain(c)
  BY <1>2
  DEF Top, CheckSeq, LoadLatest, TryRetain, OnlyMoves, frameVars, channelVars, subVars,
     prodVars
<1>3. CASE Verify(c)
  BY <1>3, SlotsAssumption DEF Verify, OnlyMoves, frameVars, channelVars, subVars, prodVars
<1>4. CASE Compare(c)
  BY <1>4 DEF Compare, frameVars, channelVars, prodVars
<1>5. CASE Release(c)
  BY <1>5 DEF Release, Forget, ResumeAt, RecycleAt, channelVars, subVars, prodVars
<1>6. CASE Recycle(c)
  BY <1>6 DEF Recycle, Forget, ResumeAt, channelVars, subVars, prodVars
<1>7. CASE CaptureToken(c) \/ RecheckAttached(c) \/ RecheckSeq(c) \/ Wait(c)
  BY <1>7
  DEF CaptureToken, RecheckAttached, RecheckSeq, Wait, LeaveWait, frameVars, channelVars,
     subVars, prodVars
<1> QED
  BY <1>1, <1>2, <1>3, <1>4, <1>5, <1>6, <1>7 DEF WorkerStep

\* An owner publishes nothing.
LEMMA OwnerWindow ==
    ASSUME IInv, Window, NEW c \in Consumers,
           Subscribe(c) \/ Attach(c) \/ BeginDetach(c) \/ DetachStep(c)
    PROVE  Window'
<1> USE DEF IInv, Control, TypeOK, Window, WithinBound, LatestPublished, InWindow, Published
<1>1. CASE Subscribe(c) \/ Attach(c)
  BY <1>1 DEF Subscribe, Attach, Goto, frameVars, channelVars, subVars, prodVars, workVars
<1>2. CASE BeginDetach(c) \/ MarkDetached(c) \/ DetachBump(c) \/ Unlist(c) \/ Join(c)
  BY <1>2
  DEF BeginDetach, MarkDetached, DetachBump, Unlist, Join, frameVars, channelVars,
     subVars, prodVars, workVars
<1>3. CASE DetachNotify(c)
  BY <1>3 DEF DetachNotify, Notify, frameVars, channelVars, subVars, prodVars
<1> QED
  BY <1>1, <1>2, <1>3 DEF DetachStep

LEMMA WindowInductive == IInv /\ Fresh /\ Window /\ [Next]_vars => Window'
<1> SUFFICES ASSUME IInv, Fresh, Window, [Next]_vars PROVE Window'
  OBVIOUS
<1>1. CASE Terminated \/ UNCHANGED vars
  BY <1>1
  DEF Terminated, vars, frameVars, channelVars, subVars, prodVars, workVars, Window,
     WithinBound, LatestPublished, InWindow, Published
<1> QED
  BY <1>1, ProducerWindow, WorkerWindow, OwnerWindow DEF Next
LEMMA InitWindow == Init => Window
  BY BoundAssumption DEF Init, Window, WithinBound, LatestPublished, InWindow, Published

-----------------------------------------------------------------------------
(* Each step of the channel is a step of the register, or none.             *)

\* The channel starts as the register does.
LEMMA InitRefines == Init => Register!Init
  BY DEF Init, Register!Init, Published

\* The register does not notice a step that publishes nothing, delivers nothing and moves
\* no consumer in or out of next_frame().
SamePhase(p, q) ==
    \/ p = q
    \/ p \in {"loop", "hold", "hold_recycle"} /\ q \in {"loop", "hold", "hold_recycle"}
    \/ p \notin {"none", "exit", "loop", "hold", "hold_recycle"}
       /\ q \notin {"none", "exit", "loop", "hold", "hold_recycle"}

LEMMA Unnoticed ==
    ASSUME Published' = Published, last_seen' = last_seen, entry' = entry,
           \A c \in Consumers : SamePhase(cpc[c], cpc'[c])
    PROVE  UNCHANGED Register!vars
  BY DEF SamePhase, Register!vars

\* The exchange of latest_ publishes; the rest of publish(), the pool and the destructor
\* happen behind the register's back.
LEMMA ProducerRefines ==
    ASSUME IInv, Window,
           (\E s \in Slots : Acquire(s)) \/ PublishStep \/ Stop \/ DestroyStep
    PROVE  [Register!Next]_Register!vars
<1> USE DEF IInv, Control, TypeOK, Published
<1>1. CASE Exchange
  <2>1. Published < MaxPublish /\ Published' = Published + 1
    BY <1>1, BoundAssumption DEF Exchange, Window, WithinBound
  <2>2. UNCHANGED <<last_seen, entry, cpc>>
    BY <1>1 DEF Exchange, subVars, workVars
  <2>3. Register!Publish
    BY <2>1, <2>2 DEF Register!Publish
  <2> QED
    BY <2>3 DEF Register!Next
<1>2. CASE (\E s \in Slots : Acquire(s)) \/ ResetForAcquire \/ Fill \/ StoreSeq \/ Stop
  <2>1. Published' = Published
    BY <1>2 DEF Acquire, ResetForAcquire, Fill, StoreSeq, Stop
  <2>2. UNCHANGED <<last_seen, entry, cpc>>
    BY <1>2 DEF Acquire, ResetForAcquire, Fill, StoreSeq, Stop, subVars, workVars
  <2> QED
    BY <2>1, <2>2, Unnoticed DEF SamePhase
<1>3. CASE ReleaseOld \/ RecycleOld \/ SnapshotSubs \/ (\E c \in Consumers : CheckTarget(c))
           \/ BumpTarget \/ DestroyStep
  <2>1. Published' = Published
    BY <1>3
    DEF ReleaseOld, RecycleOld, SnapshotSubs, CheckTarget, NextTarget, BumpTarget,
       DestroyStep, Destroy, DestroyRelease, DestroyRecycle
  <2>2. UNCHANGED <<last_seen, entry, cpc>>
    BY <1>3
    DEF ReleaseOld, RecycleOld, SnapshotSubs, CheckTarget, BumpTarget, DestroyStep,
       Destroy, DestroyRelease, DestroyRecycle, subVars, workVars
  <2> QED
    BY <2>1, <2>2, Unnoticed DEF SamePhase
<1>4. CASE WakeTarget
  <2>1. Published' = Published /\ UNCHANGED <<last_seen, entry>>
    BY <1>4 DEF WakeTarget, NextTarget, subVars
  <2>2. ASSUME NEW c \in Consumers PROVE SamePhase(cpc[c], cpc'[c])
    BY <1>4, <2>2 DEF WakeTarget, Notify, SamePhase
  <2> QED
    BY <2>1, <2>2, Unnoticed
<1> QED
  BY <1>1, <1>2, <1>3, <1>4 DEF PublishStep

\* A worker asks at the top of its loop, takes a frame when it compares, and leaves
\* when it finds itself detached.
LEMMA WorkerRefines ==
    ASSUME IInv, Fresh, Window, NEW c \in Consumers, WorkerStep(c)
    PROVE  [Register!Next]_Register!vars
<1> USE DEF IInv, Control, TypeOK, Published, Goto
<1>1. CASE Loop(c)
  <2>1. Published' = Published /\ last_seen' = last_seen
    BY <1>1 DEF Loop, prodVars, subVars
  <2>2. CASE opc[c] = "live"
    <3>1. Register!Call(c)
      BY <1>1, <2>1, <2>2 DEF Loop, Register!Call
    <3> QED
      BY <3>1 DEF Register!Next
  <2>3. CASE opc[c] # "live"
    <3>1. Register!Leave(c)
      BY <1>1, <2>1, <2>3 DEF Loop, Register!Leave
    <3> QED
      BY <3>1 DEF Register!Next
  <2> QED
    BY <2>2, <2>3
<1>2. CASE (Top(c) \/ RecheckAttached(c)) /\ ~attached[c]
  <2>1. Published' = Published /\ UNCHANGED <<last_seen, entry>>
    BY <1>2 DEF Top, RecheckAttached, OnlyMoves, prodVars, subVars
  <2>2. Register!Leave(c)
    BY <1>2, <2>1 DEF Top, RecheckAttached, LeaveWait, Register!Leave
  <2> QED
    BY <2>2 DEF Register!Next
<1>3. CASE Compare(c)
  <2>1. Published' = Published /\ entry' = entry
    BY <1>3 DEF Compare, prodVars
  <2> DEFINE n == sequence[cframe[c]]
  <2>2. n \in (last_seen[c] + 1)..Published /\ n >= entry[c]
    BY <1>3
    DEF Compare, Fresh, FrameFresh, Window, InWindow, WithinBound, PointsOK, Retaining
  <2>3. last_seen' = [last_seen EXCEPT ![c] = n] /\ cpc' = [cpc EXCEPT ![c] = "hold"]
    BY <1>3, <2>2 DEF Compare, Fresh, FrameFresh
  <2>4. Register!Deliver(c)
    BY <1>3, <2>1, <2>2, <2>3 DEF Compare, Register!Deliver
  <2> QED
    BY <2>4 DEF Register!Next
<1>4. CASE ((Top(c) \/ RecheckAttached(c)) /\ attached[c]) \/ CheckSeq(c) \/ LoadLatest(c)
           \/ TryRetain(c) \/ Verify(c) \/ CaptureToken(c) \/ RecheckSeq(c) \/ Wait(c)
  <2>1. Published' = Published /\ UNCHANGED <<last_seen, entry>>
    BY <1>4
    DEF Top, RecheckAttached, CheckSeq, LoadLatest, TryRetain, Verify, CaptureToken,
       RecheckSeq, Wait, OnlyMoves, prodVars, subVars
  <2>2. ASSUME NEW d \in Consumers PROVE SamePhase(cpc[d], cpc'[d])
    BY <1>4, <2>2
    DEF Top, RecheckAttached, CheckSeq, LoadLatest, TryRetain, Verify, CaptureToken,
       RecheckSeq, Wait, LeaveWait, SamePhase
  <2> QED
    BY <2>1, <2>2, Unnoticed
<1>5. CASE Release(c) \/ Recycle(c)
  <2>1. Published' = Published /\ UNCHANGED <<last_seen, entry>>
    BY <1>5 DEF Release, Recycle, prodVars, subVars
  <2>2. ASSUME NEW d \in Consumers PROVE SamePhase(cpc[d], cpc'[d])
    BY <1>5, <2>2
    DEF Release, Recycle, Forget, ResumeAt, RecycleAt, Recycling, SamePhase, Fresh,
       FrameFresh
  <2> QED
    BY <2>1, <2>2, Unnoticed
<1> QED
  BY <1>1, <1>2, <1>3, <1>4, <1>5 DEF WorkerStep

\* subscribe() seeds the view, attach() lets the consumer in; detach() only makes it leave.
LEMMA OwnerRefines ==
    ASSUME IInv, Window, NEW c \in Consumers,
           Subscribe(c) \/ Attach(c) \/ BeginDetach(c) \/ DetachStep(c)
    PROVE  [Register!Next]_Register!vars
<1> USE DEF IInv, Control, TypeOK, Published
<1>1. CASE Subscribe(c)
  <2>1. Published' = Published /\ UNCHANGED <<entry, cpc>> /\ cpc[c] = "none"
    BY <1>1 DEF Subscribe, prodVars, workVars, NotStarted
  <2>2. latest_seq \in {Published, Published - 1} \cap Nat
    BY DEF Window, LatestPublished
  <2>3. Register!Seed(c)
    BY <1>1, <2>1, <2>2 DEF Subscribe, Register!Seed
  <2> QED
    BY <2>3 DEF Register!Next
<1>2. CASE Attach(c)
  <2>1. Published' = Published /\ UNCHANGED <<last_seen, entry>> /\ cpc[c] = "none"
    BY <1>2 DEF Attach, prodVars, subVars, NotStarted
  <2>2. Register!Enter(c)
    BY <1>2, <2>1 DEF Attach, Goto, Register!Enter
  <2> QED
    BY <2>2 DEF Register!Next
<1>3. CASE BeginDetach(c) \/ DetachStep(c)
  <2>1. Published' = Published /\ UNCHANGED <<last_seen, entry>>
    BY <1>3
    DEF BeginDetach, DetachStep, MarkDetached, DetachBump, DetachNotify, Unlist, Join,
       prodVars, subVars, workVars
  <2>2. ASSUME NEW d \in Consumers PROVE SamePhase(cpc[d], cpc'[d])
    BY <1>3, <2>2
    DEF BeginDetach, DetachStep, MarkDetached, DetachBump, DetachNotify, Notify, Unlist,
       Join, workVars, SamePhase
  <2> QED
    BY <2>1, <2>2, Unnoticed
<1> QED
  BY <1>1, <1>2, <1>3

LEMMA StepRefines ==
    IInv /\ Fresh /\ Window /\ [Next]_vars => [Register!Next]_Register!vars
<1> SUFFICES ASSUME IInv, Fresh, Window, [Next]_vars PROVE [Register!Next]_Register!vars
  OBVIOUS
<1>1. CASE Terminated \/ UNCHANGED vars
  BY <1>1, Unnoticed
  DEF Terminated, vars, prodVars, subVars, workVars, Published, SamePhase
<1> QED
  BY <1>1, ProducerRefines, WorkerRefines, OwnerRefines DEF Next

-----------------------------------------------------------------------------
(* The theorem.                                                             *)

\* FrameChannel is a latest-value register: next_frame() returns frames in the order they
\* were published, none twice, and none older than what was published at the call.
THEOREM Implements == Spec => ImplementsRegister
<1>1. Init => Window /\ Register!Init
  BY InitWindow, InitRefines
<1>2. IInv /\ Fresh /\ Window /\ [Next]_vars => Window'
  BY WindowInductive
<1>3. IInv /\ Fresh /\ Window /\ [Next]_vars => [Register!Next]_Register!vars
  BY StepRefines
<1> QED
  BY <1>1, <1>2, <1>3, Invariance, FreshAndAwake, PTL
  DEF Spec, ImplementsRegister, Register!Spec
=============================================================================
