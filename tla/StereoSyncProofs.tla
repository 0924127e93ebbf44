--------------------------- MODULE StereoSyncProofs --------------------------
(***************************************************************************)
(* Proofs about the stereo pairer: for any capacities, any interleaving of *)
(* the two feeders, the runner and the supervisor, and any pulses that are *)
(* lost, the pairer never holds two frames that match, nor a frame older   *)
(* than a pair it formed; its pairs are of the present session and leave   *)
(* in the order of their stamps; and every frame and pair is accounted     *)
(* for.                                                                    *)
(*                                                                         *)
(* The invariant says why: each side holds rising stamps, none later than  *)
(* the last one that camera gave and none of an earlier session, and the   *)
(* stamps of the pairs rise too, above the one popped last and up to the   *)
(* frames that wait.                                                       *)
(***************************************************************************)
EXTENDS StereoSync, FiniteSetTheorems, WellFoundedInduction, TLAPS

Frames == [t : 1..MaxPulse, session : 0..MaxResets]
Pairs == [t : 1..MaxPulse, sessions : SUBSET (0..MaxResets)]

Rising(q) == \A i, j \in 1..Len(q) : i < j => q[i].t < q[j].t

\* A side: rising stamps of this session, up to the last its camera gave.
SideOK(q, top, session) ==
    /\ q \in Seq(Frames) /\ Len(q) <= SideCap
    /\ Rising(q)
    /\ \A i \in 1..Len(q) : q[i].t <= top /\ q[i].session = session

SidesOK == \A d \in Sides : SideOK(sides[d], seen[d], resets)

\* The output queue: rising stamps of this session, later than the pair popped last, up to
\* the last pulse of either camera.
PairsOK ==
    /\ pairs \in Seq(Pairs) /\ Len(pairs) <= PairCap
    /\ Rising(pairs)
    /\ \A i \in 1..Len(pairs) : pairs[i].t > got.t /\ pairs[i].sessions = {resets}
    /\ \A i \in 1..Len(pairs) : \A d \in Sides : pairs[i].t <= seen[d]

\* Whatever waits on a side is later than every pair in the queue.
SidesAhead ==
    \A d \in Sides : \A i \in 1..Len(sides[d]) : \A j \in 1..Len(pairs) :
        sides[d][i].t > pairs[j].t

Counted ==
    /\ paired \in Nat /\ unmatched \in Nat /\ overflow \in Nat
    /\ pushed \in Nat /\ popped \in Nat
    /\ cleared \in [frames : Nat, pairs : Nat]
    /\ pushed <= seen["left"] + seen["right"]

Placed ==
    /\ sides \in [Sides -> Seq(Frames)]
    /\ shut \in BOOLEAN
    /\ seen \in [Sides -> 0..MaxPulse]
    /\ runner \in {"running", "asleep", "woken", "exit", "gone"}
    /\ super \in {"idle", "notify", "join", "reset", "start"}
    /\ resets \in 0..MaxResets
    /\ super \in {"notify", "join", "reset"} => resets < MaxResets
    /\ got.t \in Nat /\ \A d \in Sides : got.t <= seen[d]

PairerInv ==
    /\ Placed
    /\ SidesOK
    /\ PairsOK
    /\ SidesAhead
    /\ NoMatchWaiting
    /\ Counted
    /\ NothingLostUncounted

-----------------------------------------------------------------------------
(* Lemmas about purge and the queues.                                       *)

LEMMA StampsAreNat ==
  ASSUME NEW q \in Seq(Frames)
  PROVE  Len(q) \in Nat /\ \A i \in 1..Len(q) : q[i] \in Frames /\ q[i].t \in Nat
  <1>1. Len(q) \in Nat /\ \A i \in 1..Len(q) : q[i] \in Frames
    OBVIOUS
  <1>2. \A i \in 1..Len(q) : q[i].t \in Nat
    BY <1>1 DEF Frames
  <1> QED BY <1>1, <1>2

LEMMA PairStamps ==
  ASSUME PairsOK
  PROVE  pairs \in Seq(Pairs) /\ \A i \in 1..Len(pairs) : pairs[i].t \in Nat
  <1>1. pairs \in Seq(Pairs)
    BY DEF PairsOK
  <1>2. \A i \in 1..Len(pairs) : pairs[i] \in Pairs
    BY <1>1
  <1> QED BY <1>1, <1>2 DEF Pairs

LEMMA EmptySide ==
  ASSUME PairerAssumption, NEW top, NEW session
  PROVE  SideOK(<<>>, top, session)
  <1>1. <<>> \in Seq(Frames) /\ Len(<<>>) = 0
    OBVIOUS
  <1>2. SideCap \in Nat /\ 0 <= SideCap
    BY DEF PairerAssumption
  <1>3. \A i \in 1..Len(<<>>) : FALSE
    BY <1>1
  <1> QED BY <1>1, <1>2, <1>3 DEF SideOK, Rising

\* purge stops, at the first frame later than the stamp or at the end of the queue.
LEMMA PurgeStops ==
  ASSUME NEW q \in Seq(Frames), NEW t \in Nat
  PROVE  /\ Leading(q, t) \in 0..Len(q)
         /\ \A i \in 1..Leading(q, t) : q[i].t <= t
         /\ Leading(q, t) < Len(q) => q[Leading(q, t) + 1].t > t
  <1> DEFINE Stops == {n \in 0..Len(q) : n < Len(q) => q[n + 1].t > t}
  <1>1. Len(q) \in Nat
    OBVIOUS
  <1>2. \A i \in 1..Len(q) : q[i].t \in Nat
    BY StampsAreNat
  <1>3. Len(q) \in Stops
    BY <1>1
  <1>4. PICK n \in Stops : \A m \in Stops : ~(<<m, n>> \in OpToRel(<, Nat))
    <2>1. IsWellFoundedOn(OpToRel(<, Nat), Nat)
      BY NatLessThanWellFounded
    <2>2. Stops \subseteq Nat /\ Stops # {}
      BY <1>1, <1>3
    <2> HIDE DEF Stops
    <2> QED BY <2>1, <2>2, WFMin
  <1>5. \A m \in Stops : ~(m < n)
    <2> SUFFICES ASSUME NEW m \in Stops, m < n PROVE FALSE
      OBVIOUS
    <2>1. m \in Nat /\ n \in Nat
      BY <1>1
    <2>2. <<m, n>> \in OpToRel(<, Nat)
      BY <2>1 DEF OpToRel
    <2> QED BY <2>2, <1>4
  <1>6. n \in 0..Len(q) /\ (n < Len(q) => q[n + 1].t > t)
    OBVIOUS
  <1>7. ASSUME NEW i \in 1..n PROVE q[i].t <= t
    <2>1. i - 1 \in 0..Len(q) /\ i - 1 < n /\ i - 1 < Len(q) /\ (i - 1) + 1 = i /\ i \in 1..Len(q)
      BY <1>1, <1>6
    <2>2. i - 1 \notin Stops
      BY <2>1, <1>5
    <2>3. ~(q[i].t > t)
      BY <2>1, <2>2
    <2> QED BY <2>1, <2>3, <1>2
  <1>8. \E k \in 0..Len(q) : (\A i \in 1..k : q[i].t <= t) /\ (k < Len(q) => q[k + 1].t > t)
    BY <1>6, <1>7
  <1> QED BY <1>8 DEF Leading

\* What purge leaves of a side: its frames later than the stamp, in their order.
LEMMA PurgedSide ==
  ASSUME NEW q, NEW session, NEW top \in Nat, NEW t \in Nat, SideOK(q, top, session), SideCap \in Nat
  PROVE  /\ SideOK(Purge(q, t), top, session)
         /\ Len(Purge(q, t)) = Len(q) - Leading(q, t)
         /\ \A i \in 1..Len(Purge(q, t)) :
              /\ i + Leading(q, t) \in 1..Len(q) /\ Purge(q, t)[i] = q[i + Leading(q, t)]
              /\ Purge(q, t)[i].t > t
  <1> DEFINE n == Leading(q, t)
             p == Purge(q, t)
  <1>1. q \in Seq(Frames) /\ Len(q) \in Nat
    BY DEF SideOK
  <1>2. n \in 0..Len(q) /\ (n < Len(q) => q[n + 1].t > t)
    BY <1>1, PurgeStops
  <1>3. \A i \in 1..Len(q) : q[i].t \in Nat
    BY <1>1, StampsAreNat
  <1>4. p = SubSeq(q, n + 1, Len(q))
    BY DEF Purge
  <1> HIDE DEF n, p
  <1>5. /\ Len(p) = Len(q) - n
        /\ \A i \in 1..Len(p) : i + n \in 1..Len(q) /\ p[i] = q[i + n]
    BY <1>1, <1>2, <1>4
  <1>6. p \in Seq(Frames)
    BY <1>1, <1>2, <1>4
  <1>7. ASSUME NEW i \in 1..Len(p) PROVE p[i].t > t
    <2>1. n + 1 \in 1..Len(q) /\ n < Len(q) /\ i + n \in 1..Len(q)
      BY <1>1, <1>2, <1>5
    <2>2. q[n + 1].t <= q[i + n].t
      <3>1. CASE i = 1
        <4>1. i + n = n + 1
          BY <3>1, <1>2
        <4> QED BY <4>1, <2>1, <1>3
      <3>2. CASE i # 1
        <4>1. n + 1 < i + n
          BY <3>2, <1>2, <1>5
        <4> QED BY <4>1, <2>1, <1>3 DEF SideOK, Rising
      <3> QED BY <3>1, <3>2
    <2> QED BY <2>1, <2>2, <1>2, <1>3, <1>5
  <1>8. Rising(p)
    <2> SUFFICES ASSUME NEW i \in 1..Len(p), NEW j \in 1..Len(p), i < j
                 PROVE  p[i].t < p[j].t
      BY DEF Rising
    <2>1. i + n \in 1..Len(q) /\ j + n \in 1..Len(q) /\ i + n < j + n
      BY <1>2, <1>5
    <2> QED BY <2>1, <1>5 DEF SideOK, Rising
  <1>9. \A i \in 1..Len(p) : p[i].t <= top /\ p[i].session = session
    BY <1>5 DEF SideOK
  <1>10. Len(p) <= SideCap
    BY <1>1, <1>2, <1>5 DEF SideOK
  <1> QED BY <1>5, <1>6, <1>7, <1>8, <1>9, <1>10 DEF SideOK, n, p

\* The side that has the partner: purge pops the frames before it, which count, and it.
LEMMA PurgedTheirs ==
  ASSUME NEW q, NEW session, NEW top \in Nat, SideOK(q, top, session), NEW k \in 1..Len(q), SideCap \in Nat
  PROVE  Leading(q, q[k].t) = k /\ Stale(q, q[k].t) = k - 1
  <1> DEFINE t == q[k].t
             n == Leading(q, t)
  <1>1. q \in Seq(Frames) /\ Len(q) \in Nat
    BY DEF SideOK
  <1>2. \A i \in 1..Len(q) : q[i].t \in Nat
    BY <1>1, StampsAreNat
  <1>3. \A i, j \in 1..Len(q) : i < j => q[i].t < q[j].t
    BY DEF SideOK, Rising
  <1>4. t \in Nat
    BY <1>2
  <1>5. n \in 0..Len(q) /\ (\A i \in 1..n : q[i].t <= t) /\ (n < Len(q) => q[n + 1].t > t)
    BY <1>1, <1>4, PurgeStops
  <1> HIDE DEF n
  <1>6. n = k
    <2>1. CASE n < k
      <3>1. n < Len(q) /\ n + 1 \in 1..Len(q)
        BY <2>1, <1>1, <1>5
      <3>2. q[n + 1].t <= t
        <4>1. CASE n + 1 = k
          BY <4>1, <1>4
        <4>2. CASE n + 1 < k
          BY <4>2, <3>1, <1>2, <1>3
        <4> QED BY <4>1, <4>2, <2>1, <1>5
      <3> QED BY <3>1, <3>2, <1>2, <1>4, <1>5
    <2>2. CASE k < n
      <3>1. n \in 1..Len(q) /\ n \in 1..n
        BY <2>2, <1>1, <1>5
      <3>2. q[n].t > t
        BY <2>2, <3>1, <1>2, <1>3
      <3> QED BY <3>1, <3>2, <1>2, <1>4, <1>5
    <2> QED BY <2>1, <2>2, <1>5
  <1>7. {i \in 1..n : q[i].t # t} = (1..k) \ {k}
    <2>1. \A i \in 1..n : q[i].t # t <=> i # k
      <3> TAKE i \in 1..n
      <3>1. i \in 1..Len(q) /\ (i = k \/ i < k)
        BY <1>5, <1>6
      <3> QED BY <3>1, <1>2, <1>3
    <2> QED BY <2>1, <1>6
  <1>8. Cardinality((1..k) \ {k}) = k - 1
    <2>1. IsFiniteSet(1..k) /\ Cardinality(1..k) = k
      BY FS_Interval, <1>1
    <2>2. k \in 1..k
      BY <1>1
    <2> QED BY <2>1, <2>2, FS_RemoveElement
  <1> QED BY <1>6, <1>7, <1>8 DEF Stale, n

\* The side of the new frame: all of it is older, and counts.
LEMMA PurgedMine ==
  ASSUME NEW q, NEW session, NEW top \in Nat, NEW t \in Nat, SideOK(q, top, session), top < t, SideCap \in Nat
  PROVE  Leading(q, t) = Len(q) /\ Stale(q, t) = Len(q)
  <1> DEFINE n == Leading(q, t)
  <1>1. q \in Seq(Frames) /\ Len(q) \in Nat
    BY DEF SideOK
  <1>2. \A i \in 1..Len(q) : q[i].t \in Nat /\ q[i].t < t
    <2>1. \A i \in 1..Len(q) : q[i].t \in Nat
      BY <1>1, StampsAreNat
    <2> QED BY <2>1 DEF SideOK
  <1>3. n \in 0..Len(q) /\ (n < Len(q) => q[n + 1].t > t)
    BY <1>1, PurgeStops
  <1> HIDE DEF n
  <1>4. n = Len(q)
    <2> SUFFICES ASSUME n < Len(q) PROVE FALSE
      BY <1>1, <1>3
    <2>1. n + 1 \in 1..Len(q)
      BY <1>1, <1>3
    <2> QED BY <2>1, <1>2, <1>3
  <1>5. {i \in 1..n : q[i].t # t} = 1..Len(q)
    BY <1>2, <1>4
  <1>6. Cardinality(1..Len(q)) = Len(q)
    <2>1. 1 \in Int /\ Len(q) \in Int
      BY <1>1
    <2>2. Cardinality(1..Len(q)) = IF 1 > Len(q) THEN 0 ELSE Len(q) - 1 + 1
      BY <2>1, FS_Interval
    <2> QED BY <2>2, <1>1
  <1> QED BY <1>4, <1>5, <1>6 DEF Stale, n

-----------------------------------------------------------------------------
(* Initially.                                                               *)

LEMMA PairerStarts == ASSUME PairerAssumption PROVE Init => PairerInv
  <1> SUFFICES ASSUME Init PROVE PairerInv
    OBVIOUS
  <1>1. <<>> \in Seq(Frames) /\ <<>> \in Seq(Pairs) /\ Len(<<>>) = 0
    OBVIOUS
  <1>2. \A d \in Sides : sides[d] = <<>> /\ seen[d] = 0
    BY DEF Init
  <1>3. "left" \in Sides /\ "right" \in Sides
    BY DEF Sides
  <1>4. Placed
    <2>1. sides \in [Sides -> Seq(Frames)] /\ seen \in [Sides -> 0..MaxPulse]
      BY <1>1 DEF Init, PairerAssumption
    <2>2. got.t \in Nat /\ \A d \in Sides : got.t <= seen[d]
      BY <1>2 DEF Init
    <2>3. resets \in 0..MaxResets
      BY DEF Init, PairerAssumption
    <2>4. /\ shut \in BOOLEAN /\ runner = "running" /\ super = "idle"
      BY DEF Init
    <2> QED BY <2>1, <2>2, <2>3, <2>4 DEF Placed
  <1>5. SidesOK
    BY <1>2, EmptySide DEF SidesOK
  <1>6. PairsOK
    BY <1>1 DEF Init, PairsOK, Rising, PairerAssumption
  <1>7. SidesAhead /\ NoMatchWaiting
    BY <1>1, <1>2, <1>3 DEF SidesAhead, NoMatchWaiting
  <1>8. Counted
    BY <1>2, <1>3 DEF Init, Counted
  <1>9. NothingLostUncounted
    BY <1>1, <1>2, <1>3 DEF Init, NothingLostUncounted
  <1> QED BY <1>4, <1>5, <1>6, <1>7, <1>8, <1>9 DEF PairerInv

-----------------------------------------------------------------------------
(* The runner and the supervisor.                                           *)

LEMMA WaitPopStep ==
  ASSUME PairerAssumption, PairerInv, WaitPop
  PROVE  PairerInv' /\ PopsNext
  <1>1. CASE pairs = <<>>
    <2>1. UNCHANGED <<sides, pairs, shut, seen, super, resets, got, counts>>
      BY <1>1 DEF WaitPop, counts
    <2>2. runner' \in {"running", "asleep", "woken", "exit", "gone"}
      BY <1>1 DEF WaitPop
    <2> QED BY <2>1, <2>2 DEF PairerInv, Placed, SidesOK, SideOK, PairsOK, SidesAhead,
                              NoMatchWaiting, Counted, NothingLostUncounted, PopsNext, counts
  <1>2. CASE pairs # <<>>
    <2>1. /\ got' = Head(pairs) /\ pairs' = Tail(pairs) /\ popped' = popped + 1
          /\ runner' = "running"
          /\ UNCHANGED <<sides, shut, seen, super, resets, paired, unmatched, overflow,
                         pushed, cleared>>
      BY <1>2 DEF WaitPop
    <2>2. pairs \in Seq(Pairs) /\ Len(pairs) <= PairCap /\ Len(pairs) \in Nat
      BY DEF PairerInv, PairsOK
    <2>3. /\ got' = pairs[1] /\ 1 \in 1..Len(pairs) /\ pairs' \in Seq(Pairs)
          /\ Len(pairs') = Len(pairs) - 1
          /\ \A i \in 1..Len(pairs') : i + 1 \in 1..Len(pairs) /\ pairs'[i] = pairs[i + 1]
      BY <1>2, <2>1, <2>2
    <2>4. \A i \in 1..Len(pairs) : pairs[i].t \in Nat
      <3>1. \A i \in 1..Len(pairs) : pairs[i] \in Pairs
        BY <2>2
      <3> QED BY <3>1 DEF Pairs
    <2>5. /\ \A i \in 1..Len(pairs) : pairs[i].t > got.t /\ pairs[i].sessions = {resets}
          /\ \A i \in 1..Len(pairs) : \A d \in Sides : pairs[i].t <= seen[d]
          /\ \A i, j \in 1..Len(pairs) : i < j => pairs[i].t < pairs[j].t
      BY DEF PairerInv, PairsOK, Rising
    <2>6. PopsNext
      BY <2>3, <2>5 DEF PopsNext
    <2>7. Placed'
      BY <2>1, <2>3, <2>4, <2>5 DEF PairerInv, Placed
    <2>8. SidesOK'
      BY <2>1 DEF PairerInv, SidesOK, SideOK
    <2>9. PairsOK'
      <3>1. Rising(pairs')
        BY <2>2, <2>3, <2>5 DEF Rising
      <3>2. \A i \in 1..Len(pairs') : pairs'[i].t > got'.t
        <4> TAKE i \in 1..Len(pairs')
        <4>1. i + 1 \in 1..Len(pairs) /\ 1 < i + 1
          BY <2>2, <2>3
        <4> QED BY <4>1, <2>3, <2>5
      <3> QED BY <3>1, <3>2, <2>1, <2>2, <2>3, <2>5 DEF PairsOK, Rising, PairerAssumption
    <2>10. SidesAhead'
      BY <2>1, <2>3 DEF PairerInv, SidesAhead
    <2>11. NoMatchWaiting'
      BY <2>1 DEF PairerInv, NoMatchWaiting
    <2>12. Counted'
      BY <2>1 DEF PairerInv, Counted
    <2>13. NothingLostUncounted'
      BY <2>1, <2>2, <2>3 DEF PairerInv, Counted, NothingLostUncounted
    <2> QED BY <2>6, <2>7, <2>8, <2>9, <2>10, <2>11, <2>12, <2>13 DEF PairerInv
  <1> QED BY <1>1, <1>2

\* reset(): both sides and the queue are empty, and what was in them is accounted for.
LEMMA ResetStep ==
  ASSUME PairerAssumption, PairerInv, Reset
  PROVE  PairerInv'
  <1>1. /\ sides' = [d \in Sides |-> <<>>] /\ pairs' = <<>> /\ resets' = resets + 1
        /\ UNCHANGED <<seen, runner, got, paired, unmatched, overflow, pushed, popped>>
        /\ shut' = FALSE /\ super' = "start"
        /\ cleared' = [frames |-> cleared.frames + Len(sides["left"]) + Len(sides["right"]),
                       pairs |-> cleared.pairs + Len(pairs)]
    BY DEF Reset
  <1>2. <<>> \in Seq(Frames) /\ <<>> \in Seq(Pairs) /\ Len(<<>>) = 0
    OBVIOUS
  <1>3. "left" \in Sides /\ "right" \in Sides
    BY DEF Sides
  <1>4. \A d \in Sides : sides'[d] = <<>> /\ Len(sides[d]) \in Nat
    BY <1>1 DEF PairerInv, SidesOK, SideOK
  <1>5. Len(pairs) \in Nat
    BY DEF PairerInv, PairsOK
  <1>6. Placed'
    <2>1. sides' \in [Sides -> Seq(Frames)]
      BY <1>1, <1>2
    <2>2. resets' \in 0..MaxResets
      BY <1>1 DEF PairerInv, Placed, PairerAssumption, Reset
    <2>3. UNCHANGED <<seen, runner, got>> /\ shut' \in BOOLEAN /\ super' = "start"
      BY <1>1
    <2> QED BY <2>1, <2>2, <2>3 DEF PairerInv, Placed
  <1>7. SidesOK'
    BY <1>4, EmptySide DEF SidesOK
  <1>8. PairsOK'
    BY <1>1, <1>2 DEF PairsOK, Rising, PairerAssumption
  <1>9. SidesAhead' /\ NoMatchWaiting'
    BY <1>2, <1>3, <1>4 DEF SidesAhead, NoMatchWaiting
  <1>10. /\ cleared' \in [frames : Nat, pairs : Nat]
         /\ cleared'.frames = cleared.frames + Len(sides["left"]) + Len(sides["right"])
         /\ cleared'.pairs = cleared.pairs + Len(pairs)
    BY <1>1, <1>3, <1>4, <1>5, SMTT(30) DEF PairerInv, Counted
  <1>11. Counted'
    BY <1>1, <1>10 DEF PairerInv, Counted
  <1>12. NothingLostUncounted'
    <2>1. Len(sides'["left"]) = 0 /\ Len(sides'["right"]) = 0 /\ Len(pairs') = 0
      BY <1>1, <1>2, <1>3, <1>4
    <2>2. /\ cleared.frames \in Nat /\ cleared.pairs \in Nat
          /\ Len(sides["left"]) \in Nat /\ Len(sides["right"]) \in Nat
      BY <1>3, <1>4 DEF PairerInv, Counted
    <2>3. /\ pushed \in Nat /\ paired \in Nat /\ unmatched \in Nat /\ overflow \in Nat
          /\ popped \in Nat
      BY DEF PairerInv, Counted
    <2>4. NothingLostUncounted
      BY DEF PairerInv
    <2>5. UNCHANGED <<paired, unmatched, overflow, pushed, popped>>
      BY <1>1
    <2>6. /\ cleared'.frames = cleared.frames + Len(sides["left"]) + Len(sides["right"])
          /\ cleared'.pairs = cleared.pairs + Len(pairs)
      BY <1>10
    <2>7. pushed' = 2 * paired' + unmatched' + Len(sides'["left"]) + Len(sides'["right"])
                      + cleared'.frames
      <3> DEFINE l == Len(sides["left"])
                 r == Len(sides["right"])
      <3>1. l \in Nat /\ r \in Nat
        BY <2>2
      <3>2. pushed = 2 * paired + unmatched + l + r + cleared.frames
        BY <2>4 DEF NothingLostUncounted
      <3>3. cleared'.frames = cleared.frames + l + r
        BY <2>6
      <3> HIDE DEF l, r
      <3> QED BY <3>1, <3>2, <3>3, <2>1, <2>2, <2>3, <2>5
    <2>8. paired' = popped' + overflow' + Len(pairs') + cleared'.pairs
      BY <2>1, <2>2, <2>3, <2>4, <2>5, <2>6, <1>5, SMTT(30) DEF NothingLostUncounted
    <2> QED BY <2>7, <2>8 DEF NothingLostUncounted
  <1> QED BY <1>6, <1>7, <1>8, <1>9, <1>11, <1>12 DEF PairerInv

-----------------------------------------------------------------------------
(* push().                                                                  *)

LEMMA TwoSides ==
  ASSUME NEW d \in Sides
  PROVE  /\ Other(d) \in Sides /\ Other(d) # d /\ Sides = {d, Other(d)}
         /\ (d = "left" /\ Other(d) = "right") \/ (d = "right" /\ Other(d) = "left")
  BY DEF Sides, Other

\* That no frame matches may be shown from either side.
LEMMA EitherWay ==
  ASSUME NEW s, NEW d \in Sides,
         \A i \in 1..Len(s[d]) : \A j \in 1..Len(s[Other(d)]) :
            s[d][i].t # s[Other(d)][j].t
  PROVE  \A i \in 1..Len(s["left"]) : \A j \in 1..Len(s["right"]) :
            s["left"][i].t # s["right"][j].t
  <1>1. CASE d = "left" /\ Other(d) = "right"
    BY <1>1
  <1>2. CASE d = "right" /\ Other(d) = "left"
    BY <1>2
  <1> QED BY <1>1, <1>2, TwoSides

\* A side q after the new frame f was buffered and the oldest one dropped, if there were
\* too many: r.
Buffered(q, f, r, t, session) ==
    /\ SideOK(r, t, session)
    /\ Len(q) \in Nat /\ Len(Append(q, f)) = Len(q) + 1
    /\ Len(r) = IF Len(Append(q, f)) > SideCap THEN Len(q) ELSE Len(q) + 1
    /\ \A i \in 1..Len(r) : r[i].t = t \/ \E k \in 1..Len(q) : r[i] = q[k]

LEMMA BufferedSide ==
  ASSUME PairerAssumption, NEW session \in 0..MaxResets, NEW top \in Nat,
         NEW t \in 1..MaxPulse, top < t, NEW q, SideOK(q, top, session),
         NEW f, f = [t |-> t, session |-> session], NEW r,
         r = IF Len(Append(q, f)) > SideCap THEN Tail(Append(q, f)) ELSE Append(q, f)
  PROVE  Buffered(q, f, r, t, session)
  <1> DEFINE a == Append(q, f)
  <1>1. /\ q \in Seq(Frames) /\ Len(q) \in Nat /\ Len(q) <= SideCap /\ SideCap \in Nat \ {0}
        /\ t \in Nat
    BY DEF SideOK, PairerAssumption
  <1>2. f \in Frames /\ f.t = t /\ f.session = session
    BY DEF Frames
  <1>3. \A i \in 1..Len(q) : q[i].t \in Nat
    BY <1>1, StampsAreNat
  <1>4. /\ a \in Seq(Frames) /\ Len(a) = Len(q) + 1 /\ a[Len(q) + 1] = f
        /\ \A i \in 1..Len(q) : a[i] = q[i]
    BY <1>1, <1>2
  <1> HIDE DEF a
  <1>5. \A i \in 1..Len(a) : i \in 1..Len(q) \/ i = Len(q) + 1
    BY <1>1, <1>4
  <1>6. \A i \in 1..Len(a) : /\ a[i].t = t \/ \E k \in 1..Len(q) : a[i] = q[k]
                             /\ a[i].t <= t /\ a[i].session = session
    <2> TAKE i \in 1..Len(a)
    <2>1. CASE i \in 1..Len(q)
      BY <2>1, <1>1, <1>3, <1>4 DEF SideOK
    <2>2. CASE i = Len(q) + 1
      BY <2>2, <1>1, <1>2, <1>4
    <2> QED BY <2>1, <2>2, <1>5
  <1>7. Rising(a)
    <2> SUFFICES ASSUME NEW i \in 1..Len(a), NEW j \in 1..Len(a), i < j
                 PROVE  a[i].t < a[j].t
      BY DEF Rising
    <2>1. i \in 1..Len(q)
      BY <1>1, <1>4
    <2>2. CASE j \in 1..Len(q)
      BY <2>1, <2>2, <1>4 DEF SideOK, Rising
    <2>3. CASE j = Len(q) + 1
      <3>1. a[i].t <= top /\ a[i].t \in Nat /\ a[j].t = t
        BY <2>1, <2>3, <1>2, <1>3, <1>4 DEF SideOK
      <3> QED BY <3>1, <1>1
    <2> QED BY <2>2, <2>3, <1>5
  <1>8. CASE Len(a) > SideCap
    <2>1. r = Tail(a)
      BY <1>8 DEF a
    <2>2. /\ r \in Seq(Frames) /\ Len(r) = Len(q)
          /\ \A i \in 1..Len(r) : i + 1 \in 1..Len(a) /\ r[i] = a[i + 1]
      <3>1. Len(a) \in Nat /\ a # <<>> /\ Len(a) = Len(q) + 1
        BY <1>1, <1>4
      <3>2. /\ Tail(a) \in Seq(Frames) /\ Len(Tail(a)) = Len(a) - 1
            /\ \A i \in 1..Len(Tail(a)) : Tail(a)[i] = a[i + 1]
        BY <3>1, <1>4
      <3>3. Len(r) = Len(q)
        BY <3>1, <3>2, <2>1, <1>1
      <3>4. \A i \in 1..Len(r) : i + 1 \in 1..Len(a)
        BY <3>1, <3>3, <1>1
      <3> QED BY <3>2, <3>3, <3>4, <2>1
    <2>3. Rising(r)
      <3> SUFFICES ASSUME NEW i \in 1..Len(r), NEW j \in 1..Len(r), i < j
                   PROVE  r[i].t < r[j].t
        BY DEF Rising
      <3>1. i + 1 \in 1..Len(a) /\ j + 1 \in 1..Len(a) /\ i + 1 < j + 1
        BY <2>2
      <3> QED BY <3>1, <2>2, <1>7 DEF Rising
    <2>4. \A i \in 1..Len(r) : /\ r[i].t = t \/ \E k \in 1..Len(q) : r[i] = q[k]
                               /\ r[i].t <= t /\ r[i].session = session
      <3> TAKE i \in 1..Len(r)
      <3>1. i + 1 \in 1..Len(a) /\ r[i] = a[i + 1]
        BY <2>2
      <3> QED BY <3>1, <1>6
    <2>5. SideOK(r, t, session)
      BY <2>2, <2>3, <2>4, <1>1 DEF SideOK
    <2>6. Len(r) = IF Len(a) > SideCap THEN Len(q) ELSE Len(q) + 1
      BY <2>2, <1>8
    <2> QED BY <2>4, <2>5, <2>6, <1>1, <1>4 DEF Buffered, a
  <1>9. CASE ~(Len(a) > SideCap)
    <2>1. r = a
      BY <1>9 DEF a
    <2>2. Len(a) <= SideCap
      BY <1>1, <1>4, <1>9
    <2> QED BY <2>1, <2>2, <1>1, <1>4, <1>6, <1>7, <1>9 DEF Buffered, SideOK, a
  <1> QED BY <1>8, <1>9

\* No partner: the frame waits on its side.
LEMMA BufferStep ==
  ASSUME PairerAssumption, PairerInv, NEW d \in Sides, NEW t \in 1..MaxPulse, t > seen[d],
         seen' = [seen EXCEPT ![d] = t], pushed' = pushed + 1, Partner(d, t) = {},
         Buffer(d, t), UNCHANGED <<shut, super, resets, got, popped, cleared>>
  PROVE  PairerInv'
  <1> DEFINE q == sides[d]
             a == Append(q, Frame(t))
             r == sides'[d]
             o == Other(d)
  <1>0. /\ o \in Sides /\ o # d /\ \A e \in Sides : e = d \/ e = o
        /\ (d = "left" /\ o = "right") \/ (d = "right" /\ o = "left")
    BY TwoSides
  <1> HIDE DEF o
  <1>1. /\ sides \in [Sides -> Seq(Frames)] /\ seen \in [Sides -> 0..MaxPulse]
        /\ resets \in 0..MaxResets /\ SideOK(q, seen[d], resets)
        /\ SideOK(sides[o], seen[o], resets)
        /\ seen[d] \in Nat /\ seen[o] \in Nat /\ t \in Nat
    BY <1>0 DEF PairerInv, Placed, SidesOK, PairerAssumption
  <1>2. /\ r = IF Len(a) > SideCap THEN Tail(a) ELSE a
        /\ sides' = [sides EXCEPT ![d] = r]
        /\ unmatched' = IF Len(a) > SideCap THEN unmatched + 1 ELSE unmatched
        /\ UNCHANGED <<pairs, overflow, paired, runner>>
    BY <1>1 DEF Buffer
  <1>3. sides'[o] = sides[o] /\ seen'[d] = t /\ seen'[o] = seen[o]
    BY <1>0, <1>1, <1>2
  <1>4. /\ SideOK(r, t, resets)
        /\ Len(q) \in Nat /\ Len(a) = Len(q) + 1
        /\ Len(r) = IF Len(a) > SideCap THEN Len(q) ELSE Len(q) + 1
        /\ \A i \in 1..Len(r) : r[i].t = t \/ \E k \in 1..Len(q) : r[i] = q[k]
    <2> DEFINE f == Frame(t)
    <2>1. f = [t |-> t, session |-> resets] /\ seen[d] < t
      BY <1>1 DEF Frame
    <2>2. r = IF Len(Append(q, f)) > SideCap THEN Tail(Append(q, f)) ELSE Append(q, f)
      BY <1>2
    <2> HIDE DEF f, r, q
    <2>3. PairerAssumption /\ resets \in 0..MaxResets /\ SideOK(q, seen[d], resets)
      BY <1>1
    <2>4. Buffered(q, f, r, t, resets)
      BY <1>1, <2>1, <2>2, <2>3, BufferedSide
    <2> QED BY <2>4 DEF Buffered, f
  <1> HIDE DEF q, a, r
  <1>5. Placed'
    <2>1. r \in Seq(Frames)
      BY <1>4 DEF SideOK
    <2>2. sides' \in [Sides -> Seq(Frames)] /\ seen' \in [Sides -> 0..MaxPulse]
      BY <2>1, <1>1, <1>2
    <2>3. got.t \in Nat /\ \A e \in Sides : got.t <= seen'[e]
      BY <1>0, <1>1, <1>3 DEF PairerInv, Placed
    <2> QED BY <2>2, <2>3, <1>2 DEF PairerInv, Placed
  <1>6. SidesOK'
    BY <1>0, <1>1, <1>3, <1>4 DEF SidesOK, r
  <1>7. PairsOK'
    <2>1. pairs \in Seq(Pairs) /\ \A i \in 1..Len(pairs) : pairs[i].t \in Nat
      BY PairStamps DEF PairerInv
    <2>2. \A i \in 1..Len(pairs) : \A e \in Sides : pairs[i].t <= seen'[e]
      BY <2>1, <1>0, <1>1, <1>3 DEF PairerInv, PairsOK
    <2> QED BY <2>2, <1>2 DEF PairerInv, PairsOK, Rising
  <1>8. SidesAhead'
    <2>1. \A j \in 1..Len(pairs) : pairs[j].t \in Nat /\ pairs[j].t <= seen[d]
      BY PairStamps DEF PairerInv, PairsOK
    <2>2. \A j \in 1..Len(pairs) : t > pairs[j].t
      BY <2>1, <1>1
    <2>3. \A i \in 1..Len(r) : \A j \in 1..Len(pairs) : r[i].t > pairs[j].t
      BY <2>2, <1>4 DEF PairerInv, SidesAhead, q
    <2> QED BY <2>3, <1>0, <1>2, <1>3 DEF PairerInv, SidesAhead, r
  <1>9. NoMatchWaiting'
    <2>1. \A j \in 1..Len(sides[o]) : sides[o][j].t # t
      BY DEF Partner, o
    <2>2. \A k \in 1..Len(q) : \A j \in 1..Len(sides[o]) : q[k].t # sides[o][j].t
      BY <1>0 DEF PairerInv, NoMatchWaiting, q
    <2>3. \A i \in 1..Len(r) : \A j \in 1..Len(sides[o]) : r[i].t # sides[o][j].t
      <3> SUFFICES ASSUME NEW i \in 1..Len(r), NEW j \in 1..Len(sides[o])
                   PROVE  r[i].t # sides[o][j].t
        OBVIOUS
      <3>1. CASE r[i].t = t
        BY <3>1, <2>1
      <3>2. ASSUME NEW k \in 1..Len(q), r[i] = q[k] PROVE r[i].t # sides[o][j].t
        BY <3>2, <2>2
      <3> QED BY <3>1, <3>2, <1>4
    <2> QED BY <2>3, <1>3, EitherWay DEF NoMatchWaiting, r, o
  <1>10. unmatched' \in Nat /\ unmatched' + Len(r) = unmatched + Len(q) + 1
    <2>1. unmatched \in Nat
      BY DEF PairerInv, Counted
    <2> DEFINE n == Len(q)
               m == Len(r)
               full == Len(a) > SideCap
    <2>2. n \in Nat /\ m = (IF full THEN n ELSE n + 1)
      BY <1>4
    <2>3. unmatched' = IF full THEN unmatched + 1 ELSE unmatched
      BY <1>2
    <2> HIDE DEF n, m, full
    <2>4. unmatched' \in Nat /\ unmatched' + m = unmatched + n + 1
      BY <2>1, <2>2, <2>3
    <2> QED BY <2>4 DEF n, m
  <1>11. Counted'
    <2>1. seen'["left"] + seen'["right"] >= seen["left"] + seen["right"] + 1
      BY <1>0, <1>1, <1>3
    <2> QED BY <2>1, <1>0, <1>1, <1>2, <1>3, <1>10 DEF PairerInv, Counted
  <1>12. NothingLostUncounted'
    <2> DEFINE l == Len(q)
               m == Len(sides[o])
               n == Len(r)
    <2>1. l \in Nat /\ m \in Nat /\ n \in Nat
      BY <1>1, <1>4 DEF SideOK
    <2>2. pushed = 2 * paired + unmatched + l + m + cleared.frames
      <3>1. CASE d = "left" /\ o = "right"
        BY <3>1 DEF PairerInv, NothingLostUncounted, q
      <3>2. CASE d = "right" /\ o = "left"
        <4>1. pushed = 2 * paired + unmatched + m + l + cleared.frames
          BY <3>2 DEF PairerInv, NothingLostUncounted, q
        <4> HIDE DEF l, m
        <4> QED BY <4>1, <2>1 DEF PairerInv, Counted
      <3> QED BY <3>1, <3>2, <1>0
    <2>3. unmatched' + n = unmatched + l + 1 /\ unmatched' \in Nat
      BY <1>10
    <2>4. Len(sides'[d]) = n /\ Len(sides'[o]) = m
      BY <1>3 DEF r
    <2> HIDE DEF l, m, n
    <2>5. pushed' = 2 * paired' + unmatched' + n + m + cleared'.frames
      BY <2>1, <2>2, <2>3, <1>2 DEF PairerInv, Counted
    <2>6. pushed' = 2 * paired' + unmatched' + m + n + cleared'.frames
      BY <2>1, <2>5, <1>2, <1>10 DEF PairerInv, Counted
    <2>7. pushed' = 2 * paired' + unmatched' + Len(sides'["left"]) + Len(sides'["right"])
                      + cleared'.frames
      BY <2>4, <2>5, <2>6, <1>0
    <2> QED BY <2>7, <1>2 DEF PairerInv, NothingLostUncounted
  <1> QED BY <1>5, <1>6, <1>7, <1>8, <1>9, <1>11, <1>12 DEF PairerInv

\* The new pair, after the oldest of a full queue.
LEMMA PairQueued ==
  ASSUME PairerAssumption, PairsOK, NEW p \in Pairs, p.sessions = {resets}, got.t \in Nat,
         got.t < p.t, \A i \in 1..Len(pairs) : pairs[i].t < p.t,
         NEW full \in BOOLEAN, full <=> Len(pairs) >= PairCap,
         pairs' = Append(IF full THEN Tail(pairs) ELSE pairs, p)
  PROVE  /\ pairs' \in Seq(Pairs) /\ Len(pairs') <= PairCap /\ Rising(pairs')
         /\ \A i \in 1..Len(pairs') : pairs'[i] = p \/ \E k \in 1..Len(pairs) : pairs'[i] = pairs[k]
         /\ \A i \in 1..Len(pairs') : pairs'[i].t > got.t /\ pairs'[i].sessions = {resets}
         /\ Len(pairs) \in Nat
         /\ Len(pairs') = IF full THEN Len(pairs) ELSE Len(pairs) + 1
  <1>1. pairs \in Seq(Pairs) /\ Len(pairs) \in Nat /\ \A i \in 1..Len(pairs) : pairs[i].t \in Nat
    BY PairStamps
  <1>2. PairCap \in Nat \ {0} /\ Len(pairs) <= PairCap
    BY DEF PairerAssumption, PairsOK
  <1>3. \A i, j \in 1..Len(pairs) : i < j => pairs[i].t < pairs[j].t
    BY DEF PairsOK, Rising
  <1>4. p.t \in Nat
    BY DEF Pairs
  <1> DEFINE k == IF full THEN 1 ELSE 0
             b == IF full THEN Tail(pairs) ELSE pairs
  <1>5. /\ b \in Seq(Pairs) /\ Len(b) = Len(pairs) - k /\ Len(b) \in Nat
        /\ \A i \in 1..Len(b) : i + k \in 1..Len(pairs) /\ b[i] = pairs[i + k]
    <2>1. CASE full
      <3>1. pairs # <<>> /\ b = Tail(pairs) /\ k = 1
        BY <2>1, <1>1, <1>2
      <3> HIDE DEF b, k
      <3> QED BY <3>1, <1>1
    <2>2. CASE ~full
      <3>1. b = pairs /\ k = 0
        BY <2>2
      <3> HIDE DEF b, k
      <3> QED BY <3>1, <1>1
    <2> QED BY <2>1, <2>2
  <1>6. k \in Nat /\ Len(pairs) - k + 1 <= PairCap
    <2>1. CASE full
      BY <2>1, <1>1, <1>2
    <2>2. CASE ~full
      BY <2>2, <1>1, <1>2
    <2> QED BY <2>1, <2>2
  <1>7. Len(pairs) - k + 1 = IF full THEN Len(pairs) ELSE Len(pairs) + 1
    BY <1>1
  <1> DEFINE r == Append(b, p)
  <1>8. pairs' = r
    OBVIOUS
  <1> HIDE DEF b, k
  <1>9. /\ r \in Seq(Pairs) /\ Len(r) = Len(b) + 1 /\ r[Len(b) + 1] = p
        /\ \A i \in 1..Len(b) : r[i] = b[i]
    BY <1>5
  <1> HIDE DEF r
  <1>10. \A i \in 1..Len(r) : (i \in 1..Len(b) /\ i + k \in 1..Len(pairs) /\ r[i] = pairs[i + k])
                              \/ (i = Len(b) + 1 /\ r[i] = p)
    BY <1>5, <1>9
  <1>11. \A i \in 1..Len(r) : r[i] = p \/ \E m \in 1..Len(pairs) : r[i] = pairs[m]
    BY <1>10
  <1>12. \A i \in 1..Len(r) : r[i].t > got.t /\ r[i].sessions = {resets}
    BY <1>4, <1>11 DEF PairsOK
  <1>13. Rising(r)
    <2> SUFFICES ASSUME NEW i \in 1..Len(r), NEW j \in 1..Len(r), i < j
                 PROVE  r[i].t < r[j].t
      BY DEF Rising
    <2>1. i + k \in 1..Len(pairs) /\ r[i] = pairs[i + k] /\ i \in Nat /\ j \in Nat
      BY <1>5, <1>9, <1>10
    <2>2. CASE j + k \in 1..Len(pairs) /\ r[j] = pairs[j + k]
      <3>1. i + k < j + k
        BY <2>1, <1>6
      <3> QED BY <3>1, <2>1, <2>2, <1>3
    <2>3. CASE r[j] = p
      BY <2>1, <2>3
    <2> QED BY <2>2, <2>3, <1>10
  <1> QED BY <1>1, <1>5, <1>6, <1>7, <1>8, <1>9, <1>11, <1>12, <1>13

\* A partner waits: the pair is formed, and what is older leaves both sides.
LEMMA MatchStep ==
  ASSUME PairerAssumption, PairerInv, NEW d \in Sides, NEW t \in 1..MaxPulse, t > seen[d],
         seen' = [seen EXCEPT ![d] = t], pushed' = pushed + 1, NEW k \in Partner(d, t),
         Match(d, t, k), UNCHANGED <<shut, super, resets, got, popped, cleared>>
  PROVE  PairerInv'
  <1> DEFINE o == Other(d)
             q == sides[d]
             w == sides[o]
             a == sides'[d]
             b == sides'[o]
             full == Len(pairs) >= PairCap
             p == [t |-> t, sessions |-> {resets, w[k].session}]
  <1>0. /\ o \in Sides /\ o # d /\ \A e \in Sides : e = d \/ e = o
        /\ (d = "left" /\ o = "right") \/ (d = "right" /\ o = "left")
    BY TwoSides
  <1>1. /\ sides \in [Sides -> Seq(Frames)] /\ seen \in [Sides -> 0..MaxPulse]
        /\ resets \in 0..MaxResets /\ SideOK(q, seen[d], resets) /\ SideOK(w, seen[o], resets)
        /\ seen[d] \in Nat /\ seen[o] \in Nat /\ t \in Nat /\ SideCap \in Nat
    BY <1>0 DEF PairerInv, Placed, SidesOK, PairerAssumption
  <1>2. k \in 1..Len(w) /\ w[k].t = t
    BY DEF Partner
  <1>3. /\ a = Purge(q, t) /\ b = Purge(w, t) /\ sides' = [e \in Sides |-> sides'[e]]
        /\ unmatched' = unmatched + Stale(q, t) + Stale(w, t)
        /\ pairs' = Append(IF full THEN Tail(pairs) ELSE pairs, p)
        /\ overflow' = IF full THEN overflow + 1 ELSE overflow
        /\ paired' = paired + 1
        /\ runner' = IF runner = "asleep" THEN "woken" ELSE runner
    BY <1>0 DEF Match
  <1>4. w[k].session = resets /\ t <= seen[o]
    BY <1>1, <1>2 DEF SideOK
  <1>5. /\ Stale(q, t) = Len(q) /\ SideOK(a, seen[d], resets) /\ Len(a) = 0
    <2> HIDE DEF q, a
    <2>1. Leading(q, t) = Len(q) /\ Stale(q, t) = Len(q)
      BY <1>1, PurgedMine
    <2>2. /\ SideOK(Purge(q, t), seen[d], resets) /\ Len(Purge(q, t)) = Len(q) - Leading(q, t)
      BY <1>1, PurgedSide
    <2>3. Len(q) \in Nat
      BY <1>1 DEF SideOK
    <2> QED BY <2>1, <2>2, <2>3, <1>3
  <1>6. /\ Stale(w, t) = k - 1 /\ SideOK(b, seen[o], resets) /\ Len(b) = Len(w) - k
        /\ \A i \in 1..Len(b) : b[i].t > t
    <2> HIDE DEF w, b
    <2>1. Leading(w, t) = k /\ Stale(w, t) = k - 1
      BY <1>1, <1>2, PurgedTheirs
    <2>2. /\ SideOK(Purge(w, t), seen[o], resets) /\ Len(Purge(w, t)) = Len(w) - Leading(w, t)
          /\ \A i \in 1..Len(Purge(w, t)) : Purge(w, t)[i].t > t
      BY <1>1, PurgedSide
    <2> QED BY <2>1, <2>2, <1>3
  <1>7. seen'[d] = t /\ seen'[o] = seen[o] /\ t <= seen'[d] /\ t <= seen'[o]
    BY <1>0, <1>1, <1>4
  <1>8. got.t \in Nat /\ got.t < t /\ \A i \in 1..Len(pairs) : pairs[i].t < t
    <2>1. got.t \in Nat /\ got.t <= seen[d]
      BY DEF PairerInv, Placed
    <2>2. \A i \in 1..Len(pairs) : pairs[i].t \in Nat /\ pairs[i].t <= seen[d]
      BY PairStamps DEF PairerInv, PairsOK
    <2> QED BY <2>1, <2>2, <1>1
  <1>9. /\ pairs' \in Seq(Pairs) /\ Len(pairs') <= PairCap /\ Rising(pairs')
        /\ \A i \in 1..Len(pairs') : pairs'[i] = p \/ \E j \in 1..Len(pairs) : pairs'[i] = pairs[j]
        /\ \A i \in 1..Len(pairs') : pairs'[i].t > got.t /\ pairs'[i].sessions = {resets}
        /\ Len(pairs) \in Nat
        /\ Len(pairs') = IF full THEN Len(pairs) ELSE Len(pairs) + 1
    <2>1. p \in Pairs /\ p.sessions = {resets} /\ p.t = t
      BY <1>1, <1>4 DEF Pairs
    <2>2. PairsOK
      BY DEF PairerInv
    <2> HIDE DEF p, full
    <2>3. full \in BOOLEAN /\ (full <=> Len(pairs) >= PairCap)
      BY DEF full
    <2> QED BY <2>1, <2>2, <2>3, <1>3, <1>8, PairQueued
  <1>10. p.t = t
    OBVIOUS
  <1> HIDE DEF o, q, w, a, b, p, full
  <1>11. Placed'
    <2>1. a \in Seq(Frames) /\ b \in Seq(Frames)
      BY <1>5, <1>6 DEF SideOK
    <2>2. \A e \in Sides : sides'[e] \in Seq(Frames)
      BY <2>1, <1>0 DEF a, b
    <2>3. sides' \in [Sides -> Seq(Frames)] /\ seen' \in [Sides -> 0..MaxPulse]
      BY <2>2, <1>1, <1>3
    <2>4. got.t \in Nat /\ \A e \in Sides : got.t <= seen'[e]
      BY <1>0, <1>1, <1>7 DEF PairerInv, Placed
    <2>5. runner' \in {"running", "asleep", "woken", "exit", "gone"}
      BY <1>3 DEF PairerInv, Placed
    <2> QED BY <2>3, <2>4, <2>5 DEF PairerInv, Placed
  <1>12. SidesOK'
    <2>1. SideOK(a, t, resets)
      <3>1. \A i \in 1..Len(a) : FALSE
        BY <1>5
      <3> QED BY <3>1, <1>5 DEF SideOK
    <2> QED BY <2>1, <1>0, <1>6, <1>7 DEF SidesOK, a, b
  <1>13. PairsOK'
    <2>1. \A i \in 1..Len(pairs) : \A e \in Sides : pairs[i].t <= seen'[e]
      <3>1. \A i \in 1..Len(pairs) : pairs[i].t \in Nat /\ pairs[i].t <= seen[o]
        BY <1>0, PairStamps DEF PairerInv, PairsOK
      <3> QED BY <3>1, <1>0, <1>1, <1>7, <1>8
    <2>2. \A i \in 1..Len(pairs') : \A e \in Sides : pairs'[i].t <= seen'[e]
      BY <2>1, <1>0, <1>7, <1>9, <1>10
    <2> QED BY <2>2, <1>9 DEF PairsOK
  <1>14. SidesAhead'
    <2>1. \A i \in 1..Len(b) : \A j \in 1..Len(pairs) : b[i].t > pairs[j].t
      <3>1. \A i \in 1..Len(b) : b[i].t \in Nat /\ b[i].t > t
        BY <1>6, StampsAreNat DEF SideOK
      <3>2. \A i \in 1..Len(pairs) : pairs[i].t \in Nat
        BY PairStamps DEF PairerInv
      <3> QED BY <3>1, <3>2, <1>1, <1>8, SMTT(30)
    <2>2. \A i \in 1..Len(b) : \A j \in 1..Len(pairs') : b[i].t > pairs'[j].t
      BY <2>1, <1>6, <1>9, <1>10
    <2>3. \A i \in 1..Len(a) : FALSE
      BY <1>5
    <2> QED BY <2>2, <2>3, <1>0 DEF SidesAhead, a, b
  <1>15. NoMatchWaiting'
    <2>1. \A i \in 1..Len(sides'[d]) : FALSE
      BY <1>5 DEF a
    <2> QED BY <2>1, EitherWay DEF NoMatchWaiting
  <1> DEFINE l == Len(q)
             m == Len(w)
             n == Len(b)
  <1>16. /\ l \in Nat /\ m \in Nat /\ k \in 1..m /\ n = m - k /\ n \in Nat
         /\ unmatched' = unmatched + l + (k - 1)
    BY <1>1, <1>2, <1>3, <1>5, <1>6 DEF SideOK
  <1>17. pushed = 2 * paired + unmatched + l + m + cleared.frames
    <2>1. CASE d = "left" /\ o = "right"
      BY <2>1 DEF PairerInv, NothingLostUncounted, q, w
    <2>2. CASE d = "right" /\ o = "left"
      <3>1. pushed = 2 * paired + unmatched + m + l + cleared.frames
        BY <2>2 DEF PairerInv, NothingLostUncounted, q, w
      <3> HIDE DEF l, m
      <3> QED BY <3>1, <1>16 DEF PairerInv, Counted
    <2> QED BY <2>1, <2>2, <1>0
  <1>18. Len(sides'[d]) = 0 /\ Len(sides'[o]) = n
    BY <1>5 DEF a, b
  <1> HIDE DEF l, m, n
  <1>19. unmatched' \in Nat /\ paired' \in Nat /\ overflow' \in Nat
    <2>1. k - 1 \in Nat /\ unmatched \in Nat /\ paired \in Nat /\ overflow \in Nat
      BY <1>16 DEF PairerInv, Counted
    <2> QED BY <2>1, <1>3, <1>16, SMTT(30)
  <1>20. Counted'
    <2>1. seen'["left"] + seen'["right"] >= seen["left"] + seen["right"] + 1
      BY <1>0, <1>1, <1>7
    <2> QED BY <2>1, <1>0, <1>1, <1>7, <1>19, SMTT(30) DEF PairerInv, Counted
  <1>21. NothingLostUncounted'
    <2>1. pushed' = 2 * paired' + unmatched' + n + cleared'.frames
      <3>1. k \in Nat /\ unmatched \in Nat /\ paired \in Nat /\ cleared.frames \in Nat
        BY <1>16 DEF PairerInv, Counted
      <3>2. pushed' = 2 * (paired + 1) + (unmatched + l + (k - 1)) + (m - k) + cleared.frames
        BY <3>1, <1>16, <1>17
      <3>3. paired' = paired + 1 /\ cleared' = cleared
        BY <1>3
      <3> QED BY <3>2, <3>3, <1>16
    <2>2. pushed' = 2 * paired' + unmatched' + 0 + n + cleared'.frames
      BY <2>1, <1>16, <1>19 DEF PairerInv, Counted
    <2>3. pushed' = 2 * paired' + unmatched' + n + 0 + cleared'.frames
      BY <2>1, <1>16, <1>19 DEF PairerInv, Counted
    <2>4. pushed' = 2 * paired' + unmatched' + Len(sides'["left"]) + Len(sides'["right"])
                      + cleared'.frames
      BY <2>2, <2>3, <1>0, <1>18
    <2>5. paired' = popped' + overflow' + Len(pairs') + cleared'.pairs
      <3> DEFINE x == Len(pairs)
                 y == Len(pairs')
      <3>1. x \in Nat /\ y = (IF full THEN x ELSE x + 1)
        BY <1>9
      <3>2. paired = popped + overflow + x + cleared.pairs
        BY DEF PairerInv, NothingLostUncounted
      <3> HIDE DEF x, y
      <3> QED BY <3>1, <3>2, <1>3, SMTT(30) DEF PairerInv, Counted, y
    <2> QED BY <2>4, <2>5 DEF NothingLostUncounted
  <1> QED BY <1>11, <1>12, <1>13, <1>14, <1>15, <1>20, <1>21 DEF PairerInv

LEMMA PushStep ==
  ASSUME PairerAssumption, PairerInv, NEW d \in Sides, NEW t \in 1..MaxPulse, Push(d, t)
  PROVE  PairerInv'
  <1>1. /\ t > seen[d] /\ seen' = [seen EXCEPT ![d] = t]
        /\ UNCHANGED <<shut, super, resets, got, popped, cleared>>
    BY DEF Push
  <1>2. CASE shut
    <2>1. UNCHANGED <<sides, pairs, overflow, paired, unmatched, runner, pushed>>
      BY <1>2 DEF Push
    <2>2. /\ seen \in [Sides -> 0..MaxPulse] /\ t \in Nat
          /\ \A e \in Sides : seen[e] \in Nat /\ seen'[e] \in Nat /\ seen[e] <= seen'[e]
      BY <1>1 DEF PairerInv, Placed, PairerAssumption
    <2>3. Placed'
      BY <1>1, <2>1, <2>2 DEF PairerInv, Placed
    <2>4. SidesOK'
      <3> SUFFICES ASSUME NEW e \in Sides PROVE SideOK(sides'[e], seen'[e], resets')
        BY DEF SidesOK
      <3>1. SideOK(sides[e], seen[e], resets)
        BY DEF PairerInv, SidesOK
      <3>2. \A i \in 1..Len(sides[e]) : sides[e][i].t \in Nat
        BY <3>1, StampsAreNat DEF SideOK
      <3>3. \A i \in 1..Len(sides[e]) : sides[e][i].t <= seen'[e]
        BY <3>1, <3>2, <2>2 DEF SideOK
      <3> QED BY <3>1, <3>3, <1>1, <2>1 DEF SideOK
    <2>5. PairsOK'
      <3>1. \A i \in 1..Len(pairs) : pairs[i].t \in Nat
        BY PairStamps DEF PairerInv
      <3>2. \A i \in 1..Len(pairs) : \A e \in Sides : pairs[i].t <= seen'[e]
        BY <3>1, <2>2 DEF PairerInv, PairsOK
      <3> QED BY <3>2, <1>1, <2>1 DEF PairerInv, PairsOK, Rising
    <2>6. SidesAhead' /\ NoMatchWaiting' /\ NothingLostUncounted'
      BY <1>1, <2>1 DEF PairerInv, SidesAhead, NoMatchWaiting, NothingLostUncounted
    <2>7. Counted'
      <3>1. seen'["left"] + seen'["right"] >= seen["left"] + seen["right"]
        BY <2>2 DEF Sides
      <3>2. "left" \in Sides /\ "right" \in Sides
        BY DEF Sides
      <3> QED BY <3>1, <3>2, <1>1, <2>1, <2>2 DEF PairerInv, Counted
    <2> QED BY <2>3, <2>4, <2>5, <2>6, <2>7 DEF PairerInv
  <1>3. CASE ~shut
    <2>1. pushed' = pushed + 1
      BY <1>3 DEF Push
    <2>2. CASE Partner(d, t) = {}
      <3>1. Buffer(d, t)
        BY <1>3, <2>2 DEF Push
      <3> QED BY <3>1, <2>1, <2>2, <1>1, BufferStep
    <2>3. CASE Partner(d, t) # {}
      <3>1. PICK k \in Partner(d, t) : Match(d, t, k)
        BY <1>3, <2>3 DEF Push
      <3> QED BY <3>1, <2>1, <1>1, MatchStep
    <2> QED BY <2>2, <2>3
  <1> QED BY <1>2, <1>3

\* The other steps of the supervisor touch no frame.
LEMMA SupervisorStep ==
  ASSUME PairerInv, Shutdown \/ Notify \/ Join \/ Start \/ UNCHANGED vars
  PROVE  PairerInv'
  <1>1. UNCHANGED <<sides, pairs, seen, resets, got, counts>>
    BY DEF Shutdown, Notify, Join, Start, vars
  <1>2. /\ shut' \in BOOLEAN /\ runner' \in {"running", "asleep", "woken", "exit", "gone"}
        /\ super' \in {"idle", "notify", "join", "reset", "start"}
        /\ super' \in {"notify", "join", "reset"} => resets < MaxResets
    BY DEF PairerInv, Placed, Shutdown, Notify, Join, Start, vars
  <1>3. Placed'
    BY <1>1, <1>2 DEF PairerInv, Placed
  <1>4. SidesOK' /\ PairsOK' /\ SidesAhead'
    BY <1>1 DEF PairerInv, SidesOK, SideOK, PairsOK, SidesAhead, Rising
  <1>5. NoMatchWaiting' /\ Counted' /\ NothingLostUncounted'
    BY <1>1 DEF PairerInv, NoMatchWaiting, Counted, NothingLostUncounted, counts
  <1> QED BY <1>3, <1>4, <1>5 DEF PairerInv

LEMMA PairerNext ==
  ASSUME PairerAssumption
  PROVE  PairerInv /\ [Next]_vars => PairerInv' /\ PopsNext
  <1> SUFFICES ASSUME PairerInv, [Next]_vars PROVE PairerInv' /\ PopsNext
    OBVIOUS
  <1>1. CASE WaitPop
    BY <1>1, WaitPopStep
  <1>2. CASE \E d \in Sides, t \in 1..MaxPulse : Push(d, t)
    <2>1. PairerInv'
      BY <1>2, PushStep
    <2>2. got' = got
      BY <1>2 DEF Push
    <2> QED BY <2>1, <2>2 DEF PopsNext
  <1>3. CASE Reset
    <2>1. PairerInv'
      BY <1>3, ResetStep
    <2>2. got' = got
      BY <1>3 DEF Reset
    <2> QED BY <2>1, <2>2 DEF PopsNext
  <1>4. CASE Shutdown \/ Notify \/ Join \/ Start \/ UNCHANGED vars
    <2>1. PairerInv'
      BY <1>4, SupervisorStep
    <2>2. got' = got
      BY <1>4 DEF Shutdown, Notify, Join, Start, vars
    <2> QED BY <2>1, <2>2 DEF PopsNext
  <1> QED BY <1>1, <1>2, <1>3, <1>4 DEF Next, SuperStep, Quiet

\* What the invariant says of every reachable state.
LEMMA PairerSafe ==
  ASSUME PairerAssumption, PairerInv
  PROVE  /\ TypeOK /\ NothingLostUncounted
         /\ NoMatchWaiting /\ NothingStaleWaiting /\ OnlyThisSession
  <1>1. /\ sides \in [Sides -> Seq(Frames)] /\ \A d \in Sides : Len(sides[d]) <= SideCap
        /\ pairs \in Seq(Pairs) /\ Len(pairs) <= PairCap
        /\ \A d \in Sides : Len(sides[d]) \in Nat
    BY DEF PairerInv, Placed, SidesOK, SideOK, PairsOK
  <1>2. \A n \in {paired, unmatched, overflow, pushed, popped} : n \in 0..2 * MaxPulse
    <2> DEFINE l == Len(sides["left"])
               m == Len(sides["right"])
               x == Len(pairs)
    <2>1. l \in Nat /\ m \in Nat /\ x \in Nat
      BY <1>1 DEF Sides
    <2>2. pushed = 2 * paired + unmatched + l + m + cleared.frames
      BY DEF PairerInv, NothingLostUncounted
    <2>3. paired = popped + overflow + x + cleared.pairs
      BY DEF PairerInv, NothingLostUncounted
    <2> HIDE DEF l, m, x
    <2>4. /\ paired \in Nat /\ unmatched \in Nat /\ overflow \in Nat /\ pushed \in Nat
          /\ popped \in Nat /\ cleared.frames \in Nat /\ cleared.pairs \in Nat
      BY DEF PairerInv, Counted
    <2>5. pushed <= 2 * MaxPulse
      <3>1. seen["left"] \in 0..MaxPulse /\ seen["right"] \in 0..MaxPulse /\ MaxPulse \in Nat
        BY DEF PairerInv, Placed, Sides, PairerAssumption
      <3>2. pushed <= seen["left"] + seen["right"]
        BY DEF PairerInv, Counted
      <3> QED BY <3>1, <3>2, <2>4
    <2>6. paired <= pushed /\ unmatched <= pushed /\ overflow <= paired /\ popped <= paired
      BY <2>1, <2>2, <2>3, <2>4
    <2> QED BY <2>4, <2>5, <2>6 DEF PairerAssumption
  <1>3. TypeOK
    BY <1>1, <1>2 DEF PairerInv, Placed, TypeOK, Frames, Pairs
  <1>4. NothingStaleWaiting
    <2> SUFFICES ASSUME pairs # <<>>, NEW d \in Sides, NEW i \in 1..Len(sides[d])
                 PROVE  sides[d][i].t > pairs[Len(pairs)].t
      BY DEF NothingStaleWaiting
    <2>1. Len(pairs) \in 1..Len(pairs)
      BY <1>1
    <2> QED BY <2>1 DEF PairerInv, SidesAhead
  <1>5. OnlyThisSession
    BY DEF PairerInv, PairsOK, OnlyThisSession
  <1> QED BY <1>3, <1>4, <1>5 DEF PairerInv

-----------------------------------------------------------------------------
(* The theorems.                                                            *)

\* PairerInv is inductive: whatever is pushed, popped, purged or cleared, frames wait in
\* rising order, newer than the last pair and of this session, and the accounts balance.
THEOREM PairerInductive ==
  ASSUME PairerAssumption
  PROVE  Spec => []PairerInv
  <1>1. Init => PairerInv
    BY PairerStarts
  <1>2. PairerInv /\ [Next]_vars => PairerInv'
    BY PairerNext
  <1> QED BY <1>1, <1>2, PTL DEF Spec

\* Every variable has its type, the queues their caps.
THEOREM PairerTypeCorrect ==
  ASSUME PairerAssumption
  PROVE  Spec => []TypeOK
  <1>1. PairerInv => TypeOK
    BY PairerSafe
  <1> QED BY <1>1, PairerInductive, PTL

\* Every frame and every pair is delivered, counted as dropped, queued or cleared.
THEOREM FramesAreCounted ==
  ASSUME PairerAssumption
  PROVE  Spec => []NothingLostUncounted
  <1>1. PairerInv => NothingLostUncounted
    BY DEF PairerInv
  <1> QED BY <1>1, PairerInductive, PTL

\* Two frames of one pulse never wait for each other: the pair was formed.
THEOREM MatchesArePaired ==
  ASSUME PairerAssumption
  PROVE  Spec => []NoMatchWaiting
  <1>1. PairerInv => NoMatchWaiting
    BY DEF PairerInv
  <1> QED BY <1>1, PairerInductive, PTL

\* No frame waits that is older than the newest pair: purge left none behind.
THEOREM NothingStaleWaits ==
  ASSUME PairerAssumption
  PROVE  Spec => []NothingStaleWaiting
  <1>1. PairerInv => NothingStaleWaiting
    BY PairerSafe
  <1> QED BY <1>1, PairerInductive, PTL

\* A pair never mixes sessions, and never outlives the reset of its own.
THEOREM PairsAreOfThisSession ==
  ASSUME PairerAssumption
  PROVE  Spec => []OnlyThisSession
  <1>1. PairerInv => OnlyThisSession
    BY PairerSafe
  <1> QED BY <1>1, PairerInductive, PTL

\* The runner gets pairs of rising stamps, across drops, losses and resets.
THEOREM PairsComeInOrder ==
  ASSUME PairerAssumption
  PROVE  Spec => PopsInOrder
  <1>1. PairerInv /\ [Next]_vars => [PopsNext]_vars
    BY PairerNext
  <1> QED BY <1>1, PairerInductive, PTL DEF Spec, PopsInOrder
=============================================================================
