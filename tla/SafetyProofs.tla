---------------------------- MODULE SafetyProofs ----------------------------
(***************************************************************************)
(* Proofs about Safety: for each component the invariant that its steps     *)
(* preserve, then what it means for the properties of the behaviours.  The  *)
(* camera slots and the fusion engine are in CameraEngineProofs.            *)
(***************************************************************************)
EXTENDS CameraEngineProofs

-----------------------------------------------------------------------------
(* Pulse stamps.                                                            *)

Exposures == [id : Nat, pulse : Nat]
Stamped == [pulse : Nat, stamp : Nat \cup {CameraTime}]

StampsTyped ==
    /\ fired \in Nat /\ wire \in Seq(Nat)
    /\ pulses \in [StampCameras -> Seq(Nat)]
    /\ last_id \in [StampCameras -> Nat \cup {None}]
    /\ camera \in [StampCameras -> {"off", "starting", "on"}]
    /\ exposed \in [StampCameras -> Nat]
    /\ frames \in [StampCameras -> Seq(Exposures)]
    /\ stamped \in [StampCameras -> {None} \cup Stamped]

\* The events under way are of the last pulses, in their order.
OnWire == /\ Len(wire) <= fired
          /\ \A i \in 1..Len(wire) : wire[i] = fired - Len(wire) + i

\* A ring holds the pulses before those, from the one after the last frame that was matched.
Consumed(c) == IF last_id[c] = None THEN 0 ELSE last_id[c]
RingOf(q, p, w, f, e, k) ==
    /\ p + w + k = e /\ e <= f /\ p + w <= RingCap
    /\ \A j \in 1..p : q[j] = f - w - p + j
RingHolds(c) ==
    RingOf(pulses[c], Len(pulses[c]), Len(wire), fired, exposed[c], Consumed(c))

\* The frames that wait are of later pulses, in their order, and the first of a session
\* has not been lost.
FramesWait(c) ==
    /\ \A i \in 1..Len(frames[c]) :
          /\ frames[c][i].pulse = fired - exposed[c] + frames[c][i].id
          /\ Consumed(c) < frames[c][i].id /\ frames[c][i].id <= exposed[c]
    /\ \A i, j \in 1..Len(frames[c]) : i < j => frames[c][i].id < frames[c][j].id
    /\ last_id[c] = None /\ exposed[c] > 0 => Len(frames[c]) > 0 /\ frames[c][1].id = 1

CameraHolds(c) ==
    /\ camera[c] # "on" => frames[c] = <<>>
    /\ camera[c] = "starting" => wire = <<>> /\ pulses[c] = <<>> /\ last_id[c] = None
    /\ camera[c] = "on" => RingHolds(c) /\ FramesWait(c)
    /\ stamped[c] # None => stamped[c].stamp = stamped[c].pulse /\ stamped[c].stamp \in Nat

StampsInv == StampsTyped /\ OnWire /\ \A c \in StampCameras : CameraHolds(c)

LEMMA StampConstants == RingCap \in Nat /\ None \notin Nat /\ CameraTime \notin Nat
  BY Assumptions DEF Stamps!StampAssumption

\* A ring when a pulse is fired, and when its event comes.
LEMMA RingPulse ==
  ASSUME NEW q, NEW p \in Nat, NEW w \in Nat, NEW f \in Nat, NEW e \in Nat, NEW k \in Nat,
         RingOf(q, p, w, f, e, k), p + w < RingCap
  PROVE  RingOf(q, p, w + 1, f + 1, e + 1, k)
  <1>1. p + (w + 1) + k = e + 1 /\ e + 1 <= f + 1
    BY DEF RingOf
  <1>2. p + (w + 1) <= RingCap
    BY StampConstants
  <1>3. \A j \in 1..p : q[j] = (f + 1) - (w + 1) - p + j
    BY DEF RingOf
  <1> QED BY <1>1, <1>2, <1>3, Zenon DEF RingOf

LEMMA RingEvent ==
  ASSUME NEW q, NEW p \in Nat, NEW w \in Nat, NEW f \in Nat, NEW e \in Nat, NEW k \in Nat,
         RingOf(q, p, w, f, e, k), w > 0,
         NEW r, r[p + 1] = f - w + 1, \A j \in 1..p : r[j] = q[j]
  PROVE  RingOf(r, p + 1, w - 1, f, e, k)
  <1>1. (p + 1) + (w - 1) = p + w
    OBVIOUS
  <1>2. (p + 1) + (w - 1) + k = e /\ e <= f /\ (p + 1) + (w - 1) <= RingCap
    BY <1>1 DEF RingOf
  <1>3. \A j \in 1..(p + 1) : j = p + 1 \/ j \in 1..p
    OBVIOUS
  <1>4. \A j \in 1..(p + 1) : r[j] = f - (w - 1) - (p + 1) + j
    BY <1>3 DEF RingOf
  <1> QED BY <1>2, <1>4, Zenon DEF RingOf

LEMMA StampsStart == Stamps!Init => StampsInv
  <1> SUFFICES ASSUME Stamps!Init PROVE StampsInv
    OBVIOUS
  <1>1. StampsTyped
    BY DEF Stamps!Init, StampsTyped
  <1>2. /\ fired = 0 /\ Len(wire) = 0
        /\ \A c \in StampCameras : camera[c] = "off" /\ frames[c] = <<>> /\ stamped[c] = None
    BY DEF Stamps!Init
  <1>3. OnWire
    BY <1>2 DEF OnWire
  <1>4. \A c \in StampCameras : CameraHolds(c)
    BY <1>2 DEF CameraHolds
  <1> QED BY <1>1, <1>3, <1>4 DEF StampsInv

\* What a camera's state is when it is on, and the frame capture_loop() takes.
LEMMA CameraTyped ==
  ASSUME StampsTyped, NEW c \in StampCameras
  PROVE  /\ pulses[c] \in Seq(Nat) /\ Len(pulses[c]) \in Nat /\ wire \in Seq(Nat)
         /\ Len(wire) \in Nat /\ fired \in Nat /\ last_id[c] \in Nat \cup {None}
         /\ exposed[c] \in Nat /\ frames[c] \in Seq(Exposures) /\ Len(frames[c]) \in Nat
         /\ Consumed(c) \in Nat
         /\ \A i \in 1..Len(frames[c]) : frames[c][i] \in Exposures
  BY DEF StampsTyped, Consumed

\* A pulse: every camera that streams exposes a frame or loses it, but not its first.
LEMMA PulseSteps ==
  ASSUME StampsInv, Disturbances = {}, NEW lost \in SUBSET StampCameras, Stamps!Pulse(lost)
  PROVE  StampsInv'
  <1> USE StampConstants
  <1>1. /\ fired' = fired + 1 /\ wire' = Append(wire, fired + 1)
        /\ \A c \in StampCameras : camera[c] # "starting"
        /\ \A c \in StampCameras : camera[c] = "on" => Len(pulses[c]) + Len(wire) < RingCap
        /\ \A c \in lost : exposed[c] > 0
        /\ UNCHANGED <<pulses, last_id, camera, stamped>>
    BY DEF Stamps!Pulse, Stamps!Streaming
  <1>2. exposed' = [c \in StampCameras |-> IF camera[c] = "on" THEN exposed[c] + 1 ELSE exposed[c]]
    BY DEF Stamps!Pulse, Stamps!Streaming
  <1>3. frames' = [c \in StampCameras |->
                    IF camera[c] = "on" /\ c \notin lost
                      THEN Append(frames[c], [id |-> exposed[c] + 1, pulse |-> fired + 1])
                      ELSE frames[c]]
    BY DEF Stamps!Pulse, Stamps!Streaming
  <1>4. fired \in Nat /\ wire \in Seq(Nat) /\ fired' \in Nat /\ OnWire
    BY <1>1 DEF StampsInv, StampsTyped
  <1>5. /\ wire' \in Seq(Nat) /\ Len(wire') = Len(wire) + 1 /\ Len(wire) \in Nat
        /\ wire'[Len(wire) + 1] = fired + 1
        /\ \A i \in 1..Len(wire) : wire'[i] = wire[i]
    BY <1>1, <1>4
  <1>6. OnWire'
    BY <1>1, <1>4, <1>5 DEF OnWire
  <1>7. exposed' \in [StampCameras -> Nat]
    BY <1>2 DEF StampsInv, StampsTyped
  <1>8. frames' \in [StampCameras -> Seq(Exposures)]
    <2> SUFFICES ASSUME NEW c \in StampCameras PROVE frames'[c] \in Seq(Exposures)
      BY <1>3
    <2>1. frames[c] \in Seq(Exposures) /\ exposed[c] \in Nat
      BY DEF StampsInv, StampsTyped
    <2>2. [id |-> exposed[c] + 1, pulse |-> fired + 1] \in Exposures
      BY <1>4, <2>1 DEF Exposures
    <2> QED BY <1>3, <2>1, <2>2
  <1>9. StampsTyped'
    BY <1>1, <1>4, <1>5, <1>7, <1>8 DEF StampsInv, StampsTyped, Exposures, Stamped
  <1>10. ASSUME NEW c \in StampCameras PROVE CameraHolds(c)'
    <2>1. CameraHolds(c)
      BY DEF StampsInv
    <2>2. CASE camera[c] # "on"
      BY <1>1, <1>2, <1>3, <2>1, <2>2 DEF CameraHolds
    <2>3. CASE camera[c] = "on"
      <3>1. /\ pulses[c] \in Seq(Nat) /\ Len(pulses[c]) \in Nat /\ exposed[c] \in Nat
            /\ frames[c] \in Seq(Exposures) /\ Len(frames[c]) \in Nat /\ Consumed(c) \in Nat
            /\ last_id[c] \in Nat \cup {None}
        BY CameraTyped DEF StampsInv
      <3>2. /\ RingHolds(c) /\ FramesWait(c) /\ Len(pulses[c]) + Len(wire) < RingCap
            /\ Consumed(c)' = Consumed(c) /\ exposed'[c] = exposed[c] + 1
        BY <1>1, <1>2, <2>1, <2>3 DEF CameraHolds, Consumed
      <3>3. RingHolds(c)'
        <4>1. PICK p \in Nat, w \in Nat, e \in Nat, k \in Nat :
                p = Len(pulses[c]) /\ w = Len(wire) /\ e = exposed[c] /\ k = Consumed(c)
          BY <1>5, <3>1
        <4>2. RingOf(pulses[c], p, w, fired, e, k) /\ p + w < RingCap
          BY <3>2, <4>1 DEF RingHolds
        <4>3. RingOf(pulses[c], p, w + 1, fired + 1, e + 1, k)
          BY <1>4, <4>2, RingPulse
        <4>4. /\ pulses'[c] = pulses[c] /\ Len(wire') = w + 1 /\ fired' = fired + 1
              /\ exposed'[c] = e + 1 /\ Consumed(c)' = k
          BY <1>1, <1>5, <3>2, <4>1
        <4> QED BY <4>1, <4>3, <4>4, Zenon DEF RingHolds
      <3>4. ASSUME NEW i \in 1..Len(frames[c])
            PROVE  /\ frames[c][i] \in Exposures /\ frames[c][i].id \in Nat
                   /\ frames[c][i].pulse = fired' - exposed'[c] + frames[c][i].id
                   /\ Consumed(c) < frames[c][i].id
                   /\ frames[c][i].id <= exposed[c] /\ frames[c][i].id <= exposed'[c]
        <4>1. frames[c][i] \in Exposures
          BY <3>1
        <4>2. /\ frames[c][i].pulse = fired - exposed[c] + frames[c][i].id
              /\ Consumed(c) < frames[c][i].id /\ frames[c][i].id <= exposed[c]
          BY <3>2 DEF FramesWait
        <4>3. frames[c][i].id \in Nat /\ fired' - exposed'[c] = fired - exposed[c]
          <5>1. frames[c][i].id \in Nat
            BY <4>1 DEF Exposures
          <5>2. fired' - exposed'[c] = fired - exposed[c]
            <6>1. PICK a \in Nat, b \in Nat : a = fired /\ b = exposed[c]
              BY <1>4, <3>1
            <6>2. (a + 1) - (b + 1) = a - b
              OBVIOUS
            <6> QED BY <1>1, <3>2, <6>1, <6>2, Zenon
          <5> QED BY <5>1, <5>2
        <4>4. frames[c][i].id <= exposed'[c]
          BY <3>1, <3>2, <4>2, <4>3
        <4> QED BY <4>1, <4>2, <4>3, <4>4
      <3>5. FramesWait(c)'
        <4>1. CASE c \in lost
          <5>1. frames'[c] = frames[c] /\ exposed[c] > 0
            BY <1>1, <1>3, <4>1
          <5>2. Consumed(c)' = Consumed(c) /\ last_id'[c] = last_id[c]
            BY <1>1, <3>2
          <5> QED BY <3>2, <3>4, <5>1, <5>2 DEF FramesWait
        <4>2. CASE c \notin lost
          <5> DEFINE f == [id |-> exposed[c] + 1, pulse |-> fired + 1]
          <5>1. frames'[c] = Append(frames[c], f) /\ f.id = exposed[c] + 1 /\ f.pulse = fired + 1
            BY <1>3, <2>3, <4>2
          <5>2. f \in Exposures
            BY <1>4, <3>1 DEF Exposures
          <5> HIDE DEF f
          <5>3. /\ Len(frames'[c]) = Len(frames[c]) + 1
                /\ frames'[c][Len(frames[c]) + 1] = f
                /\ \A i \in 1..Len(frames[c]) : frames'[c][i] = frames[c][i]
            BY <3>1, <5>1, <5>2
          <5>4. \A i \in 1..Len(frames'[c]) :
                  i = Len(frames[c]) + 1 \/ i \in 1..Len(frames[c])
            BY <3>1, <5>3
          <5>5. \A i \in 1..Len(frames'[c]) :
                  /\ frames'[c][i].pulse = fired' - exposed'[c] + frames'[c][i].id
                  /\ Consumed(c) < frames'[c][i].id /\ frames'[c][i].id <= exposed'[c]
            <6>1. /\ f.pulse = fired' - exposed'[c] + f.id
                  /\ Consumed(c) < f.id /\ f.id <= exposed'[c]
              <7>1. PICK p \in Nat, w \in Nat : p = Len(pulses[c]) /\ w = Len(wire)
                BY <1>5, <3>1
              <7>2. p + w + Consumed(c) = exposed[c]
                BY <3>2, <7>1, Zenon DEF RingHolds, RingOf
              <7>3. Consumed(c) <= exposed[c]
                BY <3>1, <7>1, <7>2
              <7> QED BY <1>1, <1>4, <3>1, <3>2, <5>1, <7>3, SMTT(30)
            <6> QED BY <3>4, <5>3, <5>4, <6>1
          <5>6. \A i, j \in 1..Len(frames'[c]) : i < j => frames'[c][i].id < frames'[c][j].id
            <6>1. \A i \in 1..Len(frames[c]) : frames[c][i].id < f.id
              <7>1. \A a, b \in Nat : a <= b => a < b + 1
                OBVIOUS
              <7> QED BY <3>1, <3>4, <5>1, <7>1, Zenon
            <6>2. \A i, j \in 1..Len(frames[c]) : i < j => frames[c][i].id < frames[c][j].id
              BY <3>2 DEF FramesWait
            <6>3. ASSUME NEW i \in 1..Len(frames'[c]), NEW j \in 1..Len(frames'[c]), i < j
                  PROVE  i \in 1..Len(frames[c])
              <7>1. PICK m \in Nat : m = Len(frames[c])
                BY <3>1
              <7>2. i \in 1..(m + 1) /\ j \in 1..(m + 1)
                BY <5>3, <7>1, Zenon
              <7>3. i \in 1..m
                BY <6>3, <7>2
              <7> QED BY <7>1, <7>3, Zenon
            <6> QED BY <5>3, <5>4, <6>1, <6>2, <6>3, Zenon
          <5>7. last_id[c] = None => frames'[c][1].id = 1
            <6> SUFFICES ASSUME last_id[c] = None PROVE frames'[c][1].id = 1
              OBVIOUS
            <6>1. CASE exposed[c] > 0
              BY <3>1, <3>2, <5>3, <6>1 DEF FramesWait
            <6>2. CASE exposed[c] = 0
              <7>1. Len(frames[c]) = 0
                BY <3>1, <3>4, <6>2
              <7> QED BY <5>1, <5>3, <6>2, <7>1
            <6> QED BY <3>1, <6>1, <6>2
          <5> QED BY <1>1, <3>1, <3>2, <5>3, <5>5, <5>6, <5>7 DEF FramesWait
        <4> QED BY <4>1, <4>2
      <3> QED BY <1>1, <2>1, <2>3, <3>3, <3>5 DEF CameraHolds
    <2> QED BY <2>2, <2>3
  <1> QED BY <1>6, <1>9, <1>10 DEF StampsInv

\* An event reaches the rings; none of a streaming camera is full.
LEMMA HandleEventSteps ==
  ASSUME StampsInv, Stamps!HandleEvent PROVE StampsInv'
  <1> USE StampConstants
  <1>1. /\ wire # <<>> /\ wire' = Tail(wire)
        /\ pulses' = [c \in StampCameras |-> Stamps!Keep(Append(pulses[c], Head(wire)))]
        /\ UNCHANGED <<fired, last_id, camera, exposed, frames, stamped>>
    BY DEF Stamps!HandleEvent
  <1>2. fired \in Nat /\ wire \in Seq(Nat) /\ OnWire
    BY DEF StampsInv, StampsTyped
  <1>3. /\ wire' \in Seq(Nat) /\ Len(wire') = Len(wire) - 1 /\ Len(wire) \in Nat
        /\ Len(wire) > 0 /\ Head(wire) = wire[1] /\ Head(wire) \in Nat
        /\ \A i \in 1..Len(wire') : wire'[i] = wire[i + 1]
    BY <1>1, <1>2
  <1>4. OnWire' /\ Head(wire) = fired - Len(wire) + 1
    BY <1>1, <1>2, <1>3 DEF OnWire
  <1>5. pulses' \in [StampCameras -> Seq(Nat)]
    <2> SUFFICES ASSUME NEW c \in StampCameras PROVE pulses'[c] \in Seq(Nat)
      BY <1>1
    <2>1. pulses[c] \in Seq(Nat)
      BY DEF StampsInv, StampsTyped
    <2>2. PICK h \in Nat : h = Head(wire)
      BY <1>3
    <2>3. PICK q : q = Append(pulses[c], h)
      OBVIOUS
    <2>4. q \in Seq(Nat) /\ Len(q) > 0
      BY <2>1, <2>3
    <2>5. Tail(q) \in Seq(Nat)
      BY <2>4
    <2>6. pulses'[c] = q \/ pulses'[c] = Tail(q)
      BY <1>1, <2>2, <2>3, Zenon DEF Stamps!Keep
    <2> QED BY <2>4, <2>5, <2>6
  <1>6. StampsTyped'
    BY <1>1, <1>3, <1>5 DEF StampsInv, StampsTyped, Exposures, Stamped
  <1>7. ASSUME NEW c \in StampCameras PROVE CameraHolds(c)'
    <2>1. CameraHolds(c)
      BY DEF StampsInv
    <2>2. CASE camera[c] # "on"
      <3>1. camera[c] # "starting"
        BY <1>1, <2>1 DEF CameraHolds
      <3> QED BY <1>1, <2>1, <2>2, <3>1 DEF CameraHolds
    <2>3. CASE camera[c] = "on"
      <3>1. /\ pulses[c] \in Seq(Nat) /\ Len(pulses[c]) \in Nat /\ exposed[c] \in Nat
            /\ Consumed(c) \in Nat
        BY CameraTyped DEF StampsInv
      <3>2. RingHolds(c) /\ FramesWait(c) /\ Consumed(c)' = Consumed(c)
        BY <1>1, <2>1, <2>3 DEF CameraHolds, Consumed
      <3>3. PICK p \in Nat, w \in Nat : p = Len(pulses[c]) /\ w = Len(wire)
        BY <1>3, <3>1
      <3>4. RingOf(pulses[c], p, w, fired, exposed[c], Consumed(c)) /\ w > 0
        BY <1>3, <3>2, <3>3 DEF RingHolds
      <3>5. Len(Append(pulses[c], Head(wire))) = p + 1 /\ p + 1 <= RingCap
        <4>1. Len(Append(pulses[c], Head(wire))) = p + 1
          BY <1>3, <3>1, <3>3
        <4>2. p + 1 <= RingCap
          BY <3>3, <3>4 DEF RingOf
        <4> QED BY <4>1, <4>2
      <3>6. pulses'[c] = Append(pulses[c], Head(wire))
        BY <1>1, <3>5 DEF Stamps!Keep
      <3>8. /\ pulses'[c][p + 1] = fired - w + 1
            /\ \A j \in 1..p : pulses'[c][j] = pulses[c][j]
        BY <1>3, <1>4, <3>1, <3>3, <3>6
      <3>9. RingOf(pulses'[c], p + 1, w - 1, fired, exposed[c], Consumed(c))
        BY <1>2, <3>1, <3>4, <3>8, RingEvent
      <3>10. RingHolds(c)'
        <4>1. /\ Len(pulses'[c]) = p + 1 /\ Len(wire') = w - 1 /\ fired' = fired
              /\ exposed'[c] = exposed[c] /\ Consumed(c)' = Consumed(c)
          BY <1>1, <1>3, <3>2, <3>3, <3>5, <3>6
        <4> QED BY <3>9, <4>1, Zenon DEF RingHolds
      <3>7. FramesWait(c)'
        BY <1>1, <3>2 DEF FramesWait
      <3> QED BY <1>1, <2>1, <2>3, <3>7, <3>10 DEF CameraHolds
    <2> QED BY <2>2, <2>3
  <1> QED BY <1>4, <1>6, <1>7 DEF StampsInv

\* A camera's next frame: of an older pulse than those whose events are under way.
LEMMA StampSteps ==
  ASSUME StampsInv, Disturbances = {}, NEW c \in StampCameras, Stamps!Stamp(c)
  PROVE  StampsInv'
  <1> USE StampConstants
  <1> DEFINE Taken(g, n) ==
        /\ \A i \in 1..Len(wire) : wire[i] > g.pulse
        /\ IF Stamps!Unmatched(c, g.id)
             THEN /\ stamped' = [stamped EXCEPT ![c] = [pulse |-> g.pulse, stamp |-> CameraTime]]
                  /\ UNCHANGED <<pulses, last_id>>
             ELSE /\ stamped' = [stamped EXCEPT ![c] =
                                   [pulse |-> g.pulse, stamp |-> pulses[c][n]]]
                  /\ pulses' = [pulses EXCEPT ![c] = SubSeq(@, n + 1, Len(@))]
                  /\ last_id' = [last_id EXCEPT ![c] = g.id]
  <1>1. PICK f : f = Head(frames[c])
    OBVIOUS
  <1>2. PICK n : n = Stamps!CappedConsume(c, f.id)
    OBVIOUS
  <1>3. /\ camera[c] = "on" /\ frames[c] # <<>>
        /\ Taken(f, n)
        /\ frames' = [frames EXCEPT ![c] = Tail(@)]
        /\ UNCHANGED <<fired, wire, camera, exposed>>
    BY <1>1, <1>2, Zenon DEF Stamps!Stamp
  <1> HIDE DEF Taken
  <1>4. /\ StampsTyped /\ OnWire /\ RingHolds(c) /\ FramesWait(c)
    BY <1>3 DEF StampsInv, CameraHolds
  <1>5. /\ pulses[c] \in Seq(Nat) /\ Len(pulses[c]) \in Nat /\ wire \in Seq(Nat)
        /\ Len(wire) \in Nat /\ fired \in Nat /\ last_id[c] \in Nat \cup {None}
        /\ exposed[c] \in Nat /\ frames[c] \in Seq(Exposures) /\ Len(frames[c]) \in Nat
        /\ Consumed(c) \in Nat
    BY <1>4, CameraTyped
  <1>6. PICK p \in Nat, w \in Nat, e \in Nat, k \in Nat, m \in Nat, a \in Nat :
          /\ p = Len(pulses[c]) /\ w = Len(wire) /\ e = exposed[c] /\ k = Consumed(c)
          /\ m = Len(frames[c]) /\ a = fired
    BY <1>5
  <1>7. m > 0 /\ f = frames[c][1] /\ f \in Exposures
    <2>1. Len(frames[c]) > 0 /\ Head(frames[c]) = frames[c][1]
      BY <1>3, <1>5
    <2> QED BY <1>1, <1>5, <1>6, <2>1
  <1>8. /\ f.id \in Nat /\ f.pulse \in Nat
        /\ f.pulse = a - e + f.id /\ k < f.id /\ f.id <= e
    <2>1. 1 \in 1..m
      BY <1>7
    <2>2. f.id \in Nat /\ f.pulse \in Nat
      BY <1>7 DEF Exposures
    <2> QED BY <1>4, <1>6, <1>7, <2>1, <2>2, Zenon DEF FramesWait
  <1>9. RingOf(pulses[c], p, w, a, e, k)
    BY <1>4, <1>6, Zenon DEF RingHolds
  <1>10. p + w + k = e /\ e <= a /\ \A j \in 1..p : pulses[c][j] = a - w - p + j
    BY <1>9 DEF RingOf
  <1>11. w > 0 => wire[1] = a - w + 1 /\ wire[1] > f.pulse
    <2>1. ASSUME w > 0 PROVE wire[1] = a - w + 1 /\ wire[1] > f.pulse
      <3>1. 1 \in 1..w
        BY <2>1
      <3> QED BY <1>3, <1>4, <1>6, <3>1, Zenon DEF OnWire, Taken
    <2> QED BY <2>1
  <1>12. f.id - k \in 1..p
    <2>1. PICK id \in Nat, q \in Nat : id = f.id /\ q = f.pulse
      BY <1>8
    <2>2. q = a - e + id /\ k < id /\ id <= e /\ (w > 0 => a - w + 1 > q)
      BY <1>8, <1>11, <2>1
    <2>3. id - k \in 1..p
      BY <1>10, <2>2
    <2> QED BY <2>1, <2>3, Zenon
  <1>13. n = f.id - k /\ ~Stamps!Unmatched(c, f.id)
    <2>1. Stamps!Consume(c, f.id) = f.id - k
      <3>1. CASE last_id[c] = None
        <4>1. exposed[c] > 0
          BY <1>6, <1>8
        <4>2. f.id = 1 /\ k = 0
          BY <1>4, <1>6, <1>7, <3>1, <4>1, Zenon DEF FramesWait, Consumed
        <4> QED BY <3>1, <4>2 DEF Stamps!Consume
      <3>2. CASE last_id[c] # None
        BY <1>6, <3>2 DEF Stamps!Consume, Consumed
      <3> QED BY <3>1, <3>2
    <2>2. ~(f.id - k > p) /\ p > 0 /\ ~(f.id <= k)
      BY <1>8, <1>12
    <2>3. ~(Stamps!Consume(c, f.id) > Len(pulses[c]))
      BY <1>6, <2>1, <2>2, Zenon
    <2>4. n = f.id - k
      BY <1>2, <2>1, <2>3, Zenon DEF Stamps!CappedConsume
    <2>5. pulses[c] # <<>>
      <3>1. Len(pulses[c]) # 0
        BY <1>6, <2>2
      <3> QED BY <3>1
    <2>6. last_id[c] # None => ~(f.id <= last_id[c])
      BY <1>6, <2>2, Zenon DEF Consumed
    <2> QED BY <2>4, <2>5, <2>6, Zenon DEF Stamps!Unmatched
  <1>14. /\ stamped' = [stamped EXCEPT ![c] = [pulse |-> f.pulse, stamp |-> pulses[c][n]]]
         /\ pulses' = [pulses EXCEPT ![c] = SubSeq(@, n + 1, Len(@))]
         /\ last_id' = [last_id EXCEPT ![c] = f.id]
    BY <1>3, <1>13, Zenon DEF Taken
  <1>15. PICK r : r = SubSeq(pulses[c], n + 1, Len(pulses[c]))
    OBVIOUS
  <1>16. n \in 1..p
    BY <1>12, <1>13
  <1>17. /\ r \in Seq(Nat) /\ Len(r) = p - n
         /\ \A j \in 1..(p - n) : r[j] = pulses[c][j + n]
    <2>1. n + 1 \in 1..(p + 1) /\ p - n + 1 = p - (n + 1) + 2
      BY <1>16
    <2>2. \A j \in (n + 1)..p : j \in 1..p
      BY <1>16
    <2>3. r \in Seq(Nat)
      <3>1. n + 1 \in Int /\ p \in Int
        BY <1>16
      <3>2. \A j \in (n + 1)..p : pulses[c][j] \in Nat
        <4>1. \A j \in 1..p : pulses[c][j] \in Nat
          BY <1>5, <1>6
        <4> QED BY <2>2, <4>1, Zenon
      <3> QED BY <1>6, <1>15, <3>1, <3>2, SubSeqProperties, Zenon
    <2>4. Len(r) = p - n
      BY <1>5, <1>6, <1>15, <1>16
    <2>5. \A j \in 1..(p - n) : r[j] = pulses[c][j + n]
      BY <1>5, <1>6, <1>15, <1>16
    <2> QED BY <2>3, <2>4, <2>5
  <1>18. RingOf(r, p - n, w, a, e, k + n) /\ pulses[c][n] = a - e + k + n
    <2>1. PICK q : q = pulses[c]
      OBVIOUS
    <2>2. RingOf(q, p, w, a, e, k) /\ \A j \in 1..(p - n) : r[j] = q[j + n]
      BY <1>9, <1>17, <2>1, Zenon
    <2>3. RingOf(r, p - n, w, a, e, k + n) /\ q[n] = a - e + k + n
      <3>1. (p - n) + w + (k + n) = p + w + k
        BY <1>16
      <3>2. (p - n) + w + (k + n) = e /\ e <= a
        BY <1>10, <3>1
      <3>3. p + w <= RingCap /\ (p - n) + w <= p + w
        BY <1>9, <1>16 DEF RingOf
      <3>4. (p - n) + w <= RingCap
        BY <1>16, <3>3
      <3>5. \A j \in 1..p : q[j] = a - w - p + j
        BY <1>10, <2>1
      <3>6. \A j \in 1..(p - n) : r[j] = a - w - (p - n) + j
        BY <1>16, <2>2, <3>5
      <3>7. q[n] = a - e + k + n
        BY <1>10, <1>16, <3>5
      <3> QED BY <3>2, <3>4, <3>6, <3>7, Zenon DEF RingOf
    <2> QED BY <2>1, <2>3, Zenon
  <1>19. k + n = f.id /\ pulses[c][n] = f.pulse
    BY <1>8, <1>13, <1>16, <1>18
  <1>20. PICK t : t = Tail(frames[c])
    OBVIOUS
  <1>21. /\ t \in Seq(Exposures) /\ Len(t) = m - 1
         /\ \A i \in 1..(m - 1) : t[i] = frames[c][i + 1]
    <2>1. Len(frames[c]) > 0 /\ frames[c] # <<>>
      BY <1>3, <1>6, <1>7
    <2> QED BY <1>5, <1>6, <1>20, <2>1
  <1>22. /\ pulses' = [pulses EXCEPT ![c] = r] /\ frames' = [frames EXCEPT ![c] = t]
         /\ stamped' = [stamped EXCEPT ![c] = [pulse |-> f.pulse, stamp |-> f.pulse]]
    BY <1>3, <1>14, <1>15, <1>19, <1>20, Zenon
  <1>23. StampsTyped'
    <2>1. pulses' \in [StampCameras -> Seq(Nat)]
      BY <1>4, <1>17, <1>22 DEF StampsTyped
    <2>2. frames' \in [StampCameras -> Seq(Exposures)]
      BY <1>4, <1>21, <1>22 DEF StampsTyped
    <2>3. last_id' \in [StampCameras -> Nat \cup {None}]
      BY <1>4, <1>8, <1>14 DEF StampsTyped
    <2>4. [pulse |-> f.pulse, stamp |-> f.pulse] \in Stamped
      BY <1>8 DEF Stamped
    <2>5. stamped' \in [StampCameras -> {None} \cup Stamped]
      BY <1>4, <1>22, <2>4 DEF StampsTyped
    <2> QED BY <1>3, <1>4, <2>1, <2>2, <2>3, <2>5 DEF StampsTyped, Exposures, Stamped
  <1>24. OnWire'
    BY <1>3, <1>4 DEF OnWire
  <1>25. ASSUME NEW d \in StampCameras PROVE CameraHolds(d)'
    <2>1. CASE d # c
      <3>1. /\ pulses'[d] = pulses[d] /\ frames'[d] = frames[d] /\ last_id'[d] = last_id[d]
            /\ stamped'[d] = stamped[d]
        BY <1>4, <1>14, <1>22, <2>1 DEF StampsTyped
      <3>2. CameraHolds(d)
        BY DEF StampsInv
      <3> QED BY <1>3, <3>1, <3>2 DEF CameraHolds, RingHolds, FramesWait, Consumed
    <2>2. CASE d = c
      <3>1. /\ pulses'[c] = r /\ frames'[c] = t /\ last_id'[c] = f.id
            /\ stamped'[c] = [pulse |-> f.pulse, stamp |-> f.pulse]
        BY <1>4, <1>14, <1>22 DEF StampsTyped
      <3>2. f.id # None /\ last_id'[c] # None /\ Consumed(c)' = f.id
        BY <1>8, <3>1 DEF Consumed
      <3>3. RingHolds(c)'
        BY <1>3, <1>6, <1>17, <1>18, <1>19, <3>1, <3>2, Zenon DEF RingHolds
      <3>4. FramesWait(c)'
        <4>1. ASSUME NEW i \in 1..(m - 1)
              PROVE  /\ t[i].pulse = a - e + t[i].id
                     /\ f.id < t[i].id /\ t[i].id <= e
          <5>1. i + 1 \in 1..m /\ 1 \in 1..m /\ 1 < i + 1
            BY <1>7
          <5>2. /\ frames[c][i + 1].pulse = a - e + frames[c][i + 1].id
                /\ frames[c][i + 1].id <= e /\ frames[c][1].id < frames[c][i + 1].id
            BY <1>4, <1>6, <5>1, Zenon DEF FramesWait
          <5> QED BY <1>7, <1>21, <5>2, Zenon
        <4>2. ASSUME NEW i \in 1..(m - 1), NEW j \in 1..(m - 1), i < j PROVE t[i].id < t[j].id
          <5>1. i + 1 \in 1..m /\ j + 1 \in 1..m /\ i + 1 < j + 1
            BY <4>2
          <5>2. frames[c][i + 1].id < frames[c][j + 1].id
            BY <1>4, <1>6, <5>1, Zenon DEF FramesWait
          <5> QED BY <1>21, <5>2, Zenon
        <4> QED BY <1>3, <1>6, <1>21, <3>1, <3>2, <4>1, <4>2, Zenon DEF FramesWait
      <3>5. /\ stamped'[c].stamp = stamped'[c].pulse /\ stamped'[c].stamp \in Nat
        BY <1>8, <3>1
      <3> QED BY <1>3, <2>2, <3>3, <3>4, <3>5 DEF CameraHolds
    <2> QED BY <2>1, <2>2
  <1> QED BY <1>23, <1>24, <1>25 DEF StampsInv

\* A camera starts, its acquisition begins, and it stops.
LEMMA CameraSteps ==
  ASSUME StampsInv, Disturbances = {}, NEW c \in StampCameras,
         Stamps!ResetPinState(c) \/ Stamps!BeginAcquisition(c) \/ Stamps!StopCamera(c)
  PROVE  StampsInv'
  <1> USE StampConstants
  <1>1. /\ UNCHANGED <<fired, wire>> /\ StampsTyped /\ OnWire /\ OnWire'
    BY DEF StampsInv, OnWire, Stamps!ResetPinState, Stamps!BeginAcquisition,
           Stamps!StopCamera
  <1>2. CASE Stamps!ResetPinState(c)
    <2>1. /\ wire = <<>> /\ camera[c] = "off"
          /\ camera' = [camera EXCEPT ![c] = "starting"]
          /\ pulses' = [pulses EXCEPT ![c] = <<>>]
          /\ last_id' = [last_id EXCEPT ![c] = None]
          /\ UNCHANGED <<exposed, frames, stamped>>
      BY <1>2 DEF Stamps!ResetPinState
    <2>2. StampsTyped'
      BY <1>1, <2>1 DEF StampsTyped, Exposures, Stamped
    <2>3. ASSUME NEW d \in StampCameras PROVE CameraHolds(d)'
      <3>1. CameraHolds(d)
        BY DEF StampsInv
      <3>2. CASE d # c
        <4>1. camera'[d] = camera[d] /\ pulses'[d] = pulses[d] /\ last_id'[d] = last_id[d]
          BY <1>1, <2>1, <3>2 DEF StampsTyped
        <4> QED BY <1>1, <2>1, <3>1, <4>1 DEF CameraHolds, RingHolds, FramesWait, Consumed
      <3>3. CASE d = c
        <4>1. camera'[c] = "starting" /\ pulses'[c] = <<>> /\ last_id'[c] = None
          BY <1>1, <2>1 DEF StampsTyped
        <4> QED BY <1>1, <2>1, <3>1, <3>3, <4>1 DEF CameraHolds
      <3> QED BY <3>2, <3>3
    <2> QED BY <1>1, <2>2, <2>3 DEF StampsInv
  <1>3. CASE Stamps!BeginAcquisition(c)
    <2>1. /\ camera[c] = "starting"
          /\ camera' = [camera EXCEPT ![c] = "on"]
          /\ exposed' = [exposed EXCEPT ![c] = 0]
          /\ UNCHANGED <<pulses, last_id, frames, stamped>>
      BY <1>3 DEF Stamps!BeginAcquisition
    <2>2. StampsTyped'
      BY <1>1, <2>1 DEF StampsTyped, Exposures, Stamped
    <2>3. ASSUME NEW d \in StampCameras PROVE CameraHolds(d)'
      <3>1. CameraHolds(d)
        BY DEF StampsInv
      <3>2. CASE d # c
        <4>1. camera'[d] = camera[d] /\ exposed'[d] = exposed[d]
          BY <1>1, <2>1, <3>2 DEF StampsTyped
        <4> QED BY <1>1, <2>1, <3>1, <4>1 DEF CameraHolds, RingHolds, FramesWait, Consumed
      <3>3. CASE d = c
        <4>1. /\ camera'[c] = "on" /\ exposed'[c] = 0 /\ frames[c] = <<>> /\ wire = <<>>
              /\ pulses[c] = <<>> /\ last_id[c] = None
          BY <1>1, <2>1, <3>1, <3>3 DEF StampsTyped, CameraHolds
        <4>2. /\ Len(pulses'[c]) = 0 /\ Len(wire') = 0 /\ Len(frames'[c]) = 0
              /\ Consumed(c)' = 0
          BY <1>1, <2>1, <4>1 DEF Consumed
        <4>3. RingOf(pulses'[c], 0, 0, fired', 0, 0)
          BY <1>1 DEF RingOf, StampsTyped
        <4>4. RingHolds(c)'
          BY <4>1, <4>2, <4>3, Zenon DEF RingHolds
        <4>5. FramesWait(c)'
          BY <4>1, <4>2 DEF FramesWait
        <4> QED BY <2>1, <3>1, <3>3, <4>1, <4>4, <4>5 DEF CameraHolds
      <3> QED BY <3>2, <3>3
    <2> QED BY <1>1, <2>2, <2>3 DEF StampsInv
  <1>4. CASE Stamps!StopCamera(c)
    <2>1. /\ camera[c] = "on"
          /\ camera' = [camera EXCEPT ![c] = "off"]
          /\ frames' = [frames EXCEPT ![c] = <<>>]
          /\ stamped' = [stamped EXCEPT ![c] = None]
          /\ UNCHANGED <<pulses, last_id, exposed>>
      BY <1>4 DEF Stamps!StopCamera
    <2>2. StampsTyped'
      BY <1>1, <2>1 DEF StampsTyped, Exposures, Stamped
    <2>3. ASSUME NEW d \in StampCameras PROVE CameraHolds(d)'
      <3>1. CameraHolds(d)
        BY DEF StampsInv
      <3>2. CASE d # c
        <4>1. camera'[d] = camera[d] /\ frames'[d] = frames[d] /\ stamped'[d] = stamped[d]
          BY <1>1, <2>1, <3>2 DEF StampsTyped
        <4> QED BY <1>1, <2>1, <3>1, <4>1 DEF CameraHolds, RingHolds, FramesWait, Consumed
      <3>3. CASE d = c
        <4>1. camera'[c] = "off" /\ frames'[c] = <<>> /\ stamped'[c] = None
          BY <1>1, <2>1 DEF StampsTyped
        <4> QED BY <3>3, <4>1 DEF CameraHolds
      <3> QED BY <3>2, <3>3
    <2> QED BY <1>1, <2>2, <2>3 DEF StampsInv
  <1> QED BY <1>2, <1>3, <1>4

LEMMA StampsNext ==
  ASSUME Disturbances = {}
  PROVE  StampsInv /\ [Stamps!Next]_stampsVars => StampsInv'
  <1> SUFFICES ASSUME StampsInv, [Stamps!Next]_stampsVars PROVE StampsInv'
    OBVIOUS
  <1>1. CASE UNCHANGED stampsVars
    <2>1. StampsTyped' /\ OnWire'
      BY <1>1 DEF StampsInv, StampsTyped, OnWire, stampsVars, Exposures, Stamped
    <2>2. \A c \in StampCameras : CameraHolds(c)'
      BY <1>1 DEF StampsInv, CameraHolds, RingHolds, FramesWait, Consumed, stampsVars
    <2> QED BY <2>1, <2>2 DEF StampsInv
  <1>2. CASE Stamps!Quiet
    BY <1>1, <1>2 DEF Stamps!Quiet, Stamps!vars, stampsVars
  <1>3. CASE \E lost \in SUBSET StampCameras : Stamps!Pulse(lost)
    BY <1>3, PulseSteps
  <1>4. CASE Stamps!HandleEvent
    BY <1>4, HandleEventSteps
  <1>5. CASE \E c \in StampCameras :
               Stamps!Stamp(c) \/ Stamps!ResetPinState(c) \/ Stamps!BeginAcquisition(c)
               \/ Stamps!StopCamera(c)
    BY <1>5, StampSteps, CameraSteps
  <1> QED BY <1>1, <1>2, <1>3, <1>4, <1>5 DEF Stamps!Next

LEMMA StampsMeans ==
  StampsInv => Stamps!StampIsOwnPulse /\ Stamps!EveryFrameMatched
  <1> SUFFICES ASSUME StampsInv, NEW c \in StampCameras, stamped[c] # None
               PROVE  stamped[c].stamp = stamped[c].pulse /\ Stamps!Matched(c)
    BY DEF Stamps!StampIsOwnPulse, Stamps!EveryFrameMatched, Stamps!Matched
  <1>1. stamped[c].stamp = stamped[c].pulse /\ stamped[c].stamp \in Nat
    BY DEF StampsInv, CameraHolds
  <1> QED BY <1>1, StampConstants DEF Stamps!Matched

-----------------------------------------------------------------------------
(* The tag layouts.                                                         *)

LayoutConsumers ==
    [ext : BOOLEAN, shared : Layouts!Shareds, frame : Layouts!Shareds \cup {None}]

LayoutsTyped ==
    /\ rows \subseteq LayoutIds /\ imu \in {None, 1, 2} /\ shared \in Layouts!Shareds
    /\ active = {} \/ \E l \in rows : active = {l}
    /\ rows # {} => active # {}
    /\ holder \in [thread : Threads \cup {None}, layout : LayoutIds \cup {None}]
    /\ req \in [Threads -> {"idle", "reload"}]
    /\ consumer \in [Cams -> LayoutConsumers \cup {None}]
    /\ stale \in [Cams -> Nat]

\* One request reads at a time, consumers share one configuration, and a camera that has
\* published an old one has no frame in hand that took another.
Handed ==
    /\ holder # Layouts!Free => holder.thread \in Threads /\ req[holder.thread] = "reload"
    /\ \A c \in Cams : consumer[c] # None => consumer[c].shared = shared
    /\ \A c \in Cams : stale[c] <= 1
    /\ \A c \in Cams : stale[c] = 1 =>
          \/ consumer[c] = None \/ consumer[c].frame = None
          \/ consumer[c].frame = shared

\* What was shared, or read to be shared, is what the rows say unless another request is
\* still to read them.
Fresh ==
    /\ rows # {}
    /\ (\A t \in Threads : req[t] = "idle") =>
          shared = [layout |-> Layouts!ActiveLayout, imu |-> imu]
    /\ holder # Layouts!Free /\ (\A t \in Threads : t # holder.thread => req[t] = "idle") =>
          holder.layout = Layouts!ActiveLayout

LayoutsInv == LayoutsTyped /\ Handed

LEMMA ActiveIsLayout == LayoutsTyped => Layouts!ActiveLayout \in LayoutIds \cup {None}
  <1> SUFFICES ASSUME LayoutsTyped PROVE Layouts!ActiveLayout \in LayoutIds \cup {None}
    OBVIOUS
  <1>1. CASE active = {}
    BY <1>1 DEF Layouts!ActiveLayout
  <1>2. CASE active # {}
    <2>1. active \subseteq LayoutIds
      BY DEF LayoutsTyped
    <2> QED BY <1>2, <2>1 DEF Layouts!ActiveLayout
  <1> QED BY <1>1, <1>2

LEMMA LayoutsStart == Layouts!Init => LayoutsInv /\ (Seeded => Fresh)
  <1> SUFFICES ASSUME Layouts!Init PROVE LayoutsInv /\ (Seeded => Fresh)
    OBVIOUS
  <1> USE Assumptions DEF Layouts!LayoutAssumption
  <1>1. /\ active = rows /\ rows \subseteq LayoutIds
        /\ rows = {} \/ \E l \in LayoutIds : rows = {l}
        /\ Seeded => rows # {}
    BY DEF Layouts!Init
  <1>2. Layouts!ActiveLayout \in LayoutIds \cup {None}
    BY <1>1 DEF Layouts!ActiveLayout
  <1>3. shared \in Layouts!Shareds
    BY <1>2 DEF Layouts!Init, Layouts!Shareds
  <1>4. holder \in [thread : Threads \cup {None}, layout : LayoutIds \cup {None}]
    BY DEF Layouts!Init, Layouts!Free
  <1>5. LayoutsTyped
    BY <1>1, <1>3, <1>4 DEF Layouts!Init, LayoutsTyped
  <1>6. Handed
    <2>1. holder = Layouts!Free /\ \A c \in Cams : consumer[c] = None /\ stale[c] = 0
      BY DEF Layouts!Init
    <2>2. \A c \in Cams : stale[c] <= 1 /\ stale[c] # 1
      BY <2>1
    <2> QED BY <2>1, <2>2, Zenon DEF Handed
  <1>7. Seeded => Fresh
    BY <1>1 DEF Layouts!Init, Fresh
  <1> QED BY <1>5, <1>6, <1>7 DEF LayoutsInv

\* A request that writes: what it may leave behind.
LEMMA LayoutWriteSteps ==
  ASSUME LayoutsInv, NEW t \in Threads,
         Layouts!Create(t) \/ Layouts!Activate(t) \/ Layouts!Remove(t) \/ Layouts!PutImu(t)
  PROVE  LayoutsInv' /\ (Fresh => Fresh')
  <1> USE Assumptions DEF Layouts!LayoutAssumption
  <1>1. /\ UNCHANGED <<shared, holder, consumer, stale>>
        /\ req[t] = "idle" /\ \E n \in {"idle", "reload"} : req' = [req EXCEPT ![t] = n]
    BY DEF Layouts!Create, Layouts!Activate, Layouts!Remove, Layouts!PutImu, Layouts!Begin
  <1>2. /\ rows' \subseteq LayoutIds /\ imu' \in {None, 1, 2}
        /\ active' = {} \/ \E l \in rows' : active' = {l}
        /\ rows' # {} => active' # {}
        /\ rows # {} => rows' # {}
    BY DEF LayoutsInv, LayoutsTyped, Layouts!Create, Layouts!Activate, Layouts!Remove,
           Layouts!PutImu
  <1>3. req' \in [Threads -> {"idle", "reload"}]
    BY <1>1 DEF LayoutsInv, LayoutsTyped
  <1>4. LayoutsTyped'
    BY <1>1, <1>2, <1>3 DEF LayoutsInv, LayoutsTyped, LayoutConsumers, Layouts!Shareds
  <1>5. \A u \in Threads : req[u] = "reload" => req'[u] = "reload"
    BY <1>1, <1>3 DEF LayoutsInv, LayoutsTyped
  <1>6. Handed'
    BY <1>1, <1>5 DEF LayoutsInv, Handed, Layouts!Free
  <1>7. req'[t] = "reload" \/ (rows # {} => active' = active /\ imu' = imu)
    BY DEF LayoutsInv, LayoutsTyped, Layouts!Create, Layouts!Activate, Layouts!Remove,
           Layouts!PutImu, Layouts!Begin
  <1>8. holder # Layouts!Free => holder.thread \in Threads /\ holder.thread # t
    BY <1>1 DEF LayoutsInv, Handed
  <1>9. ASSUME Fresh PROVE Fresh'
    <2>1. CASE req'[t] = "reload"
      BY <2>1, <1>1, <1>2, <1>8, <1>9 DEF Fresh, Layouts!Free
    <2>2. CASE req'[t] # "reload"
      <3>1. active' = active /\ imu' = imu /\ Layouts!ActiveLayout' = Layouts!ActiveLayout
        <4>1. rows # {}
          BY <1>9 DEF Fresh
        <4>2. active' = active /\ imu' = imu
          BY <1>7, <2>2, <4>1
        <4> QED BY <4>2 DEF Layouts!ActiveLayout
      <3>2. \A u \in Threads : req'[u] = req[u]
        BY <1>1, <1>3, <2>2 DEF LayoutsInv, LayoutsTyped
      <3> QED BY <1>1, <1>2, <1>9, <3>1, <3>2 DEF Fresh, Layouts!Free
    <2> QED BY <2>1, <2>2
  <1> QED BY <1>4, <1>6, <1>9 DEF LayoutsInv

LEMMA ReadLayoutSteps ==
  ASSUME LayoutsInv, NEW t \in Threads, Layouts!ReadLayout(t)
  PROVE  LayoutsInv' /\ (Fresh => Fresh')
  <1> USE Assumptions DEF Layouts!LayoutAssumption
  <1>1. /\ UNCHANGED <<rows, active, imu, shared, req, consumer, stale>>
        /\ req[t] = "reload" /\ holder = Layouts!Free
        /\ holder' = [thread |-> t, layout |-> Layouts!ActiveLayout]
    BY DEF Layouts!ReadLayout
  <1>2. holder' \in [thread : Threads \cup {None}, layout : LayoutIds \cup {None}]
    BY <1>1, ActiveIsLayout DEF LayoutsInv
  <1>3. LayoutsTyped'
    BY <1>1, <1>2 DEF LayoutsInv, LayoutsTyped, LayoutConsumers, Layouts!Shareds
  <1>4. Handed'
    BY <1>1 DEF LayoutsInv, Handed, Layouts!Free
  <1>5. Layouts!ActiveLayout' = Layouts!ActiveLayout
    BY <1>1 DEF Layouts!ActiveLayout
  <1>6. Fresh => Fresh'
    BY <1>1, <1>5 DEF Fresh, Layouts!Free
  <1> QED BY <1>3, <1>4, <1>6 DEF LayoutsInv

LEMMA PublishSteps ==
  ASSUME LayoutsInv, NEW t \in Threads, Layouts!Publish(t)
  PROVE  LayoutsInv' /\ (Fresh => Fresh')
  <1> USE Assumptions DEF Layouts!LayoutAssumption
  <1>1. /\ UNCHANGED <<rows, active, imu>>
        /\ holder.thread = t /\ shared' = [layout |-> holder.layout, imu |-> imu]
        /\ consumer' = [c \in Cams |-> IF consumer[c] = None THEN None
                                   ELSE [consumer[c] EXCEPT !.shared = shared']]
        /\ stale' = [c \in Cams |-> 0]
        /\ holder' = Layouts!Free /\ req' = [req EXCEPT ![t] = "idle"]
    BY DEF Layouts!Publish
  <1>2. shared' \in Layouts!Shareds
    BY <1>1 DEF LayoutsInv, LayoutsTyped, Layouts!Shareds
  <1>3. consumer' \in [Cams -> LayoutConsumers \cup {None}]
    BY <1>1, <1>2 DEF LayoutsInv, LayoutsTyped, LayoutConsumers
  <1>4. /\ stale' \in [Cams -> Nat] /\ req' \in [Threads -> {"idle", "reload"}]
        /\ holder' \in [thread : Threads \cup {None}, layout : LayoutIds \cup {None}]
    BY <1>1 DEF LayoutsInv, LayoutsTyped, Layouts!Free
  <1>5. LayoutsTyped'
    BY <1>1, <1>2, <1>3, <1>4 DEF LayoutsInv, LayoutsTyped
  <1>6. \A c \in Cams : consumer'[c] # None => consumer'[c].shared = shared'
    BY <1>1 DEF LayoutsInv, LayoutsTyped, LayoutConsumers
  <1>7. Handed'
    <2>1. \A c \in Cams : stale'[c] = 0
      BY <1>1
    <2>2. \A c \in Cams : stale'[c] <= 1 /\ stale'[c] # 1
      BY <2>1
    <2>3. holder' = Layouts!Free'
      BY <1>1 DEF Layouts!Free
    <2> QED BY <1>6, <2>2, <2>3, Zenon DEF Handed
  <1>8. Layouts!ActiveLayout' = Layouts!ActiveLayout
    BY <1>1 DEF Layouts!ActiveLayout
  <1>9. ASSUME Fresh PROVE Fresh'
    <2>1. holder # Layouts!Free
      BY <1>1 DEF Layouts!Free
    <2>2. (\A u \in Threads : req'[u] = "idle") =>
            \A u \in Threads : u # holder.thread => req[u] = "idle"
      BY <1>1 DEF LayoutsInv, LayoutsTyped
    <2> QED BY <1>1, <1>8, <1>9, <2>1, <2>2 DEF Fresh
  <1> QED BY <1>5, <1>7, <1>9 DEF LayoutsInv

LEMMA LayoutCameraSteps ==
  ASSUME LayoutsInv, NEW c \in Cams,
         \/ Layouts!MakeConsumer(c) \/ Layouts!Detach(c)
         \/ Layouts!Snapshot(c) \/ Layouts!Solve(c)
  PROVE  LayoutsInv' /\ (Fresh => Fresh')
  <1>1. UNCHANGED <<rows, active, imu, shared, holder, req>>
    BY DEF Layouts!MakeConsumer, Layouts!Detach, Layouts!Snapshot, Layouts!Solve
  <1>2. Fresh => Fresh'
    <2>1. Layouts!ActiveLayout' = Layouts!ActiveLayout
      BY <1>1 DEF Layouts!ActiveLayout
    <2> QED BY <1>1, <2>1 DEF Fresh, Layouts!Free
  <1>3. CASE UNCHANGED <<consumer, stale>>
    BY <1>1, <1>2, <1>3 DEF LayoutsInv, LayoutsTyped, Handed, LayoutConsumers, Layouts!Shareds,
                            Layouts!Free
  <1> DEFINE Held(k) == k # None =>
               /\ k.shared = shared
               /\ stale'[c] = 1 => k.frame = None \/ k.frame = shared
             Good(k) == /\ k \in LayoutConsumers \cup {None} /\ Held(k)
                        /\ consumer' = [consumer EXCEPT ![c] = k]
                        /\ \/ UNCHANGED stale
                           \/ \E n \in 0..1 : stale' = [stale EXCEPT ![c] = n]
  <1>4. ASSUME NEW k, Good(k) PROVE LayoutsInv' /\ (Fresh => Fresh')
    <2>1. consumer' \in [Cams -> LayoutConsumers \cup {None}] /\ stale' \in [Cams -> Nat]
      BY <1>4 DEF LayoutsInv, LayoutsTyped
    <2>2. LayoutsTyped'
      BY <1>1, <2>1 DEF LayoutsInv, LayoutsTyped, LayoutConsumers, Layouts!Shareds
    <2>3. consumer'[c] = k /\ \A d \in Cams : d # c => consumer'[d] = consumer[d]
      BY <1>4 DEF LayoutsInv, LayoutsTyped
    <2>4. stale'[c] <= 1 /\ \A d \in Cams : d # c => stale'[d] = stale[d]
      BY <1>4 DEF LayoutsInv, LayoutsTyped, Handed
    <2>5. Handed'
      BY <1>1, <1>4, <2>3, <2>4 DEF LayoutsInv, Handed, Layouts!Free
    <2> QED BY <1>2, <2>2, <2>5 DEF LayoutsInv
  <1>5. consumer[c] # None => /\ consumer[c] \in LayoutConsumers
                              /\ consumer[c].shared = shared /\ shared \in Layouts!Shareds
                              /\ stale[c] = 1 => \/ consumer[c].frame = None
                                                 \/ consumer[c].frame = shared
    BY DEF LayoutsInv, LayoutsTyped, Handed
  <1>6. CASE Layouts!MakeConsumer(c)
    <2>1. PICK ext \in BOOLEAN : consumer' =
            [consumer EXCEPT ![c] = [ext |-> ext, shared |-> shared, frame |-> None]]
      BY <1>6 DEF Layouts!MakeConsumer
    <2> DEFINE k == [ext |-> ext, shared |-> shared, frame |-> None]
    <2>2. Good(k)
      BY <1>6, <2>1 DEF Layouts!MakeConsumer, LayoutConsumers, LayoutsInv, LayoutsTyped
    <2> HIDE DEF k, Good
    <2> QED BY <2>2, <1>4
  <1>7. CASE Layouts!Detach(c)
    <2>1. Good(None)
      BY <1>7 DEF Layouts!Detach
    <2> HIDE DEF Good
    <2> QED BY <2>1, <1>4
  <1>8. CASE Layouts!Snapshot(c)
    <2> DEFINE k == [consumer[c] EXCEPT !.frame = consumer[c].shared]
    <2>1. consumer[c] # None /\ consumer' = [consumer EXCEPT ![c] = k] /\ UNCHANGED stale
      BY <1>8 DEF Layouts!Snapshot
    <2>2. k \in LayoutConsumers /\ k.shared = shared /\ k.frame = shared
      BY <1>5, <2>1 DEF LayoutConsumers
    <2>3. Good(k)
      BY <2>1, <2>2
    <2> HIDE DEF k, Good
    <2> QED BY <2>3, <1>4
  <1>9. CASE Layouts!Solve(c)
    <2> DEFINE k == [consumer[c] EXCEPT !.frame = None]
    <2>1. /\ consumer[c] # None /\ consumer[c].frame # None
          /\ consumer' = [consumer EXCEPT ![c] = k]
          /\ \/ UNCHANGED stale
             \/ stale' = [stale EXCEPT ![c] = IF consumer[c].frame = shared THEN @ ELSE @ + 1]
      BY <1>9 DEF Layouts!Solve
    <2>2. k \in LayoutConsumers /\ k.shared = shared /\ k.frame = None
      BY <1>5, <2>1 DEF LayoutConsumers
    <2>3. stale[c] \in 0..1
      BY DEF LayoutsInv, LayoutsTyped, Handed
    <2>4. IF consumer[c].frame = shared THEN stale[c] \in 0..1 ELSE stale[c] + 1 \in 0..1
      BY <1>5, <2>1, <2>3
    <2>5. UNCHANGED stale \/ \E n \in 0..1 : stale' = [stale EXCEPT ![c] = n]
      BY <2>1, <2>4
    <2>6. Good(k)
      BY <2>1, <2>2, <2>5
    <2> HIDE DEF k, Good
    <2> QED BY <2>6, <1>4
  <1> QED BY <1>6, <1>7, <1>8, <1>9

LEMMA LayoutsNext ==
  LayoutsInv /\ [Layouts!Next]_layoutsVars => LayoutsInv' /\ (Fresh => Fresh')
  <1> SUFFICES ASSUME LayoutsInv, [Layouts!Next]_layoutsVars
               PROVE  LayoutsInv' /\ (Fresh => Fresh')
    OBVIOUS
  <1>1. CASE UNCHANGED layoutsVars
    <2>1. Layouts!ActiveLayout' = Layouts!ActiveLayout
      BY <1>1 DEF Layouts!ActiveLayout, layoutsVars
    <2>2. LayoutsInv'
      BY <1>1 DEF layoutsVars, LayoutsInv, LayoutsTyped, Handed, LayoutConsumers,
                  Layouts!Shareds, Layouts!Free
    <2>3. Fresh => Fresh'
      BY <1>1, <2>1 DEF layoutsVars, Fresh, Layouts!Free
    <2> QED BY <2>2, <2>3
  <1>2. CASE Layouts!Next
    BY <1>2, LayoutWriteSteps, ReadLayoutSteps, PublishSteps, LayoutCameraSteps
       DEF Layouts!Next
  <1> QED BY <1>1, <1>2

LEMMA LayoutsMeans ==
  LayoutsInv => /\ Layouts!TypeOK /\ Layouts!ExactlyOneActive /\ Layouts!OneStalePose
                /\ Fresh => Layouts!SharedFresh
  <1> SUFFICES ASSUME LayoutsInv
               PROVE  /\ Layouts!TypeOK /\ Layouts!ExactlyOneActive /\ Layouts!OneStalePose
                      /\ Fresh => Layouts!SharedFresh
    OBVIOUS
  <1>1. Layouts!TypeOK
    BY DEF LayoutsInv, LayoutsTyped, LayoutConsumers, Layouts!TypeOK
  <1>2. Layouts!ExactlyOneActive
    <2>1. Layouts!Cardinality(active) = Cardinality(active)
      BY DEF Layouts!Cardinality, Cardinality
    <2>2. CASE rows = {}
      <3>1. active = {}
        BY <2>2 DEF LayoutsInv, LayoutsTyped
      <3>2. Cardinality(active) = 0
        BY <3>1, FS_EmptySet
      <3> QED BY <2>1, <2>2, <3>2 DEF Layouts!ExactlyOneActive
    <2>3. CASE rows # {}
      <3>1. PICK l \in rows : active = {l}
        BY <2>3 DEF LayoutsInv, LayoutsTyped
      <3>2. Cardinality(active) = 1
        BY <3>1, FS_Singleton
      <3> QED BY <2>1, <2>3, <3>2 DEF Layouts!ExactlyOneActive
    <2> QED BY <2>2, <2>3
  <1>3. Layouts!OneStalePose
    BY DEF LayoutsInv, Handed, Layouts!OneStalePose
  <1>4. Fresh => Layouts!SharedFresh
    BY DEF LayoutsInv, Handed, Fresh, Layouts!SharedFresh
  <1> QED BY <1>1, <1>2, <1>3, <1>4

-----------------------------------------------------------------------------
(* The robot link.                                                          *)

PutSteps == {"idle", "flag", "join", "close", "configure", "bind", "run"}
Puts == [at : PutSteps, cfg : Link!Rows \cup {None}, fd : Fds \cup {-1}]
SendStates == [fd : Fds \cup {-1}, dest : {1, 2, None}]
LinkCounts == [rx : Nat, rejected : Nat, sent : Nat, errors : Nat, noDest : Nat]

LinkTyped ==
    /\ row \in Link!Rows /\ put \in [PutThreads -> Puts]
    /\ cfg \in Link!Rows /\ linkConfigured \in {1, 2, None} /\ learned \in BOOLEAN
    /\ fd \in Fds \cup {-1} /\ flag \in BOOLEAN /\ rx \in {"none", "running", "ended"}
    /\ open \subseteq Fds /\ sender \in [Senders -> SendStates] /\ counts \in LinkCounts
    /\ linkCalls \in Nat /\ puts \in Nat

\* The half of the row a PUT has brought into the link by each of its steps, for one PUT
\* at a time.
PutAt(c) ==
    LET at == put[c].at IN
    /\ at = "idle" => put[c] = Link!Idle /\ cfg = row /\ (fd # -1 => row.enabled)
    /\ at # "idle" => put[c].cfg = row
    /\ at \in {"close", "configure", "bind", "run"} => rx = "none"
    /\ at \in {"configure", "bind", "run"} => fd = -1
    /\ at \in {"bind", "run"} => cfg = row /\ row.enabled
    /\ IF at = "run" THEN open = {put[c].fd} /\ put[c].fd \in Fds ELSE open = {fd} \ {-1}

LinkHolds ==
    /\ ~crashed /\ (rx = "running" => fd \in open)
    /\ \A c \in PutThreads : PutAt(c)
    /\ PutThreads = {} => cfg = row /\ (fd # -1 => row.enabled) /\ open = {fd} \ {-1}

LinkInv == LinkTyped /\ LinkHolds

\* Between the two halves of its call a sender is counted by what it holds.
Sending == {s \in Senders : sender[s] # Link!Ready}
SendsInv ==
    /\ counts \in LinkCounts /\ linkCalls \in Nat /\ sender \in [Senders -> SendStates]
    /\ linkCalls = counts.sent + counts.errors + counts.noDest + Cardinality(Sending)

LEMMA LowestFree ==
  ASSUME NEW S \in SUBSET Nat, S # {}
  PROVE  (CHOOSE n \in S : \A k \in S : n <= k) \in S
  <1>1. OpToRel(<, Nat) = {p \in Nat \X Nat : p[1] < p[2]}
    BY DEF OpToRel
  <1>2. PICK n \in S : \A k \in S : ~ <<k, n>> \in {p \in Nat \X Nat : p[1] < p[2]}
    BY <1>1, NatLessThanWellFounded, WFMin
  <1>3. ASSUME NEW k \in S PROVE n <= k
    <2>1. <<k, n>> \in Nat \X Nat /\ <<k, n>>[1] = k /\ <<k, n>>[2] = n
      OBVIOUS
    <2>2. ~ k < n
      BY <1>2, <2>1, Zenon
    <2> QED BY <2>2
  <1> QED BY <1>3

LEMMA LinkStarts == Link!Init => LinkInv /\ SendsInv
  <1> SUFFICES ASSUME Link!Init PROVE LinkInv /\ SendsInv
    OBVIOUS
  <1>1. row \in Link!Rows /\ Link!Idle \in Puts /\ Link!Ready \in SendStates
    BY DEF Link!Init, Link!Rows, Link!Idle, Link!Ready, Puts, PutSteps, SendStates
  <1>2. counts \in LinkCounts
    BY DEF Link!Init, LinkCounts
  <1>3. LinkTyped
    BY <1>1, <1>2 DEF Link!Init, LinkTyped
  <1>4. \A c \in PutThreads : put[c] = Link!Idle /\ put[c].at = "idle"
    BY DEF Link!Init, Link!Idle
  <1>5. /\ cfg = row /\ fd = -1 /\ open = {} /\ rx = "none" /\ crashed = FALSE
        /\ \A s \in Senders : sender[s] = Link!Ready
        /\ counts.sent = 0 /\ counts.errors = 0 /\ counts.noDest = 0 /\ linkCalls = 0
    BY DEF Link!Init
  <1>6. LinkHolds
    BY <1>4, <1>5 DEF LinkHolds, PutAt
  <1>7. Sending = {}
    BY <1>5 DEF Sending
  <1>8. Cardinality(Sending) = 0
    BY <1>7, FS_EmptySet
  <1> QED BY <1>3, <1>5, <1>6, <1>8 DEF LinkInv, LinkTyped, SendsInv

\* A step of a PUT, with no other PUT beside it: the PUT's new state, the rest of the link.
LEMMA PutStep ==
  ASSUME LinkInv, NEW c \in PutThreads, \A d \in PutThreads : d = c,
         NEW k \in Puts, put' = [put EXCEPT ![c] = k],
         row' \in Link!Rows, cfg' \in Link!Rows, linkConfigured' \in {1, 2, None},
         flag' \in BOOLEAN, fd' \in Fds \cup {-1}, open' \subseteq Fds,
         rx' \in {"none", "running", "ended"}, ~crashed', rx' = "running" => fd' \in open',
         UNCHANGED <<learned, sender, counts, linkCalls>>, puts' \in Nat, PutAt(c)'
  PROVE  LinkInv'
  <1>1. put' \in [PutThreads -> Puts]
    BY DEF LinkInv, LinkTyped
  <1>2. LinkTyped'
    BY <1>1 DEF LinkInv, LinkTyped, Link!Rows, SendStates, LinkCounts, Puts
  <1>3. \A d \in PutThreads : PutAt(d)'
    BY Zenon
  <1>4. LinkHolds'
    BY <1>3, Zenon DEF LinkHolds
  <1> QED BY <1>2, <1>4 DEF LinkInv

LEMMA PutActions ==
  ASSUME LinkInv, NEW c \in PutThreads, \A d \in PutThreads : d = c, Link!Reconfigure(c)
  PROVE  LinkInv'
  <1> USE Assumptions DEF Link!LinkAssumption
  <1>1. /\ put \in [PutThreads -> Puts] /\ put[c] \in Puts /\ PutAt(c)
        /\ row \in Link!Rows /\ cfg \in Link!Rows /\ linkConfigured \in {1, 2, None}
        /\ flag \in BOOLEAN /\ fd \in Fds \cup {-1} /\ open \subseteq Fds
        /\ rx \in {"none", "running", "ended"} /\ ~crashed /\ (rx = "running" => fd \in open)
        /\ puts \in Nat
    BY DEF LinkInv, LinkTyped, LinkHolds
  <1>2. CASE Link!Update(c)
    <2> DEFINE k == [at |-> "flag", cfg |-> row', fd |-> -1]
    <2>1. /\ put' = [put EXCEPT ![c] = k] /\ row' \in Link!Rows /\ put[c].at = "idle"
          /\ puts' = puts + 1
          /\ UNCHANGED <<cfg, linkConfigured, learned, fd, flag, rx, open, crashed,
                         sender, counts, linkCalls>>
      BY <1>2 DEF Link!Update, Link!link, Link!At
    <2>2. k \in Puts /\ put'[c] = k
      BY <1>1, <2>1 DEF Puts, PutSteps
    <2>3. PutAt(c)'
      BY <1>1, <2>1, <2>2 DEF PutAt
    <2>4. puts' \in Nat
      BY <1>1, <2>1
    <2> HIDE DEF k
    <2> QED BY <1>1, <2>1, <2>2, <2>3, <2>4, PutStep
  <1> DEFINE step(at) == [put[c] EXCEPT !.at = at]
  <1>3. \A at \in PutSteps : /\ step(at) \in Puts /\ step(at).at = at
                             /\ step(at).cfg = put[c].cfg /\ step(at).fd = put[c].fd
    BY <1>1 DEF Puts
  <1>4. CASE Link!ClearFlag(c)
    <2> DEFINE at == IF rx = "none" THEN "close" ELSE "join"
    <2>1. /\ put' = [put EXCEPT ![c] = step(at)] /\ put[c].at = "flag" /\ flag' = FALSE
          /\ UNCHANGED <<row, cfg, linkConfigured, learned, fd, rx, open, crashed,
                         sender, counts, linkCalls, puts>>
      BY <1>4 DEF Link!ClearFlag, Link!At, Link!Goto
    <2>2. step(at) \in Puts /\ put'[c] = step(at)
      BY <1>1, <1>3, <2>1 DEF PutSteps
    <2>3. PutAt(c)'
      BY <1>1, <1>3, <2>1, <2>2 DEF PutAt, PutSteps
    <2> HIDE DEF step, at
    <2> QED BY <1>1, <2>1, <2>2, <2>3, PutStep
  <1>5. CASE Link!Join(c)
    <2>1. /\ put' = [put EXCEPT ![c] = step("close")] /\ put[c].at = "join" /\ rx' = "none"
          /\ UNCHANGED <<row, cfg, linkConfigured, learned, fd, flag, open, crashed,
                         sender, counts, linkCalls, puts>>
      BY <1>5 DEF Link!Join, Link!At, Link!Goto
    <2>2. step("close") \in Puts /\ put'[c] = step("close")
      BY <1>1, <1>3, <2>1 DEF PutSteps
    <2>3. PutAt(c)'
      BY <1>1, <1>3, <2>1, <2>2 DEF PutAt, PutSteps
    <2> HIDE DEF step
    <2> QED BY <1>1, <2>1, <2>2, <2>3, PutStep
  <1>6. CASE Link!Close(c)
    <2>1. /\ put' = [put EXCEPT ![c] = step("configure")] /\ put[c].at = "close"
          /\ open' = open \ {fd} /\ fd' = -1
          /\ UNCHANGED <<row, cfg, linkConfigured, learned, flag, rx, crashed,
                         sender, counts, linkCalls, puts>>
      BY <1>6 DEF Link!Close, Link!At, Link!Goto
    <2>2. step("configure") \in Puts /\ put'[c] = step("configure")
      BY <1>1, <1>3, <2>1 DEF PutSteps
    <2>3. rx = "none" /\ open' = {} /\ PutAt(c)'
      BY <1>1, <1>3, <2>1, <2>2 DEF PutAt, PutSteps
    <2> HIDE DEF step
    <2> QED BY <1>1, <2>1, <2>2, <2>3, PutStep
  <1>7. Link!Idle \in Puts /\ Link!Idle.at = "idle"
    BY DEF Link!Idle, Puts, PutSteps
  <1>8. CASE Link!Configure(c)
    <2>1. /\ put[c].at = "configure" /\ cfg' = put[c].cfg
          /\ linkConfigured' = IF put[c].cfg.ip = "fixed" THEN put[c].cfg.port ELSE None
          /\ \/ put' = [put EXCEPT ![c] = step("bind")] /\ put[c].cfg.enabled
             \/ put' = [put EXCEPT ![c] = Link!Idle]
          /\ UNCHANGED <<row, learned, fd, flag, rx, open, crashed, sender, counts,
                         linkCalls, puts>>
      BY <1>8 DEF Link!Configure, Link!At, Link!Goto
    <2>2. put[c].cfg = row /\ rx = "none" /\ fd = -1 /\ open = {}
      BY <1>1, <2>1 DEF PutAt
    <2>3. cfg' = row /\ cfg' \in Link!Rows /\ linkConfigured' \in {1, 2, None}
      BY <1>1, <2>1, <2>2 DEF Link!Rows
    <2>4. CASE put' = [put EXCEPT ![c] = step("bind")] /\ put[c].cfg.enabled
      <3>1. step("bind") \in Puts /\ put'[c] = step("bind")
        BY <1>1, <1>3, <2>4 DEF PutSteps
      <3>2. PutAt(c)'
        BY <1>1, <1>3, <2>1, <2>2, <2>3, <2>4, <3>1 DEF PutAt, PutSteps
      <3> HIDE DEF step
      <3> QED BY <1>1, <2>1, <2>2, <2>3, <2>4, <3>1, <3>2, PutStep
    <2>5. CASE put' = [put EXCEPT ![c] = Link!Idle]
      <3>1. put'[c] = Link!Idle
        BY <1>1, <2>5
      <3>2. PutAt(c)'
        BY <1>1, <1>7, <2>1, <2>2, <2>3, <3>1 DEF PutAt, Link!Idle
      <3> QED BY <1>1, <1>7, <2>1, <2>2, <2>3, <2>5, <3>1, <3>2, PutStep
    <2> QED BY <2>1, <2>4, <2>5
  <1>9. CASE Link!Bind(c)
    <2>1. put[c].at = "bind" /\ fd = -1 /\ open = {} /\ rx = "none" /\ cfg = row /\ row.enabled
      BY <1>1, <1>9 DEF Link!Bind, Link!At, PutAt
    <2>2. UNCHANGED <<row, cfg, linkConfigured, learned, fd, flag, rx, crashed,
                      sender, counts, linkCalls, puts>>
      BY <1>9 DEF Link!Bind
    <2>3. PICK n : n = CHOOSE m \in Fds \ open : \A k \in Fds \ open : m <= k
      OBVIOUS
    <2>4. n \in Fds
      <3>1. Fds \ open = Fds
        BY <2>1
      <3> QED BY <2>3, <3>1, LowestFree
    <2> DEFINE k == [step("run") EXCEPT !.fd = n]
    <2>5. k \in Puts /\ k.at = "run" /\ k.fd = n /\ k.cfg = put[c].cfg
      BY <1>1, <2>4 DEF Puts, PutSteps
    <2>6. \/ open' = open \cup {n} /\ put' = [put EXCEPT ![c].at = "run", ![c].fd = n]
          \/ put' = [put EXCEPT ![c] = Link!Idle] /\ UNCHANGED open
      BY <1>9, <2>3 DEF Link!Bind
    <2>7. CASE open' = open \cup {n} /\ put' = [put EXCEPT ![c].at = "run", ![c].fd = n]
      <3>1. put' = [put EXCEPT ![c] = k]
        BY <1>1, <2>7
      <3>2. put'[c] = k /\ open' = {n}
        BY <1>1, <2>1, <2>7, <3>1
      <3> HIDE DEF k, step
      <3>3. PutAt(c)'
        BY <1>1, <2>1, <2>2, <2>4, <2>5, <3>2 DEF PutAt
      <3> QED BY <1>1, <2>1, <2>2, <2>4, <2>5, <3>1, <3>2, <3>3, PutStep
    <2>8. CASE put' = [put EXCEPT ![c] = Link!Idle] /\ UNCHANGED open
      <3>1. put'[c] = Link!Idle
        BY <1>1, <2>8
      <3>2. PutAt(c)'
        BY <1>1, <1>7, <2>1, <2>2, <2>8, <3>1 DEF PutAt, Link!Idle
      <3> QED BY <1>1, <1>7, <2>1, <2>2, <2>8, <3>1, <3>2, PutStep
    <2> QED BY <2>6, <2>7, <2>8
  <1>10. CASE Link!Run(c)
    <2>1. /\ put[c].at = "run" /\ fd' = put[c].fd /\ flag' = TRUE
          /\ crashed' = (rx # "none") /\ rx' = "running"
          /\ put' = [put EXCEPT ![c] = Link!Idle]
          /\ UNCHANGED <<row, cfg, linkConfigured, learned, open, sender, counts, linkCalls, puts>>
      BY <1>10 DEF Link!Run, Link!At
    <2>2. rx = "none" /\ cfg = row /\ row.enabled /\ open = {put[c].fd} /\ put[c].fd \in Fds
      BY <1>1, <2>1 DEF PutAt
    <2>3. put'[c] = Link!Idle /\ open' = {fd'} /\ fd' \in Fds /\ fd' # -1
      BY <1>1, <2>1, <2>2
    <2>4. PutAt(c)'
      BY <1>1, <1>7, <2>1, <2>2, <2>3 DEF PutAt, Link!Idle
    <2> QED BY <1>1, <1>7, <2>1, <2>2, <2>3, <2>4, PutStep
  <1> QED BY <1>2, <1>4, <1>5, <1>6, <1>8, <1>9, <1>10 DEF Link!Reconfigure

LEMMA ReceiveSteps ==
  ASSUME LinkInv, Link!Receive \/ Link!RxEnds PROVE LinkInv'
  <1>1. /\ UNCHANGED <<row, put, cfg, linkConfigured, fd, flag, open, crashed, sender,
                       linkCalls, puts>>
        /\ rx = "running" /\ rx' \in {"running", "ended"}
    BY DEF Link!Receive, Link!RxEnds
  <1>2. counts' \in LinkCounts /\ learned' \in BOOLEAN
    <2>1. /\ learned' = learned \/ learned' = TRUE
          /\ \/ counts' = counts \/ counts' = [counts EXCEPT !.rejected = @ + 1]
             \/ counts' = [counts EXCEPT !.rx = @ + 1]
      BY DEF Link!Receive, Link!RxEnds
    <2>2. counts \in LinkCounts /\ learned \in BOOLEAN
      BY DEF LinkInv, LinkTyped
    <2>3. counts' \in LinkCounts
      BY <2>1, <2>2 DEF LinkCounts
    <2> QED BY <2>1, <2>2, <2>3
  <1>3. LinkTyped'
    BY <1>1, <1>2 DEF LinkInv, LinkTyped, Link!Rows, SendStates, Puts
  <1>4. \A c \in PutThreads : PutAt(c)'
    BY <1>1 DEF LinkInv, LinkHolds, PutAt, Link!Idle
  <1>5. LinkHolds'
    BY <1>1, <1>4 DEF LinkInv, LinkHolds
  <1> QED BY <1>3, <1>5 DEF LinkInv

LEMMA DestinationIsPort ==
  ASSUME linkConfigured \in {1, 2, None}, cfg \in Link!Rows, learned \in BOOLEAN
  PROVE  Link!Destination \in {1, 2, None}
  BY DEF Link!Destination, Link!Rows

\* A sender's step leaves the link alone and keeps the count.
LEMMA SenderSteps ==
  ASSUME LinkTyped, SendsInv, NEW s \in Senders, Link!BeginSend(s) \/ Link!EndSend(s)
  PROVE  SendsInv' /\ (LinkInv => LinkInv')
  <1> USE Assumptions DEF Link!LinkAssumption
  <1>1. /\ UNCHANGED <<row, put, cfg, linkConfigured, learned, fd, flag, rx, open, crashed,
                       puts>>
        /\ counts \in LinkCounts /\ sender \in [Senders -> SendStates] /\ linkCalls \in Nat
        /\ fd \in Fds \cup {-1}
    BY DEF Link!BeginSend, Link!EndSend, Link!link, LinkTyped
  <1>2. Link!Destination \in {1, 2, None}
    BY DestinationIsPort DEF LinkTyped
  <1>3. Link!Ready \in SendStates
    BY DEF Link!Ready, SendStates
  <1>4. IsFiniteSet(Sending) /\ Cardinality(Sending) \in Nat
    <2>1. Sending \subseteq Senders
      BY DEF Sending
    <2>2. IsFiniteSet(Senders)
      BY DEF Link!IsFiniteSet, IsFiniteSet
    <2> QED BY <2>1, <2>2, FS_Subset, FS_CardinalityType
  <1>5. ASSUME Link!BeginSend(s) PROVE SendsInv'
    <2>1. /\ sender[s] = Link!Ready /\ linkCalls' = linkCalls + 1 /\ s \notin Sending
          /\ linkCalls' \in Nat
      BY <1>1, <1>5 DEF Link!BeginSend, Sending
    <2> DEFINE k == [fd |-> fd, dest |-> Link!Destination]
               total(n) == n.sent + n.errors + n.noDest
    <2>2. \/ /\ UNCHANGED sender
             /\ \/ counts' = [counts EXCEPT !.errors = @ + 1]
                \/ counts' = [counts EXCEPT !.noDest = @ + 1]
          \/ UNCHANGED counts /\ fd # -1 /\ sender' = [sender EXCEPT ![s] = k]
      BY <1>5 DEF Link!BeginSend
    <2>3. CASE /\ UNCHANGED sender
               /\ \/ counts' = [counts EXCEPT !.errors = @ + 1]
                  \/ counts' = [counts EXCEPT !.noDest = @ + 1]
      <3>1. /\ counts' \in LinkCounts /\ total(counts') = total(counts) + 1
            /\ total(counts) \in Nat
        BY <1>1, <2>3 DEF LinkCounts
      <3>2. Sending' = Sending /\ sender' \in [Senders -> SendStates]'
        BY <1>1, <2>3 DEF Sending, Link!Ready, SendStates
      <3>3. linkCalls = total(counts) + Cardinality(Sending)
        BY DEF SendsInv
      <3>4. linkCalls' = total(counts') + Cardinality(Sending)
        BY <1>4, <2>1, <3>1, <3>3
      <3> QED BY <2>1, <3>1, <3>2, <3>4 DEF SendsInv, LinkCounts
    <2>4. CASE UNCHANGED counts /\ fd # -1 /\ sender' = [sender EXCEPT ![s] = k]
      <3>1. k \in SendStates /\ k # Link!Ready
        BY <1>1, <1>2, <2>4 DEF SendStates, Link!Ready
      <3> HIDE DEF k
      <3>2. sender' \in [Senders -> SendStates] /\ Sending' = Sending \cup {s}
        BY <1>1, <2>4, <3>1 DEF Sending, Link!Ready
      <3>3. Cardinality(Sending') = Cardinality(Sending) + 1
        BY <1>4, <2>1, <3>2, FS_AddElement
      <3>4. linkCalls = total(counts) + Cardinality(Sending) /\ total(counts) \in Nat
        BY <1>1 DEF SendsInv, LinkCounts
      <3>5. linkCalls' = total(counts) + Cardinality(Sending')
        BY <1>4, <2>1, <3>3, <3>4
      <3> QED BY <1>1, <2>1, <2>4, <3>2, <3>5 DEF SendsInv, LinkCounts, SendStates
    <2> QED BY <2>2, <2>3, <2>4
  <1>6. ASSUME Link!EndSend(s) PROVE SendsInv'
    <2> DEFINE total(n) == n.sent + n.errors + n.noDest
    <2>1. /\ s \in Sending /\ sender' = [sender EXCEPT ![s] = Link!Ready]
          /\ linkCalls' = linkCalls
      BY <1>6 DEF Link!EndSend, Sending
    <2>2. sender' \in [Senders -> SendStates] /\ Sending' = Sending \ {s}
      BY <1>1, <1>3, <2>1 DEF Sending, Link!Ready
    <2>3. Cardinality(Sending') = Cardinality(Sending) - 1
      BY <1>4, <2>1, <2>2, FS_RemoveElement
    <2>4. \/ counts' = [counts EXCEPT !.sent = @ + 1]
          \/ counts' = [counts EXCEPT !.errors = @ + 1]
      BY <1>6 DEF Link!EndSend
    <2>5. /\ counts' \in LinkCounts /\ total(counts') = total(counts) + 1
          /\ total(counts) \in Nat
      BY <1>1, <2>4 DEF LinkCounts
    <2>6. linkCalls = total(counts) + Cardinality(Sending)
      BY DEF SendsInv
    <2>7. linkCalls' = total(counts') + Cardinality(Sending')
      BY <1>4, <2>1, <2>3, <2>5, <2>6
    <2> QED BY <1>1, <2>1, <2>2, <2>5, <2>7 DEF SendsInv, LinkCounts, SendStates
  <1>7. SendsInv'
    BY <1>5, <1>6
  <1>8. LinkInv => LinkInv'
    <2> SUFFICES ASSUME LinkInv PROVE LinkInv'
      OBVIOUS
    <2>1. LinkTyped'
      BY <1>1, <1>7 DEF LinkTyped, SendsInv, Link!Rows, Puts
    <2>2. \A c \in PutThreads : PutAt(c)'
      BY <1>1 DEF LinkInv, LinkHolds, PutAt, Link!Idle
    <2>3. LinkHolds'
      BY <1>1, <2>2 DEF LinkInv, LinkHolds
    <2> QED BY <2>1, <2>3 DEF LinkInv
  <1> QED BY <1>7, <1>8

\* A step of a PUT or of the receive thread counts no call.
LEMMA OthersCount ==
  ASSUME SendsInv,
         \/ Link!Receive \/ Link!RxEnds \/ UNCHANGED linkVars
         \/ \E c \in PutThreads : Link!Reconfigure(c)
  PROVE  SendsInv'
  <1>1. UNCHANGED <<sender, linkCalls>>
    BY DEF Link!Receive, Link!RxEnds, linkVars, Link!Reconfigure, Link!Update, Link!ClearFlag,
           Link!Join, Link!Close, Link!Configure, Link!Bind, Link!Run
  <1>2. \/ UNCHANGED counts
        \/ counts' = [counts EXCEPT !.rejected = @ + 1]
        \/ counts' = [counts EXCEPT !.rx = @ + 1]
    BY DEF Link!Receive, Link!RxEnds, linkVars, Link!Reconfigure, Link!Update, Link!ClearFlag,
           Link!Join, Link!Close, Link!Configure, Link!Bind, Link!Run
  <1>3. /\ counts' \in LinkCounts /\ counts'.sent = counts.sent
        /\ counts'.errors = counts.errors /\ counts'.noDest = counts.noDest
    BY <1>2 DEF SendsInv, LinkCounts
  <1>4. Sending' = Sending
    BY <1>1 DEF Sending, Link!Ready
  <1> QED BY <1>1, <1>3, <1>4 DEF SendsInv, SendStates

LEMMA LinkNext ==
  ASSUME \A c, d \in PutThreads : c = d
  PROVE  LinkInv /\ SendsInv /\ [Link!Next]_linkVars => LinkInv' /\ SendsInv'
  <1> SUFFICES ASSUME LinkInv, SendsInv, [Link!Next]_linkVars PROVE LinkInv' /\ SendsInv'
    OBVIOUS
  <1>1. CASE UNCHANGED linkVars
    <2>1. LinkTyped'
      BY <1>1 DEF linkVars, LinkInv, LinkTyped, Link!Rows, SendStates, LinkCounts, Puts
    <2>2. \A c \in PutThreads : PutAt(c)'
      BY <1>1 DEF linkVars, LinkInv, LinkHolds, PutAt, Link!Idle
    <2>3. LinkHolds'
      BY <1>1, <2>2 DEF linkVars, LinkInv, LinkHolds
    <2> QED BY <1>1, <2>1, <2>3, OthersCount DEF LinkInv
  <1>2. CASE Link!Next
    BY <1>2, PutActions, ReceiveSteps, SenderSteps, OthersCount DEF Link!Next, LinkInv
  <1> QED BY <1>1, <1>2

LEMMA LinkMeans ==
  LinkInv /\ SendsInv =>
    Link!TypeOK /\ Link!LinkMatchesRow /\ Link!RxSocketOpen /\ Link!SendsCounted
  <1> SUFFICES ASSUME LinkInv, SendsInv
               PROVE  Link!TypeOK /\ Link!LinkMatchesRow /\ Link!RxSocketOpen /\ Link!SendsCounted
    OBVIOUS
  <1>1. Link!TypeOK
    BY DEF LinkInv, LinkTyped, LinkHolds, Link!TypeOK, SendStates
  <1>2. Link!Idle.at = "idle"
    BY DEF Link!Idle
  <1>3. ASSUME \A c \in PutThreads : put[c] = Link!Idle
        PROVE  cfg = row /\ (fd # -1 => row.enabled) /\ open = {fd} \ {-1}
    <2>1. CASE PutThreads = {}
      BY <2>1 DEF LinkInv, LinkHolds
    <2>2. CASE PutThreads # {}
      <3>1. PICK c \in PutThreads : put[c].at = "idle"
        BY <1>2, <1>3, <2>2
      <3> QED BY <3>1 DEF LinkInv, LinkHolds, PutAt
    <2> QED BY <2>1, <2>2
  <1>4. Link!LinkMatchesRow /\ Link!RxSocketOpen
    BY <1>3 DEF LinkInv, LinkHolds, Link!LinkMatchesRow, Link!RxSocketOpen
  <1>5. Link!SendsCounted
    <2>1. Link!Cardinality(Sending) = Cardinality(Sending)
      BY DEF Link!Cardinality, Cardinality
    <2> QED BY <2>1 DEF SendsInv, Sending, Link!SendsCounted
  <1> QED BY <1>1, <1>4, <1>5

-----------------------------------------------------------------------------
(* The configuration's tables.                                              *)

CamRows == [Serials -> Store!Row \cup {None}]
GroupRows == [Groups -> SUBSET Pins]
Items == Serials \cup Groups
WriteRequests == [at : {"write"}, serial : Serials, row : Store!Row, had : BOOLEAN]
RowRequests == [at : {"tell", "remove"}, serial : Serials]
ImportRequests == [at : {"import"}, clear : SUBSET Serials, todo : SUBSET Serials,
                   told : SUBSET Serials, failed : SUBSET Items]
GroupRequests == [at : {"groups"}, todo : SUBSET Groups, told : SUBSET Serials,
                  failed : SUBSET Items]
TellRequests == [at : {"propagate"}, told : SUBSET Serials, failed : SUBSET Items]
ReportRequests == [at : {"reported"}, failed : SUBSET Items]
PlainRequests == [at : {"idle", "reload"}]
StoreRequests == PlainRequests \cup RowRequests \cup WriteRequests \cup ImportRequests
                 \cup GroupRequests \cup TellRequests \cup ReportRequests

StoreTyped ==
    /\ cams \in CamRows /\ slot \in CamRows /\ groups \in GroupRows
    /\ conf \in {0, 1} /\ service \in {0, 1} /\ clash \in BOOLEAN
    /\ storeReq \in [Clients -> StoreRequests]
    /\ snap # None =>
         snap.cams \in CamRows /\ snap.groups \in GroupRows /\ snap.conf \in {0, 1}

\* No two cameras of a table have one output: the UNIQUE column of the rows, and of the
\* rows a file was exported from.
PinsUnique(f) == \A s, t \in Serials :
    s # t /\ f[s] # None /\ f[t] # None => f[s].pin = NoPin \/ f[s].pin # f[t].pin
GroupsDisjoint == \A g, h \in Groups : g # h => groups[g] \cap groups[h] = {}
Importing(c) == storeReq[c].at \in {"import", "groups", "propagate"}

StoreRules ==
    /\ PinsUnique(cams) /\ (snap # None => PinsUnique(snap.cams))
    /\ GroupsDisjoint
    /\ \A c \in Clients : Importing(c) => snap # None
    /\ \A c \in Clients : storeReq[c].at = "import" => storeReq[c].todo \subseteq Store!InSnap

StoreInv == StoreTyped /\ StoreRules

\* With one client nothing comes between the steps of a request.
OneClient == \A c, d \in Clients : c = d

RolesExclusive ==
    /\ \A s, t \in Serials :
         s # t /\ cams[s] # None /\ cams[t] # None /\ cams[s].role # NoRole
            => cams[s].role # cams[t].role
    /\ \A c \in Clients : storeReq[c].at = "write" =>
         \/ storeReq[c].row.role = NoRole
         \/ \A t \in Serials \ {storeReq[c].serial} :
               cams[t] # None => cams[t].role # storeReq[c].row.role

\* A camera of the snapshot that holds an output another one of it is to have has still to
\* let go of it.
LetsGo(t, clear) ==
    cams[t] # None /\ cams[t].pin # NoPin =>
        t \in clear \/ \A u \in Store!InSnap \ {t} : snap.cams[u].pin # cams[t].pin

\* How far an import has come; what failed is in its report.
AtImport(r) ==
    /\ r.told = {} \/ r.clear = {}
    /\ \A t \in Store!InSnap : LetsGo(t, r.clear)
    /\ \A s \in r.told : s \notin r.todo /\ cams[s] = snap.cams[s]
    /\ \A s \in Store!InSnap : s \in r.todo \/ s \in r.told \/ r.failed # {}
Back(s) == cams[s] = snap.cams[s]
GroupBack(g) == snap.groups[g] # {} => groups[g] = snap.groups[g]
AtGroups(r) == r.failed = {} =>
    /\ \A s \in Store!InSnap : Back(s) /\ s \in r.told
    /\ \A g \in Groups : g \in r.todo \/ GroupBack(g)
AtPropagate(r) == r.failed = {} =>
    /\ \A s \in Store!InSnap : Back(s) /\ (s \in r.told \/ slot[s] = cams[s])
    /\ \A g \in Groups : GroupBack(g)
    /\ conf = snap.conf
AtReported(r) == r.failed = {} =>
    /\ \A s \in Store!InSnap : Back(s) /\ slot[s] = cams[s]
    /\ \A g \in Groups : GroupBack(g)
    /\ conf = snap.conf /\ service = conf
ImportAt(c) ==
    /\ storeReq[c].at = "import" => AtImport(storeReq[c])
    /\ storeReq[c].at = "groups" => AtGroups(storeReq[c])
    /\ storeReq[c].at = "propagate" => AtPropagate(storeReq[c])
    /\ storeReq[c].at = "reported" => AtReported(storeReq[c])

Solo == /\ ~clash /\ (snap = None => RolesExclusive)
        /\ \A c \in Clients : ImportAt(c)

-----------------------------------------------------------------------------
LEMMA StoreStarts == Store!Init => StoreInv /\ Solo
  <1> SUFFICES ASSUME Store!Init PROVE StoreInv /\ Solo
    OBVIOUS
  <1>1. \A f \in Store!Tables : /\ f \in CamRows /\ PinsUnique(f)
                                /\ \A s \in Serials : f[s] # None => f[s].role = NoRole
    BY DEF Store!Tables, CamRows, PinsUnique
  <1>2. /\ cams \in Store!Tables /\ slot = cams /\ conf = 0 /\ service = 0 /\ clash = FALSE
        /\ groups = [g \in Groups |-> {}] /\ storeReq = [c \in Clients |-> Store!Idle]
    BY DEF Store!Init
  <1>3. snap # None => /\ snap.cams \in Store!Tables /\ snap.groups \in GroupRows
                       /\ snap.conf \in {0, 1}
    BY DEF Store!Init, GroupRows
  <1>4. Store!Idle \in StoreRequests /\ Store!Idle.at = "idle"
    BY DEF Store!Idle, StoreRequests, PlainRequests
  <1>5. groups \in GroupRows /\ storeReq \in [Clients -> StoreRequests]
    BY <1>2, <1>4 DEF GroupRows
  <1>6. StoreTyped
    BY <1>1, <1>2, <1>3, <1>5 DEF StoreTyped
  <1>7. \A c \in Clients : storeReq[c].at = "idle"
    BY <1>2, <1>4
  <1>8. StoreRules
    BY <1>1, <1>2, <1>3, <1>7 DEF StoreRules, GroupsDisjoint, Importing
  <1>9. RolesExclusive
    BY <1>1, <1>2, <1>7 DEF RolesExclusive
  <1>10. \A c \in Clients : ImportAt(c)
    BY <1>7 DEF ImportAt
  <1> QED BY <1>2, <1>6, <1>8, <1>9, <1>10 DEF StoreInv, Solo

\* The shape of a request, from its step.
LEMMA RequestShape ==
  ASSUME NEW r \in StoreRequests
  PROVE  /\ r.at = "write" => r \in WriteRequests
         /\ r.at \in {"tell", "remove"} => r \in RowRequests
         /\ r.at = "import" => r \in ImportRequests
         /\ r.at = "groups" => r \in GroupRequests
         /\ r.at = "propagate" => r \in TellRequests
         /\ r.at = "reported" => r \in ReportRequests
  BY DEF StoreRequests, PlainRequests, RowRequests, WriteRequests, ImportRequests,
         GroupRequests, TellRequests, ReportRequests

\* One client's request moves to its next step.
LEMMA StoreRequestMoves ==
  ASSUME StoreTyped, NEW c \in Clients, NEW r \in StoreRequests,
         storeReq' = [storeReq EXCEPT ![c] = r]
  PROVE  /\ storeReq' \in [Clients -> StoreRequests] /\ storeReq'[c] = r
         /\ \A d \in Clients : d # c => storeReq'[d] = storeReq[d]
  BY DEF StoreTyped

\* Nothing that an import relies on has changed.
LEMMA ImportStays ==
  ASSUME UNCHANGED <<cams, groups, conf, slot, service, snap>>, NEW c \in Clients,
         storeReq'[c] = storeReq[c], ImportAt(c)
  PROVE  ImportAt(c)'
  BY DEF ImportAt, AtImport, AtGroups, AtPropagate, AtReported, LetsGo, Back, GroupBack,
         Store!InSnap

\* A request that is no import has nothing to hold.
LEMMA NoImport ==
  ASSUME NEW c \in Clients, storeReq'[c].at \in {"idle", "write", "tell", "remove", "reload"}
  PROVE  ImportAt(c)'
  BY DEF ImportAt

\* The step of a request that is no import: what it has to show.
LEMMA PlainStep ==
  ASSUME StoreInv, NEW c \in Clients, NEW r \in StoreRequests,
         storeReq' = [storeReq EXCEPT ![c] = r],
         r.at \in {"idle", "write", "tell", "remove", "reload"},
         cams' \in CamRows, slot' \in CamRows, groups' \in GroupRows, conf' \in {0, 1},
         service' \in {0, 1}, UNCHANGED clash,
         \/ UNCHANGED snap
         \/ snap = None /\ snap' = [cams |-> cams, groups |-> groups, conf |-> conf],
         PinsUnique(cams'), GroupsDisjoint',
         OneClient /\ RolesExclusive /\ snap' = None => RolesExclusive'
  PROVE  StoreInv' /\ (OneClient /\ Solo => Solo')
  <1>1. /\ storeReq' \in [Clients -> StoreRequests] /\ storeReq'[c] = r
        /\ \A d \in Clients : d # c => storeReq'[d] = storeReq[d]
    BY StoreRequestMoves DEF StoreInv
  <1>2. (snap # None)' => /\ snap'.cams \in CamRows /\ snap'.groups \in GroupRows
                          /\ snap'.conf \in {0, 1} /\ PinsUnique(snap'.cams)
    BY DEF StoreInv, StoreTyped, StoreRules
  <1>3. StoreTyped'
    BY <1>1, <1>2 DEF StoreInv, StoreTyped, CamRows, GroupRows
  <1>4. \A d \in Clients : Importing(d)' => snap' # None
    BY <1>1 DEF StoreInv, StoreRules, Importing
  <1>5. \A d \in Clients : storeReq'[d].at = "import" => storeReq'[d].todo \subseteq Store!InSnap'
    <2> SUFFICES ASSUME NEW d \in Clients, storeReq'[d].at = "import"
                 PROVE  storeReq'[d].todo \subseteq Store!InSnap'
      OBVIOUS
    <2>1. storeReq'[d] = storeReq[d] /\ storeReq[d].at = "import"
      BY <1>1
    <2>2. snap # None /\ storeReq[d].todo \subseteq Store!InSnap
      BY <2>1 DEF StoreInv, StoreRules, Importing
    <2> QED BY <2>1, <2>2 DEF Store!InSnap
  <1>7. StoreRules'
    BY <1>2, <1>4, <1>5 DEF StoreRules, PinsUnique
  <1>6. ASSUME OneClient, Solo PROVE Solo'
    <2>1. \A d \in Clients : ImportAt(d)'
      BY <1>1, <1>6, NoImport DEF OneClient
    <2>2. snap' = None => RolesExclusive'
      BY <1>6 DEF Solo
    <2> QED BY <1>6, <2>1, <2>2 DEF Solo
  <1> QED BY <1>3, <1>6, <1>7 DEF StoreInv

\* Roles are as exclusive as they were when no row gains one.
LEMMA RolesKept ==
  ASSUME StoreInv, NEW c \in Clients, NEW r \in StoreRequests,
         storeReq' = [storeReq EXCEPT ![c] = r], r.at # "write",
         \A s \in Serials : cams'[s] = cams[s] \/ cams'[s] = None
  PROVE  OneClient /\ RolesExclusive => RolesExclusive'
  <1> SUFFICES ASSUME OneClient, RolesExclusive PROVE RolesExclusive'
    OBVIOUS
  <1>1. \A d \in Clients : storeReq'[d].at # "write"
    BY StoreRequestMoves DEF OneClient, StoreInv
  <1>2. \A s, t \in Serials :
          s # t /\ cams'[s] # None /\ cams'[t] # None /\ cams'[s].role # NoRole
            => cams'[s].role # cams'[t].role
    BY DEF RolesExclusive
  <1> QED BY <1>1, <1>2 DEF RolesExclusive

LEMMA CameraRequestSteps ==
  ASSUME StoreInv, NEW c \in Clients,
         Store!CheckRole(c) \/ Store!WriteCamera(c) \/ Store!Tell(c) \/ Store!RemoveCamera(c)
  PROVE  StoreInv' /\ (OneClient /\ Solo => Solo')
  <1>1. /\ cams \in CamRows /\ slot \in CamRows /\ groups \in GroupRows /\ conf \in {0, 1}
        /\ service \in {0, 1} /\ storeReq[c] \in StoreRequests
        /\ PinsUnique(cams) /\ GroupsDisjoint
    BY DEF StoreInv, StoreTyped, StoreRules
  <1>2. Store!Idle \in StoreRequests /\ Store!Idle.at = "idle"
    BY DEF Store!Idle, StoreRequests, PlainRequests
  <1>3. CASE Store!CheckRole(c)
    <2>1. PICK s \in Serials, v \in Store!Row :
            /\ \/ v.role = NoRole
               \/ \A t \in Serials \ {s} : cams[t] # None => cams[t].role # v.role
            /\ storeReq' = [storeReq EXCEPT ![c] =
                              [at |-> "write", serial |-> s, row |-> v, had |-> cams[s] # None]]
            /\ UNCHANGED <<cams, groups, conf, slot, service, snap, clash>>
      BY <1>3 DEF Store!CheckRole, Store!Begin
    <2> DEFINE r == [at |-> "write", serial |-> s, row |-> v, had |-> cams[s] # None]
    <2>2. r \in StoreRequests /\ r.at = "write" /\ r.serial = s /\ r.row = v
      BY DEF StoreRequests, WriteRequests
    <2> HIDE DEF r
    <2>3. storeReq' = [storeReq EXCEPT ![c] = r]
      BY <2>1 DEF r
    <2>4. OneClient /\ RolesExclusive => RolesExclusive'
      <3>1. storeReq'[c] = r
        BY <2>2, <2>3, StoreRequestMoves DEF StoreInv
      <3> QED BY <2>1, <2>2, <3>1 DEF OneClient, RolesExclusive
    <2>5. PinsUnique(cams') /\ GroupsDisjoint'
      BY <1>1, <2>1 DEF PinsUnique, GroupsDisjoint
    <2> QED BY <1>1, <2>1, <2>2, <2>3, <2>4, <2>5, PlainStep
  <1>4. CASE Store!WriteCamera(c)
    <2> DEFINE s == storeReq[c].serial  v == storeReq[c].row
    <2>1. storeReq[c].at = "write" /\ s \in Serials /\ v \in Store!Row
      BY <1>1, <1>4, RequestShape DEF Store!WriteCamera, Store!At, WriteRequests
    <2>2. UNCHANGED <<groups, conf, slot, service, snap, clash>>
      BY <1>4 DEF Store!WriteCamera
    <2>3. CASE UNCHANGED cams /\ storeReq' = [storeReq EXCEPT ![c] = Store!Idle]
      <3>1. OneClient /\ RolesExclusive => RolesExclusive'
        BY <1>2, <2>3, RolesKept
      <3>2. PinsUnique(cams') /\ GroupsDisjoint'
        BY <1>1, <2>2, <2>3 DEF PinsUnique, GroupsDisjoint
      <3> QED BY <1>1, <1>2, <2>2, <2>3, <3>1, <3>2, PlainStep
    <2> DEFINE r == [at |-> "tell", serial |-> s]
    <2>4. CASE /\ Store!PinFree(s, v.pin) /\ cams' = [cams EXCEPT ![s] = v]
               /\ storeReq' = [storeReq EXCEPT ![c] = r]
      <3>1. r \in StoreRequests /\ r.at = "tell"
        BY <2>1 DEF StoreRequests, RowRequests
      <3>2. cams' \in CamRows /\ cams'[s] = v /\ \A t \in Serials : t # s => cams'[t] = cams[t]
        BY <1>1, <2>1, <2>4 DEF CamRows
      <3>3. PinsUnique(cams') /\ GroupsDisjoint'
        BY <1>1, <2>1, <2>2, <2>4, <3>2 DEF PinsUnique, GroupsDisjoint, Store!PinFree
      <3>4. OneClient /\ RolesExclusive => RolesExclusive'
        <4> SUFFICES ASSUME OneClient, RolesExclusive PROVE RolesExclusive'
          OBVIOUS
        <4>1. v.role = NoRole \/ \A t \in Serials \ {s} : cams[t] # None => cams[t].role # v.role
          BY <2>1 DEF RolesExclusive
        <4>2. \A t, u \in Serials :
                t # u /\ cams'[t] # None /\ cams'[u] # None /\ cams'[t].role # NoRole
                  => cams'[t].role # cams'[u].role
          BY <3>2, <4>1 DEF RolesExclusive
        <4> HIDE DEF r
        <4>3. \A d \in Clients : storeReq'[d].at # "write"
          BY <2>4, <3>1, StoreRequestMoves DEF OneClient, StoreInv
        <4> QED BY <4>2, <4>3 DEF RolesExclusive
      <3> HIDE DEF r
      <3> QED BY <1>1, <2>2, <2>4, <3>1, <3>2, <3>3, <3>4, PlainStep
    <2> QED BY <1>4, <2>3, <2>4 DEF Store!WriteCamera, Store!Done
  <1>5. CASE Store!Tell(c)
    <2> DEFINE s == storeReq[c].serial
    <2>1. s \in Serials
      BY <1>1, <1>5, RequestShape DEF Store!Tell, Store!At, RowRequests
    <2>2. /\ storeReq' = [storeReq EXCEPT ![c] = Store!Idle]
          /\ slot' = [slot EXCEPT ![s] = cams[s]]
          /\ UNCHANGED <<cams, groups, conf, service, snap, clash>>
      BY <1>5 DEF Store!Tell, Store!Done
    <2>3. slot' \in CamRows
      BY <1>1, <2>1, <2>2 DEF CamRows
    <2>4. OneClient /\ RolesExclusive => RolesExclusive'
      BY <1>2, <2>2, RolesKept
    <2>5. PinsUnique(cams') /\ GroupsDisjoint'
      BY <1>1, <2>2 DEF PinsUnique, GroupsDisjoint
    <2> QED BY <1>1, <1>2, <2>2, <2>3, <2>4, <2>5, PlainStep
  <1>6. CASE Store!RemoveCamera(c)
    <2>1. CASE \E s \in Serials :
                 /\ storeReq' = [storeReq EXCEPT ![c] = [at |-> "remove", serial |-> s]]
                 /\ slot' = [slot EXCEPT ![s] = None]
                 /\ UNCHANGED <<cams, groups, conf, service, snap, clash>>
      <3>1. PICK s \in Serials :
                 /\ storeReq' = [storeReq EXCEPT ![c] = [at |-> "remove", serial |-> s]]
                 /\ slot' = [slot EXCEPT ![s] = None]
                 /\ UNCHANGED <<cams, groups, conf, service, snap, clash>>
        BY <2>1
      <3> DEFINE r == [at |-> "remove", serial |-> s]
      <3>2. r \in StoreRequests /\ r.at = "remove" /\ storeReq' = [storeReq EXCEPT ![c] = r]
        BY <3>1 DEF StoreRequests, RowRequests
      <3> HIDE DEF r
      <3>3. slot' \in CamRows
        BY <1>1, <3>1 DEF CamRows
      <3>4. OneClient /\ RolesExclusive => RolesExclusive'
        BY <3>1, <3>2, RolesKept
      <3>5. PinsUnique(cams') /\ GroupsDisjoint'
        BY <1>1, <3>1 DEF PinsUnique, GroupsDisjoint
      <3> QED BY <1>1, <3>1, <3>2, <3>3, <3>4, <3>5, PlainStep
    <2>2. CASE /\ Store!At(c, "remove")
               /\ storeReq' = [storeReq EXCEPT ![c] = Store!Idle]
               /\ cams' = [cams EXCEPT ![storeReq[c].serial] = None]
               /\ UNCHANGED <<groups, conf, slot, service, snap, clash>>
      <3> DEFINE s == storeReq[c].serial
      <3>1. s \in Serials
        BY <1>1, <2>2, RequestShape DEF Store!At, RowRequests
      <3>2. cams' \in CamRows /\ \A t \in Serials : cams'[t] = cams[t] \/ cams'[t] = None
        BY <1>1, <2>2, <3>1 DEF CamRows
      <3>3. OneClient /\ RolesExclusive => RolesExclusive'
        BY <1>2, <2>2, <3>2, RolesKept
      <3>4. PinsUnique(cams') /\ GroupsDisjoint'
        BY <1>1, <2>2, <3>2 DEF PinsUnique, GroupsDisjoint
      <3> QED BY <1>1, <1>2, <2>2, <3>2, <3>3, <3>4, PlainStep
    <2> QED BY <1>6, <2>1, <2>2 DEF Store!RemoveCamera, Store!Begin, Store!Done
  <1> QED BY <1>3, <1>4, <1>5, <1>6

LEMMA TableRequestSteps ==
  ASSUME StoreInv, NEW c \in Clients,
         \/ Store!WriteGroup(c) \/ Store!RemoveGroup(c) \/ Store!WriteConf(c)
         \/ Store!Export(c) \/ Store!Respond(c)
  PROVE  StoreInv' /\ (OneClient /\ Solo => Solo')
  <1>1. /\ cams \in CamRows /\ slot \in CamRows /\ groups \in GroupRows /\ conf \in {0, 1}
        /\ service \in {0, 1} /\ storeReq[c] \in StoreRequests
        /\ PinsUnique(cams) /\ GroupsDisjoint
    BY DEF StoreInv, StoreTyped, StoreRules
  <1>2. /\ UNCHANGED <<cams, slot, clash>>
        /\ \/ UNCHANGED snap
           \/ snap = None /\ snap' = [cams |-> cams, groups |-> groups, conf |-> conf]
    BY DEF Store!WriteGroup, Store!RemoveGroup, Store!WriteConf, Store!Export, Store!Respond
  <1>3. conf' \in {0, 1} /\ service' \in {0, 1}
    BY <1>1 DEF Store!WriteGroup, Store!RemoveGroup, Store!WriteConf, Store!Export,
                Store!Respond
  <1>4. PICK r \in PlainRequests : storeReq' = [storeReq EXCEPT ![c] = r]
    BY DEF Store!WriteGroup, Store!RemoveGroup, Store!WriteConf, Store!Export,
           Store!Respond, Store!Begin, Store!Done, Store!Idle, PlainRequests
  <1>5. r \in StoreRequests /\ r.at \in {"idle", "reload"}
    BY <1>4 DEF StoreRequests, PlainRequests
  <1>6. groups' \in GroupRows /\ GroupsDisjoint'
    <2>1. CASE UNCHANGED groups
      BY <1>1, <2>1 DEF GroupRows, GroupsDisjoint
    <2>2. CASE Store!WriteGroup(c)
      <3>1. PICK g \in Groups, pins \in SUBSET Pins :
              groups' = IF Store!Overlaps(g, pins) THEN groups ELSE [groups EXCEPT ![g] = pins]
        BY <2>2 DEF Store!WriteGroup
      <3>2. CASE Store!Overlaps(g, pins)
        BY <1>1, <3>1, <3>2 DEF GroupRows, GroupsDisjoint
      <3>3. CASE ~Store!Overlaps(g, pins)
        <4>1. groups' = [groups EXCEPT ![g] = pins]
          BY <3>1, <3>3
        <4>2. groups' \in GroupRows /\ groups'[g] = pins
              /\ \A h \in Groups : h # g => groups'[h] = groups[h]
          BY <1>1, <4>1 DEF GroupRows
        <4>3. \A h \in Groups : h # g => groups[h] \cap pins = {}
          BY <3>3 DEF Store!Overlaps
        <4> QED BY <1>1, <4>2, <4>3 DEF GroupsDisjoint
      <3> QED BY <3>2, <3>3
    <2>3. CASE Store!RemoveGroup(c)
      <3>1. PICK g \in Groups : groups' = [groups EXCEPT ![g] = {}]
        BY <2>3 DEF Store!RemoveGroup
      <3> QED BY <1>1, <3>1 DEF GroupRows, GroupsDisjoint
    <2> QED BY <2>1, <2>2, <2>3
            DEF Store!WriteConf, Store!Export, Store!Respond
  <1>7. OneClient /\ RolesExclusive => RolesExclusive'
    BY <1>2, <1>4, <1>5, RolesKept
  <1>8. PinsUnique(cams')
    BY <1>1, <1>2
  <1> QED BY <1>1, <1>2, <1>3, <1>4, <1>5, <1>6, <1>7, <1>8, PlainStep

\* The step of an import: what it has to show.
LEMMA ImportStep ==
  ASSUME StoreInv, NEW c \in Clients, NEW r \in StoreRequests,
         storeReq' = [storeReq EXCEPT ![c] = r],
         r.at \in {"import", "groups", "propagate", "reported"},
         snap # None, UNCHANGED snap,
         cams' \in CamRows, slot' \in CamRows, groups' \in GroupRows, conf' \in {0, 1},
         service' \in {0, 1}, clash' \in BOOLEAN,
         PinsUnique(cams'), GroupsDisjoint',
         r.at = "import" => r.todo \subseteq Store!InSnap,
         OneClient /\ Solo => ~clash' /\ ImportAt(c)'
  PROVE  StoreInv' /\ (OneClient /\ Solo => Solo')
  <1>1. /\ storeReq' \in [Clients -> StoreRequests] /\ storeReq'[c] = r
        /\ \A d \in Clients : d # c => storeReq'[d] = storeReq[d]
    BY StoreRequestMoves DEF StoreInv
  <1>2. StoreTyped'
    BY <1>1 DEF StoreInv, StoreTyped, CamRows, GroupRows
  <1>3. StoreRules'
    <2>1. \A d \in Clients : storeReq'[d].at = "import" => storeReq'[d].todo \subseteq Store!InSnap'
      BY <1>1 DEF StoreInv, StoreRules, Store!InSnap
    <2> QED BY <2>1 DEF StoreInv, StoreRules, PinsUnique
  <1>4. ASSUME OneClient, Solo PROVE Solo'
    BY <1>4 DEF OneClient, Solo
  <1> QED BY <1>2, <1>3, <1>4 DEF StoreInv

LEMMA ImportBegins ==
  ASSUME StoreInv, NEW c \in Clients, Store!Import(c)
  PROVE  StoreInv' /\ (OneClient /\ Solo => Solo')
  <1>1. /\ cams \in CamRows /\ slot \in CamRows /\ groups \in GroupRows /\ conf \in {0, 1}
        /\ service \in {0, 1} /\ clash \in BOOLEAN
        /\ PinsUnique(cams) /\ GroupsDisjoint
    BY DEF StoreInv, StoreTyped, StoreRules
  <1>2. PICK clear : clear =
          {s \in Store!InSnap : /\ cams[s] # None /\ cams[s].pin # NoPin
                                /\ \E t \in Store!InSnap \ {s} : snap.cams[t].pin = cams[s].pin}
    OBVIOUS
  <1>3. PICK todo : todo = Store!InSnap
    OBVIOUS
  <1> DEFINE k == [at |-> "import", clear |-> clear, todo |-> todo, told |-> {}, failed |-> {}]
  <1>4. /\ snap # None /\ storeReq' = [storeReq EXCEPT ![c] = k]
        /\ UNCHANGED <<cams, groups, conf, slot, service, snap, clash>>
    BY <1>2, <1>3 DEF Store!Import, Store!Begin
  <1>5. clear \subseteq Serials /\ todo \subseteq Serials
    BY <1>2, <1>3 DEF Store!InSnap
  <1>6. PICK r : r = k
    OBVIOUS
  <1>7. r \in StoreRequests /\ r.at = "import" /\ r.clear = clear /\ r.told = {} /\ r.failed = {}
        /\ r.todo = todo
    BY <1>5, <1>6 DEF StoreRequests, ImportRequests
  <1>8. storeReq' = [storeReq EXCEPT ![c] = r] /\ storeReq'[c] = r
    BY <1>4, <1>6, <1>7, StoreRequestMoves DEF StoreInv
  <1>9. ASSUME Solo PROVE ~clash' /\ ImportAt(c)'
    <2>1. \A t \in Store!InSnap : LetsGo(t, clear)
      BY <1>2 DEF LetsGo
    <2>2. Store!InSnap' = Store!InSnap
      BY <1>4 DEF Store!InSnap
    <2>3. \A t \in Store!InSnap : LetsGo(t, clear)'
      BY <1>4, <2>1, <2>2 DEF LetsGo
    <2>4. AtImport(r)'
      BY <1>3, <1>7, <2>2, <2>3 DEF AtImport
    <2> QED BY <1>4, <1>7, <1>8, <1>9, <2>4 DEF Solo, ImportAt
  <1>10. PinsUnique(cams') /\ GroupsDisjoint'
    BY <1>1, <1>4 DEF PinsUnique, GroupsDisjoint
  <1> QED BY <1>1, <1>3, <1>4, <1>7, <1>8, <1>9, <1>10, ImportStep

LEMMA ImportCameraSteps ==
  ASSUME StoreInv, NEW c \in Clients, Store!ClearPin(c) \/ Store!ImportCamera(c)
  PROVE  StoreInv' /\ (OneClient /\ Solo => Solo')
  <1>0. PICK q : q = storeReq[c]
    OBVIOUS
  <1>1. /\ cams \in CamRows /\ slot \in CamRows /\ groups \in GroupRows /\ conf \in {0, 1}
        /\ service \in {0, 1} /\ clash \in BOOLEAN /\ storeReq \in [Clients -> StoreRequests]
        /\ PinsUnique(cams) /\ GroupsDisjoint
    BY DEF StoreInv, StoreTyped, StoreRules
  <1>2. q.at = "import" /\ UNCHANGED <<groups, conf, slot, service, snap>>
    BY <1>0 DEF Store!ClearPin, Store!ImportCamera, Store!At
  <1>3. q \in ImportRequests /\ snap # None /\ snap.cams \in CamRows /\ PinsUnique(snap.cams)
    BY <1>0, <1>1, <1>2, RequestShape DEF StoreInv, StoreTyped, StoreRules, Importing
  <1>4. GroupsDisjoint'
    BY <1>1, <1>2 DEF GroupsDisjoint
  <1>5. OneClient /\ Solo => ~clash /\ AtImport(q)
    BY <1>0, <1>2 DEF Solo, ImportAt
  <1>6. q.todo \subseteq Store!InSnap /\ Store!InSnap' = Store!InSnap
        /\ Store!InSnap \subseteq Serials
    BY <1>0, <1>2 DEF StoreInv, StoreRules, Store!InSnap
  <1>7. CASE Store!ClearPin(c)
    <2>1. PICK s \in q.clear :
            /\ storeReq' = [storeReq EXCEPT ![c].clear = @ \ {s}]
            /\ cams' = IF cams[s] = None THEN cams ELSE [cams EXCEPT ![s].pin = NoPin]
            /\ UNCHANGED clash
      BY <1>0, <1>7 DEF Store!ClearPin
    <2>2. PICK r : r = [q EXCEPT !.clear = q.clear \ {s}]
      OBVIOUS
    <2>3. /\ r \in ImportRequests /\ s \in Serials
          /\ r.clear = q.clear \ {s} /\ r.todo = q.todo /\ r.told = q.told
          /\ r.failed = q.failed
      BY <1>3, <2>2 DEF ImportRequests
    <2>4. r \in StoreRequests /\ r.at = "import" /\ storeReq' = [storeReq EXCEPT ![c] = r]
      BY <1>0, <1>1, <2>1, <2>2, <2>3 DEF StoreRequests, ImportRequests
    <2>5. storeReq'[c] = r
      BY <2>4, StoreRequestMoves DEF StoreInv
    <2>6. /\ cams' \in CamRows /\ \A t \in Serials \ {s} : cams'[t] = cams[t]
          /\ cams'[s] # None => cams'[s].pin = NoPin
      BY <1>1, <2>1, <2>3 DEF CamRows, Store!Row
    <2>7. PinsUnique(cams')
      BY <1>1, <2>3, <2>6 DEF PinsUnique
    <2>8. ASSUME OneClient, Solo PROVE ~clash' /\ ImportAt(c)'
      <3>1. q.told = {} /\ AtImport(q)
        BY <1>5, <2>1, <2>8 DEF AtImport
      <3>2. \A t \in Store!InSnap : LetsGo(t, r.clear)'
        BY <1>2, <1>6, <2>3, <2>6, <3>1 DEF AtImport, LetsGo
      <3>3. AtImport(r)'
        BY <1>2, <1>6, <2>3, <3>1, <3>2 DEF AtImport
      <3> QED BY <1>5, <2>1, <2>4, <2>5, <2>8, <3>3 DEF ImportAt
    <2> QED BY <1>1, <1>2, <1>3, <1>4, <1>6, <2>1, <2>3, <2>4, <2>6, <2>7, <2>8, ImportStep, ZenonT(60)
  <1>8. CASE Store!ImportCamera(c)
    <2>1. q.clear = {} /\ \E s \in q.todo :
            LET v == snap.cams[s]
                found == cams[s] # None
                ok == Store!NameFree(s, v.name) /\ Store!PinFree(s, v.pin) IN
            /\ cams' = IF ok THEN [cams EXCEPT ![s] = v]
                       ELSE IF ~found /\ Store!NameFree(s, v.name)
                       THEN [cams EXCEPT ![s] = [name |-> v.name, pin |-> NoPin, role |-> NoRole]]
                       ELSE cams
            /\ clash' = (clash \/ \E t \in Store!InSnap \ {s} :
                            cams[t] # None /\ v.pin # NoPin /\ cams[t].pin = v.pin)
            /\ storeReq' = [storeReq EXCEPT ![c].todo = @ \ {s},
                                            ![c].told = IF ok THEN @ \cup {s} ELSE @,
                                            ![c].failed = IF ok THEN @ ELSE @ \cup {s}]
      BY <1>0, <1>8 DEF Store!ImportCamera
    <2>2. PICK s \in q.todo :
            LET v == snap.cams[s]
                found == cams[s] # None
                ok == Store!NameFree(s, v.name) /\ Store!PinFree(s, v.pin) IN
            /\ cams' = IF ok THEN [cams EXCEPT ![s] = v]
                       ELSE IF ~found /\ Store!NameFree(s, v.name)
                       THEN [cams EXCEPT ![s] = [name |-> v.name, pin |-> NoPin, role |-> NoRole]]
                       ELSE cams
            /\ clash' = (clash \/ \E t \in Store!InSnap \ {s} :
                            cams[t] # None /\ v.pin # NoPin /\ cams[t].pin = v.pin)
            /\ storeReq' = [storeReq EXCEPT ![c].todo = @ \ {s},
                                            ![c].told = IF ok THEN @ \cup {s} ELSE @,
                                            ![c].failed = IF ok THEN @ ELSE @ \cup {s}]
      BY <2>1
    <2>3. PICK v : v = snap.cams[s]
      OBVIOUS
    <2>4. PICK ok \in BOOLEAN : ok <=> Store!NameFree(s, v.name) /\ Store!PinFree(s, v.pin)
      OBVIOUS
    <2>5. /\ v = snap.cams[s] /\ (ok => Store!PinFree(s, v.pin))
          /\ \/ ok /\ cams' = [cams EXCEPT ![s] = v]
             \/ /\ ~ok /\ cams[s] = None
                /\ cams' = [cams EXCEPT ![s] = [name |-> v.name, pin |-> NoPin, role |-> NoRole]]
             \/ ~ok /\ cams' = cams
          /\ clash' = (clash \/ \E t \in Store!InSnap \ {s} :
                          cams[t] # None /\ v.pin # NoPin /\ cams[t].pin = v.pin)
          /\ storeReq' = [storeReq EXCEPT ![c].todo = @ \ {s},
                                          ![c].told = IF ok THEN @ \cup {s} ELSE @,
                                          ![c].failed = IF ok THEN @ ELSE @ \cup {s}]
      BY <2>2, <2>3, <2>4
    <2>6. PICK r : r = [q EXCEPT !.todo = q.todo \ {s},
                                 !.told = IF ok THEN q.told \cup {s} ELSE q.told,
                                 !.failed = IF ok THEN q.failed ELSE q.failed \cup {s}]
      OBVIOUS
    <2>7. s \in Serials /\ s \in Store!InSnap /\ v \in Store!Row /\ v # None
      BY <1>3, <1>6, <2>5 DEF CamRows, Store!InSnap
    <2>8. /\ r \in ImportRequests /\ r.clear = q.clear /\ r.todo = q.todo \ {s}
          /\ r.told = IF ok THEN q.told \cup {s} ELSE q.told
          /\ r.failed = IF ok THEN q.failed ELSE q.failed \cup {s}
      BY <1>3, <2>6, <2>7 DEF ImportRequests, Items
    <2>9. r \in StoreRequests /\ r.at = "import" /\ storeReq' = [storeReq EXCEPT ![c] = r]
      BY <1>0, <1>1, <2>5, <2>6, <2>8 DEF StoreRequests, ImportRequests
    <2>10. storeReq'[c] = r
      BY <2>9, StoreRequestMoves DEF StoreInv
    <2>11. [name |-> v.name, pin |-> NoPin, role |-> NoRole] \in Store!Row
      BY <2>7 DEF Store!Row
    <2>12. /\ cams' \in CamRows /\ \A t \in Serials \ {s} : cams'[t] = cams[t]
           /\ ok => cams'[s] = v
           /\ ~ok => cams'[s] = cams[s] \/ cams'[s].pin = NoPin
      BY <1>1, <2>5, <2>7, <2>11 DEF CamRows
    <2>13. PinsUnique(cams')
      BY <1>1, <2>5, <2>7, <2>12 DEF PinsUnique, Store!PinFree
    <2>14. clash' \in BOOLEAN
      BY <1>1, <2>5
    <2>15. ASSUME OneClient, Solo PROVE ~clash' /\ ImportAt(c)'
      <3>1. ~clash /\ AtImport(q) /\ q.clear = {}
        BY <1>5, <2>1, <2>15
      <3>2. \A t \in Store!InSnap \ {s} :
              cams[t] # None /\ cams[t].pin # NoPin => snap.cams[s].pin # cams[t].pin
        BY <2>7, <3>1 DEF AtImport, LetsGo
      <3>3. ~clash'
        BY <2>5, <3>1, <3>2
      <3>4. \A t \in Store!InSnap : LetsGo(t, {})
        BY <3>1 DEF AtImport
      <3>5. \A t \in Store!InSnap : LetsGo(t, {})'
        <4>1. \A u \in Store!InSnap \ {s} : v.pin # NoPin => snap.cams[u].pin # v.pin
          BY <1>3, <1>6, <2>5, <2>7 DEF PinsUnique, Store!InSnap
        <4>2. LetsGo(s, {})'
          BY <1>2, <1>6, <2>7, <2>12, <3>4, <4>1 DEF LetsGo
        <4>3. \A t \in Store!InSnap \ {s} : LetsGo(t, {})'
          BY <1>2, <1>6, <2>12, <3>4 DEF LetsGo
        <4> QED BY <4>2, <4>3
      <3>6. \A t \in r.told : t \notin r.todo /\ cams'[t] = snap'.cams[t]
        <4>1. \A t \in q.told : t # s /\ t \notin q.todo /\ cams[t] = snap.cams[t] /\ t \in Serials
          BY <1>3, <3>1 DEF AtImport, ImportRequests
        <4> QED BY <1>2, <2>5, <2>8, <2>12, <4>1
      <3>7. \A t \in Store!InSnap : t \in r.todo \/ t \in r.told \/ r.failed # {}
        BY <2>8, <3>1 DEF AtImport
      <3>8. AtImport(r)'
        BY <1>6, <2>8, <3>1, <3>5, <3>6, <3>7 DEF AtImport
      <3> QED BY <2>9, <2>10, <3>3, <3>8 DEF ImportAt
    <2> QED BY <1>1, <1>2, <1>3, <1>4, <1>6, <2>8, <2>9, <2>12, <2>13, <2>14, <2>15, ImportStep
  <1> QED BY <1>7, <1>8

LEMMA ImportGroupSteps ==
  ASSUME StoreInv, NEW c \in Clients, Store!ImportGroups(c) \/ Store!ImportGroup(c)
  PROVE  StoreInv' /\ (OneClient /\ Solo => Solo')
  <1>0. PICK q : q = storeReq[c]
    OBVIOUS
  <1>1. /\ cams \in CamRows /\ slot \in CamRows /\ groups \in GroupRows /\ conf \in {0, 1}
        /\ service \in {0, 1} /\ clash \in BOOLEAN /\ storeReq \in [Clients -> StoreRequests]
        /\ PinsUnique(cams) /\ GroupsDisjoint
    BY DEF StoreInv, StoreTyped, StoreRules
  <1>2. /\ UNCHANGED <<cams, conf, slot, service, snap, clash>>
        /\ q.at \in {"import", "groups"}
    BY <1>0 DEF Store!ImportGroups, Store!ImportGroup, Store!At
  <1>3. snap # None /\ snap.groups \in GroupRows /\ q \in StoreRequests
    BY <1>0, <1>1, <1>2 DEF StoreInv, StoreTyped, StoreRules, Importing
  <1>4. PinsUnique(cams')
    BY <1>1, <1>2 DEF PinsUnique
  <1>5. Store!InSnap' = Store!InSnap
    BY <1>2 DEF Store!InSnap
  <1>6. CASE Store!ImportGroups(c)
    <2>1. PICK named : named = {g \in Groups : snap.groups[g] # {}}
      OBVIOUS
    <2>2. q.at = "import" /\ q \in ImportRequests /\ q.todo = {}
      BY <1>0, <1>3, <1>6, RequestShape DEF Store!ImportGroups, Store!At
    <2>3. PICK r : r = [at |-> "groups", todo |-> named, told |-> q.told, failed |-> q.failed]
      OBVIOUS
    <2>4. /\ groups' = [g \in Groups |-> IF g \in named THEN {} ELSE groups[g]]
          /\ storeReq' = [storeReq EXCEPT ![c] = r]
      BY <1>0, <1>1, <1>6, <2>1, <2>3 DEF Store!ImportGroups
    <2>5. r \in GroupRequests /\ r.todo = named /\ r.told = q.told /\ r.failed = q.failed
      BY <2>1, <2>2, <2>3 DEF ImportRequests, GroupRequests
    <2>6. r \in StoreRequests /\ r.at = "groups"
      BY <2>5 DEF StoreRequests, GroupRequests
    <2>7. storeReq'[c] = r
      BY <2>4, <2>6, StoreRequestMoves DEF StoreInv
    <2>8. groups' \in GroupRows /\ GroupsDisjoint'
      BY <1>1, <2>4 DEF GroupRows, GroupsDisjoint
    <2>9. ASSUME OneClient, Solo PROVE ~clash' /\ ImportAt(c)'
      <3>1. ~clash /\ AtImport(q)
        BY <1>0, <2>2, <2>9 DEF Solo, ImportAt
      <3>2. r.failed = {} => \A s \in Store!InSnap : Back(s) /\ s \in r.told
        BY <2>2, <2>5, <3>1 DEF AtImport, Back
      <3>3. \A g \in Groups : g \in r.todo \/ GroupBack(g)'
        BY <1>2, <2>1, <2>5 DEF GroupBack
      <3>4. AtGroups(r)'
        BY <1>2, <1>5, <3>2, <3>3 DEF AtGroups, Back
      <3> QED BY <1>2, <2>6, <2>7, <3>1, <3>4 DEF ImportAt
    <2> QED BY <1>1, <1>2, <1>3, <1>4, <2>4, <2>6, <2>8, <2>9, ImportStep
  <1>7. CASE Store!ImportGroup(c)
    <2>1. q.at = "groups" /\ q \in GroupRequests
      BY <1>0, <1>3, <1>7, RequestShape DEF Store!ImportGroup, Store!At
    <2>2. PICK g \in q.todo :
            /\ groups' = IF groups[g] = {} /\ ~Store!Overlaps(g, snap.groups[g])
                         THEN [groups EXCEPT ![g] = snap.groups[g]] ELSE groups
            /\ storeReq' = [storeReq EXCEPT ![c].todo = @ \ {g},
                      ![c].failed = IF groups[g] = {} /\ ~Store!Overlaps(g, snap.groups[g])
                                    THEN @ ELSE @ \cup {g}]
      BY <1>0, <1>7 DEF Store!ImportGroup
    <2>3. PICK ok \in BOOLEAN :
            ok <=> groups[g] = {} /\ ~Store!Overlaps(g, snap.groups[g])
      OBVIOUS
    <2>4. PICK r : r = [q EXCEPT !.todo = q.todo \ {g},
                                 !.failed = IF ok THEN q.failed ELSE q.failed \cup {g}]
      OBVIOUS
    <2>5. /\ r \in GroupRequests /\ r.todo = q.todo \ {g} /\ r.told = q.told
          /\ r.failed = IF ok THEN q.failed ELSE q.failed \cup {g}
          /\ g \in Groups
      BY <2>1, <2>2, <2>4 DEF GroupRequests, Items
    <2>6. r \in StoreRequests /\ r.at = "groups" /\ storeReq' = [storeReq EXCEPT ![c] = r]
      BY <1>0, <1>1, <2>1, <2>2, <2>3, <2>4, <2>5 DEF StoreRequests, GroupRequests
    <2>7. storeReq'[c] = r
      BY <2>6, StoreRequestMoves DEF StoreInv
    <2>8. /\ groups' \in GroupRows /\ \A h \in Groups \ {g} : groups'[h] = groups[h]
          /\ IF ok THEN groups'[g] = snap.groups[g] ELSE groups'[g] = groups[g]
      BY <1>1, <1>3, <2>2, <2>3, <2>5 DEF GroupRows
    <2>9. ok => \A h \in Groups \ {g} : groups[h] \cap snap.groups[g] = {}
      BY <2>3 DEF Store!Overlaps
    <2>10. GroupsDisjoint'
      BY <1>1, <2>5, <2>8, <2>9 DEF GroupsDisjoint
    <2>11. ASSUME OneClient, Solo PROVE ~clash' /\ ImportAt(c)'
      <3>1. ~clash /\ AtGroups(q)
        BY <1>0, <2>1, <2>11 DEF Solo, ImportAt
      <3>2. r.failed = {} => ok /\ q.failed = {}
        BY <2>5
      <3>3. r.failed = {} => \A h \in Groups : h \in r.todo \/ GroupBack(h)'
        BY <1>2, <2>5, <2>8, <3>1, <3>2 DEF AtGroups, GroupBack
      <3>4. r.failed = {} => \A s \in Store!InSnap : Back(s) /\ s \in r.told
        BY <2>5, <3>1, <3>2 DEF AtGroups
      <3>5. AtGroups(r)'
        BY <1>2, <1>5, <3>3, <3>4 DEF AtGroups, Back
      <3> QED BY <1>2, <2>6, <2>7, <3>1, <3>5 DEF ImportAt
    <2> QED BY <1>1, <1>2, <1>3, <1>4, <2>6, <2>8, <2>10, <2>11, ImportStep
  <1> QED BY <1>6, <1>7

LEMMA ImportEndSteps ==
  ASSUME StoreInv, NEW c \in Clients, Store!ImportConf(c) \/ Store!Propagate(c)
  PROVE  StoreInv' /\ (OneClient /\ Solo => Solo')
  <1>0. PICK q : q = storeReq[c]
    OBVIOUS
  <1>1. /\ cams \in CamRows /\ slot \in CamRows /\ groups \in GroupRows /\ conf \in {0, 1}
        /\ service \in {0, 1} /\ clash \in BOOLEAN /\ storeReq \in [Clients -> StoreRequests]
        /\ PinsUnique(cams) /\ GroupsDisjoint
    BY DEF StoreInv, StoreTyped, StoreRules
  <1>2. UNCHANGED <<cams, groups, snap, clash>>
    BY DEF Store!ImportConf, Store!Propagate
  <1>3. q \in StoreRequests /\ PinsUnique(cams') /\ GroupsDisjoint'
    BY <1>0, <1>1, <1>2 DEF PinsUnique, GroupsDisjoint
  <1>4. Store!InSnap' = Store!InSnap
    BY <1>2 DEF Store!InSnap
  <1>5. CASE Store!ImportConf(c)
    <2>1. /\ q.at = "groups" /\ q.todo = {} /\ conf' = snap.conf /\ UNCHANGED <<slot, service>>
          /\ storeReq' = [storeReq EXCEPT ![c] =
                            [at |-> "propagate", told |-> q.told, failed |-> q.failed]]
      BY <1>0, <1>1, <1>5 DEF Store!ImportConf, Store!At
    <2>2. q \in GroupRequests /\ snap # None /\ snap.conf \in {0, 1}
      BY <1>0, <1>3, <2>1, RequestShape DEF StoreInv, StoreTyped, StoreRules, Importing
    <2>3. PICK r : r = [at |-> "propagate", told |-> q.told, failed |-> q.failed]
      OBVIOUS
    <2>4. r \in TellRequests /\ r.told = q.told /\ r.failed = q.failed
      BY <2>2, <2>3 DEF GroupRequests, TellRequests
    <2>5. /\ r \in StoreRequests /\ r.at = "propagate"
          /\ storeReq' = [storeReq EXCEPT ![c] = r]
      BY <2>1, <2>3, <2>4 DEF StoreRequests, TellRequests
    <2>6. storeReq'[c] = r
      BY <2>5, StoreRequestMoves DEF StoreInv
    <2>7. ASSUME OneClient, Solo PROVE ~clash' /\ ImportAt(c)'
      <3>1. ~clash /\ AtGroups(q)
        BY <1>0, <2>1, <2>7 DEF Solo, ImportAt
      <3>2. AtPropagate(r)'
        BY <1>2, <1>4, <2>1, <2>4, <3>1 DEF AtGroups, AtPropagate, Back, GroupBack
      <3> QED BY <1>2, <2>5, <2>6, <3>1, <3>2 DEF ImportAt
    <2>8. conf' \in {0, 1} /\ slot' \in CamRows /\ service' \in {0, 1}
      BY <1>1, <2>1, <2>2
    <2> QED BY <1>1, <1>2, <1>3, <2>2, <2>5, <2>7, <2>8, ImportStep
  <1>6. CASE Store!Propagate(c)
    <2>1. q.at = "propagate" /\ q \in TellRequests /\ UNCHANGED conf
      BY <1>0, <1>3, <1>6, RequestShape DEF Store!Propagate, Store!At
    <2>2. snap # None /\ UNCHANGED snap
      BY <1>0, <1>2, <2>1 DEF StoreInv, StoreRules, Importing
    <2>3. CASE q.told # {}
      <3>1. PICK s \in q.told :
              /\ slot' = [slot EXCEPT ![s] = cams[s]] /\ UNCHANGED service
              /\ storeReq' = [storeReq EXCEPT ![c].told = @ \ {s}]
        BY <1>0, <1>6, <2>3 DEF Store!Propagate
      <3>2. PICK r : r = [q EXCEPT !.told = q.told \ {s}]
        OBVIOUS
      <3>3. r \in TellRequests /\ r.told = q.told \ {s} /\ r.failed = q.failed /\ s \in Serials
        BY <2>1, <3>1, <3>2 DEF TellRequests
      <3>4. /\ r \in StoreRequests /\ r.at = "propagate"
            /\ storeReq' = [storeReq EXCEPT ![c] = r]
        BY <1>0, <1>1, <3>1, <3>2, <3>3 DEF StoreRequests, TellRequests
      <3>5. storeReq'[c] = r
        BY <3>4, StoreRequestMoves DEF StoreInv
      <3>6. slot' \in CamRows /\ slot'[s] = cams[s] /\ \A t \in Serials \ {s} : slot'[t] = slot[t]
        BY <1>1, <3>1, <3>3 DEF CamRows
      <3>7. ASSUME OneClient, Solo PROVE ~clash' /\ ImportAt(c)'
        <4>1. ~clash /\ AtPropagate(q)
          BY <1>0, <2>1, <3>7 DEF Solo, ImportAt
        <4>2. r.failed = {} => \A t \in Store!InSnap :
                Back(t) /\ (t \in r.told \/ slot'[t] = cams'[t])
          BY <1>2, <3>3, <3>6, <4>1 DEF AtPropagate, Store!InSnap
        <4>3. AtPropagate(r)'
          BY <1>2, <1>4, <2>1, <3>3, <4>1, <4>2 DEF AtPropagate, Back, GroupBack
        <4> QED BY <1>2, <3>4, <3>5, <4>1, <4>3 DEF ImportAt
      <3> QED BY <1>1, <1>2, <1>3, <2>1, <2>2, <3>1, <3>4, <3>6, <3>7, ImportStep
    <2>4. CASE q.told = {}
      <3>1. /\ UNCHANGED slot /\ service' = conf
            /\ storeReq' = [storeReq EXCEPT ![c] = [at |-> "reported", failed |-> q.failed]]
        BY <1>0, <1>1, <1>6, <2>4 DEF Store!Propagate
      <3>2. PICK r : r = [at |-> "reported", failed |-> q.failed]
        OBVIOUS
      <3>3. r \in ReportRequests /\ r.failed = q.failed
        BY <2>1, <3>2 DEF TellRequests, ReportRequests
      <3>4. /\ r \in StoreRequests /\ r.at = "reported"
            /\ storeReq' = [storeReq EXCEPT ![c] = r]
        BY <3>1, <3>2, <3>3 DEF StoreRequests, ReportRequests
      <3>5. storeReq'[c] = r
        BY <3>4, StoreRequestMoves DEF StoreInv
      <3>6. ASSUME OneClient, Solo PROVE ~clash' /\ ImportAt(c)'
        <4>1. ~clash /\ AtPropagate(q)
          BY <1>0, <2>1, <3>6 DEF Solo, ImportAt
        <4>2. AtReported(r)'
          BY <1>2, <1>4, <2>1, <2>4, <3>1, <3>3, <4>1
             DEF AtPropagate, AtReported, Back, GroupBack
        <4> QED BY <1>2, <3>4, <3>5, <4>1, <4>2 DEF ImportAt
      <3> QED BY <1>1, <1>2, <1>3, <2>1, <2>2, <3>1, <3>4, <3>6, ImportStep
    <2> QED BY <2>3, <2>4
  <1> QED BY <1>5, <1>6

LEMMA StoreNext ==
  StoreInv /\ [Store!Next]_storeVars => StoreInv' /\ (OneClient /\ Solo => Solo')
  <1> SUFFICES ASSUME StoreInv, [Store!Next]_storeVars
               PROVE  StoreInv' /\ (OneClient /\ Solo => Solo')
    OBVIOUS
  <1>1. CASE UNCHANGED storeVars
    <2>1. StoreTyped' /\ StoreRules'
      BY <1>1 DEF storeVars, StoreInv, StoreTyped, StoreRules, PinsUnique, GroupsDisjoint,
                  Importing, Store!InSnap
    <2>2. Solo => Solo'
      <3>1. Solo => \A c \in Clients : ImportAt(c)'
        BY <1>1, ImportStays DEF storeVars, Solo
      <3> QED BY <1>1, <3>1 DEF storeVars, Solo, RolesExclusive
    <2> QED BY <2>1, <2>2 DEF StoreInv
  <1>2. CASE Store!Next
    BY <1>2, CameraRequestSteps, TableRequestSteps, ImportBegins, ImportCameraSteps,
       ImportGroupSteps, ImportEndSteps DEF Store!Next
  <1> QED BY <1>1, <1>2

LEMMA StoreMeans ==
  StoreInv => /\ Store!TypeOK
              /\ Solo \/ ~OneClient => Store!TableRules
              /\ Solo => Store!PinSwapsImport /\ Store!ImportRestores
  <1> SUFFICES ASSUME StoreInv
               PROVE  /\ Store!TypeOK
                      /\ Solo \/ ~OneClient => Store!TableRules
                      /\ Solo => Store!PinSwapsImport /\ Store!ImportRestores
    OBVIOUS
  <1>1. Store!TypeOK
    BY DEF StoreInv, StoreTyped, CamRows, GroupRows, Store!TypeOK
  <1>2. Solo => Store!PinSwapsImport /\ Store!ImportRestores
    <2>1. Solo => Store!PinSwapsImport
      BY DEF Solo, Store!PinSwapsImport
    <2>2. Solo => Store!ImportRestores
      BY DEF Solo, ImportAt, AtReported, Back, GroupBack, Store!ImportRestores, Store!At
    <2> QED BY <2>1, <2>2
  <1>3. Store!Cardinality(Clients) = 1 => OneClient
    <2>1. Store!Cardinality(Clients) = Cardinality(Clients)
      BY DEF Store!Cardinality, Cardinality
    <2>2. IsFiniteSet(Clients)
      BY Assumptions DEF Store!StoreAssumption, Store!IsFiniteSet, IsFiniteSet
    <2>3. ASSUME Cardinality(Clients) = 1 PROVE OneClient
      <3>1. PICK x : Clients = {x}
        BY <2>2, <2>3, FS_Singleton
      <3> QED BY <3>1 DEF OneClient
    <2> QED BY <2>1, <2>3
  <1>4. Solo \/ ~OneClient => Store!TableRules
    BY <1>3 DEF StoreInv, StoreRules, GroupsDisjoint, Solo, RolesExclusive, Store!TableRules
  <1> QED BY <1>1, <1>2, <1>4

-----------------------------------------------------------------------------
(* The components together.                                                 *)

SafetyInv ==
    /\ part = "Engine" => EngineInv
    /\ part = "Layouts" => LayoutsInv
    /\ part = "Store" => StoreInv

\* Those of the invariants that need a hypothesis.
PairingInv == part = "Stamps" => StampsInv
SendingInv == part = "Link" => LinkInv /\ SendsInv
FreshInv == part = "Layouts" => Fresh
SoloInv == part = "Store" => Solo
SlotsInv == part = "Cameras" => CamerasInv

LEMMA SafetyStart ==
  Init => /\ SafetyInv /\ PairingInv /\ SendingInv /\ SlotsInv
          /\ (Seeded => FreshInv) /\ SoloInv
  BY StampsStart, EngineStarts, LinkStarts, LayoutsStart, StoreStarts, CamerasStart
     DEF Init, SafetyInv, PairingInv, SendingInv, FreshInv, SoloInv, SlotsInv

\* A step of the composition is one of its component.
LEMMA ComponentStep ==
  ASSUME [Next]_vars
  PROVE  /\ part' = part
         /\ part = "Stamps" => [Stamps!Next]_stampsVars
         /\ part = "Engine" => [Engine!Next]_engineVars
         /\ part = "Link" => [Link!Next]_linkVars
         /\ part = "Layouts" => [Layouts!Next]_layoutsVars
         /\ part = "Cameras" => [Cameras!Next]_camerasVars
         /\ part = "Store" => [Store!Next]_storeVars
  <1>1. part' = part
    BY DEF Next, Only, vars
  <1>2. CASE UNCHANGED vars
    BY <1>1, <1>2 DEF vars
  <1>3. CASE Next
    BY <1>1, <1>3 DEF Next
  <1> QED BY <1>2, <1>3

LEMMA SafetyStep ==
  SafetyInv /\ [Next]_vars =>
    SafetyInv' /\ (FreshInv => FreshInv') /\ (OneClient /\ SoloInv => SoloInv')
  <1> SUFFICES ASSUME SafetyInv, [Next]_vars
               PROVE  /\ SafetyInv' /\ (FreshInv => FreshInv')
                      /\ OneClient /\ SoloInv => SoloInv'
    OBVIOUS
  <1>1. part = "Layouts" => LayoutsInv' /\ (Fresh => Fresh')
    BY ComponentStep, LayoutsNext DEF SafetyInv
  <1>2. part = "Store" => StoreInv' /\ (OneClient /\ Solo => Solo')
    BY ComponentStep, StoreNext DEF SafetyInv
  <1>3. part = "Engine" => EngineInv'
    BY ComponentStep, EngineNext DEF SafetyInv
  <1> QED BY <1>1, <1>2, <1>3, ComponentStep DEF SafetyInv, FreshInv, SoloInv

\* The inductive invariants that need no hypothesis hold, each where its component is.
THEOREM SafetyInductive == Spec => []SafetyInv
  <1>1. SafetyInv /\ [Next]_vars => SafetyInv'
    BY SafetyStep
  <1> QED BY <1>1, SafetyStart, PTL DEF Spec

\* pop_pulse_ns() and on_trigger(): a published frame carries the time of the pulse that
\* exposed it, whatever frames the camera dropped before it, as long as events come before
\* frames, none is lost, and a camera's first frame and its ring of pulses are not.
THEOREM StampsAreOwnPulses ==
  ASSUME Disturbances = {}
  PROVE  Spec => []StampIsOwnPulse
  <1>1. PairingInv /\ [Next]_vars => PairingInv'
    <2> SUFFICES ASSUME PairingInv, [Next]_vars PROVE PairingInv'
      OBVIOUS
    <2>1. part = "Stamps" => StampsInv'
      BY ComponentStep, StampsNext DEF PairingInv
    <2> QED BY <2>1, ComponentStep DEF PairingInv
  <1>2. PairingInv => StampIsOwnPulse
    BY StampsMeans DEF PairingInv, StampIsOwnPulse
  <1> QED BY <1>1, <1>2, SafetyStart, PTL DEF Spec

\* FusionEngine: every key a factor names, and every key whose marginal is asked for, is one
\* the smoother still has, because trim_states() keeps states_ inside the smoother's horizon;
\* for every lag, trim margin and period of states, whatever order the streams arrive in.
THEOREM StatesStayInGraph == Spec => []KeysInGraph
  <1>1. SafetyInv => KeysInGraph
    BY EngineMeans DEF SafetyInv, KeysInGraph
  <1> QED BY <1>1, SafetyInductive, PTL

\* flush_vio_intervals(): no stretch of the chain has two VIO factors and no motion that VIO
\* reported is in two of them, whatever VIO leaves out and whichever stream made the states.
THEOREM DeltasCountOnce == Spec => []EachDeltaOnce
  <1>1. SafetyInv => EachDeltaOnce
    BY EngineMeans DEF SafetyInv, EachDeltaOnce
  <1> QED BY <1>1, SafetyInductive, PTL

\* refresh_state(): while the engine stays initialized the pose it publishes never goes back
\* in time, although tags and VIO are late.
THEOREM PoseGoesForward == Spec => PoseTimeAdvances
  <1>1. SafetyInv /\ [Next]_vars => [part = "Engine" => Engine!PoseForward]_vars
    <2> SUFFICES ASSUME SafetyInv, Next, part = "Engine" PROVE Engine!PoseForward
      OBVIOUS
    <2>1. Engine!Next
      BY DEF Next
    <2> QED BY <2>1, EngineNext DEF SafetyInv
  <1> QED BY <1>1, SafetyInductive, PTL DEF Spec, PoseTimeAdvances

\* RobotLink::start(), stop() and the receive loop: once no PUT is under way the link runs
\* the row's configuration, it receives on a socket it has open, and each call of
\* send_pose() is counted once, for any number of senders under one thread of PUTs.
THEOREM LinkFollowsItsRow ==
  ASSUME \A c, d \in PutThreads : c = d
  PROVE  Spec => []LinkMatchesRow
  <1>1. SendingInv /\ [Next]_vars => SendingInv'
    <2> SUFFICES ASSUME SendingInv, [Next]_vars PROVE SendingInv'
      OBVIOUS
    <2>1. part = "Link" => LinkInv' /\ SendsInv'
      BY ComponentStep, LinkNext DEF SendingInv
    <2> QED BY <2>1, ComponentStep DEF SendingInv
  <1>2. SendingInv => LinkMatchesRow
    BY LinkMeans DEF SendingInv, LinkMatchesRow
  <1> QED BY <1>1, <1>2, SafetyStart, PTL DEF Spec

\* reload() and the consumers' copies of the shared configuration: with no request under
\* way they solve with the active layout, of which there is exactly one, and a reload lets
\* at most one pose of the old configuration through, for any number of threads, cameras
\* and layouts, if the table has a layout to start with.
THEOREM ConsumersUseActiveLayout ==
  ASSUME Seeded
  PROVE  Spec => []SharedFresh
  <1>1. SafetyInv /\ FreshInv => SharedFresh
    BY LayoutsMeans DEF SafetyInv, FreshInv, SharedFresh
  <1>2. SafetyInv /\ FreshInv /\ [Next]_vars => FreshInv'
    BY SafetyStep
  <1> QED BY <1>1, <1>2, SafetyStart, SafetyInductive, PTL DEF Spec

\* CameraSupervisor's handlers and the routes that call them: once no request and no SDK
\* event is under way, the slots are those of the rows, a camera runs its row's
\* configuration with consumers built from the row, and is online exactly when it is
\* plugged in and its start did not fail; for one client, and any number of calibration
\* jobs that write to the same row.
THEOREM SlotsAreRows ==
  ASSUME OneCameraClient
  PROVE  Spec => []SlotsFollowRows
  <1>1. SlotsInv /\ [Next]_vars => SlotsInv'
    <2> SUFFICES ASSUME SlotsInv, [Next]_vars PROVE SlotsInv'
      OBVIOUS
    <2>1. part = "Cameras" => CamerasInv'
      BY ComponentStep, CamerasNext DEF SlotsInv
    <2> QED BY <2>1, ComponentStep DEF SlotsInv
  <1>2. SlotsInv => SlotsFollowRows
    BY CamerasMeans DEF SlotsInv, SlotsFollowRows
  <1> QED BY <1>1, <1>2, SafetyStart, PTL DEF Spec

\* check_no_pin_overlap() and the routes' check of roles: no two trigger groups share an
\* output, whatever any number of clients write, remove and import; and while a single
\* client writes and none imports, no two cameras share an exclusive role.
THEOREM TablesKeepTheirRules == Spec => []TableRules
  <1>1. SafetyInv /\ SoloInv => TableRules
    BY StoreMeans DEF SafetyInv, SoloInv, TableRules
  <1>2. ASSUME ~OneClient PROVE SafetyInv => TableRules
    BY <1>2, StoreMeans DEF SafetyInv, TableRules
  <1>3. CASE OneClient
    <2>1. SafetyInv /\ SoloInv /\ [Next]_vars => SoloInv'
      BY <1>3, SafetyStep
    <2> QED BY <1>1, <2>1, SafetyStart, SafetyInductive, PTL DEF Spec
  <1>4. CASE ~OneClient
    <2>1. SafetyInv => TableRules
      BY <1>2, <1>4
    <2> QED BY <2>1, SafetyInductive, PTL
  <1> QED BY <1>3, <1>4

\* import_snapshot() clears the pins before it writes them: an import that passes pins round
\* between cameras refuses none of them, when no other client writes in between.
THEOREM ImportsSwapPins ==
  ASSUME OneClient
  PROVE  Spec => []PinSwapsImport
  <1>1. SafetyInv /\ SoloInv => PinSwapsImport
    BY StoreMeans DEF SafetyInv, SoloInv, PinSwapsImport
  <1>2. SafetyInv /\ SoloInv /\ [Next]_vars => SoloInv'
    BY SafetyStep
  <1> QED BY <1>1, <1>2, SafetyStart, SafetyInductive, PTL DEF Spec

\* import_snapshot() and the calls the route makes after it: an import that reports no
\* failure leaves the tables of the snapshot and services that were told of them, when no
\* other client writes in between.
THEOREM ImportsRestoreSnapshots ==
  ASSUME OneClient
  PROVE  Spec => []ImportRestores
  <1>1. SafetyInv /\ SoloInv => ImportRestores
    BY StoreMeans DEF SafetyInv, SoloInv, ImportRestores
  <1>2. SafetyInv /\ SoloInv /\ [Next]_vars => SoloInv'
    BY SafetyStep
  <1> QED BY <1>1, <1>2, SafetyStart, SafetyInductive, PTL DEF Spec
=============================================================================
