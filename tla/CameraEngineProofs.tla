------------------------- MODULE CameraEngineProofs -------------------------
(***************************************************************************)
(* Proofs about two of Safety's components: the camera slots and the fusion *)
(* engine.  For each the invariant that its steps preserve, then what it    *)
(* means for its properties.  SafetyProofs states the theorems.             *)
(***************************************************************************)
EXTENDS Safety, FiniteSetTheorems, SequenceTheorems, WellFoundedInduction, TLAPS

-----------------------------------------------------------------------------
(* The camera supervisor.                                                   *)

Steps == {"idle", "role", "added", "apply", "write", "updated", "remove"}
CameraRequests == [at : Steps, id : Ids \cup {None}, patch : Cameras!Patch \cup {None}]

CamerasTyped ==
    /\ cameraRows \in [Ids -> Cameras!Row \cup {None}]
    /\ slots \in [Ids -> Cameras!Slot \cup {None}]
    /\ bySerial \in Ids \cup {None} /\ phase \in {"new", "up", "down"}
    /\ plugged \in BOOLEAN /\ events \in Seq(BOOLEAN) /\ gen \in Nat
    /\ cameraReq \in [Cameras!Callers -> CameraRequests]

\* What a request under way knows of its row; a job changes no orientation.
RequestHolds(c) ==
    /\ cameraReq[c].at # "idle" => cameraReq[c].id \in Ids
    /\ cameraReq[c].at \in {"apply", "write"} => cameraReq[c].patch \in Cameras!Patch
    /\ cameraReq[c].at = "apply" => cameraReq[c].patch.gain # None
    /\ c \notin CameraClients =>
         /\ cameraReq[c].at \in {"idle", "write", "updated"}
         /\ cameraReq[c].at = "write" => cameraReq[c].patch.orient = None

\* A row is being added or removed, has been written and the supervisor not told, or has
\* been written by a client.
Moving(i) == \E c \in CameraClients :
    cameraReq[c].at \in {"role", "added", "remove"} /\ cameraReq[c].id = i
Pending(i) == \E c \in Cameras!Callers : cameraReq[c].at = "updated" /\ cameraReq[c].id = i
Turning(i) == \E c \in CameraClients : cameraReq[c].at = "updated" /\ cameraReq[c].id = i

\* A running camera runs its slot's configuration, with consumers built from the row as it
\* was or is; and a slot that follows its row.
Built(s, r) ==
    s.run # None =>
      /\ s.run = s.cfg
      /\ \/ s.ext = [stamp |-> s.stamp, orient |-> s.orient]
         \/ s.ext = [stamp |-> s.stamp, orient |-> r.orient]
Told(s, r) == s.cfg = r.cfg /\ (s.run # None => s.stamp = r.stamp)

\* A slot is online as the device is, unless its start failed.
Online(s) == (s.run # None => plugged) /\ (plugged => s.failed \/ s.run # None)

SlotHolds(i) ==
    /\ slots[i] # None =>
         /\ cameraRows[i] # None /\ bySerial = i
         /\ Built(slots[i], cameraRows[i])
         /\ Pending(i) \/ Told(slots[i], cameraRows[i])
         /\ Turning(i) \/ slots[i].orient = cameraRows[i].orient
         /\ events = <<>> => Online(slots[i])
    /\ cameraRows[i] # None => slots[i] # None \/ Moving(i)
    /\ Moving(i) => slots[i] = None

OneRow == \A i, j \in Ids : cameraRows[i] # None /\ cameraRows[j] # None => i = j

CamerasInv ==
    /\ CamerasTyped
    /\ \A c \in Cameras!Callers : RequestHolds(c)
    /\ OneRow
    /\ events # <<>> => events[Len(events)] = plugged
    /\ phase # "up" => events = <<>>
    /\ phase = "new" => /\ \A i \in Ids : slots[i] = None /\ (cameraRows[i] # None => i = 1)
                        /\ \A c \in Cameras!Callers : cameraReq[c] = Cameras!Idle
    /\ phase = "up" => \A i \in Ids : SlotHolds(i)

OneCameraClient == \A c, d \in CameraClients : c = d

-----------------------------------------------------------------------------
LEMMA CameraConstants ==
  /\ 1 \in Ids /\ None \notin Ids /\ MaxGain \in Nat /\ None \notin Nat
  /\ None \notin Cameras!Row /\ None \notin Cameras!Slot
  /\ \A c \in Cameras!Callers : Patches[c] \subseteq Cameras!Patch
  /\ \A c \in Jobs : \A p \in Patches[c] : p.cfg = None /\ p.gain = None /\ p.orient = None
  BY Assumptions, SMTT(30) DEF Cameras!CameraAssumption

\* A slot of which a request changes the settings, and one whose start failed.
LEMMA SlotChanges ==
  ASSUME NEW s \in Cameras!Slot
  PROVE  /\ \A g \in Nat, k \in Nat, o \in {0, 180} :
              [s EXCEPT !.gain = g, !.cfg = k, !.orient = o] \in Cameras!Slot
         /\ \A m \in Nat, e \in Cameras!Extra : [s EXCEPT !.stamp = m, !.ext = e] \in Cameras!Slot
         /\ [s EXCEPT !.ext = None] \in Cameras!Slot
         /\ [s EXCEPT !.failed = TRUE] \in Cameras!Slot
         /\ \A g \in Nat : [s EXCEPT !.gain = g, !.live = g] \in Cameras!Slot
         /\ \A k \in Nat, n \in Nat, g \in Nat :
              [s EXCEPT !.failed = FALSE, !.run = k, !.gen = n, !.gain = g, !.live = g]
                \in Cameras!Slot
  <1>1. \A g \in Nat, k \in Nat, o \in {0, 180} :
              [s EXCEPT !.gain = g, !.cfg = k, !.orient = o] \in Cameras!Slot
    BY ZenonT(60) DEF Cameras!Slot
  <1>2. \A m \in Nat, e \in Cameras!Extra : [s EXCEPT !.stamp = m, !.ext = e] \in Cameras!Slot
    BY ZenonT(60) DEF Cameras!Slot
  <1>3. [s EXCEPT !.ext = None] \in Cameras!Slot
    BY ZenonT(60) DEF Cameras!Slot
  <1>4. [s EXCEPT !.failed = TRUE] \in Cameras!Slot
    BY Zenon DEF Cameras!Slot
  <1>5. \A g \in Nat : [s EXCEPT !.gain = g, !.live = g] \in Cameras!Slot
    BY Zenon DEF Cameras!Slot
  <1>6. \A k \in Nat, n \in Nat, g \in Nat :
              [s EXCEPT !.failed = FALSE, !.run = k, !.gen = n, !.gain = g, !.live = g]
                \in Cameras!Slot
    BY ZenonT(60) DEF Cameras!Slot
  <1> QED BY <1>1, <1>2, <1>3, <1>4, <1>5, <1>6, ZenonT(30)

\* The fields of a slot and of a row.
LEMMA SlotFields ==
  ASSUME NEW s \in Cameras!Slot
  PROVE  /\ DOMAIN s = {"cfg", "gain", "orient", "stamp", "run", "live", "ext", "gen", "failed"}
         /\ s.cfg \in Nat /\ s.gain \in Nat /\ s.orient \in {0, 180}
         /\ s.stamp \in Nat \cup {None} /\ s.run \in Nat \cup {None} /\ s.gen \in Nat
  BY DEF Cameras!Slot

LEMMA RowFields ==
  ASSUME NEW r \in Cameras!Row
  PROVE  /\ DOMAIN r = {"cfg", "gain", "orient", "stamp"}
         /\ r.cfg \in Nat /\ r.gain \in Nat /\ r.orient \in {0, 180} /\ r.stamp \in Nat
         /\ [stamp |-> r.stamp, orient |-> r.orient] \in Cameras!Extra
  BY DEF Cameras!Row, Cameras!Extra

\* A new slot, one that is stopped, and one that may have been started.
LEMMA NewSlotFollows ==
  ASSUME NEW r \in Cameras!Row, NEW s, s = Cameras!NewSlot(r)
  PROVE  /\ s \in Cameras!Slot /\ Built(s, r) /\ Told(s, r) /\ s.orient = r.orient
         /\ s.run = None
  BY CameraConstants DEF Cameras!NewSlot, Cameras!Row, Cameras!Slot, Built, Told

LEMMA StoppedFollows ==
  ASSUME NEW r, NEW s \in Cameras!Slot, NEW t, t = Cameras!Stopped(s)
  PROVE  /\ t \in Cameras!Slot /\ Built(t, r) /\ t.cfg = s.cfg /\ t.orient = s.orient
         /\ t.run = None
  <1>1. t = [s EXCEPT !.run = None, !.live = None, !.ext = None, !.gen = 0]
    BY DEF Cameras!Stopped
  <1>2. t.cfg = s.cfg /\ t.orient = s.orient /\ t.run = None
    BY <1>1, SlotFields
  <1>3. t \in Cameras!Slot
    <2>1. 0 \in Nat
      OBVIOUS
    <2>2. [s EXCEPT !.run = None, !.live = None, !.ext = None, !.gen = 0] \in Cameras!Slot
      BY <2>1, ZenonT(60) DEF Cameras!Slot
    <2> QED BY <1>1, <2>2, Zenon
  <1>4. Built(t, r)
    BY <1>2, Zenon DEF Built
  <1> QED BY <1>2, <1>3, <1>4

LEMMA TryStartFollows ==
  ASSUME NEW i \in Ids, NEW r \in Cameras!Row, cameraRows[i] = r, gen \in Nat,
         plugged \in BOOLEAN,
         NEW s \in Cameras!Slot, NEW u \in Cameras!TryStart(s, i)
  PROVE  /\ u \in Cameras!Slot /\ u # None
         /\ Built(s, r) => Built(u, r)
         /\ Told(s, r) => Told(u, r)
         /\ u.orient = s.orient
         /\ u.run # None => s.run # None \/ plugged
         /\ plugged => u.failed \/ u.run # None
  <1> USE CameraConstants
  <1>1. CASE s.run # None \/ ~plugged
    <2>1. u = s
      BY <1>1, Zenon DEF Cameras!TryStart
    <2> QED BY <1>1, <2>1
  <1>2. CASE s.run = None /\ plugged
    <2> DEFINE on == [s EXCEPT !.failed = FALSE, !.run = s.cfg, !.gen = gen + 1,
                               !.gain = Cameras!Clamp(s.gain), !.live = Cameras!Clamp(s.gain)]
    <2>1. u = [s EXCEPT !.failed = TRUE] \/ u = Cameras!StartExtra(on, i)
      BY <1>2 DEF Cameras!TryStart
    <2>2. CASE u = [s EXCEPT !.failed = TRUE]
      <3>1. u.run = s.run /\ u.cfg = s.cfg /\ u.orient = s.orient /\ u.failed = TRUE
        BY <2>2, SlotFields, SMTT(30)
      <3>2. u \in Cameras!Slot
        BY <2>2, SlotChanges, ZenonT(30)
      <3> QED BY <1>2, <3>1, <3>2 DEF Built, Told
    <2>3. CASE u = Cameras!StartExtra(on, i)
      <3>1. Cameras!Clamp(s.gain) \in Nat
        BY SlotFields DEF Cameras!Clamp
      <3>2. /\ on \in Cameras!Slot /\ on.run = s.cfg /\ on.cfg = s.cfg /\ on.orient = s.orient
            /\ on.run # None /\ s.cfg \in Nat
        <4>1. s.cfg \in Nat /\ gen + 1 \in Nat
          BY SlotFields
        <4>2. on \in Cameras!Slot
          BY <3>1, <4>1, SlotChanges, Zenon
        <4>3. on.run = s.cfg /\ on.cfg = s.cfg /\ on.orient = s.orient
          BY SlotFields
        <4> QED BY <4>1, <4>2, <4>3
      <3> HIDE DEF on
      <3>3. u = [on EXCEPT !.stamp = r.stamp, !.ext = [stamp |-> r.stamp, orient |-> r.orient]]
        BY <2>3, <3>2 DEF Cameras!StartExtra
      <3>4. /\ u \in Cameras!Slot /\ u.run = s.cfg /\ u.cfg = s.cfg /\ u.orient = s.orient
            /\ u.stamp = r.stamp /\ u.ext = [stamp |-> u.stamp, orient |-> r.orient]
        <4>1. u \in Cameras!Slot
          <5>1. r.stamp \in Nat /\ [stamp |-> r.stamp, orient |-> r.orient] \in Cameras!Extra
            BY RowFields, SMTT(30)
          <5>2. \A m \in Nat, e \in Cameras!Extra :
                  [on EXCEPT !.stamp = m, !.ext = e] \in Cameras!Slot
            BY <3>2, SlotChanges, ZenonT(30)
          <5> QED BY <3>3, <5>1, <5>2, ZenonT(60)
        <4>2. DOMAIN on = {"cfg", "gain", "orient", "stamp", "run", "live", "ext", "gen", "failed"}
          BY <3>2, SlotFields
        <4> QED BY <3>2, <3>3, <4>1, <4>2
      <3> QED BY <1>2, <3>2, <3>4 DEF Built, Told
    <2> QED BY <2>1, <2>2, <2>3
  <1> QED BY <1>1, <1>2

\* What on_camera_updated() makes of a slot: whatever it was, it follows the row.
Changed(s, r) == [s EXCEPT !.gain = r.gain, !.cfg = r.cfg, !.orient = r.orient]
UpdatedTo(u, s, r, i) ==
    IF r.cfg = s.cfg
      THEN u = IF r.stamp # s.stamp \/ r.orient # s.orient
                 THEN Cameras!StartExtra([Changed(s, r) EXCEPT !.ext = None], i)
                 ELSE Changed(s, r)
      ELSE IF s.run = None THEN u = Changed(s, r)
           ELSE u \in Cameras!TryStart(Cameras!Stopped(Changed(s, r)), i)

LEMMA UpdateFollows ==
  ASSUME NEW i \in Ids, NEW r \in Cameras!Row, cameraRows[i] = r, gen \in Nat,
         plugged \in BOOLEAN,
         NEW s \in Cameras!Slot, Built(s, r), NEW u, UpdatedTo(u, s, r, i)
  PROVE  /\ u \in Cameras!Slot /\ Built(u, r) /\ Told(u, r) /\ u.orient = r.orient
         /\ Online(s) => Online(u)
  <1> USE CameraConstants
  <1>1. PICK t : t = Changed(s, r)
    OBVIOUS
  <1>2. /\ t \in Cameras!Slot /\ t.cfg = r.cfg /\ t.orient = r.orient /\ t.run = s.run
        /\ t.stamp = s.stamp /\ t.ext = s.ext /\ t.failed = s.failed
    <2>1. t \in Cameras!Slot
      <3>1. r.gain \in Nat /\ r.cfg \in Nat /\ r.orient \in {0, 180}
        BY RowFields
      <3>2. \A g \in Nat, k \in Nat, o \in {0, 180} :
              [s EXCEPT !.gain = g, !.cfg = k, !.orient = o] \in Cameras!Slot
        BY ZenonT(60) DEF Cameras!Slot
      <3> QED BY <1>1, <3>1, <3>2, ZenonT(60) DEF Changed
    <2> QED BY <1>1, <2>1, SlotFields DEF Changed
  <1>3. CASE r.cfg = s.cfg /\ (r.stamp # s.stamp \/ r.orient # s.orient)
    <2>1. PICK v : v = [t EXCEPT !.ext = None]
      OBVIOUS
    <2>2. v \in Cameras!Slot /\ v.run = t.run /\ v.cfg = t.cfg /\ v.orient = t.orient
          /\ v.failed = t.failed
      BY <1>2, <2>1 DEF Cameras!Slot
    <2>3. u = Cameras!StartExtra(v, i)
      BY <1>1, <1>3, <2>1, Zenon DEF UpdatedTo
    <2>4. CASE v.run = None
      <3>1. u = v
        BY <2>3, <2>4 DEF Cameras!StartExtra
      <3> QED BY <1>2, <2>2, <2>4, <3>1 DEF Built, Told, Online
    <2>5. CASE v.run # None
      <3>1. u = [v EXCEPT !.stamp = r.stamp, !.ext = [stamp |-> r.stamp, orient |-> r.orient]]
        BY <2>3, <2>5 DEF Cameras!StartExtra
      <3>2. /\ u \in Cameras!Slot /\ u.run = v.run /\ u.cfg = v.cfg /\ u.orient = v.orient
            /\ u.stamp = r.stamp /\ u.ext = [stamp |-> u.stamp, orient |-> r.orient]
            /\ u.failed = v.failed
        <4>1. u \in Cameras!Slot
          <5>1. r.stamp \in Nat /\ [stamp |-> r.stamp, orient |-> r.orient] \in Cameras!Extra
            BY RowFields, SMTT(30)
          <5>2. \A m \in Nat, e \in Cameras!Extra :
                  [v EXCEPT !.stamp = m, !.ext = e] \in Cameras!Slot
            BY <2>2, SlotChanges, ZenonT(30)
          <5> QED BY <3>1, <5>1, <5>2, ZenonT(60)
        <4>2. DOMAIN v = {"cfg", "gain", "orient", "stamp", "run", "live", "ext", "gen", "failed"}
          BY <2>2, SlotFields
        <4> QED BY <2>2, <3>1, <4>1, <4>2
      <3>3. u.run = u.cfg
        BY <1>2, <1>3, <2>2, <2>5, <3>2 DEF Built
      <3> QED BY <1>2, <2>2, <3>2, <3>3 DEF Built, Told, Online
    <2> QED BY <2>4, <2>5
  <1>4. CASE r.cfg = s.cfg /\ r.stamp = s.stamp /\ r.orient = s.orient
    <2>1. u = t
      BY <1>1, <1>4, Zenon DEF UpdatedTo
    <2> QED BY <1>2, <1>4, <2>1 DEF Built, Told, Online
  <1>5. CASE r.cfg # s.cfg /\ s.run = None
    <2>1. u = t
      BY <1>1, <1>5, Zenon DEF UpdatedTo
    <2> QED BY <1>2, <1>5, <2>1 DEF Built, Told, Online
  <1>6. CASE r.cfg # s.cfg /\ s.run # None
    <2>1. PICK v : v = Cameras!Stopped(t)
      OBVIOUS
    <2>2. /\ v \in Cameras!Slot /\ Built(v, r) /\ v.cfg = t.cfg /\ v.orient = t.orient
          /\ v.run = None
      BY <1>2, <2>1, StoppedFollows
    <2>3. u \in Cameras!TryStart(v, i)
      BY <1>1, <1>6, <2>1, Zenon DEF UpdatedTo
    <2>4. Told(v, r)
      BY <1>2, <2>2 DEF Told
    <2>5. /\ u \in Cameras!Slot /\ Built(u, r) /\ Told(u, r) /\ u.orient = v.orient
          /\ u.run # None => plugged
          /\ plugged => u.failed \/ u.run # None
      BY <2>2, <2>3, <2>4, TryStartFollows
    <2> QED BY <1>2, <2>2, <2>5 DEF Online
  <1> QED BY <1>3, <1>4, <1>5, <1>6

-----------------------------------------------------------------------------
\* A request moves on: what becomes of what is pending.
LEMMA RequestMoves ==
  ASSUME CamerasTyped, \A d \in Cameras!Callers : RequestHolds(d),
         NEW c \in Cameras!Callers, NEW q \in CameraRequests,
         cameraReq' = [cameraReq EXCEPT ![c] = q],
         q.at # "idle" => q.id \in Ids,
         q.at \in {"apply", "write"} => q.patch \in Cameras!Patch,
         q.at = "apply" => q.patch.gain # None,
         c \notin CameraClients =>
            /\ q.at \in {"idle", "write", "updated"}
            /\ q.at = "write" => q.patch.orient = None
  PROVE  /\ cameraReq' \in [Cameras!Callers -> CameraRequests]
         /\ cameraReq'[c] = q
         /\ \A d \in Cameras!Callers : d # c => cameraReq'[d] = cameraReq[d]
         /\ \A d \in Cameras!Callers : RequestHolds(d)'
  <1>1. cameraReq \in [Cameras!Callers -> CameraRequests]
    BY DEF CamerasTyped
  <1>2. /\ cameraReq' \in [Cameras!Callers -> CameraRequests] /\ cameraReq'[c] = q
        /\ \A d \in Cameras!Callers : d # c => cameraReq'[d] = cameraReq[d]
    BY <1>1
  <1>3. ASSUME NEW d \in Cameras!Callers PROVE RequestHolds(d)'
    <2>1. CASE d = c
      BY <1>2, <2>1, Zenon DEF RequestHolds
    <2>2. CASE d # c
      BY <1>2, <2>2, Zenon DEF RequestHolds
    <2> QED BY <2>1, <2>2
  <1> QED BY <1>2, <1>3

\* A request that is over.
LEMMA IdleRequest ==
  /\ Cameras!Idle \in CameraRequests /\ Cameras!Idle.at = "idle"
  BY DEF Cameras!Idle, CameraRequests, Steps

\* With one client, what a client's request is at says what is moving and turning.
LEMMA OneMoves ==
  ASSUME OneCameraClient, NEW c \in CameraClients, NEW i
  PROVE  /\ Moving(i) <=> /\ cameraReq[c].at \in {"role", "added", "remove"}
                          /\ cameraReq[c].id = i
         /\ Turning(i) <=> cameraReq[c].at = "updated" /\ cameraReq[c].id = i
         /\ Moving(i)' <=> /\ cameraReq'[c].at \in {"role", "added", "remove"}
                           /\ cameraReq'[c].id = i
         /\ Turning(i)' <=> cameraReq'[c].at = "updated" /\ cameraReq'[c].id = i
  <1>1. \A d \in CameraClients : d = c
    BY DEF OneCameraClient
  <1> QED BY <1>1, Zenon DEF Moving, Turning

\* A job's request moves no row and turns none.
LEMMA JobMoves ==
  ASSUME NEW c \in Cameras!Callers, c \notin CameraClients,
         \A d \in Cameras!Callers : d # c => cameraReq'[d] = cameraReq[d], NEW i
  PROVE  (Moving(i)' <=> Moving(i)) /\ (Turning(i)' <=> Turning(i))
  <1>1. \A d \in CameraClients : cameraReq'[d] = cameraReq[d]
    BY DEF Cameras!Callers
  <1> QED BY <1>1, Zenon DEF Moving, Turning

\* A row is pending until every request that wrote it has told the supervisor.
LEMMA PendingMoves ==
  ASSUME NEW c \in Cameras!Callers, NEW i,
         \A d \in Cameras!Callers : d # c => cameraReq'[d] = cameraReq[d]
  PROVE  /\ cameraReq'[c].at = "updated" /\ cameraReq'[c].id = i => Pending(i)'
         /\ ~(cameraReq[c].at = "updated" /\ cameraReq[c].id = i) /\ Pending(i) => Pending(i)'
  BY Zenon DEF Pending

\* There is one row: the slots and rows of the other ids are none.
LEMMA OthersNone ==
  ASSUME CamerasInv, phase = "up", NEW i \in Ids, cameraRows[i] # None,
         NEW j \in Ids, j # i
  PROVE  cameraRows[j] = None /\ slots[j] = None
  BY DEF CamerasInv, OneRow, SlotHolds

LEMMA NothingHolds ==
  ASSUME NEW j \in Ids, slots'[j] = None, cameraRows'[j] = None
  PROVE  SlotHolds(j)'
  BY DEF SlotHolds

\* Every step that may start a producer.
LEMMA PutTyped ==
  ASSUME CamerasTyped, NEW i \in Ids, NEW u \in Cameras!Slot, Cameras!Put(i, u)
  PROVE  /\ slots' \in [Ids -> Cameras!Slot \cup {None}] /\ slots'[i] = u
         /\ \A j \in Ids : j # i => slots'[j] = slots[j]
         /\ gen' \in Nat
  <1>1. slots' = [slots EXCEPT ![i] = u] /\ (gen' = u.gen \/ gen' = gen)
    BY Zenon DEF Cameras!Put
  <1>2. u.gen \in Nat
    BY SlotFields
  <1> QED BY <1>1, <1>2 DEF CamerasTyped

\* The invariant of a supervisor that is up, from its parts.
LEMMA UpHolds ==
  ASSUME CamerasTyped', \A d \in Cameras!Callers : RequestHolds(d)', OneRow',
         events' # <<>> => events'[Len(events')] = plugged',
         phase' = "up", \A i \in Ids : SlotHolds(i)'
  PROVE  CamerasInv'
  BY DEF CamerasInv

-----------------------------------------------------------------------------
LEMMA CamerasStart == Cameras!Init => CamerasInv
  <1> SUFFICES ASSUME Cameras!Init PROVE CamerasInv
    OBVIOUS
  <1> USE CameraConstants
  <1>1. PICK r : /\ r \in {None, [cfg |-> 1, gain |-> 1, orient |-> 0, stamp |-> 1]}
                 /\ cameraRows = [i \in Ids |-> IF i = 1 THEN r ELSE None]
    BY Zenon DEF Cameras!Init
  <1>2. r \in Cameras!Row \cup {None}
    BY <1>1 DEF Cameras!Row
  <1>3. /\ slots = [i \in Ids |-> None] /\ bySerial = None /\ phase = "new"
        /\ plugged \in BOOLEAN /\ events = <<>> /\ gen = 0
        /\ cameraReq = [c \in Cameras!Callers |-> Cameras!Idle]
    BY Zenon DEF Cameras!Init
  <1>4. CamerasTyped
    <2>1. cameraRows \in [Ids -> Cameras!Row \cup {None}]
      BY <1>1, <1>2
    <2>2. cameraReq \in [Cameras!Callers -> CameraRequests]
      BY <1>3, IdleRequest
    <2>3. /\ slots \in [Ids -> Cameras!Slot \cup {None}] /\ events \in Seq(BOOLEAN)
          /\ gen \in Nat
      BY <1>3
    <2> QED BY <1>3, <2>1, <2>2, <2>3 DEF CamerasTyped
  <1>5. \A c \in Cameras!Callers : cameraReq[c] = Cameras!Idle
    BY <1>3
  <1>6. \A c \in Cameras!Callers : RequestHolds(c)
    BY <1>5, IdleRequest DEF RequestHolds
  <1>7. \A i \in Ids : slots[i] = None /\ (cameraRows[i] # None => i = 1)
    BY <1>1, <1>3
  <1>8. OneRow
    BY <1>7 DEF OneRow
  <1> QED BY <1>3, <1>4, <1>5, <1>6, <1>7, <1>8 DEF CamerasInv

\* start(): the row becomes a slot.
LEMMA StartSteps == ASSUME CamerasInv, Cameras!Start PROVE CamerasInv'
  <1> USE CameraConstants
  <1>1. /\ phase = "new" /\ phase' = "up"
        /\ UNCHANGED <<cameraRows, plugged, events, cameraReq>>
    BY DEF Cameras!Start
  <1>2. /\ CamerasTyped /\ events = <<>>
        /\ \A i \in Ids : slots[i] = None /\ (cameraRows[i] # None => i = 1)
        /\ \A c \in Cameras!Callers : cameraReq[c] = Cameras!Idle
    BY <1>1 DEF CamerasInv
  <1>3. \A d \in Cameras!Callers : RequestHolds(d)'
    BY <1>1 DEF CamerasInv, RequestHolds
  <1>4. OneRow'
    BY <1>1 DEF CamerasInv, OneRow
  <1>5. CASE cameraRows[1] = None
    <2>1. UNCHANGED <<slots, bySerial, gen>>
      BY <1>5, Zenon DEF Cameras!Start
    <2>2. CamerasTyped'
      BY <1>1, <1>2, <2>1 DEF CamerasTyped
    <2>3. \A i \in Ids : slots'[i] = None /\ cameraRows'[i] = None
      BY <1>1, <1>2, <1>5, <2>1
    <2> QED BY <1>1, <1>2, <1>3, <1>4, <2>2, <2>3, NothingHolds, UpHolds
  <1>6. CASE cameraRows[1] # None
    <2>1. PICK r \in Cameras!Row : r = cameraRows[1]
      BY <1>2, <1>6 DEF CamerasTyped
    <2>2. PICK s : s = Cameras!NewSlot(r)
      OBVIOUS
    <2>3. PICK u \in Cameras!TryStart(s, 1) : Cameras!Put(1, u) /\ bySerial' = 1
      BY <1>6, <2>1, <2>2, Zenon DEF Cameras!Start
    <2>4. /\ s \in Cameras!Slot /\ Built(s, r) /\ Told(s, r) /\ s.orient = r.orient
          /\ s.run = None
      BY <2>2, NewSlotFollows
    <2>5. gen \in Nat /\ plugged \in BOOLEAN
      BY <1>2 DEF CamerasTyped
    <2>6. /\ u \in Cameras!Slot /\ u # None /\ Built(u, r) /\ Told(u, r)
          /\ u.orient = r.orient /\ Online(u)
      BY <2>1, <2>3, <2>4, <2>5, TryStartFollows DEF Online
    <2>7. /\ slots' \in [Ids -> Cameras!Slot \cup {None}] /\ slots'[1] = u
          /\ \A j \in Ids : j # 1 => slots'[j] = slots[j]
          /\ gen' \in Nat
      BY <1>2, <2>3, <2>6, PutTyped
    <2>8. CamerasTyped'
      BY <1>1, <1>2, <2>3, <2>7 DEF CamerasTyped
    <2>9. ASSUME NEW j \in Ids PROVE SlotHolds(j)'
      <3>1. CASE j # 1
        BY <1>1, <1>2, <2>7, <3>1, NothingHolds
      <3>2. CASE j = 1
        <4>1. ~Moving(1)'
          BY <1>1, <1>2, IdleRequest DEF Moving, Cameras!Callers
        <4>2. Online(u)'
          BY <1>1, <2>6 DEF Online
        <4> QED BY <1>1, <1>6, <2>1, <2>3, <2>6, <2>7, <3>2, <4>1, <4>2, Zenon DEF SlotHolds
      <3> QED BY <3>1, <3>2
    <2> QED BY <1>1, <1>2, <1>3, <1>4, <2>8, <2>9, UpHolds
  <1> QED BY <1>5, <1>6

\* The destructor, the device plugged or unplugged, and the recording.
LEMMA DestroySteps == ASSUME CamerasInv, Cameras!Destroy PROVE CamerasInv'
  <1>1. /\ phase' = "down" /\ events' = <<>>
        /\ slots' = [i \in Ids |-> IF slots[i] = None THEN None ELSE Cameras!Stopped(slots[i])]
        /\ UNCHANGED <<cameraRows, bySerial, plugged, cameraReq, gen>>
    BY DEF Cameras!Destroy
  <1>2. slots' \in [Ids -> Cameras!Slot \cup {None}]
    <2> SUFFICES ASSUME NEW i \in Ids PROVE slots'[i] \in Cameras!Slot \cup {None}
      BY <1>1
    <2>1. slots[i] \in Cameras!Slot \cup {None}
      BY DEF CamerasInv, CamerasTyped
    <2>2. slots[i] \in Cameras!Slot => Cameras!Stopped(slots[i]) \in Cameras!Slot
      BY StoppedFollows
    <2> QED BY <1>1, <2>1, <2>2
  <1>3. CamerasTyped'
    BY <1>1, <1>2 DEF CamerasInv, CamerasTyped
  <1>4. \A d \in Cameras!Callers : RequestHolds(d)'
    BY <1>1 DEF CamerasInv, RequestHolds
  <1>5. OneRow'
    BY <1>1 DEF CamerasInv, OneRow
  <1> QED BY <1>1, <1>3, <1>4, <1>5 DEF CamerasInv

LEMMA PlugSteps == ASSUME CamerasInv, Cameras!Plug PROVE CamerasInv'
  <1>1. /\ plugged' = ~plugged
        /\ events' = IF phase = "up" THEN Append(events, ~plugged) ELSE events
        /\ UNCHANGED <<cameraRows, slots, bySerial, phase, cameraReq, gen>>
    BY DEF Cameras!Plug
  <1>2. /\ plugged' \in BOOLEAN /\ events \in Seq(BOOLEAN) /\ plugged \in BOOLEAN
        /\ CamerasTyped
    BY <1>1 DEF CamerasInv, CamerasTyped
  <1>3. \A d \in Cameras!Callers : RequestHolds(d)'
    BY <1>1 DEF CamerasInv, RequestHolds
  <1>4. OneRow'
    BY <1>1 DEF CamerasInv, OneRow
  <1>5. CASE phase = "up"
    <2>1. PICK b \in BOOLEAN : b = ~plugged
      BY <1>2
    <2>2. events' = Append(events, b) /\ plugged' = b
      BY <1>1, <1>5, <2>1
    <2>3. /\ events' \in Seq(BOOLEAN) /\ Len(events') > 0 /\ events'[Len(events')] = b
      BY <1>2, <2>2
    <2>4. events' # <<>> /\ events'[Len(events')] = plugged'
      BY <2>2, <2>3
    <2>5. CamerasTyped'
      BY <1>1, <1>2, <2>3 DEF CamerasTyped
    <2>6. ASSUME NEW i \in Ids PROVE SlotHolds(i)'
      <3>1. SlotHolds(i)
        BY <1>5 DEF CamerasInv
      <3> QED BY <1>1, <2>4, <3>1 DEF SlotHolds, Moving, Pending, Turning
    <2> QED BY <1>1, <1>3, <1>4, <1>5, <2>4, <2>5, <2>6 DEF CamerasInv
  <1>6. CASE phase # "up"
    <2>1. CamerasTyped' /\ events' = events
      BY <1>1, <1>2, <1>6 DEF CamerasTyped
    <2>2. events = <<>>
      BY <1>6 DEF CamerasInv, CamerasTyped
    <2> QED BY <1>1, <1>3, <1>4, <1>6, <2>1, <2>2 DEF CamerasInv
  <1> QED BY <1>5, <1>6

\* What the invariant looks at does not change.
LEMMA CamerasStutter ==
  ASSUME CamerasInv,
         UNCHANGED <<cameraRows, slots, bySerial, phase, plugged, events, cameraReq, gen>>
  PROVE  CamerasInv'
  <1>1. CamerasTyped'
    BY DEF CamerasInv, CamerasTyped
  <1>2. \A d \in Cameras!Callers : RequestHolds(d)'
    BY DEF CamerasInv, RequestHolds
  <1>3. OneRow'
    BY DEF CamerasInv, OneRow
  <1>4. phase = "up" => \A i \in Ids : SlotHolds(i)'
    BY DEF CamerasInv, SlotHolds, Moving, Pending, Turning, Online
  <1> QED BY <1>1, <1>2, <1>3, <1>4 DEF CamerasInv

\* An SDK event is handled: the slot of the device is started or stopped.
LEMMA EventHandled ==
  ASSUME CamerasInv, phase = "up", events # <<>>,
         events' = Tail(events), NEW e \in BOOLEAN, e = Head(events),
         UNCHANGED <<cameraRows, bySerial, phase, plugged, cameraReq>>,
         gen' \in Nat, slots' \in [Ids -> Cameras!Slot \cup {None}],
         \A i \in Ids : slots[i] = None => slots'[i] = None,
         \A i \in Ids : slots[i] # None =>
           /\ slots'[i] # None
           /\ Built(slots[i], cameraRows[i]) => Built(slots'[i], cameraRows[i])
           /\ Told(slots[i], cameraRows[i]) => Told(slots'[i], cameraRows[i])
           /\ slots'[i].orient = slots[i].orient
           /\ (e <=> plugged) => Online(slots'[i])
  PROVE  CamerasInv'
  <1>1. CamerasTyped /\ events \in Seq(BOOLEAN) /\ events[Len(events)] = plugged
    BY DEF CamerasInv, CamerasTyped
  <1>2. /\ events' \in Seq(BOOLEAN)
        /\ events' # <<>> => events'[Len(events')] = events[Len(events)]
        /\ events' = <<>> => events[Len(events)] = Head(events)
    <2>1. PICK q \in Seq(BOOLEAN) : q = events
      BY <1>1
    <2> DEFINE t == Tail(q)
    <2>2. q # <<>>
      BY <2>1
    <2>3. /\ t \in Seq(BOOLEAN) /\ Len(t) = Len(q) - 1
          /\ \A i \in 1..Len(t) : t[i] = q[i + 1]
      BY <2>2, HeadTailProperties
    <2> HIDE DEF t
    <2>4. PICK n \in Nat : n = Len(q) /\ n > 0
      BY <2>2
    <2>5. t # <<>> => t[Len(t)] = q[Len(q)]
      <3>1. t # <<>> => n - 1 \in 1..(n - 1)
        BY <2>3, <2>4
      <3> QED BY <2>3, <2>4, <3>1
    <2>6. t = <<>> => q[Len(q)] = Head(q)
      <3>1. t = <<>> => Len(q) = 1
        BY <2>3, <2>4
      <3>2. Head(q) = q[1]
        BY <2>2
      <3> QED BY <3>1, <3>2, Zenon
    <2>7. events' = t
      BY <2>1 DEF t
    <2> QED BY <2>1, <2>3, <2>5, <2>6, <2>7, Zenon
  <1>3. events' # <<>> => events'[Len(events')] = plugged'
    BY <1>1, <1>2
  <1>4. events' = <<>> => (e <=> plugged)
    BY <1>1, <1>2
  <1>5. CamerasTyped'
    BY <1>1, <1>2 DEF CamerasTyped
  <1>6. \A d \in Cameras!Callers : RequestHolds(d)'
    BY DEF CamerasInv, RequestHolds
  <1>7. OneRow'
    BY DEF CamerasInv, OneRow
  <1>8. ASSUME NEW i \in Ids PROVE SlotHolds(i)'
    <2>1. SlotHolds(i)
      BY DEF CamerasInv
    <2>2. /\ Moving(i)' <=> Moving(i)
          /\ Pending(i)' <=> Pending(i)
          /\ Turning(i)' <=> Turning(i)
      BY DEF Moving, Pending, Turning
    <2>3. CASE slots[i] = None
      BY <2>1, <2>2, <2>3, Zenon DEF SlotHolds
    <2>4. CASE slots[i] # None
      <3>1. events' = <<>> => Online(slots'[i])
        BY <1>4, <2>4
      <3>2. events' = <<>> => Online(slots[i])'
        BY <3>1 DEF Online
      <3>3. Told(slots[i], cameraRows[i]) => Told(slots'[i], cameraRows'[i])
        BY <2>4, Zenon
      <3>4. Built(slots'[i], cameraRows'[i])
        BY <2>1, <2>4, Zenon DEF SlotHolds
      <3> QED BY <2>1, <2>2, <2>4, <3>2, <3>3, <3>4, Zenon DEF SlotHolds
    <2> QED BY <2>3, <2>4
  <1> QED BY <1>3, <1>5, <1>6, <1>7, <1>8 DEF CamerasInv

LEMMA ArrivalSteps == ASSUME CamerasInv, Cameras!OnDeviceArrival PROVE CamerasInv'
  <1> USE CameraConstants
  <1>1. /\ phase = "up" /\ events # <<>> /\ Head(events) /\ events' = Tail(events)
        /\ UNCHANGED <<cameraRows, bySerial, phase, plugged, cameraReq>>
    BY DEF Cameras!OnDeviceArrival
  <1>2. CamerasTyped /\ \A i \in Ids : SlotHolds(i)
    BY <1>1 DEF CamerasInv
  <1>3. TRUE \in BOOLEAN /\ TRUE = Head(events)
    <2>1. Head(events) \in BOOLEAN
      <3>1. events \in Seq(BOOLEAN)
        BY <1>2 DEF CamerasTyped
      <3> QED BY <1>1, <3>1, HeadTailProperties
    <2> QED BY <1>1, <2>1
  <1>4. CASE bySerial = None \/ slots[bySerial] = None
    <2>1. UNCHANGED <<slots, gen>>
      BY <1>4, Zenon DEF Cameras!OnDeviceArrival
    <2>2. \A i \in Ids : slots[i] = None
      BY <1>2, <1>4 DEF SlotHolds
    <2>3. gen' \in Nat /\ slots' \in [Ids -> Cameras!Slot \cup {None}]
      BY <1>2, <2>1 DEF CamerasTyped
    <2> QED BY <1>1, <1>3, <2>1, <2>2, <2>3, EventHandled
  <1>5. CASE ~(bySerial = None \/ slots[bySerial] = None)
    <2>1. PICK i \in Ids : i = bySerial
      BY <1>2, <1>5 DEF CamerasTyped
    <2>2. PICK s \in Cameras!Slot : s = slots[i]
      BY <1>2, <1>5, <2>1 DEF CamerasTyped
    <2>3. PICK r \in Cameras!Row : r = cameraRows[i]
      BY <1>2, <2>2 DEF CamerasTyped, SlotHolds
    <2>4. PICK u \in Cameras!TryStart(s, i) : Cameras!Put(i, u)
      BY <1>5, <2>1, <2>2, Zenon DEF Cameras!OnDeviceArrival
    <2>5. gen \in Nat /\ plugged \in BOOLEAN
      BY <1>2 DEF CamerasTyped
    <2>6. /\ u \in Cameras!Slot /\ u # None
          /\ Built(s, r) => Built(u, r)
          /\ Told(s, r) => Told(u, r)
          /\ u.orient = s.orient /\ (plugged => u.failed \/ u.run # None)
      BY <2>3, <2>4, <2>5, TryStartFollows
    <2>7. /\ slots' \in [Ids -> Cameras!Slot \cup {None}] /\ slots'[i] = u
          /\ \A j \in Ids : j # i => slots'[j] = slots[j]
          /\ gen' \in Nat
      BY <1>2, <2>4, <2>6, PutTyped
    <2>8. \A j \in Ids : slots[j] # None => j = i
      BY <1>2, <2>1 DEF SlotHolds
    <2>9. (TRUE <=> plugged) => Online(u)
      BY <2>6, Zenon DEF Online
    <2>10. \A j \in Ids : slots[j] = None => slots'[j] = None
      BY <2>2, <2>7
    <2>11. \A j \in Ids : slots[j] # None =>
           /\ slots'[j] # None
           /\ Built(slots[j], cameraRows[j]) => Built(slots'[j], cameraRows[j])
           /\ Told(slots[j], cameraRows[j]) => Told(slots'[j], cameraRows[j])
           /\ slots'[j].orient = slots[j].orient
           /\ (TRUE <=> plugged) => Online(slots'[j])
      BY <2>2, <2>3, <2>6, <2>7, <2>8, <2>9, Zenon
    <2> QED BY <1>1, <1>3, <2>7, <2>10, <2>11, EventHandled
  <1> QED BY <1>4, <1>5

LEMMA RemovalSteps == ASSUME CamerasInv, Cameras!OnDeviceRemoval PROVE CamerasInv'
  <1> USE CameraConstants
  <1>1. /\ phase = "up" /\ events # <<>> /\ ~Head(events) /\ events' = Tail(events)
        /\ UNCHANGED <<cameraRows, bySerial, phase, plugged, cameraReq, gen>>
    BY DEF Cameras!OnDeviceRemoval
  <1>2. CamerasTyped /\ (\A i \in Ids : SlotHolds(i)) /\ gen' \in Nat
    BY <1>1 DEF CamerasInv, CamerasTyped
  <1>3. FALSE \in BOOLEAN /\ FALSE = Head(events)
    <2>1. Head(events) \in BOOLEAN
      <3>1. events \in Seq(BOOLEAN)
        BY <1>2 DEF CamerasTyped
      <3> QED BY <1>1, <3>1, HeadTailProperties
    <2> QED BY <1>1, <2>1
  <1>4. CASE bySerial = None \/ slots[bySerial] = None
    <2>1. UNCHANGED slots
      BY <1>4, Zenon DEF Cameras!OnDeviceRemoval
    <2>2. \A i \in Ids : slots[i] = None
      BY <1>2, <1>4 DEF SlotHolds
    <2>3. slots' \in [Ids -> Cameras!Slot \cup {None}]
      BY <1>2, <2>1 DEF CamerasTyped
    <2> QED BY <1>1, <1>2, <1>3, <2>1, <2>2, <2>3, EventHandled
  <1>5. CASE ~(bySerial = None \/ slots[bySerial] = None)
    <2>1. PICK i \in Ids : i = bySerial
      BY <1>2, <1>5 DEF CamerasTyped
    <2>2. PICK s \in Cameras!Slot : s = slots[i]
      BY <1>2, <1>5, <2>1 DEF CamerasTyped
    <2>3. PICK u : u = Cameras!Stopped(s)
      OBVIOUS
    <2>4. slots' = [slots EXCEPT ![i] = u]
      BY <1>5, <2>1, <2>2, <2>3 DEF Cameras!OnDeviceRemoval
    <2>5. PICK r : r = cameraRows[i]
      OBVIOUS
    <2>6. /\ u \in Cameras!Slot /\ Built(u, r) /\ u.cfg = s.cfg /\ u.orient = s.orient
          /\ u.run = None
      BY <2>3, StoppedFollows
    <2>7. /\ slots' \in [Ids -> Cameras!Slot \cup {None}] /\ slots'[i] = u
          /\ \A j \in Ids : j # i => slots'[j] = slots[j]
      BY <1>2, <2>4, <2>6 DEF CamerasTyped
    <2>8. \A j \in Ids : slots[j] # None => j = i
      BY <1>2, <2>1 DEF SlotHolds
    <2>9. u # None /\ (Told(s, r) => Told(u, r)) /\ ((FALSE <=> plugged) => Online(u))
      BY <2>6 DEF Told, Online
    <2>10. \A j \in Ids : slots[j] = None => slots'[j] = None
      BY <2>2, <2>7
    <2>11. \A j \in Ids : slots[j] # None =>
           /\ slots'[j] # None
           /\ Built(slots[j], cameraRows[j]) => Built(slots'[j], cameraRows[j])
           /\ Told(slots[j], cameraRows[j]) => Told(slots'[j], cameraRows[j])
           /\ slots'[j].orient = slots[j].orient
           /\ (FALSE <=> plugged) => Online(slots'[j])
      BY <2>2, <2>5, <2>6, <2>7, <2>8, <2>9, Zenon
    <2> QED BY <1>1, <1>2, <1>3, <2>7, <2>10, <2>11, EventHandled
  <1> QED BY <1>4, <1>5

-----------------------------------------------------------------------------
\* POST creates the row ...
LEMMA PostSteps ==
  ASSUME CamerasInv, NEW c \in CameraClients, Cameras!Post(c) PROVE CamerasInv'
  <1> USE CameraConstants
  <1>1. PICK i \in Ids : i = nextId
    BY DEF Cameras!Post
  <1>2. PICK q : q = [at |-> "role", id |-> i, patch |-> None]
    OBVIOUS
  <1>3. PICK r : r = [cfg |-> 1, gain |-> 1, orient |-> 0, stamp |-> 0]
    OBVIOUS
  <1>4. /\ \A j \in Ids : cameraRows[j] = None
        /\ phase = "up" /\ cameraReq' = [cameraReq EXCEPT ![c] = q]
        /\ cameraRows' = [cameraRows EXCEPT ![i] = r]
        /\ UNCHANGED <<slots, bySerial, phase, plugged, events, gen>>
    BY <1>1, <1>2, <1>3 DEF Cameras!Post, Cameras!Begin
  <1>5. /\ CamerasTyped /\ (\A d \in Cameras!Callers : RequestHolds(d))
        /\ c \in Cameras!Callers /\ \A j \in Ids : SlotHolds(j)
    BY <1>4 DEF CamerasInv, Cameras!Callers
  <1>6. q \in CameraRequests /\ q.at = "role" /\ q.id = i /\ r \in Cameras!Row
    BY <1>2, <1>3 DEF CameraRequests, Steps, Cameras!Row
  <1>7. /\ cameraReq' \in [Cameras!Callers -> CameraRequests] /\ cameraReq'[c] = q
        /\ \A d \in Cameras!Callers : RequestHolds(d)'
    BY <1>4, <1>5, <1>6, RequestMoves
  <1>8. /\ cameraRows' \in [Ids -> Cameras!Row \cup {None}]
        /\ cameraRows'[i] = r /\ \A j \in Ids : j # i => cameraRows'[j] = None
    BY <1>4, <1>5, <1>6 DEF CamerasTyped
  <1>9. CamerasTyped'
    BY <1>4, <1>5, <1>7, <1>8 DEF CamerasTyped
  <1>10. OneRow'
    BY <1>8 DEF OneRow
  <1>11. \A j \in Ids : slots'[j] = None
    BY <1>4, <1>5 DEF SlotHolds
  <1>12. ASSUME NEW j \in Ids PROVE SlotHolds(j)'
    <2>1. CASE j # i
      BY <1>8, <1>11, <2>1, NothingHolds
    <2>2. CASE j = i
      <3>1. Moving(i)'
        BY <1>6, <1>7 DEF Moving
      <3> QED BY <1>11, <2>2, <3>1 DEF SlotHolds
    <2> QED BY <2>1, <2>2
  <1>13. events' # <<>> => events'[Len(events')] = plugged'
    BY <1>4 DEF CamerasInv
  <1> QED BY <1>4, <1>7, <1>9, <1>10, <1>12, <1>13, UpHolds

\* ... writes its role ...
LEMMA PostRoleSteps ==
  ASSUME CamerasInv, NEW c \in CameraClients, Cameras!PostRole(c) PROVE CamerasInv'
  <1> USE CameraConstants
  <1>1. PICK i : i = cameraReq[c].id
    OBVIOUS
  <1>2. PICK q : q = [cameraReq[c] EXCEPT !.at = "added"]
    OBVIOUS
  <1>3. /\ phase = "up" /\ cameraReq[c].at = "role"
        /\ cameraReq' = [cameraReq EXCEPT ![c].at = "added"]
        /\ UNCHANGED <<slots, bySerial, phase, plugged, events, gen>>
        /\ \/ UNCHANGED cameraRows
           \/ /\ cameraRows[i] # None
              /\ cameraRows' = [cameraRows EXCEPT ![i].stamp = 1, ![i].orient = 180]
    BY <1>1 DEF Cameras!PostRole, Cameras!At, Cameras!Goto
  <1>4. /\ CamerasTyped /\ (\A d \in Cameras!Callers : RequestHolds(d)) /\ OneRow
        /\ c \in Cameras!Callers /\ \A j \in Ids : SlotHolds(j)
    BY <1>3 DEF CamerasInv, Cameras!Callers
  <1>5. i \in Ids /\ Moving(i) /\ cameraReq[c] \in CameraRequests
    BY <1>1, <1>3, <1>4 DEF RequestHolds, Moving, CamerasTyped
  <1>6. q \in CameraRequests /\ q.at = "added" /\ q.id = i
    BY <1>1, <1>2, <1>5 DEF CameraRequests, Steps
  <1>7. cameraReq' = [cameraReq EXCEPT ![c] = q]
    BY <1>2, <1>3
  <1>8. /\ cameraReq' \in [Cameras!Callers -> CameraRequests] /\ cameraReq'[c] = q
        /\ \A d \in Cameras!Callers : d # c => cameraReq'[d] = cameraReq[d]
        /\ \A d \in Cameras!Callers : RequestHolds(d)'
    BY <1>4, <1>5, <1>6, <1>7, RequestMoves
  <1>9. /\ cameraRows' \in [Ids -> Cameras!Row \cup {None}]
        /\ \A j \in Ids : cameraRows'[j] = None <=> cameraRows[j] = None
        /\ \A j \in Ids : j # i => cameraRows'[j] = cameraRows[j]
    <2>1. CASE UNCHANGED cameraRows
      BY <1>4, <2>1 DEF CamerasTyped
    <2>2. CASE /\ cameraRows[i] # None
               /\ cameraRows' = [cameraRows EXCEPT ![i].stamp = 1, ![i].orient = 180]
      <3>1. PICK r \in Cameras!Row : r = cameraRows[i]
        BY <1>4, <1>5, <2>2 DEF CamerasTyped
      <3>2. PICK v : v = [r EXCEPT !.stamp = 1, !.orient = 180]
        OBVIOUS
      <3>3. v \in Cameras!Row
        <4>1. 1 \in Nat
          OBVIOUS
        <4> QED BY <3>1, <3>2, <4>1, ZenonT(30) DEF Cameras!Row
      <3>4. cameraRows' = [cameraRows EXCEPT ![i] = v]
        BY <1>4, <1>5, <2>2, <3>1, <3>2 DEF CamerasTyped
      <3>5. cameraRows' \in [Ids -> Cameras!Row \cup {None}] /\ cameraRows'[i] = v
        BY <1>4, <1>5, <3>3, <3>4 DEF CamerasTyped
      <3>6. \A j \in Ids : j # i => cameraRows'[j] = cameraRows[j]
        BY <1>4, <1>5, <3>4 DEF CamerasTyped
      <3>7. v # None
        BY <3>3
      <3> QED BY <2>2, <3>5, <3>6, <3>7, Zenon
    <2> QED BY <1>3, <2>1, <2>2
  <1>10. CamerasTyped'
    BY <1>3, <1>4, <1>8, <1>9 DEF CamerasTyped
  <1>11. OneRow'
    BY <1>4, <1>9 DEF OneRow
  <1>12. slots[i] = None /\ Moving(i)'
    BY <1>4, <1>5, <1>6, <1>8, Zenon DEF SlotHolds, Moving
  <1>13. ASSUME NEW j \in Ids PROVE SlotHolds(j)'
    <2>1. CASE j = i
      BY <1>3, <1>12, <2>1 DEF SlotHolds
    <2>2. CASE j # i
      <3>1. SlotHolds(j)
        BY <1>4
      <3>2. (Moving(j)' <=> Moving(j)) /\ (Pending(j)' <=> Pending(j)) /\ (Turning(j)' <=> Turning(j))
        <4>1. \A d \in Cameras!Callers :
                \/ cameraReq'[d] = cameraReq[d]
                \/ /\ d = c /\ cameraReq[d].id = i /\ cameraReq'[d].id = i
                   /\ cameraReq[d].at # "updated" /\ cameraReq'[d].at # "updated"
          BY <1>1, <1>3, <1>6, <1>8
        <4>2. \A d \in CameraClients : d \in Cameras!Callers
          BY DEF Cameras!Callers
        <4>3. Moving(j)' <=> Moving(j)
          BY <2>2, <4>1, <4>2 DEF Moving
        <4>4. Pending(j)' <=> Pending(j)
          BY <2>2, <4>1, Zenon DEF Pending
        <4>5. Turning(j)' <=> Turning(j)
          BY <2>2, <4>1, <4>2, Zenon DEF Turning
        <4> QED BY <4>3, <4>4, <4>5
      <3>3. cameraRows'[j] = cameraRows[j]
        BY <1>9, <2>2
      <3> QED BY <1>3, <3>1, <3>2, <3>3 DEF SlotHolds, Online
    <2> QED BY <2>1, <2>2
  <1>14. events' # <<>> => events'[Len(events')] = plugged'
    BY <1>3 DEF CamerasInv
  <1> QED BY <1>3, <1>8, <1>10, <1>11, <1>13, <1>14, UpHolds

\* ... and makes a slot of it.
LEMMA AddedSteps ==
  ASSUME CamerasInv, OneCameraClient, NEW c \in CameraClients, Cameras!OnCameraAdded(c)
  PROVE  CamerasInv'
  <1> USE CameraConstants
  <1>1. PICK i : i = cameraReq[c].id
    OBVIOUS
  <1>2. PICK q : q = Cameras!Idle
    OBVIOUS
  <1>3. /\ phase = "up" /\ cameraReq[c].at = "added"
        /\ cameraReq' = [cameraReq EXCEPT ![c] = q]
        /\ UNCHANGED <<cameraRows, phase, plugged, events>>
    BY <1>2 DEF Cameras!OnCameraAdded, Cameras!At, Cameras!Done
  <1>4. /\ CamerasTyped /\ (\A d \in Cameras!Callers : RequestHolds(d)) /\ OneRow
        /\ c \in Cameras!Callers /\ \A j \in Ids : SlotHolds(j)
    BY <1>3 DEF CamerasInv, Cameras!Callers
  <1>5. i \in Ids /\ Moving(i) /\ slots[i] = None
    BY <1>1, <1>3, <1>4 DEF RequestHolds, Moving, SlotHolds
  <1>6. q \in CameraRequests /\ q.at = "idle"
    BY <1>2, IdleRequest
  <1>7. /\ cameraReq' \in [Cameras!Callers -> CameraRequests] /\ cameraReq'[c] = q
        /\ \A d \in Cameras!Callers : RequestHolds(d)'
    BY <1>3, <1>4, <1>6, RequestMoves
  <1>8. \A j : (Moving(j) => j = i) /\ ~Moving(j)'
    BY <1>1, <1>6, <1>7, OneMoves, Zenon
  <1>9. OneRow'
    BY <1>3, <1>4 DEF OneRow
  <1>10. events' # <<>> => events'[Len(events')] = plugged'
    BY <1>3 DEF CamerasInv
  <1>11. CASE cameraRows[i] = None
    <2>1. UNCHANGED <<slots, bySerial, gen>>
      BY <1>1, <1>11, Zenon DEF Cameras!OnCameraAdded
    <2>2. CamerasTyped'
      BY <1>3, <1>4, <1>7, <2>1 DEF CamerasTyped
    <2>3. ASSUME NEW j \in Ids PROVE SlotHolds(j)'
      <3>1. SlotHolds(j) /\ (j = i => cameraRows[j] = None) /\ (j # i => ~Moving(j))
        BY <1>4, <1>8, <1>11
      <3>2. (Pending(j)' <=> Pending(j)) /\ (Turning(j)' <=> Turning(j))
        <4>1. \A d \in Cameras!Callers : d # c => cameraReq'[d] = cameraReq[d]
          BY <1>3, <1>4 DEF CamerasTyped
        <4>2. cameraReq[c].at # "updated" /\ cameraReq'[c].at # "updated"
          BY <1>3, <1>6, <1>7
        <4> QED BY <4>1, <4>2, Zenon DEF Pending, Turning, Cameras!Callers
      <3> QED BY <1>3, <1>8, <2>1, <3>1, <3>2 DEF SlotHolds, Online
    <2> QED BY <1>3, <1>7, <1>9, <1>10, <2>2, <2>3, UpHolds
  <1>12. CASE cameraRows[i] # None
    <2>1. PICK r \in Cameras!Row : r = cameraRows[i]
      BY <1>4, <1>5, <1>12 DEF CamerasTyped
    <2>2. PICK s : s = Cameras!NewSlot(r)
      OBVIOUS
    <2>3. PICK u \in Cameras!TryStart(s, i) : Cameras!Put(i, u) /\ bySerial' = i
      BY <1>1, <1>5, <1>12, <2>1, <2>2, Zenon DEF Cameras!OnCameraAdded
    <2>4. /\ s \in Cameras!Slot /\ Built(s, r) /\ Told(s, r) /\ s.orient = r.orient
          /\ s.run = None
      BY <2>2, NewSlotFollows
    <2>5. gen \in Nat /\ plugged \in BOOLEAN
      BY <1>4 DEF CamerasTyped
    <2>6. /\ u \in Cameras!Slot /\ u # None /\ Built(u, r) /\ Told(u, r)
          /\ u.orient = r.orient /\ Online(u)
      BY <1>5, <2>1, <2>3, <2>4, <2>5, TryStartFollows DEF Online
    <2>7. /\ slots' \in [Ids -> Cameras!Slot \cup {None}] /\ slots'[i] = u
          /\ \A j \in Ids : j # i => slots'[j] = slots[j]
          /\ gen' \in Nat
      BY <1>4, <1>5, <2>3, <2>6, PutTyped
    <2>8. CamerasTyped'
      BY <1>3, <1>4, <1>5, <1>7, <2>3, <2>7 DEF CamerasTyped
    <2>9. ASSUME NEW j \in Ids PROVE SlotHolds(j)'
      <3>1. CASE j # i
        <4>1. cameraRows[j] = None /\ slots[j] = None
          BY <1>3, <1>5, <1>12, <3>1, OthersNone
        <4> QED BY <1>3, <2>7, <3>1, <4>1, NothingHolds
      <3>2. CASE j = i
        <4>1. Online(u)'
          BY <1>3, <2>6 DEF Online
        <4> QED BY <1>3, <1>8, <2>1, <2>3, <2>6, <2>7, <3>2, <4>1, Zenon DEF SlotHolds
      <3> QED BY <3>1, <3>2
    <2> QED BY <1>3, <1>7, <1>9, <1>10, <2>8, <2>9, UpHolds
  <1> QED BY <1>11, <1>12

-----------------------------------------------------------------------------
\* A request of any caller begins, or moves on without a step of the supervisor, over the
\* row of another request or of none.
LEMMA QuietMoves ==
  ASSUME CamerasInv, OneCameraClient, phase = "up", NEW c \in Cameras!Callers,
         NEW q \in CameraRequests, cameraReq' = [cameraReq EXCEPT ![c] = q],
         cameraReq[c].at \in {"idle", "apply", "write"},
         q.at \in {"idle", "apply", "write"},
         q.at # "idle" => q.id \in Ids,
         q.at \in {"apply", "write"} => q.patch \in Cameras!Patch,
         q.at = "apply" => q.patch.gain # None,
         c \notin CameraClients =>
            /\ q.at \in {"idle", "write", "updated"}
            /\ q.at = "write" => q.patch.orient = None,
         UNCHANGED <<cameraRows, bySerial, phase, plugged, events, gen>>,
         slots' \in [Ids -> Cameras!Slot \cup {None}],
         \A i \in Ids : slots[i] = None => slots'[i] = None,
         \A i \in Ids : slots[i] # None =>
           /\ slots'[i] # None
           /\ slots'[i].run = slots[i].run /\ slots'[i].cfg = slots[i].cfg
           /\ slots'[i].ext = slots[i].ext /\ slots'[i].stamp = slots[i].stamp
           /\ slots'[i].orient = slots[i].orient /\ slots'[i].failed = slots[i].failed
  PROVE  CamerasInv'
  <1>1. /\ CamerasTyped /\ (\A d \in Cameras!Callers : RequestHolds(d)) /\ OneRow
        /\ \A j \in Ids : SlotHolds(j)
    BY DEF CamerasInv
  <1>2. /\ cameraReq' \in [Cameras!Callers -> CameraRequests] /\ cameraReq'[c] = q
        /\ \A d \in Cameras!Callers : d # c => cameraReq'[d] = cameraReq[d]
        /\ \A d \in Cameras!Callers : RequestHolds(d)'
    BY <1>1, RequestMoves
  <1>3. CamerasTyped'
    BY <1>1, <1>2 DEF CamerasTyped
  <1>4. OneRow'
    BY <1>1 DEF OneRow
  <1>5. ASSUME NEW j
        PROVE  (Moving(j)' <=> Moving(j)) /\ (Pending(j)' <=> Pending(j)) /\ (Turning(j)' <=> Turning(j))
    <2>1. \A d \in Cameras!Callers :
            \/ cameraReq'[d] = cameraReq[d]
            \/ /\ cameraReq[d].at \notin {"role", "added", "remove", "updated"}
               /\ cameraReq'[d].at \notin {"role", "added", "remove", "updated"}
      BY <1>2
    <2>2. \A d \in CameraClients : d \in Cameras!Callers
      BY DEF Cameras!Callers
    <2>3. Moving(j)' <=> Moving(j)
      BY <2>1, <2>2 DEF Moving
    <2>4. Pending(j)' <=> Pending(j)
      BY <2>1 DEF Pending
    <2>5. Turning(j)' <=> Turning(j)
      BY <2>1, <2>2 DEF Turning
    <2> QED BY <2>3, <2>4, <2>5
  <1>6. ASSUME NEW j \in Ids PROVE SlotHolds(j)'
    <2>1. SlotHolds(j)
      BY <1>1
    <2>2. CASE slots[j] = None
      BY <1>5, <2>1, <2>2, Zenon DEF SlotHolds
    <2>3. CASE slots[j] # None
      <3>1. /\ Built(slots[j], cameraRows[j]) => Built(slots'[j], cameraRows'[j])
            /\ Told(slots[j], cameraRows[j]) => Told(slots'[j], cameraRows'[j])
        BY <2>3 DEF Built, Told
      <3>2. Online(slots[j]) => Online(slots[j])'
        BY <2>3 DEF Online
      <3> QED BY <1>5, <2>1, <2>3, <3>1, <3>2, Zenon DEF SlotHolds
    <2> QED BY <2>2, <2>3
  <1>7. events' # <<>> => events'[Len(events')] = plugged'
    BY DEF CamerasInv
  <1> QED BY <1>2, <1>3, <1>4, <1>6, <1>7, UpHolds

\* PUT, or a job with a result, begins.
LEMMA UpdateSteps ==
  ASSUME CamerasInv, OneCameraClient, NEW c \in Cameras!Callers, Cameras!Update(c)
  PROVE  CamerasInv'
  <1> USE CameraConstants
  <1>1. PICK i \in Ids, p \in Patches[c], at \in {"apply", "write"} :
          /\ at = "apply" => p.gain # None
          /\ phase = "up" /\ cameraReq[c].at = "idle"
          /\ cameraReq' = [cameraReq EXCEPT ![c] = [at |-> at, id |-> i, patch |-> p]]
    <2>1. PICK i \in Ids, p \in Patches[c] :
            Cameras!Begin(c, i, IF p.gain # None /\ slots[i] # None /\ slots[i].run # None
                                THEN "apply" ELSE "write", p)
      BY DEF Cameras!Update
    <2>2. PICK at : at = IF p.gain # None /\ slots[i] # None /\ slots[i].run # None
                           THEN "apply" ELSE "write"
      OBVIOUS
    <2>3. at \in {"apply", "write"} /\ (at = "apply" => p.gain # None)
      BY <2>2
    <2> QED BY <2>1, <2>2, <2>3 DEF Cameras!Begin
  <1>2. UNCHANGED <<cameraRows, slots, bySerial, phase, plugged, events, gen>>
    BY DEF Cameras!Update
  <1>3. PICK q : q = [at |-> at, id |-> i, patch |-> p]
    OBVIOUS
  <1>4. p \in Cameras!Patch
    OBVIOUS
  <1>5. q \in CameraRequests /\ q.at = at /\ q.id = i /\ q.patch = p
    BY <1>3, <1>4 DEF CameraRequests, Steps
  <1>6. c \notin CameraClients => q.at = "write" /\ q.patch.orient = None
    BY <1>1, <1>5 DEF Cameras!Callers
  <1>7. slots' \in [Ids -> Cameras!Slot \cup {None}]
    BY <1>2 DEF CamerasInv, CamerasTyped
  <1> QED BY <1>1, <1>2, <1>3, <1>4, <1>5, <1>6, <1>7, QuietMoves

\* ... and applies settings to the camera.
LEMMA ApplySteps ==
  ASSUME CamerasInv, OneCameraClient, NEW c \in CameraClients, Cameras!ApplySettingsLive(c)
  PROVE  CamerasInv'
  <1> USE CameraConstants
  <1>1. PICK i : i = cameraReq[c].id
    OBVIOUS
  <1>2. PICK p : p = cameraReq[c].patch
    OBVIOUS
  <1>3. PICK g : g = Cameras!Clamp(p.gain)
    OBVIOUS
  <1>4. /\ phase = "up" /\ cameraReq[c].at = "apply"
        /\ UNCHANGED <<cameraRows, bySerial, phase, plugged, events, gen>>
        /\ \/ /\ cameraReq' = [cameraReq EXCEPT ![c] = Cameras!Idle]
              /\ UNCHANGED slots
           \/ /\ slots[i] # None
              /\ slots' = [slots EXCEPT ![i].gain = g, ![i].live = g]
              /\ cameraReq' = [cameraReq EXCEPT ![c].at = "write", ![c].patch.gain = g]
    BY <1>1, <1>2, <1>3 DEF Cameras!ApplySettingsLive, Cameras!At, Cameras!Done
  <1>5. /\ CamerasTyped /\ RequestHolds(c) /\ c \in Cameras!Callers
        /\ cameraReq[c] \in CameraRequests
    BY DEF CamerasInv, CamerasTyped, Cameras!Callers
  <1>6. i \in Ids /\ p \in Cameras!Patch /\ p.gain \in Nat
    <2>1. i \in Ids /\ p \in Cameras!Patch /\ p.gain # None
      BY <1>1, <1>2, <1>4, <1>5 DEF RequestHolds
    <2> QED BY <2>1 DEF Cameras!Patch
  <1>7. g \in Nat
    BY <1>3, <1>6 DEF Cameras!Clamp
  <1>8. CASE cameraReq' = [cameraReq EXCEPT ![c] = Cameras!Idle] /\ UNCHANGED slots
    <2>1. slots' \in [Ids -> Cameras!Slot \cup {None}]
      BY <1>5, <1>8 DEF CamerasTyped
    <2>2. PICK q \in CameraRequests : q = Cameras!Idle /\ q.at = "idle"
      BY IdleRequest
    <2> QED BY <1>4, <1>5, <1>8, <2>1, <2>2, QuietMoves
  <1>9. CASE /\ slots[i] # None
             /\ slots' = [slots EXCEPT ![i].gain = g, ![i].live = g]
             /\ cameraReq' = [cameraReq EXCEPT ![c].at = "write", ![c].patch.gain = g]
    <2>1. PICK s \in Cameras!Slot : s = slots[i]
      BY <1>5, <1>6, <1>9 DEF CamerasTyped
    <2>2. PICK u : u = [s EXCEPT !.gain = g, !.live = g]
      OBVIOUS
    <2>3. /\ u \in Cameras!Slot /\ u.run = s.run /\ u.cfg = s.cfg /\ u.ext = s.ext
          /\ u.stamp = s.stamp /\ u.orient = s.orient /\ u.failed = s.failed
      <3>1. u \in Cameras!Slot
        BY <1>7, <2>2, SlotChanges
      <3> QED BY <2>2, <3>1, SlotFields
    <2>4. slots' = [slots EXCEPT ![i] = u]
      BY <1>5, <1>6, <1>9, <2>1, <2>2 DEF CamerasTyped
    <2>5. /\ slots' \in [Ids -> Cameras!Slot \cup {None}] /\ slots'[i] = u
          /\ \A j \in Ids : j # i => slots'[j] = slots[j]
      BY <1>5, <1>6, <2>3, <2>4 DEF CamerasTyped
    <2>6. PICK w : w = [p EXCEPT !.gain = g]
      OBVIOUS
    <2>7. w \in Cameras!Patch
      BY <1>6, <1>7, <2>6 DEF Cameras!Patch
    <2>8. PICK q : q = [at |-> "write", id |-> i, patch |-> w]
      OBVIOUS
    <2>9. q \in CameraRequests /\ q.at = "write" /\ q.id = i /\ q.patch = w
      BY <1>6, <2>7, <2>8 DEF CameraRequests, Steps
    <2>10. cameraReq' = [cameraReq EXCEPT ![c] = q]
      <3>1. cameraReq \in [Cameras!Callers -> CameraRequests]
        BY <1>5 DEF CamerasTyped
      <3>2. /\ DOMAIN cameraReq' = Cameras!Callers
            /\ \A d \in Cameras!Callers : d # c => cameraReq'[d] = cameraReq[d]
        BY <1>9, <3>1
      <3>3. cameraReq'[c].at = "write"
        BY <1>5, <1>9, <3>1 DEF CameraRequests
      <3>4. cameraReq'[c].id = i
        BY <1>1, <1>5, <1>9, <3>1 DEF CameraRequests
      <3>5. cameraReq'[c].patch = w
        BY <1>2, <1>5, <1>9, <2>6, <3>1 DEF CameraRequests
      <3>6. DOMAIN cameraReq'[c] = {"at", "id", "patch"}
        BY <1>5, <1>9, <3>1 DEF CameraRequests
      <3>7. cameraReq'[c] = q
        <4>1. PICK m : m = cameraReq'[c]
          OBVIOUS
        <4>2. m = [at |-> m.at, id |-> m.id, patch |-> m.patch]
          BY <1>5, <1>9, <3>1, <3>6, <4>1
        <4> QED BY <2>8, <3>3, <3>4, <3>5, <4>1, <4>2, Zenon
      <3>8. PICK f : f = cameraReq'
        OBVIOUS
      <3>9. DOMAIN f = DOMAIN cameraReq /\ f = [d \in DOMAIN f |-> f[d]]
        BY <1>9, <3>8
      <3> QED BY <1>5, <3>1, <3>2, <3>7, <3>8, <3>9
    <2>11. \A j \in Ids : slots[j] = None => slots'[j] = None
      BY <1>9, <2>5
    <2>12. u # None
      BY <2>3
    <2>13. \A j \in Ids : slots[j] # None =>
           /\ slots'[j] # None
           /\ slots'[j].run = slots[j].run /\ slots'[j].cfg = slots[j].cfg
           /\ slots'[j].ext = slots[j].ext /\ slots'[j].stamp = slots[j].stamp
           /\ slots'[j].orient = slots[j].orient /\ slots'[j].failed = slots[j].failed
      BY <2>1, <2>3, <2>5, <2>12, Zenon
    <2> QED BY <1>4, <1>5, <1>6, <2>5, <2>7, <2>9, <2>10, <2>11, <2>13, QuietMoves
  <1> QED BY <1>4, <1>8, <1>9

\* update() writes the row, or refuses it.
LEMMA WriteSteps ==
  ASSUME CamerasInv, OneCameraClient, NEW c \in Cameras!Callers, Cameras!Write(c)
  PROVE  CamerasInv'
  <1> USE CameraConstants
  <1>1. PICK i : i = cameraReq[c].id
    OBVIOUS
  <1>2. PICK p : p = cameraReq[c].patch
    OBVIOUS
  <1>3. /\ phase = "up" /\ cameraReq[c].at = "write"
        /\ UNCHANGED <<slots, bySerial, phase, plugged, events, gen>>
        /\ \/ /\ cameraReq' = [cameraReq EXCEPT ![c] = Cameras!Idle]
              /\ UNCHANGED cameraRows
           \/ /\ cameraRows[i] # None
              /\ cameraReq' = [cameraReq EXCEPT ![c].at = "updated"]
              /\ cameraRows' = [cameraRows EXCEPT ![i] =
                    [f \in DOMAIN @ |-> IF p[f] = None THEN @[f] ELSE p[f]]]
    BY <1>1, <1>2, Zenon DEF Cameras!Write, Cameras!At, Cameras!Done, Cameras!Goto
  <1>4. /\ CamerasTyped /\ (\A d \in Cameras!Callers : RequestHolds(d)) /\ OneRow
        /\ \A j \in Ids : SlotHolds(j)
    BY <1>3 DEF CamerasInv
  <1>5. i \in Ids /\ p \in Cameras!Patch /\ cameraReq[c] \in CameraRequests
    BY <1>1, <1>2, <1>3, <1>4 DEF RequestHolds, CamerasTyped
  <1>6. CASE cameraReq' = [cameraReq EXCEPT ![c] = Cameras!Idle] /\ UNCHANGED cameraRows
    <2>1. slots' \in [Ids -> Cameras!Slot \cup {None}]
      BY <1>3, <1>4 DEF CamerasTyped
    <2>2. PICK q \in CameraRequests : q = Cameras!Idle /\ q.at = "idle"
      BY IdleRequest
    <2> QED BY <1>3, <1>6, <2>1, <2>2, QuietMoves
  <1>7. CASE /\ cameraRows[i] # None
             /\ cameraReq' = [cameraReq EXCEPT ![c].at = "updated"]
             /\ cameraRows' = [cameraRows EXCEPT ![i] =
                    [f \in DOMAIN @ |-> IF p[f] = None THEN @[f] ELSE p[f]]]
    <2>1. PICK r \in Cameras!Row : r = cameraRows[i]
      BY <1>4, <1>5, <1>7 DEF CamerasTyped
    <2>2. PICK v : v = [f \in DOMAIN r |-> IF p[f] = None THEN r[f] ELSE p[f]]
      OBVIOUS
    <2>3. v \in Cameras!Row /\ v # None /\ (p.orient = None => v.orient = r.orient)
      <3>1. DOMAIN r = {"cfg", "gain", "orient", "stamp"}
        BY RowFields
      <3>2. v = [cfg |-> v.cfg, gain |-> v.gain, orient |-> v.orient, stamp |-> v.stamp]
        BY <2>2, <3>1
      <3>3. v \in Cameras!Row
        BY <1>5, <2>2, <3>1, <3>2 DEF Cameras!Row, Cameras!Patch
      <3>4. v.orient = IF p.orient = None THEN r.orient ELSE p.orient
        BY <2>2, <3>1
      <3> QED BY <3>3, <3>4
    <2>4. /\ cameraRows' \in [Ids -> Cameras!Row \cup {None}] /\ cameraRows'[i] = v
          /\ \A j \in Ids : j # i => cameraRows'[j] = cameraRows[j]
      <3>1. cameraRows' = [cameraRows EXCEPT ![i] = v]
        BY <1>4, <1>5, <1>7, <2>1, <2>2 DEF CamerasTyped
      <3> QED BY <1>4, <1>5, <2>3, <3>1 DEF CamerasTyped
    <2>5. PICK q : q = [cameraReq[c] EXCEPT !.at = "updated"]
      OBVIOUS
    <2>6. q \in CameraRequests /\ q.at = "updated" /\ q.id = i
      BY <1>1, <1>5, <2>5 DEF CameraRequests, Steps
    <2>7. cameraReq' = [cameraReq EXCEPT ![c] = q]
      BY <1>7, <2>5
    <2>8. /\ cameraReq' \in [Cameras!Callers -> CameraRequests] /\ cameraReq'[c] = q
          /\ \A d \in Cameras!Callers : d # c => cameraReq'[d] = cameraReq[d]
          /\ \A d \in Cameras!Callers : RequestHolds(d)'
      BY <1>4, <1>5, <2>6, <2>7, RequestMoves
    <2>9. CamerasTyped'
      BY <1>3, <1>4, <2>4, <2>8 DEF CamerasTyped
    <2>10. \A j \in Ids : j # i => cameraRows'[j] = None /\ slots'[j] = None
      BY <1>3, <1>5, <1>7, <2>4, OthersNone
    <2>11. OneRow'
      BY <2>10 DEF OneRow
    <2>12. events' # <<>> => events'[Len(events')] = plugged'
      BY <1>3 DEF CamerasInv
    <2>13. Pending(i)'
      BY <2>6, <2>8 DEF Pending
    <2>14. Moving(i)' <=> Moving(i)
      <3>1. \A d \in CameraClients : d \in Cameras!Callers
        BY DEF Cameras!Callers
      <3>2. /\ cameraReq[c].at \notin {"role", "added", "remove"}
            /\ cameraReq'[c].at \notin {"role", "added", "remove"}
        BY <1>3, <2>6, <2>8
      <3> QED BY <2>8, <3>1, <3>2 DEF Moving
    <2>15. SlotHolds(i)'
      <3>1. SlotHolds(i)
        BY <1>4, <1>5
      <3>2. CASE slots[i] = None
        BY <1>3, <1>7, <2>14, <3>1, <3>2 DEF SlotHolds
      <3>3. CASE slots[i] # None
        <4>1. PICK s \in Cameras!Slot : s = slots[i]
          BY <1>4, <1>5, <3>3 DEF CamerasTyped
        <4>2. /\ Built(s, r) /\ (Turning(i) \/ s.orient = r.orient)
              /\ bySerial = i /\ ~Moving(i)
              /\ events = <<>> => Online(s)
          BY <2>1, <3>1, <3>3, <4>1, Zenon DEF SlotHolds
        <4>3. CASE c \in CameraClients
          <5>1. ~Turning(i) /\ Turning(i)'
            BY <1>3, <2>6, <2>8, <4>3, OneMoves
          <5>2. Built(s, v)
            BY <4>2, <5>1 DEF Built
          <5>3. Built(slots'[i], cameraRows'[i])
            BY <1>3, <2>4, <4>1, <5>2
          <5>4. (events = <<>> => Online(s))'
            BY <1>3, <4>2 DEF Online
          <5>5. slots'[i] = s
            BY <1>3, <4>1
          <5> QED BY <1>3, <2>3, <2>4, <2>13, <2>14, <4>2, <5>1, <5>3, <5>4, <5>5, Zenon
                  DEF SlotHolds
        <4>4. CASE c \notin CameraClients
          <5>1. v.orient = r.orient
            BY <1>2, <1>3, <1>4, <2>3, <4>4 DEF RequestHolds
          <5>2. Built(s, v) /\ (Turning(i) \/ s.orient = v.orient)
            BY <4>2, <5>1 DEF Built
          <5>3. Turning(i)' <=> Turning(i)
            BY <2>8, <4>4, JobMoves
          <5>4. (events = <<>> => Online(s))'
            BY <1>3, <4>2 DEF Online
          <5>5. slots'[i] = s
            BY <1>3, <4>1
          <5> QED BY <1>3, <2>3, <2>4, <2>13, <2>14, <4>2, <5>2, <5>3, <5>4, <5>5, Zenon
                  DEF SlotHolds
        <4> QED BY <4>3, <4>4
      <3> QED BY <3>2, <3>3
    <2>16. \A j \in Ids : SlotHolds(j)'
      BY <2>10, <2>15, NothingHolds
    <2> QED BY <1>3, <2>8, <2>9, <2>11, <2>12, <2>16, UpHolds
  <1> QED BY <1>3, <1>6, <1>7

\* on_camera_updated()
LEMMA UpdatedSteps ==
  ASSUME CamerasInv, OneCameraClient, NEW c \in Cameras!Callers, Cameras!OnCameraUpdated(c)
  PROVE  CamerasInv'
  <1> USE CameraConstants
  <1>1. PICK i : i = cameraReq[c].id
    OBVIOUS
  <1>2. PICK q : q = Cameras!Idle
    OBVIOUS
  <1>3. /\ phase = "up" /\ cameraReq[c].at = "updated"
        /\ cameraReq' = [cameraReq EXCEPT ![c] = q]
        /\ UNCHANGED <<cameraRows, bySerial, phase, plugged, events>>
    BY <1>2 DEF Cameras!OnCameraUpdated, Cameras!At, Cameras!Done
  <1>4. /\ CamerasTyped /\ (\A d \in Cameras!Callers : RequestHolds(d)) /\ OneRow
        /\ \A j \in Ids : SlotHolds(j)
    BY <1>3 DEF CamerasInv
  <1>5. i \in Ids
    BY <1>1, <1>3, <1>4 DEF RequestHolds
  <1>6. q \in CameraRequests /\ q.at = "idle"
    BY <1>2, IdleRequest
  <1>7. /\ cameraReq' \in [Cameras!Callers -> CameraRequests] /\ cameraReq'[c] = q
        /\ \A d \in Cameras!Callers : d # c => cameraReq'[d] = cameraReq[d]
        /\ \A d \in Cameras!Callers : RequestHolds(d)'
    BY <1>3, <1>4, <1>6, RequestMoves
  <1>8. OneRow'
    BY <1>3, <1>4 DEF OneRow
  <1>9. events' # <<>> => events'[Len(events')] = plugged'
    BY <1>3 DEF CamerasInv
  <1>10. \A j : Moving(j)' <=> Moving(j)
    <2>1. \A d \in CameraClients : d \in Cameras!Callers
      BY DEF Cameras!Callers
    <2>2. /\ cameraReq[c].at \notin {"role", "added", "remove"}
          /\ cameraReq'[c].at \notin {"role", "added", "remove"}
      BY <1>3, <1>6, <1>7
    <2> QED BY <1>7, <2>1, <2>2 DEF Moving
  <1>11. CASE slots[i] = None \/ cameraRows[i] = None
    <2>1. UNCHANGED <<slots, gen>>
      BY <1>1, <1>11, Zenon DEF Cameras!OnCameraUpdated
    <2>2. CamerasTyped'
      BY <1>3, <1>4, <1>7, <2>1 DEF CamerasTyped
    <2>3. slots[i] = None
      BY <1>4, <1>5, <1>11 DEF SlotHolds
    <2>4. ASSUME NEW j \in Ids PROVE SlotHolds(j)'
      <3>1. SlotHolds(j)
        BY <1>4
      <3>2. CASE slots[j] = None
        BY <1>3, <1>10, <2>1, <3>1, <3>2 DEF SlotHolds
      <3>3. CASE slots[j] # None
        <4>1. j # i
          BY <2>3, <3>3
        <4>2. Pending(j)' <=> Pending(j)
          BY <1>1, <1>6, <1>7, <4>1 DEF Pending
        <4>3. Turning(j)' <=> Turning(j)
          <5>1. \A d \in CameraClients : d \in Cameras!Callers
            BY DEF Cameras!Callers
          <5> QED BY <1>1, <1>6, <1>7, <4>1, <5>1 DEF Turning
        <4>4. Online(slots[j]) => Online(slots[j])'
          BY <1>3, <2>1 DEF Online
        <4> QED BY <1>3, <1>10, <2>1, <3>1, <3>3, <4>2, <4>3, <4>4, Zenon DEF SlotHolds
      <3> QED BY <3>2, <3>3
    <2> QED BY <1>3, <1>7, <1>8, <1>9, <2>2, <2>4, UpHolds
  <1>12. CASE slots[i] # None /\ cameraRows[i] # None
    <2>1. PICK s \in Cameras!Slot, r \in Cameras!Row : s = slots[i] /\ r = cameraRows[i]
      BY <1>4, <1>5, <1>12 DEF CamerasTyped
    <2>2. PICK u : UpdatedTo(u, s, r, i) /\ Cameras!Put(i, u)
      <3>1. CASE r.cfg = s.cfg
        <4>1. Cameras!Put(i, IF r.stamp # s.stamp \/ r.orient # s.orient
                               THEN Cameras!StartExtra([Changed(s, r) EXCEPT !.ext = None], i)
                               ELSE Changed(s, r))
          BY <1>1, <1>12, <2>1, <3>1, Zenon DEF Cameras!OnCameraUpdated, Changed
        <4> QED BY <3>1, <4>1, Zenon DEF UpdatedTo
      <3>2. CASE r.cfg # s.cfg /\ s.run = None
        <4>1. Cameras!Put(i, Changed(s, r))
          BY <1>1, <1>12, <2>1, <3>2, Zenon DEF Cameras!OnCameraUpdated, Changed
        <4> QED BY <3>2, <4>1, Zenon DEF UpdatedTo
      <3>3. CASE r.cfg # s.cfg /\ s.run # None
        <4>1. \E u \in Cameras!TryStart(Cameras!Stopped(Changed(s, r)), i) : Cameras!Put(i, u)
          BY <1>1, <1>12, <2>1, <3>3, Zenon DEF Cameras!OnCameraUpdated, Changed
        <4> QED BY <3>3, <4>1, Zenon DEF UpdatedTo
      <3> QED BY <3>1, <3>2, <3>3
    <2>3. /\ gen \in Nat /\ plugged \in BOOLEAN
          /\ Built(s, r) /\ bySerial = i /\ ~Moving(i) /\ (events = <<>> => Online(s))
      <3>1. SlotHolds(i)
        BY <1>4, <1>5
      <3> QED BY <1>4, <1>12, <2>1, <3>1, Zenon DEF SlotHolds, CamerasTyped
    <2>4. /\ u \in Cameras!Slot /\ Built(u, r) /\ Told(u, r) /\ u.orient = r.orient
          /\ Online(s) => Online(u)
      BY <1>5, <2>1, <2>2, <2>3, UpdateFollows
    <2>5. /\ slots' \in [Ids -> Cameras!Slot \cup {None}] /\ slots'[i] = u
          /\ \A j \in Ids : j # i => slots'[j] = slots[j]
          /\ gen' \in Nat
      BY <1>4, <1>5, <2>2, <2>4, PutTyped
    <2>6. CamerasTyped'
      BY <1>3, <1>4, <1>7, <2>5 DEF CamerasTyped
    <2>7. ASSUME NEW j \in Ids PROVE SlotHolds(j)'
      <3>1. CASE j # i
        <4>1. cameraRows[j] = None /\ slots[j] = None
          BY <1>3, <1>5, <1>12, <3>1, OthersNone
        <4> QED BY <1>3, <2>5, <3>1, <4>1, NothingHolds
      <3>2. CASE j = i
        <4>1. Online(u) => Online(u)'
          BY <1>3 DEF Online
        <4>2. u # None
          BY <2>4
        <4> QED BY <1>3, <1>10, <1>12, <2>1, <2>3, <2>4, <2>5, <3>2, <4>1, <4>2, Zenon DEF SlotHolds
      <3> QED BY <3>1, <3>2
    <2> QED BY <1>3, <1>7, <1>8, <1>9, <2>6, <2>7, UpHolds
  <1> QED BY <1>11, <1>12

\* DELETE: the slot goes ...
LEMMA RemovedSteps ==
  ASSUME CamerasInv, OneCameraClient, NEW c \in CameraClients, Cameras!OnCameraRemoved(c)
  PROVE  CamerasInv'
  <1> USE CameraConstants
  <1>1. PICK i \in Ids :
          /\ cameraRows[i] # None
          /\ Cameras!Begin(c, i, "remove", None)
          /\ slots' = [slots EXCEPT ![i] = None]
          /\ bySerial' = IF slots[i] = None THEN bySerial ELSE None
    BY Zenon DEF Cameras!OnCameraRemoved
  <1>2. PICK q : q = [at |-> "remove", id |-> i, patch |-> None]
    OBVIOUS
  <1>3. /\ phase = "up" /\ cameraReq[c].at = "idle"
        /\ cameraReq' = [cameraReq EXCEPT ![c] = q]
        /\ UNCHANGED <<cameraRows, phase, plugged, events, gen>>
    BY <1>1, <1>2 DEF Cameras!OnCameraRemoved, Cameras!Begin
  <1>4. /\ CamerasTyped /\ (\A d \in Cameras!Callers : RequestHolds(d)) /\ OneRow
        /\ c \in Cameras!Callers /\ \A j \in Ids : SlotHolds(j)
    BY <1>3 DEF CamerasInv, Cameras!Callers
  <1>5. q \in CameraRequests /\ q.at = "remove" /\ q.id = i
    BY <1>2 DEF CameraRequests, Steps
  <1>6. /\ cameraReq' \in [Cameras!Callers -> CameraRequests] /\ cameraReq'[c] = q
        /\ \A d \in Cameras!Callers : RequestHolds(d)'
    BY <1>3, <1>4, <1>5, RequestMoves
  <1>7. /\ slots' \in [Ids -> Cameras!Slot \cup {None}] /\ slots'[i] = None
        /\ \A j \in Ids : j # i => slots'[j] = slots[j]
        /\ bySerial' \in Ids \cup {None}
    BY <1>1, <1>4 DEF CamerasTyped
  <1>8. CamerasTyped'
    BY <1>3, <1>4, <1>6, <1>7 DEF CamerasTyped
  <1>9. OneRow'
    BY <1>3, <1>4 DEF OneRow
  <1>10. Moving(i)'
    BY <1>5, <1>6 DEF Moving
  <1>11. ASSUME NEW j \in Ids PROVE SlotHolds(j)'
    <2>1. CASE j # i
      <3>1. cameraRows[j] = None /\ slots[j] = None
        BY <1>1, <1>3, <2>1, OthersNone
      <3> QED BY <1>3, <1>7, <2>1, <3>1, NothingHolds
    <2>2. CASE j = i
      BY <1>7, <1>10, <2>2 DEF SlotHolds
    <2> QED BY <2>1, <2>2
  <1>12. events' # <<>> => events'[Len(events')] = plugged'
    BY <1>3 DEF CamerasInv
  <1> QED BY <1>3, <1>6, <1>8, <1>9, <1>11, <1>12, UpHolds

\* ... then the row.
LEMMA RemoveSteps ==
  ASSUME CamerasInv, OneCameraClient, NEW c \in CameraClients, Cameras!Remove(c)
  PROVE  CamerasInv'
  <1> USE CameraConstants
  <1>1. PICK i : i = cameraReq[c].id
    OBVIOUS
  <1>2. PICK q : q = Cameras!Idle
    OBVIOUS
  <1>3. /\ phase = "up" /\ cameraReq[c].at = "remove"
        /\ cameraReq' = [cameraReq EXCEPT ![c] = q]
        /\ cameraRows' = [cameraRows EXCEPT ![i] = None]
        /\ UNCHANGED <<slots, bySerial, phase, plugged, events, gen>>
    BY <1>1, <1>2 DEF Cameras!Remove, Cameras!At, Cameras!Done
  <1>4. /\ CamerasTyped /\ (\A d \in Cameras!Callers : RequestHolds(d)) /\ OneRow
        /\ c \in Cameras!Callers /\ \A j \in Ids : SlotHolds(j)
    BY <1>3 DEF CamerasInv, Cameras!Callers
  <1>5. i \in Ids /\ Moving(i) /\ slots[i] = None
    BY <1>1, <1>3, <1>4 DEF RequestHolds, Moving, SlotHolds
  <1>6. q \in CameraRequests /\ q.at = "idle"
    BY <1>2, IdleRequest
  <1>7. /\ cameraReq' \in [Cameras!Callers -> CameraRequests] /\ cameraReq'[c] = q
        /\ \A d \in Cameras!Callers : d # c => cameraReq'[d] = cameraReq[d]
        /\ \A d \in Cameras!Callers : RequestHolds(d)'
    BY <1>3, <1>4, <1>6, RequestMoves
  <1>8. /\ cameraRows' \in [Ids -> Cameras!Row \cup {None}] /\ cameraRows'[i] = None
        /\ \A j \in Ids : j # i => cameraRows'[j] = cameraRows[j]
    BY <1>3, <1>4, <1>5 DEF CamerasTyped
  <1>9. CamerasTyped'
    BY <1>3, <1>4, <1>7, <1>8 DEF CamerasTyped
  <1>10. OneRow'
    BY <1>4, <1>8 DEF OneRow
  <1>11. \A j : (Moving(j) => j = i) /\ ~Moving(j)' /\ ~Turning(j) /\ ~Turning(j)'
    BY <1>1, <1>3, <1>6, <1>7, OneMoves
  <1>12. ASSUME NEW j \in Ids PROVE SlotHolds(j)'
    <2>1. CASE j = i
      BY <1>3, <1>5, <1>8, <2>1, NothingHolds
    <2>2. CASE j # i
      <3>1. SlotHolds(j) /\ ~Moving(j)
        BY <1>4, <1>11, <2>2
      <3>2. Pending(j)' <=> Pending(j)
        <4>1. cameraReq[c].at # "updated" /\ cameraReq'[c].at # "updated"
          BY <1>3, <1>6, <1>7
        <4> QED BY <1>7, <4>1 DEF Pending
      <3>3. cameraRows'[j] = cameraRows[j]
        BY <1>8, <2>2
      <3>4. Online(slots[j]) => Online(slots[j])'
        BY <1>3 DEF Online
      <3> QED BY <1>3, <1>11, <3>1, <3>2, <3>3, <3>4, Zenon DEF SlotHolds
    <2> QED BY <2>1, <2>2
  <1>13. events' # <<>> => events'[Len(events')] = plugged'
    BY <1>3 DEF CamerasInv
  <1> QED BY <1>3, <1>7, <1>9, <1>10, <1>12, <1>13, UpHolds

LEMMA CamerasNext ==
  ASSUME OneCameraClient
  PROVE  CamerasInv /\ [Cameras!Next]_camerasVars => CamerasInv'
  <1> SUFFICES ASSUME CamerasInv, [Cameras!Next]_camerasVars PROVE CamerasInv'
    OBVIOUS
  <1>1. CASE UNCHANGED camerasVars
    BY <1>1, CamerasStutter DEF camerasVars
  <1>2. CASE Cameras!Start
    BY <1>2, StartSteps
  <1>3. CASE Cameras!Destroy
    BY <1>3, DestroySteps
  <1>4. CASE Cameras!Plug
    BY <1>4, PlugSteps
  <1>5. CASE Cameras!OnDeviceArrival
    BY <1>5, ArrivalSteps
  <1>6. CASE Cameras!OnDeviceRemoval
    BY <1>6, RemovalSteps
  <1>7. CASE Cameras!FrameChannelFor \/ Cameras!StopRecording
    BY <1>7, CamerasStutter DEF Cameras!FrameChannelFor, Cameras!StopRecording
  <1>8. CASE \E c \in Cameras!Callers :
               Cameras!Update(c) \/ Cameras!Write(c) \/ Cameras!OnCameraUpdated(c)
    BY <1>8, UpdateSteps, WriteSteps, UpdatedSteps
  <1>9. CASE \E c \in CameraClients :
               \/ Cameras!Post(c) \/ Cameras!PostRole(c) \/ Cameras!OnCameraAdded(c)
               \/ Cameras!ApplySettingsLive(c) \/ Cameras!OnCameraRemoved(c)
               \/ Cameras!Remove(c)
    BY <1>9, PostSteps, PostRoleSteps, AddedSteps, ApplySteps, RemovedSteps, RemoveSteps
  <1> QED BY <1>1, <1>2, <1>3, <1>4, <1>5, <1>6, <1>7, <1>8, <1>9 DEF Cameras!Next

LEMMA CamerasMeans ==
  CamerasInv => Cameras!SlotsFollowRows /\ Cameras!OnlineWhenPlugged
  <1> SUFFICES ASSUME CamerasInv, Cameras!Quiet, NEW i \in Ids
               PROVE  /\ slots[i] = None <=> cameraRows[i] = None
                      /\ slots[i] # None =>
                           /\ bySerial = i
                           /\ slots[i].cfg = cameraRows[i].cfg
                           /\ slots[i].run # None =>
                                /\ slots[i].run = cameraRows[i].cfg
                                /\ slots[i].ext = [stamp |-> cameraRows[i].stamp,
                                                   orient |-> cameraRows[i].orient]
                           /\ slots[i].run # None => plugged
                           /\ plugged /\ ~slots[i].failed => slots[i].run # None
    BY Zenon DEF Cameras!SlotsFollowRows, Cameras!OnlineWhenPlugged
  <1>1. SlotHolds(i) /\ events = <<>>
    BY DEF CamerasInv, Cameras!Quiet
  <1>2. ~Moving(i) /\ ~Pending(i) /\ ~Turning(i)
    <2>1. \A c \in Cameras!Callers : cameraReq[c].at = "idle"
      BY DEF Cameras!Quiet
    <2>2. \A d \in CameraClients : d \in Cameras!Callers
      BY DEF Cameras!Callers
    <2> QED BY <2>1, <2>2 DEF Moving, Pending, Turning
  <1> QED BY <1>1, <1>2 DEF SlotHolds, Built, Told, Online

-----------------------------------------------------------------------------
(* The fusion engine.                                                       *)

EngineFields == {"initialized", "states", "nextKey", "initTags", "vioDeltas", "vioPrev",
                 "vioDone", "window", "collision", "passes", "since", "out", "held",
                 "factors", "stray"}
EngineFactor == [a : Engine!State, b : Engine!State, deltas : SUBSET Engine!Delta]

\* Every field has its type, and an engine that is not initialized keeps no motion.
EngineTyped(e) ==
    /\ DOMAIN e = EngineFields
    /\ e.initialized \in BOOLEAN /\ e.stray = FALSE
    /\ e.states \in Seq(Engine!State) /\ e.held \subseteq Engine!State
    /\ e.nextKey \in Nat /\ e.vioDone \in Nat
    /\ e.initTags \in Seq(Engine!Times)
    /\ e.vioDeltas \in Seq(Engine!Delta) /\ e.factors \in Seq(SUBSET EngineFactor)
    /\ DOMAIN e.out = {"initialized", "t", "collision"}
    /\ ~e.initialized => e.states = <<>> /\ e.vioDeltas = <<>> /\ e.factors = <<>>

\* The chain of states goes forward in time and lies in the smoother's graph, and inside
\* its horizon by the margin of trim_states().
ChainIn(s, keys, next) ==
    /\ s # <<>>
    /\ \A i, j \in 1 .. Len(s) : i < j => s[i].t < s[j].t /\ s[i].key < s[j].key
    /\ \A i \in 1 .. Len(s) :
          /\ s[i] \in keys /\ s[i].key < next
          /\ s[i].t >= Engine!Newest(s).t - (Lag - TrimMargin)
    /\ \A k \in keys : k.t <= Engine!Newest(s).t

\* What is published is the newest state.
OutHolds(e) ==
    /\ e.out.initialized = e.initialized
    /\ e.initialized => e.out.t = Engine!Newest(e.states).t

\* The deltas an engine has, waiting or in a factor.
SeenIn(b, fs) == {b[n] : n \in 1 .. Len(b)}
                 \cup UNION {UNION {f.deltas : f \in fs[m]} : m \in 1 .. Len(fs)}
Seen(e) == SeenIn(e.vioDeltas, e.factors)

\* The factors of one walk follow those of the walks before it, each holds the deltas that
\* end in its interval, and those still to come start at a state no factor has passed.
FactorsIn(fs, s, done) ==
    /\ \A m, n \in 1 .. Len(fs) : \A f \in fs[m], g \in fs[n] :
          /\ m < n => f.b.t <= g.a.t
          /\ m = n /\ f # g => f.b.t <= g.a.t \/ g.b.t <= f.a.t
    /\ \A m \in 1 .. Len(fs) : \A f \in fs[m] :
          /\ \A d \in f.deltas : f.a.t < d.end /\ d.end <= f.b.t
          /\ f.b.t <= Engine!Newest(s).t
          /\ \A i \in 2 .. Len(s) : s[i].key > done => f.b.t <= s[i - 1].t

\* No two deltas overlap, and the next one starts where the last one ended or later.
DeltasIn(D, prev) ==
    /\ \A c, d \in D : c # d => c.end <= d.begin \/ d.end <= c.begin
    /\ prev # None => prev.t \in Engine!Times /\ \A d \in D : d.end <= prev.t

ChainHolds(e) == e.initialized => ChainIn(e.states, e.held, e.nextKey)
FactorsHold(e) == FactorsIn(e.factors, e.states, e.vioDone)
DeltasHold(e) == DeltasIn(Seen(e), e.vioPrev)

EngineHolds(e) == EngineTyped(e) /\ ChainHolds(e) /\ FactorsHold(e) /\ DeltasHold(e)

EngineInv ==
    /\ EngineHolds(Engine!Engine) /\ OutHolds(Engine!Engine)
    /\ lastVio.t \in 0 .. MaxTime
    /\ vioPrev # None => vioPrev.t <= lastVio.t
    /\ \A d \in Seen(Engine!Engine) : d.end <= lastVio.t

-----------------------------------------------------------------------------
LEMMA EngineConstants ==
  /\ MinStateDt \in Nat \ {0} /\ Lag \in Nat /\ TrimMargin \in Nat /\ TrimMargin < Lag
  /\ InitTags \in Nat \ {0} /\ VioCap \in Nat \ {0} /\ MaxTime \in Nat \ {0}
  BY Assumptions DEF Engine!EngineAssumption

\* The extremes of a set of numbers.
LEMMA LeastIs ==
  ASSUME NEW S \in SUBSET Nat, S # {}
  PROVE  Engine!Min(S) \in S /\ \A k \in S : Engine!Min(S) <= k
  <1>1. OpToRel(<, Nat) = {p \in Nat \X Nat : p[1] < p[2]}
    BY DEF OpToRel
  <1>2. PICK n \in S : \A k \in S : ~ <<k, n>> \in {p \in Nat \X Nat : p[1] < p[2]}
    BY <1>1, NatLessThanWellFounded, WFMin, ZenonT(30)
  <1>3. ASSUME NEW k \in S PROVE n <= k
    <2>1. <<k, n>> \in Nat \X Nat /\ <<k, n>>[1] = k /\ <<k, n>>[2] = n
      OBVIOUS
    <2>2. ~ k < n
      BY <1>2, <2>1, Zenon
    <2> QED BY <2>2
  <1> QED BY <1>3 DEF Engine!Min

LEMMA GreatestIs ==
  ASSUME NEW S \in SUBSET Nat, S # {}, NEW b \in Nat, \A k \in S : k <= b
  PROVE  Engine!Max(S) \in S /\ \A k \in S : k <= Engine!Max(S)
  <1> DEFINE T == {b - k : k \in S}
  <1>1. T \in SUBSET Nat /\ T # {}
    <2>1. \A k \in S : b - k \in Nat
      OBVIOUS
    <2> QED BY <2>1
  <1>2. PICK n \in S : \A j \in T : b - n <= j
    <2>1. PICK j \in T : \A i \in T : j <= i
      BY <1>1, LeastIs
    <2>2. PICK n \in S : j = b - n
      BY <2>1
    <2> QED BY <2>1, <2>2
  <1>3. \A k \in S : n >= k
    <2> SUFFICES ASSUME NEW k \in S PROVE n >= k
      OBVIOUS
    <2>1. b - k \in T
      OBVIOUS
    <2> HIDE DEF T
    <2>2. b - n <= b - k
      BY <1>2, <2>1
    <2> QED BY <2>2
  <1> QED BY <1>3 DEF Engine!Max

\* A sequence without its first elements.
LEMMA FromFront ==
  ASSUME NEW S, NEW s \in Seq(S), NEW p \in Nat, p = Len(s), NEW m \in 1 .. p + 1,
         NEW r, r = SubSeq(s, m, p)
  PROVE  /\ r \in Seq(S) /\ Len(r) = p - m + 1
         /\ \A i \in 1 .. p - m + 1 : i + m - 1 \in 1 .. p /\ r[i] = s[i + m - 1]
  <1>1. \A i \in m .. p : s[i] \in S
    OBVIOUS
  <1>2. /\ r \in Seq(S) /\ Len(r) = p - m + 1
        /\ \A i \in 1 .. p - m + 1 : r[i] = s[m + i - 1]
    <2>1. /\ SubSeq(s, m, p) \in Seq(S)
          /\ Len(SubSeq(s, m, p)) = IF m <= p THEN p - m + 1 ELSE 0
          /\ \A i \in 1 .. p - m + 1 : SubSeq(s, m, p)[i] = s[m + i - 1]
      BY <1>1, SubSeqProperties
    <2>2. (IF m <= p THEN p - m + 1 ELSE 0) = p - m + 1
      OBVIOUS
    <2> QED BY <2>1, <2>2
  <1>3. \A i \in 1 .. p - m + 1 : i + m - 1 \in 1 .. p /\ m + i - 1 = i + m - 1
    OBVIOUS
  <1> QED BY <1>2, <1>3

\* reinit() leaves an engine with neither a graph nor a buffer.
LEMMA ReinitHolds ==
  ASSUME NEW e, EngineTyped(e), NEW r, r = Engine!Reinit(e)
  PROVE  /\ EngineHolds(r) /\ OutHolds(r) /\ r.initialized = FALSE /\ Seen(r) = {}
         /\ r.vioPrev = None
  <1>1. /\ DOMAIN r = EngineFields /\ DOMAIN r.out = {"initialized", "t", "collision"}
        /\ r.initialized = FALSE /\ r.states = <<>> /\ r.held = {} /\ r.vioDeltas = <<>>
        /\ r.vioPrev = None /\ r.initTags = <<>> /\ r.vioDone = 0 /\ r.factors = <<>>
        /\ r.out.initialized = FALSE /\ r.stray = e.stray /\ r.nextKey = e.nextKey
    BY DEF Engine!Reinit, EngineTyped, EngineFields
  <1>2. EngineTyped(r) /\ OutHolds(r)
    <2>1. <<>> \in Seq(Engine!State) /\ <<>> \in Seq(Engine!Delta) /\ <<>> \in Seq(Engine!Times)
          /\ <<>> \in Seq(SUBSET EngineFactor)
      OBVIOUS
    <2>2. r.stray = FALSE /\ r.initialized \in BOOLEAN /\ r.held \subseteq Engine!State
      BY <1>1, Zenon DEF EngineTyped
    <2>3. r.nextKey \in Nat /\ r.vioDone \in Nat
      BY <1>1 DEF EngineTyped
    <2> QED BY <1>1, <2>1, <2>2, <2>3, Zenon DEF EngineTyped, OutHolds
  <1>3. Seen(r) = {}
    BY <1>1 DEF Seen, SeenIn
  <1>4. ChainHolds(r) /\ FactorsHold(r) /\ DeltasHold(r)
    BY <1>1, <1>3 DEF ChainHolds, FactorsHold, FactorsIn, DeltasHold, DeltasIn
  <1> QED BY <1>1, <1>2, <1>3, <1>4 DEF EngineHolds

LEMMA EngineStarts == Engine!Init => EngineInv
  <1> SUFFICES ASSUME Engine!Init PROVE EngineInv
    OBVIOUS
  <1>1. PICK e : e = Engine!Engine
    OBVIOUS
  <1>2. /\ DOMAIN e = EngineFields /\ DOMAIN e.out = {"initialized", "t", "collision"}
        /\ e.initialized = FALSE /\ e.states = <<>> /\ e.held = {} /\ e.vioDeltas = <<>>
        /\ e.vioPrev = None /\ e.initTags = <<>> /\ e.vioDone = 0 /\ e.factors = <<>>
        /\ e.out.initialized = FALSE /\ e.stray = FALSE /\ e.nextKey = 0
    BY <1>1 DEF Engine!Init, Engine!Engine, Engine!NoPose, EngineFields
  <1>3. EngineTyped(e) /\ OutHolds(e)
    <2>1. <<>> \in Seq(Engine!State) /\ <<>> \in Seq(Engine!Delta) /\ <<>> \in Seq(Engine!Times)
          /\ <<>> \in Seq(SUBSET EngineFactor)
      OBVIOUS
    <2>2. e.initialized \in BOOLEAN /\ e.held \subseteq Engine!State
      BY <1>2, Zenon
    <2>3. e.nextKey \in Nat /\ e.vioDone \in Nat
      BY <1>2
    <2> QED BY <1>2, <2>1, <2>2, <2>3, Zenon DEF EngineTyped, OutHolds
  <1>4. Seen(e) = {}
    BY <1>2 DEF Seen, SeenIn
  <1>5. ChainHolds(e) /\ FactorsHold(e) /\ DeltasHold(e)
    BY <1>2, <1>4 DEF ChainHolds, FactorsHold, FactorsIn, DeltasHold, DeltasIn
  <1>6. lastVio.t = 0 /\ vioPrev = None
    BY DEF Engine!Init
  <1> QED BY <1>1, <1>3, <1>4, <1>5, <1>6, EngineConstants DEF EngineInv, EngineHolds

\* A call of the engine: what it keeps, how the newest state moves, and what becomes of the
\* deltas.
Follows(n, e) ==
    /\ EngineHolds(n) /\ OutHolds(n)
    /\ n.initialized =>
         /\ e.initialized
         /\ Engine!Newest(e.states).t <= Engine!Newest(n.states).t
    /\ Seen(n) \subseteq Seen(e)
    /\ n.vioPrev \in {None, e.vioPrev}

LEMMA ReinitFollows ==
  ASSUME NEW e, EngineTyped(e)
  PROVE  Follows(Engine!Reinit(e), e)
  <1>1. PICK r : r = Engine!Reinit(e)
    OBVIOUS
  <1> QED BY <1>1, ReinitHolds DEF Follows

\* The newest state of an engine and its time.
LEMMA NewestIs ==
  ASSUME NEW e, EngineTyped(e), ChainHolds(e), e.initialized
  PROVE  /\ Len(e.states) \in Nat \ {0}
         /\ Engine!Newest(e.states) = e.states[Len(e.states)]
         /\ Engine!Newest(e.states) \in Engine!State /\ Engine!Newest(e.states) \in e.held
         /\ Engine!Newest(e.states).t \in Nat
         /\ \A i \in 1 .. Len(e.states) :
              /\ e.states[i] \in Engine!State /\ e.states[i].t \in Nat /\ e.states[i].key \in Nat
              /\ e.states[i].t <= Engine!Newest(e.states).t
  <1>1. PICK p \in Nat \ {0} : p = Len(e.states)
    BY DEF EngineTyped, ChainHolds, ChainIn
  <1>2. \A i \in 1 .. p : e.states[i] \in Engine!State
    BY <1>1 DEF EngineTyped
  <1>3. \A k \in Engine!State : k.t \in Nat /\ k.key \in Nat
    BY EngineConstants DEF Engine!State, Engine!Times
  <1>4. p \in 1 .. p /\ Engine!Newest(e.states) = e.states[p]
    BY <1>1 DEF Engine!Newest
  <1>5. \A i \in 1 .. p : e.states[i] \in e.held /\ e.states[i].t <= Engine!Newest(e.states).t
    BY <1>1, Zenon DEF ChainHolds, ChainIn
  <1> QED BY <1>1, <1>2, <1>3, <1>4, <1>5

\* An engine that differs only in what the invariants do not look at.
LEMMA SameChain ==
  ASSUME NEW e, EngineHolds(e), NEW n,
         DOMAIN n = EngineFields, n.initialized = e.initialized, n.stray = e.stray,
         n.states = e.states, n.held = e.held, n.nextKey = e.nextKey,
         n.vioDone = e.vioDone, n.initTags \in Seq(Engine!Times),
         n.vioDeltas = e.vioDeltas, n.factors = e.factors,
         DOMAIN n.out = {"initialized", "t", "collision"}, n.vioPrev = e.vioPrev
  PROVE  EngineHolds(n) /\ Seen(n) = Seen(e)
  <1>1. EngineTyped(n)
    BY Zenon DEF EngineHolds, EngineTyped
  <1>2. ChainHolds(n)
    BY Zenon DEF EngineHolds, ChainHolds
  <1>3. FactorsHold(n)
    BY Zenon DEF EngineHolds, FactorsHold
  <1>4. Seen(n) = Seen(e)
    BY Zenon DEF Seen
  <1>5. DeltasHold(n)
    BY <1>4, Zenon DEF EngineHolds, DeltasHold
  <1> QED BY <1>1, <1>2, <1>3, <1>4, <1>5, Zenon DEF EngineHolds

\* update(): the states stay in the graph when the smoother drops what is past its horizon.
LEMMA UpdatedFollows ==
  ASSUME NEW e, EngineHolds(e), e.initialized, NEW on, on \subseteq e.held,
         NEW n \in Engine!Updated(e, on)
  PROVE  /\ Follows(n, e)
         /\ n.initialized =>
              /\ n.states = e.states /\ n.vioDeltas = e.vioDeltas /\ n.factors = e.factors
              /\ n.vioDone = e.vioDone /\ n.nextKey = e.nextKey /\ n.vioPrev = e.vioPrev
  <1>1. EngineTyped(e) /\ ChainHolds(e)
    BY DEF EngineHolds
  <1>2. n = Engine!Reinit(e)
        \/ n = Engine!Refresh([e EXCEPT !.held = Engine!Marginalised(e.held)])
    BY DEF Engine!Updated
  <1>3. CASE n = Engine!Reinit(e)
    BY <1>1, <1>3, ReinitFollows, ReinitHolds
  <1>4. CASE n = Engine!Refresh([e EXCEPT !.held = Engine!Marginalised(e.held)])
    <2>1. PICK keys : keys = Engine!Marginalised(e.held)
      OBVIOUS
    <2>2. PICK top : top = Engine!Newest(e.states)
      OBVIOUS
    <2>3. PICK m : m = [e EXCEPT !.held = keys]
      OBVIOUS
    <2>4. /\ DOMAIN m = EngineFields /\ m.initialized = TRUE /\ m.stray = e.stray
          /\ m.states = e.states /\ m.held = keys /\ m.nextKey = e.nextKey
          /\ m.vioDone = e.vioDone /\ m.initTags = e.initTags
          /\ m.vioDeltas = e.vioDeltas /\ m.factors = e.factors /\ m.out = e.out
          /\ m.vioPrev = e.vioPrev /\ m.collision = e.collision
      BY <1>1, <2>3 DEF EngineTyped, EngineFields
    <2>5. n = [m EXCEPT !.out = [initialized |-> TRUE, t |-> top.t, collision |-> m.collision]]
      BY <1>4, <2>1, <2>2, <2>3, <2>4, Zenon DEF Engine!Refresh
    <2>6. /\ DOMAIN n = EngineFields /\ n.initialized = TRUE /\ n.stray = e.stray
          /\ n.states = e.states /\ n.held = keys /\ n.nextKey = e.nextKey
          /\ n.vioDone = e.vioDone /\ n.initTags = e.initTags
          /\ n.vioDeltas = e.vioDeltas /\ n.factors = e.factors
          /\ n.out = [initialized |-> TRUE, t |-> top.t, collision |-> m.collision]
          /\ n.vioPrev = e.vioPrev
      BY <2>4, <2>5 DEF EngineFields
    <2>7. keys \subseteq e.held
      BY <2>1 DEF Engine!Marginalised
    <2>8. EngineTyped(n)
      BY <1>1, <2>6, <2>7 DEF EngineTyped
    <2>9. ASSUME NEW i \in 1 .. Len(e.states) PROVE e.states[i] \in keys
      <3>1. e.states[i] \in e.held /\ e.states[i].t >= top.t - (Lag - TrimMargin)
            /\ e.states[i].t \in Nat /\ top.t \in Nat
        BY <1>1, <2>2, NewestIs DEF ChainHolds, ChainIn
      <3>2. \A l \in e.held : l.t \in Nat /\ l.t <= top.t
        BY <1>1, <2>2, EngineConstants, SMTT(30)
          DEF ChainHolds, ChainIn, EngineTyped, Engine!State, Engine!Times
      <3>3. \A l \in e.held : e.states[i].t >= l.t - Lag
        BY <3>1, <3>2, EngineConstants, SMTT(30)
      <3> QED BY <2>1, <3>1, <3>3 DEF Engine!Marginalised
    <2>10. ChainHolds(n)
      <3>1. \A k \in keys : k.t <= top.t
        BY <1>1, <2>2, <2>7 DEF ChainHolds, ChainIn
      <3> QED BY <1>1, <2>2, <2>6, <2>9, <3>1, Zenon DEF ChainHolds, ChainIn
    <2>11. FactorsHold(n)
      BY <2>6, Zenon DEF EngineHolds, FactorsHold
    <2>12. Seen(n) = Seen(e)
      BY <2>6, Zenon DEF Seen
    <2>13. DeltasHold(n)
      BY <2>6, <2>12, Zenon DEF EngineHolds, DeltasHold
    <2>14. OutHolds(n)
      <3>1. PICK o : o = [initialized |-> TRUE, t |-> top.t, collision |-> m.collision]
        OBVIOUS
      <3>2. o.initialized = TRUE /\ o.t = top.t
        BY <3>1
      <3>3. n.out.initialized = TRUE /\ n.out.t = top.t
        BY <2>6, <3>1, <3>2, Zenon
      <3> QED BY <2>2, <2>6, <3>3, Zenon DEF OutHolds
    <2>15. EngineHolds(n)
      BY <2>8, <2>10, <2>11, <2>13 DEF EngineHolds
    <2>16. Engine!Newest(e.states).t <= Engine!Newest(n.states).t
      BY <1>1, <2>6, NewestIs
    <2> QED BY <2>6, <2>12, <2>14, <2>15, <2>16 DEF Follows
  <1> QED BY <1>2, <1>3, <1>4

\* What an update drops from the front of the buffer is no longer waiting.
LEMMA ConsumedFollows ==
  ASSUME NEW e, EngineHolds(e), OutHolds(e), NEW n, n = Engine!Consumed(e)
  PROVE  /\ EngineHolds(n) /\ OutHolds(n) /\ Seen(n) \subseteq Seen(e)
         /\ n.initialized = e.initialized /\ n.states = e.states /\ n.vioPrev = e.vioPrev
  <1>1. EngineTyped(e)
    BY DEF EngineHolds
  <1>2. PICK p \in Nat : p = Len(e.vioDeltas)
    BY <1>1 DEF EngineTyped
  <1>3. PICK S \in SUBSET (1 .. p + 1) :
          /\ p + 1 \in S
          /\ n = [e EXCEPT !.vioDeltas = SubSeq(e.vioDeltas, Engine!Min(S), p)]
    <2> DEFINE behind(d) == \E i \in 2 .. Len(e.states) :
                               e.states[i].key <= e.vioDone /\ d.end <= e.states[i].t
               kept == {k \in 1 .. Len(e.vioDeltas) : ~behind(e.vioDeltas[k])}
    <2>1. n = [e EXCEPT !.vioDeltas = SubSeq(e.vioDeltas, Engine!Min(kept \cup {Len(e.vioDeltas) + 1}),
                                             Len(e.vioDeltas))]
      BY DEF Engine!Consumed
    <2>2. kept \subseteq 1 .. p
      BY <1>2
    <2> HIDE DEF kept
    <2>3. kept \cup {p + 1} \in SUBSET (1 .. p + 1)
      BY <2>2
    <2> QED BY <1>2, <2>1, <2>3
  <1>4. PICK m \in 1 .. p + 1 : m = Engine!Min(S)
    BY <1>3, LeastIs
  <1>5. PICK b : b = SubSeq(e.vioDeltas, m, p)
    OBVIOUS
  <1>6. b \in Seq(Engine!Delta) /\ Len(b) = p - m + 1
        /\ \A i \in 1 .. Len(b) : \E j \in 1 .. p : b[i] = e.vioDeltas[j]
    <2>1. /\ b \in Seq(Engine!Delta) /\ Len(b) = p - m + 1
          /\ \A i \in 1 .. p - m + 1 : i + m - 1 \in 1 .. p /\ b[i] = e.vioDeltas[i + m - 1]
      <3>1. e.vioDeltas \in Seq(Engine!Delta)
        BY <1>1 DEF EngineTyped
      <3> QED BY <1>2, <1>5, <3>1, FromFront
    <2> QED BY <2>1
  <1>7. /\ DOMAIN n = EngineFields /\ n.initialized = e.initialized /\ n.stray = e.stray
        /\ n.states = e.states /\ n.held = e.held /\ n.nextKey = e.nextKey
        /\ n.vioDone = e.vioDone /\ n.initTags = e.initTags
        /\ n.vioDeltas = b /\ n.factors = e.factors /\ n.out = e.out
        /\ n.vioPrev = e.vioPrev
    BY <1>1, <1>3, <1>4, <1>5 DEF EngineTyped, EngineFields
  <1>8. ~e.initialized => b = <<>>
    <2> SUFFICES ASSUME ~e.initialized PROVE b = <<>>
      OBVIOUS
    <2>1. p = 0
      BY <1>1, <1>2 DEF EngineTyped
    <2>2. Len(b) = 0
      BY <1>6, <2>1
    <2> QED BY <1>6, <2>2, EmptySeq
  <1>9. EngineTyped(n)
    BY <1>1, <1>6, <1>7, <1>8, Zenon DEF EngineTyped
  <1>10. ChainHolds(n) /\ OutHolds(n)
    BY <1>7, Zenon DEF EngineHolds, ChainHolds, OutHolds
  <1>11. FactorsHold(n)
    BY <1>7, Zenon DEF EngineHolds, FactorsHold
  <1>12. Seen(n) \subseteq Seen(e)
    BY <1>2, <1>6, <1>7, SMTT(30) DEF Seen, SeenIn
  <1>13. DeltasHold(n)
    BY <1>7, <1>12 DEF EngineHolds, DeltasHold, DeltasIn
  <1> QED BY <1>7, <1>9, <1>10, <1>11, <1>12, <1>13 DEF EngineHolds

-----------------------------------------------------------------------------
LEMMA FactorFields ==
  ASSUME NEW f \in EngineFactor
  PROVE  /\ f.a \in Engine!State /\ f.b \in Engine!State /\ f.deltas \subseteq Engine!Delta
         /\ f.a.t \in Nat /\ f.b.t \in Nat
         /\ \A d \in f.deltas : d.begin \in Nat /\ d.end \in Nat
  BY EngineConstants DEF EngineFactor, Engine!State, Engine!Delta, Engine!Times

\* The factors of a walk, over intervals of the chain that were not handled before.
LEMMA WalkAdds ==
  ASSUME NEW e, EngineTyped(e), ChainHolds(e), FactorsHold(e), e.initialized,
         NEW fresh \in SUBSET EngineFactor, NEW done \in Nat, e.vioDone <= done,
         \A f \in fresh : \E i \in 2 .. Len(e.states) :
            /\ e.vioDone < e.states[i].key /\ e.states[i].key <= done
            /\ f.a = e.states[i - 1] /\ f.b = e.states[i]
            /\ f.deltas = {d \in {e.vioDeltas[k] : k \in 1 .. Len(e.vioDeltas)} :
                             Engine!EndsIn(d, e.states[i - 1].t, e.states[i].t)}
  PROVE  /\ FactorsIn(e.factors, e.states, done)
         /\ FactorsIn(Append(e.factors, fresh), e.states, done)
  <1>1. PICK s \in Seq(Engine!State) : s = e.states
    BY DEF EngineTyped
  <1>2. PICK fs \in Seq(SUBSET EngineFactor) : fs = e.factors
    BY DEF EngineTyped
  <1>3. PICK q \in Nat : q = Len(s)
    BY <1>1
  <1>4. PICK p \in Nat : p = Len(fs)
    BY <1>2
  <1>5. PICK top \in Nat : top = Engine!Newest(s).t
    BY <1>1, NewestIs
  <1>6. /\ \A i \in 1 .. q : s[i].t \in Nat /\ s[i].key \in Nat /\ s[i].t <= top
        /\ \A i, k \in 1 .. q : i < k => s[i].t < s[k].t /\ s[i].key < s[k].key
    BY <1>1, <1>3, <1>5, NewestIs DEF ChainHolds, ChainIn
  <1>7. /\ \A m, n \in 1 .. p : \A f \in fs[m], g \in fs[n] :
              /\ m < n => f.b.t <= g.a.t
              /\ m = n /\ f # g => f.b.t <= g.a.t \/ g.b.t <= f.a.t
        /\ \A m \in 1 .. p : \A f \in fs[m] :
              /\ \A d \in f.deltas : f.a.t < d.end /\ d.end <= f.b.t
              /\ f.b.t <= top
              /\ \A i \in 2 .. q : s[i].key > e.vioDone => f.b.t <= s[i - 1].t
    <2>1. FactorsIn(fs, s, e.vioDone)
      BY <1>1, <1>2 DEF FactorsHold
    <2> QED BY <2>1, <1>3, <1>4, <1>5 DEF FactorsIn
  <1>8. ASSUME NEW m \in 1 .. p, NEW f \in fs[m], NEW i \in 2 .. q, s[i].key > done
        PROVE f.b.t <= s[i - 1].t
    <2>1. s[i].key \in Nat /\ e.vioDone \in Nat
      BY <1>6, SMTT(30) DEF EngineTyped
    <2>2. s[i].key > e.vioDone
      BY <1>8, <2>1
    <2> QED BY <1>7, <2>2, SMTT(30)
  <1>9. FactorsIn(fs, s, done)
    BY <1>3, <1>4, <1>5, <1>7, <1>8, Zenon DEF FactorsIn
  <1>10. PICK gs : gs = Append(fs, fresh)
    OBVIOUS
  <1>11. Len(gs) = p + 1 /\ gs[p + 1] = fresh /\ \A m \in 1 .. p : gs[m] = fs[m]
    BY <1>2, <1>4, <1>10, AppendProperties
  <1>12. ASSUME NEW f \in fresh
         PROVE  \E i \in 2 .. q :
                  /\ e.vioDone < s[i].key /\ s[i].key <= done /\ f.a = s[i - 1] /\ f.b = s[i]
                  /\ \A d \in f.deltas : f.a.t < d.end /\ d.end <= f.b.t
    <2>1. PICK i \in 2 .. q :
            /\ e.vioDone < s[i].key /\ s[i].key <= done /\ f.a = s[i - 1] /\ f.b = s[i]
            /\ f.deltas = {d \in {e.vioDeltas[k] : k \in 1 .. Len(e.vioDeltas)} :
                             Engine!EndsIn(d, s[i - 1].t, s[i].t)}
      BY <1>1, <1>3
    <2>2. \A d \in f.deltas : f.a.t < d.end /\ d.end <= f.b.t
      BY <2>1, Zenon DEF Engine!EndsIn
    <2> QED BY <2>1, <2>2
  <1>13. ASSUME NEW i \in 2 .. q PROVE i \in 1 .. q /\ i - 1 \in 1 .. q
    BY <1>13
  <1>14. ASSUME NEW i \in 2 .. q, NEW k \in 2 .. q, s[i].key < s[k].key
         PROVE  s[i].t <= s[k - 1].t
    <2>1. s[i].key \in Nat /\ s[k].key \in Nat /\ i \in 1 .. q /\ k \in 1 .. q /\ k - 1 \in 1 .. q
      BY <1>6, <1>13
    <2>2. i < k
      <3>1. ~ k < i
        BY <1>6, <1>14, <2>1
      <3>2. k # i
        BY <1>14, <2>1
      <3> QED BY <3>1, <3>2, <2>1
    <2>3. CASE i = k - 1
      BY <1>6, <2>1, <2>3
    <2>4. CASE i < k - 1
      <3>1. s[i].t < s[k - 1].t
        BY <1>6, <2>1, <2>4, SMTT(30)
      <3> QED BY <1>6, <2>1, <3>1
    <2> QED BY <2>1, <2>2, <2>3, <2>4
  <1>15. ASSUME NEW f \in fresh
         PROVE  /\ f.b.t <= top
                /\ \A i \in 2 .. q : s[i].key > done => f.b.t <= s[i - 1].t
                /\ \A m \in 1 .. p : \A g \in fs[m] : g.b.t <= f.a.t
                /\ \A g \in fresh : f # g => f.b.t <= g.a.t \/ g.b.t <= f.a.t
    <2>1. PICK i \in 2 .. q : e.vioDone < s[i].key /\ s[i].key <= done /\ f.a = s[i - 1] /\ f.b = s[i]
      BY <1>12
    <2>2. f.b.t <= top
      BY <1>6, <1>13, <2>1
    <2>3. ASSUME NEW k \in 2 .. q, s[k].key > done PROVE f.b.t <= s[k - 1].t
      <3>1. s[i].key < s[k].key
        <4>1. s[i].key \in Nat /\ s[k].key \in Nat
          BY <1>6, <1>13
        <4> QED BY <2>1, <2>3, <4>1, SMTT(30)
      <3> QED BY <1>14, <2>1, <3>1
    <2>4. ASSUME NEW m \in 1 .. p, NEW g \in fs[m] PROVE g.b.t <= f.a.t
      <3>1. s[i].key > e.vioDone
        BY <2>1, <1>6, <1>13 DEF EngineTyped
      <3> QED BY <1>7, <2>1, <3>1
    <2>5. ASSUME NEW g \in fresh, f # g PROVE f.b.t <= g.a.t \/ g.b.t <= f.a.t
      <3>1. PICK k \in 2 .. q :
              /\ e.vioDone < s[k].key /\ s[k].key <= done /\ g.a = s[k - 1] /\ g.b = s[k]
              /\ g.deltas = {d \in {e.vioDeltas[x] : x \in 1 .. Len(e.vioDeltas)} :
                               Engine!EndsIn(d, s[k - 1].t, s[k].t)}
        BY <1>1, <1>3
      <3>2. CASE s[i].key < s[k].key
        BY <1>14, <2>1, <3>1, <3>2
      <3>3. CASE s[k].key < s[i].key
        BY <1>14, <2>1, <3>1, <3>3
      <3>4. CASE i = k
        <4>1. PICK j \in 2 .. q :
              /\ e.vioDone < s[j].key /\ s[j].key <= done /\ f.a = s[j - 1] /\ f.b = s[j]
              /\ f.deltas = {d \in {e.vioDeltas[x] : x \in 1 .. Len(e.vioDeltas)} :
                               Engine!EndsIn(d, s[j - 1].t, s[j].t)}
          BY <1>1, <1>3
        <4>2. s[j] = s[k] /\ j = k
          <5>1. s[j] = s[k]
            BY <2>1, <3>1, <3>4, <4>1
          <5>2. j \in 1 .. q /\ k \in 1 .. q /\ s[j].key \in Nat
            BY <1>6, <1>13
          <5>3. ~ j < k /\ ~ k < j
            BY <1>6, <5>1, <5>2
          <5> QED BY <5>1, <5>2, <5>3
        <4>3. f.a = g.a /\ f.b = g.b /\ f.deltas = g.deltas
          BY <3>1, <4>1, <4>2
        <4>4. f = g
          BY <4>3, SMTT(30) DEF EngineFactor
        <4> QED BY <2>5, <4>4
      <3>5. i < k \/ k < i \/ i = k
        OBVIOUS
      <3>6. i < k => s[i].key < s[k].key
        BY <1>6, <1>13
      <3>7. k < i => s[k].key < s[i].key
        BY <1>6, <1>13
      <3> QED BY <3>2, <3>3, <3>4, <3>5, <3>6, <3>7
    <2> QED BY <2>2, <2>3, <2>4, <2>5
  <1>16. ASSUME NEW m \in 1 .. p + 1, NEW n \in 1 .. p + 1, NEW f \in gs[m], NEW g \in gs[n]
         PROVE  /\ m < n => f.b.t <= g.a.t
                /\ m = n /\ f # g => f.b.t <= g.a.t \/ g.b.t <= f.a.t
    <2>1. CASE m \in 1 .. p /\ n \in 1 .. p
      BY <1>7, <1>11, <1>16, <2>1
    <2>2. CASE m \in 1 .. p /\ n = p + 1
      BY <1>11, <1>15, <1>16, <2>2
    <2>3. CASE m = p + 1 /\ n \in 1 .. p
      BY <2>3
    <2>4. CASE m = p + 1 /\ n = p + 1
      BY <1>11, <1>15, <1>16, <2>4
    <2> QED BY <2>1, <2>2, <2>3, <2>4
  <1>17. ASSUME NEW m \in 1 .. p + 1, NEW f \in gs[m]
         PROVE  /\ \A d \in f.deltas : f.a.t < d.end /\ d.end <= f.b.t
                /\ f.b.t <= top
                /\ \A i \in 2 .. q : s[i].key > done => f.b.t <= s[i - 1].t
    <2>1. CASE m \in 1 .. p
      BY <1>7, <1>8, <1>11, <2>1
    <2>2. CASE m = p + 1
      BY <1>11, <1>12, <1>15, <2>2
    <2> QED BY <2>1, <2>2
  <1>18. FactorsIn(gs, s, done)
    BY <1>3, <1>5, <1>11, <1>16, <1>17, Zenon DEF FactorsIn
  <1> QED BY <1>1, <1>2, <1>9, <1>10, <1>18

\* An engine follows itself.
LEMMA FollowsItself ==
  ASSUME NEW e, EngineHolds(e), OutHolds(e)
  PROVE  Follows(e, e)
  <1>1. e.initialized => Engine!Newest(e.states).t \in Nat
    BY NewestIs DEF EngineHolds
  <1> QED BY <1>1 DEF Follows

LEMMA FollowsOn ==
  ASSUME NEW e, NEW m, NEW n, EngineHolds(e), EngineHolds(m), Follows(m, e), Follows(n, m)
  PROVE  Follows(n, e)
  <1>1. n.initialized => Engine!Newest(e.states).t <= Engine!Newest(n.states).t
    <2> SUFFICES ASSUME n.initialized
                 PROVE  Engine!Newest(e.states).t <= Engine!Newest(n.states).t
      OBVIOUS
    <2>1. /\ m.initialized /\ e.initialized
          /\ Engine!Newest(m.states).t <= Engine!Newest(n.states).t
          /\ Engine!Newest(e.states).t <= Engine!Newest(m.states).t
      BY DEF Follows
    <2>2. /\ Engine!Newest(m.states).t \in Nat /\ Engine!Newest(e.states).t \in Nat
          /\ Engine!Newest(n.states).t \in Nat
      BY <2>1, NewestIs DEF EngineHolds, Follows
    <2> QED BY <2>1, <2>2
  <1>2. n.vioPrev \in {None, e.vioPrev} /\ Seen(n) \subseteq Seen(e)
    BY DEF Follows
  <1> QED BY <1>1, <1>2 DEF Follows

\* What flush_vio_intervals() makes of an engine before the update.
LEMMA WalkedHolds ==
  ASSUME NEW e, EngineHolds(e), e.initialized, NEW done \in Nat, e.vioDone <= done,
         NEW fs \in Seq(SUBSET EngineFactor), FactorsIn(fs, e.states, done),
         SeenIn(e.vioDeltas, fs) \subseteq Seen(e),
         NEW n, DOMAIN n = EngineFields, n.initialized = e.initialized, n.stray = e.stray,
         n.states = e.states, n.held = e.held, n.nextKey = e.nextKey, n.vioDone = done,
         n.initTags = e.initTags, n.vioDeltas = e.vioDeltas, n.factors = fs,
         n.out = e.out, n.vioPrev = e.vioPrev
  PROVE  EngineHolds(n) /\ Seen(n) \subseteq Seen(e)
  <1>1. EngineTyped(e) /\ ChainHolds(e) /\ DeltasHold(e)
    BY DEF EngineHolds
  <1>2. EngineTyped(n)
    BY <1>1, Zenon DEF EngineTyped
  <1>3. ChainHolds(n) /\ FactorsHold(n) /\ Seen(n) \subseteq Seen(e)
    BY <1>1 DEF ChainHolds, FactorsHold, Seen
  <1>4. DeltasHold(n)
    BY <1>1, <1>3 DEF DeltasHold, DeltasIn
  <1> QED BY <1>2, <1>3, <1>4 DEF EngineHolds

\* flush_vio_intervals().
LEMMA FlushedFollows ==
  ASSUME NEW e, EngineHolds(e), OutHolds(e), NEW n \in Engine!Flushed(e)
  PROVE  Follows(n, e) /\ (n.initialized => n.states = e.states)
  <1>1. /\ EngineTyped(e) /\ ChainHolds(e) /\ FactorsHold(e) /\ DeltasHold(e)
    BY DEF EngineHolds
  <1>2. CASE ~e.initialized \/ e.vioDeltas = <<>>
    <2>1. n = e
      BY <1>2 DEF Engine!Flushed
    <2> QED BY <2>1, FollowsItself
  <1>3. CASE e.initialized /\ e.vioDeltas # <<>>
    <2>1. PICK fresh : fresh = Engine!NewFactors(e)
      OBVIOUS
    <2>2. PICK done : done = Engine!Max({e.vioDone} \cup {e.states[i].key : i \in Engine!Covered(e)})
      OBVIOUS
    <2>3. PICK walked : walked = [e EXCEPT !.vioDone = done]
      OBVIOUS
    <2>4. PICK m : m \in (IF fresh = {} THEN {walked}
                          ELSE Engine!Updated([walked EXCEPT !.factors = Append(walked.factors, fresh)],
                                              Engine!KeysOf(fresh)))
                   /\ n = Engine!Consumed(m)
      BY <1>3, <2>1, <2>2, <2>3 DEF Engine!Flushed
    <2>5. PICK q \in Nat : q = Len(e.states)
      BY <1>1 DEF EngineTyped
    <2>6. Engine!Covered(e) \subseteq 2 .. q
      BY <2>5 DEF Engine!Covered
    <2>7. /\ done \in Nat /\ e.vioDone <= done
          /\ \A i \in Engine!Covered(e) : e.states[i].key <= done
      <3>1. PICK S : S = {e.vioDone} \cup {e.states[i].key : i \in Engine!Covered(e)}
        OBVIOUS
      <3>2. PICK b \in Nat : b = e.vioDone + e.nextKey
        BY <1>1 DEF EngineTyped
      <3>3. \A i \in 2 .. q : e.states[i].key \in Nat /\ e.states[i].key <= b
        <4>1. \A i \in 2 .. q : i \in 1 .. q
          OBVIOUS
        <4>2. \A i \in 1 .. q : e.states[i].key \in Nat /\ e.states[i].key < e.nextKey
          BY <1>1, <1>3, <2>5, NewestIs DEF ChainHolds, ChainIn
        <4> QED BY <1>1, <3>2, <4>1, <4>2 DEF EngineTyped
      <3>4. S \in SUBSET Nat /\ \A k \in S : k <= b
        BY <1>1, <2>6, <3>1, <3>2, <3>3, SMTT(30) DEF EngineTyped
      <3>5. e.vioDone \in S /\ \A i \in Engine!Covered(e) : e.states[i].key \in S
        BY <3>1
      <3> QED BY <2>2, <3>1, <3>2, <3>4, <3>5, GreatestIs
    <2>8. ASSUME NEW f \in fresh
          PROVE  /\ f \in EngineFactor
                 /\ \E i \in 2 .. Len(e.states) :
                      /\ e.vioDone < e.states[i].key /\ e.states[i].key <= done
                      /\ f.a = e.states[i - 1] /\ f.b = e.states[i]
                      /\ f.deltas = {d \in {e.vioDeltas[k] : k \in 1 .. Len(e.vioDeltas)} :
                                       Engine!EndsIn(d, e.states[i - 1].t, e.states[i].t)}
      <3>1. PICK i \in Engine!Covered(e) : f = Engine!FactorOver(e, i)
        BY <2>1, <2>8 DEF Engine!NewFactors
      <3>2. i \in 2 .. q /\ e.states[i].key > e.vioDone /\ e.states[i].key <= done
        BY <2>6, <2>7, <3>1 DEF Engine!Covered
      <3>3. DOMAIN e.vioDeltas = 1 .. Len(e.vioDeltas)
        BY <1>1 DEF EngineTyped
      <3>4. PICK D : D = {d \in {e.vioDeltas[k] : k \in 1 .. Len(e.vioDeltas)} :
                            Engine!EndsIn(d, e.states[i - 1].t, e.states[i].t)}
        OBVIOUS
      <3>5. f = [a |-> e.states[i - 1], b |-> e.states[i], deltas |-> D]
        BY <3>1, <3>3, <3>4, Zenon DEF Engine!FactorOver, Engine!ToSet
      <3>6. e.states[i - 1] \in Engine!State /\ e.states[i] \in Engine!State
        BY <1>1, <2>5, <3>2 DEF EngineTyped
      <3>7. D \subseteq Engine!Delta
        BY <1>1, <3>4 DEF EngineTyped
      <3>8. f \in EngineFactor
        BY <3>5, <3>6, <3>7 DEF EngineFactor
      <3>9. f.a = e.states[i - 1] /\ f.b = e.states[i] /\ f.deltas = D
        BY <3>5
      <3>10. e.vioDone < e.states[i].key
        BY <3>2, <1>1, <3>6 DEF EngineTyped, Engine!State
      <3> QED BY <2>5, <3>2, <3>4, <3>8, <3>9, <3>10
    <2>9. /\ FactorsIn(e.factors, e.states, done)
          /\ FactorsIn(Append(e.factors, fresh), e.states, done)
      BY <1>1, <1>3, <2>7, <2>8, WalkAdds
    <2>10. EngineHolds(m) /\ OutHolds(m) /\ Follows(m, e) /\ (m.initialized => m.states = e.states)
      <3>1. /\ DOMAIN walked = EngineFields /\ walked.initialized = e.initialized
            /\ walked.stray = e.stray /\ walked.states = e.states /\ walked.held = e.held
            /\ walked.nextKey = e.nextKey /\ walked.vioDone = done
            /\ walked.initTags = e.initTags /\ walked.vioDeltas = e.vioDeltas
            /\ walked.factors = e.factors /\ walked.out = e.out /\ walked.vioPrev = e.vioPrev
        BY <1>1, <2>3 DEF EngineTyped, EngineFields
      <3>2. CASE fresh = {}
        <4>1. m = walked
          BY <2>4, <3>2
        <4>2. e.factors \in Seq(SUBSET EngineFactor) /\ SeenIn(e.vioDeltas, e.factors) \subseteq Seen(e)
          BY <1>1 DEF EngineTyped, Seen
        <4>3. EngineHolds(walked) /\ Seen(walked) \subseteq Seen(e)
          BY <1>3, <2>7, <2>9, <3>1, <4>2, WalkedHolds
        <4>4. OutHolds(walked)
          BY <3>1, Zenon DEF OutHolds
        <4>5. Engine!Newest(e.states).t <= Engine!Newest(walked.states).t
          BY <1>1, <1>3, <3>1, NewestIs
        <4>6. Follows(walked, e)
          BY <1>3, <3>1, <4>3, <4>4, <4>5, Zenon DEF Follows
        <4> QED BY <3>1, <4>1, <4>3, <4>4, <4>6, Zenon
      <3>3. CASE fresh # {}
        <4>1. PICK grown : grown = [walked EXCEPT !.factors = Append(walked.factors, fresh)]
          OBVIOUS
        <4>2. /\ DOMAIN grown = EngineFields /\ grown.initialized = e.initialized
              /\ grown.stray = e.stray /\ grown.states = e.states /\ grown.held = e.held
              /\ grown.nextKey = e.nextKey /\ grown.vioDone = done
              /\ grown.initTags = e.initTags /\ grown.vioDeltas = e.vioDeltas
              /\ grown.factors = Append(e.factors, fresh) /\ grown.out = e.out
              /\ grown.vioPrev = e.vioPrev
          BY <3>1, <4>1 DEF EngineFields
        <4>3. fresh \in SUBSET EngineFactor
          BY <2>8
        <4>4. PICK fs : fs = Append(e.factors, fresh)
          OBVIOUS
        <4>5. PICK p \in Nat : p = Len(e.factors)
          BY <1>1 DEF EngineTyped
        <4>6. /\ fs \in Seq(SUBSET EngineFactor) /\ Len(fs) = p + 1 /\ fs[p + 1] = fresh
              /\ \A k \in 1 .. p : fs[k] = e.factors[k]
          BY <1>1, <4>3, <4>4, <4>5, AppendProperties DEF EngineTyped
        <4>7. SeenIn(e.vioDeltas, fs) \subseteq Seen(e)
          <5>1. \A f \in fresh : f.deltas \subseteq {e.vioDeltas[k] : k \in 1 .. Len(e.vioDeltas)}
            BY <2>8
          <5>2. ASSUME NEW d \in SeenIn(e.vioDeltas, fs) PROVE d \in Seen(e)
            <6>1. CASE d \in {e.vioDeltas[k] : k \in 1 .. Len(e.vioDeltas)}
              BY <6>1 DEF Seen, SeenIn
            <6>2. CASE \E k \in 1 .. p + 1 : \E f \in fs[k] : d \in f.deltas
              <7>0. PICK k \in 1 .. p + 1 : \E f \in fs[k] : d \in f.deltas
                BY <6>2
              <7>1. PICK f \in fs[k] : d \in f.deltas
                BY <7>0
              <7>2. CASE k = p + 1
                BY <4>6, <5>1, <7>1, <7>2 DEF Seen, SeenIn
              <7>3. CASE k \in 1 .. p
                <8>1. f \in e.factors[k] /\ k \in 1 .. Len(e.factors)
                  BY <4>5, <4>6, <7>3
                <8>2. d \in UNION {h.deltas : h \in e.factors[k]}
                  BY <7>1, <8>1
                <8> QED BY <8>1, <8>2 DEF Seen, SeenIn
              <7> QED BY <7>2, <7>3
            <6> QED BY <4>6, <5>2, <6>1, <6>2 DEF SeenIn
          <5> QED BY <5>2
        <4>8. EngineHolds(grown) /\ Seen(grown) \subseteq Seen(e)
          BY <1>3, <2>7, <2>9, <4>2, <4>4, <4>6, <4>7, WalkedHolds
        <4>9. PICK on : on = Engine!KeysOf(fresh)
          OBVIOUS
        <4>10. on \subseteq grown.held
          <5>1. \A i \in 2 .. Len(e.states) : e.states[i] \in e.held /\ e.states[i - 1] \in e.held
            <6>1. \A i \in 1 .. q : e.states[i] \in e.held
              BY <1>1, <1>3, <2>5 DEF ChainHolds, ChainIn
            <6>2. \A i \in 2 .. q : i \in 1 .. q /\ i - 1 \in 1 .. q
              OBVIOUS
            <6> QED BY <2>5, <6>1, <6>2
          <5>2. \A f \in fresh : f.a \in e.held /\ f.b \in e.held
            BY <2>8, <5>1
          <5> QED BY <4>2, <4>9, <5>2 DEF Engine!KeysOf
        <4>11. m \in Engine!Updated(grown, on)
          BY <2>4, <3>3, <4>1, <4>9, Zenon
        <4>12. Follows(m, grown) /\ (m.initialized => m.states = e.states)
          BY <1>3, <4>2, <4>8, <4>10, <4>11, UpdatedFollows
        <4>13. m.vioPrev \in {None, e.vioPrev} /\ Seen(m) \subseteq Seen(e)
          BY <4>2, <4>8, <4>12 DEF Follows
        <4>14. m.initialized => Engine!Newest(e.states).t <= Engine!Newest(m.states).t
          BY <1>1, <1>3, <4>12, NewestIs
        <4>15. EngineHolds(m) /\ OutHolds(m)
          BY <4>12, Zenon DEF Follows
        <4>16. Follows(m, e)
          BY <1>3, <4>13, <4>14, <4>15, Zenon DEF Follows
        <4> QED BY <4>12, <4>15, <4>16
      <3> QED BY <3>2, <3>3
    <2>11. /\ EngineHolds(n) /\ OutHolds(n) /\ Seen(n) \subseteq Seen(m)
           /\ n.initialized = m.initialized /\ n.states = m.states /\ n.vioPrev = m.vioPrev
      BY <2>4, <2>10, ConsumedFollows
    <2>12. n.initialized => Engine!Newest(e.states).t <= Engine!Newest(n.states).t
      BY <2>10, <2>11 DEF Follows
    <2>13. n.vioPrev \in {None, e.vioPrev} /\ Seen(n) \subseteq Seen(e)
      BY <2>10, <2>11 DEF Follows
    <2> QED BY <1>3, <2>10, <2>11, <2>12, <2>13, Zenon DEF Follows
  <1> QED BY <1>2, <1>3

-----------------------------------------------------------------------------
\* The chain with a new state, and without what lies past the margin.
Added(e, t) == [t |-> t, key |-> e.nextKey]
Grown(e, t) ==
    [e EXCEPT !.nextKey = @ + 1, !.held = @ \cup {Added(e, t)},
              !.states = Engine!Trimmed(Append(@, Added(e, t)))]

LEMMA GrownHolds ==
  ASSUME NEW e, EngineHolds(e), e.initialized, NEW t \in Engine!Times,
         t >= Engine!Newest(e.states).t + MinStateDt
  PROVE  /\ EngineHolds(Grown(e, t)) /\ Grown(e, t).initialized
         /\ Seen(Grown(e, t)) = Seen(e) /\ Grown(e, t).vioPrev = e.vioPrev
         /\ Grown(e, t).held = e.held \cup {Added(e, t)}
         /\ Engine!Newest(e.states).t <= Engine!Newest(Grown(e, t).states).t
  <1>1. PICK new : new = Added(e, t) /\ new = [t |-> t, key |-> e.nextKey]
    BY DEF Added
  <1>2. PICK s : s = Engine!Trimmed(Append(e.states, new))
    OBVIOUS
  <1>3. PICK n : n = Grown(e, t)
    OBVIOUS
  <1>4. n = [e EXCEPT !.nextKey = e.nextKey + 1, !.held = e.held \cup {new}, !.states = s]
    BY <1>1, <1>2, <1>3 DEF Grown
  <1>5. /\ EngineTyped(e) /\ ChainHolds(e) /\ FactorsHold(e) /\ DeltasHold(e)
    BY DEF EngineHolds
  <1>6. PICK u \in Seq(Engine!State) : u = e.states
    BY <1>5 DEF EngineTyped
  <1>7. PICK q \in Nat \ {0} : q = Len(u)
    BY <1>5, <1>6, NewestIs
  <1>8. PICK top \in Nat : top = Engine!Newest(u).t
    BY <1>5, <1>6, NewestIs
  <1>9. PICK next \in Nat : next = e.nextKey
    BY <1>5 DEF EngineTyped
  <1>10. /\ \A i \in 1 .. q : /\ u[i] \in Engine!State /\ u[i].t \in Nat /\ u[i].key \in Nat
                              /\ u[i].t <= top /\ u[i] \in e.held /\ u[i].key < next
         /\ \A i, k \in 1 .. q : i < k => u[i].t < u[k].t /\ u[i].key < u[k].key
         /\ \A k \in e.held : k.t <= top
         /\ u[q].t = top
    BY <1>5, <1>6, <1>7, <1>8, <1>9, NewestIs, SMTT(30) DEF ChainHolds, ChainIn
  <1>11. /\ new \in Engine!State /\ new.t = t /\ new.key = next /\ t \in Nat /\ top < t
    <2>1. t \in Nat /\ MinStateDt \in Nat \ {0}
      BY EngineConstants DEF Engine!Times
    <2>2. top < t
      BY <1>6, <1>8, <2>1
    <2> QED BY <1>1, <1>9, <2>1, <2>2 DEF Engine!State
  <1>12. PICK a : a = Append(u, new)
    OBVIOUS
  <1>13. /\ a \in Seq(Engine!State) /\ Len(a) = q + 1 /\ a[q + 1] = new
         /\ \A i \in 1 .. q : a[i] = u[i]
    BY <1>6, <1>7, <1>11, <1>12, AppendProperties
  <1>14. /\ \A i \in 1 .. q + 1 : /\ a[i].t \in Nat /\ a[i].key \in Nat /\ a[i].t <= t
                                  /\ a[i] \in e.held \cup {new} /\ a[i].key < next + 1
         /\ \A i, k \in 1 .. q + 1 : i < k => a[i].t < a[k].t /\ a[i].key < a[k].key
    <2>1. ASSUME NEW i \in 1 .. q + 1
          PROVE  /\ a[i].t \in Nat /\ a[i].key \in Nat /\ a[i].t <= t
                 /\ a[i] \in e.held \cup {new} /\ a[i].key < next + 1
      <3>1. CASE i \in 1 .. q
        <4>1. a[i] = u[i]
          BY <1>13, <3>1
        <4>2. /\ u[i].t \in Nat /\ u[i].key \in Nat /\ u[i].t <= top /\ u[i] \in e.held
              /\ u[i].key < next
          BY <1>10, <3>1
        <4>3. u[i].t <= t /\ u[i].key < next + 1
          BY <1>11, <4>2
        <4> QED BY <4>1, <4>2, <4>3
      <3>2. CASE i = q + 1
        BY <1>9, <1>11, <1>13, <3>2
      <3> QED BY <3>1, <3>2
    <2>2. ASSUME NEW i \in 1 .. q + 1, NEW k \in 1 .. q + 1, i < k
          PROVE  a[i].t < a[k].t /\ a[i].key < a[k].key
      <3>1. i \in 1 .. q
        BY <2>2
      <3>2. a[i] = u[i]
        BY <1>13, <3>1
      <3>3. CASE k \in 1 .. q
        <4>1. a[k] = u[k]
          BY <1>13, <3>3
        <4>2. u[i].t < u[k].t /\ u[i].key < u[k].key
          BY <1>10, <2>2, <3>1, <3>3
        <4> QED BY <3>2, <4>1, <4>2
      <3>4. CASE k = q + 1
        <4>1. u[i].t \in Nat /\ u[i].t <= top /\ u[i].key < next
          BY <1>10, <3>1
        <4>2. a[k].t = t /\ a[k].key = next
          BY <1>11, <1>13, <3>4
        <4>3. u[i].t < t
          BY <1>11, <4>1
        <4> QED BY <3>2, <4>1, <4>2, <4>3
      <3> QED BY <3>3, <3>4
    <2> QED BY <2>1, <2>2
  <1>15. PICK S : S = {i \in 1 .. q + 1 : a[i].t >= t - (Lag - TrimMargin)}
    OBVIOUS
  <1>16. s = SubSeq(a, Engine!Min(S), q + 1)
    <2>1. Engine!Newest(a) = new
      BY <1>13 DEF Engine!Newest
    <2> QED BY <1>2, <1>6, <1>11, <1>12, <1>13, <1>15, <2>1 DEF Engine!Trimmed
  <1>17. PICK m \in 1 .. q + 1 : m = Engine!Min(S) /\ m \in S
    <2>1. S \in SUBSET Nat
      BY <1>15
    <2>2. q + 1 \in S
      BY <1>11, <1>13, <1>15, EngineConstants
    <2> QED BY <1>15, <2>1, <2>2, LeastIs
  <1>18. /\ s \in Seq(Engine!State) /\ Len(s) = (q + 1) - m + 1
         /\ \A i \in 1 .. (q + 1) - m + 1 : i + m - 1 \in 1 .. q + 1 /\ s[i] = a[i + m - 1]
         /\ s # <<>> /\ s[Len(s)] = new
    <2>1. PICK k \in Nat : k = q + 1
      OBVIOUS
    <2>2. s = SubSeq(a, m, k) /\ k = Len(a) /\ m \in 1 .. k + 1 /\ m <= k
      BY <1>13, <1>16, <1>17, <2>1
    <2>3. /\ s \in Seq(Engine!State) /\ Len(s) = k - m + 1
          /\ \A i \in 1 .. k - m + 1 : i + m - 1 \in 1 .. k /\ s[i] = a[i + m - 1]
          /\ s # <<>> /\ s[Len(s)] = a[k]
      <3>1. a \in Seq(Engine!State)
        BY <1>13
      <3>2. s \in Seq(Engine!State) /\ Len(s) = k - m + 1
        BY <2>2, <3>1, FromFront
      <3>3. \A i \in 1 .. k - m + 1 : i + m - 1 \in 1 .. k /\ s[i] = a[i + m - 1]
        BY <2>2, <3>1, FromFront
      <3>4. s # <<>> /\ s[Len(s)] = a[k]
        <4>1. PICK i \in 1 .. k - m + 1 : i = k - m + 1 /\ i + m - 1 = k
          BY <1>17, <2>1
        <4>2. s[i] = a[k] /\ Len(s) = i /\ i # 0
          BY <3>2, <3>3, <4>1
        <4>3. s # <<>>
          BY <4>2
        <4> QED BY <4>2, <4>3
      <3> QED BY <3>2, <3>3, <3>4
    <2> QED BY <1>13, <2>1, <2>3
  <1>19. PICK l \in Nat \ {0} :
           /\ l = Len(s) /\ l = q + 2 - m
           /\ \A i \in 1 .. l : i + m - 1 \in 1 .. q + 1 /\ s[i] = a[i + m - 1]
    <2>1. PICK l \in Nat \ {0} : l = q + 2 - m /\ l = (q + 1) - m + 1
      BY <1>17
    <2> QED BY <1>18, <2>1
  <1>20. Engine!Newest(s) = new
    BY <1>18 DEF Engine!Newest
  <1>21. ASSUME NEW i \in 1 .. l PROVE s[i].t >= t - (Lag - TrimMargin)
    <2>1. PICK k \in 1 .. q + 1 : k = i + m - 1 /\ s[i] = a[k]
      BY <1>19
    <2>2. a[m].t >= t - (Lag - TrimMargin)
      BY <1>15, <1>17
    <2>3. a[k].t >= a[m].t
      <3>1. CASE k = m
        BY <1>14, <3>1
      <3>2. CASE k > m
        <4>1. a[m].t < a[k].t
          BY <1>14, <3>2
        <4> QED BY <1>14, <4>1
      <3>3. k >= m
        BY <2>1, <1>17
      <3> QED BY <3>1, <3>2, <3>3, <1>17, <2>1
    <2>4. a[k].t \in Nat /\ a[m].t \in Nat
      BY <1>14, <1>17
    <2>5. PICK x \in Nat, y \in Nat : x = a[k].t /\ y = a[m].t
      BY <2>4, SMTT(30)
    <2>6. x >= t - (Lag - TrimMargin)
      <3>1. PICK h \in Int : h = t - (Lag - TrimMargin)
        BY <1>11, EngineConstants
      <3>2. y >= h /\ x >= y
        BY <2>2, <2>3, <2>5, <3>1
      <3>3. x >= h
        BY <3>2
      <3> QED BY <3>1, <3>3
    <2> QED BY <2>1, <2>5, <2>6
  <1>22. ChainIn(s, e.held \cup {new}, next + 1)
    <2>1. ASSUME NEW i \in 1 .. l, NEW k \in 1 .. l, i < k
          PROVE  s[i].t < s[k].t /\ s[i].key < s[k].key
      <3>1. i + m - 1 \in 1 .. q + 1 /\ k + m - 1 \in 1 .. q + 1
            /\ s[i] = a[i + m - 1] /\ s[k] = a[k + m - 1]
        BY <1>19
      <3>2. i + m - 1 < k + m - 1
        BY <1>17, <2>1
      <3> QED BY <1>14, <3>1, <3>2
    <2>2. ASSUME NEW i \in 1 .. l PROVE s[i] \in e.held \cup {new} /\ s[i].key < next + 1
      BY <1>14, <1>19
    <2>3. \A k \in e.held \cup {new} : k.t <= t
      <3>1. \A k \in e.held : k.t \in Nat
        BY <1>5, EngineConstants DEF EngineTyped, Engine!State, Engine!Times
      <3> QED BY <1>10, <1>11, <3>1
    <2>4. Engine!Newest(s).t = t
      BY <1>11, <1>20
    <2> QED BY <1>18, <1>19, <1>21, <2>1, <2>2, <2>3, <2>4, Zenon DEF ChainIn
  <1>23. FactorsIn(e.factors, s, e.vioDone)
    <2>1. FactorsIn(e.factors, u, e.vioDone)
      BY <1>5, <1>6 DEF FactorsHold
    <2>2. PICK p \in Nat : p = Len(e.factors)
      <3>1. e.factors \in Seq(SUBSET EngineFactor)
        BY <1>5 DEF EngineTyped
      <3> QED BY <3>1
    <2>3. ASSUME NEW k \in 1 .. p, NEW f \in e.factors[k]
          PROVE  /\ \A d \in f.deltas : f.a.t < d.end /\ d.end <= f.b.t
                 /\ f.b.t <= Engine!Newest(s).t
                 /\ \A i \in 2 .. Len(s) : s[i].key > e.vioDone => f.b.t <= s[i - 1].t
      <3>1. f \in EngineFactor
        BY <1>5, <2>2 DEF EngineTyped
      <3>2. f.b.t \in Nat
        BY <3>1, FactorFields
      <3>3. /\ \A d \in f.deltas : f.a.t < d.end /\ d.end <= f.b.t
            /\ f.b.t <= top
            /\ \A i \in 2 .. q : u[i].key > e.vioDone => f.b.t <= u[i - 1].t
        BY <1>7, <1>8, <2>1, <2>2 DEF FactorsIn
      <3>4. ASSUME NEW i \in 2 .. l, s[i].key > e.vioDone PROVE f.b.t <= s[i - 1].t
        <4>1. PICK j \in 2 .. q + 1 : j = i + m - 1 /\ s[i] = a[j] /\ s[i - 1] = a[j - 1]
          <5>1. i \in 1 .. l /\ i - 1 \in 1 .. l
            OBVIOUS
          <5>2. i + m - 1 \in 1 .. q + 1 /\ (i - 1) + m - 1 \in 1 .. q + 1
                /\ s[i] = a[i + m - 1] /\ s[i - 1] = a[(i - 1) + m - 1]
            BY <1>19, <5>1
          <5>3. i + m - 1 \in 2 .. q + 1 /\ (i - 1) + m - 1 = (i + m - 1) - 1
            BY <5>2, <1>17
          <5> QED BY <5>2, <5>3
        <4>2. CASE j = q + 1
          <5>1. s[i - 1].t = top
            BY <1>7, <1>10, <1>13, <4>1, <4>2, SMTT(30)
          <5> QED BY <3>3, <5>1
        <4>3. CASE j \in 2 .. q
          <5>1. s[i] = u[j] /\ s[i - 1] = u[j - 1]
            <6>1. j \in 1 .. q /\ j - 1 \in 1 .. q
              BY <4>3
            <6> QED BY <1>13, <4>1, <6>1
          <5> QED BY <3>3, <3>4, <4>3, <5>1
        <4> QED BY <4>1, <4>2, <4>3
      <3>5. f.b.t <= t
        BY <1>11, <3>2, <3>3
      <3> QED BY <1>11, <1>19, <1>20, <3>3, <3>4, <3>5
    <2>4. \A k, x \in 1 .. p : \A f \in e.factors[k], g \in e.factors[x] :
            /\ k < x => f.b.t <= g.a.t
            /\ k = x /\ f # g => f.b.t <= g.a.t \/ g.b.t <= f.a.t
      BY <2>1, <2>2, Zenon DEF FactorsIn
    <2> QED BY <2>2, <2>3, <2>4, Zenon DEF FactorsIn
  <1>24. /\ DOMAIN n = EngineFields /\ n.initialized = e.initialized /\ n.stray = e.stray
         /\ n.states = s /\ n.held = e.held \cup {new} /\ n.nextKey = next + 1
         /\ n.vioDone = e.vioDone /\ n.initTags = e.initTags
         /\ n.vioDeltas = e.vioDeltas /\ n.factors = e.factors /\ n.out = e.out
         /\ n.vioPrev = e.vioPrev
    BY <1>4, <1>5, <1>9 DEF EngineTyped, EngineFields
  <1>25. EngineTyped(n)
    <2>1. e.held \cup {new} \subseteq Engine!State /\ next + 1 \in Nat
      BY <1>5, <1>11 DEF EngineTyped
    <2> QED BY <1>5, <1>18, <1>24, <2>1, Zenon DEF EngineTyped
  <1>26. ChainHolds(n) /\ FactorsHold(n) /\ Seen(n) = Seen(e)
    BY <1>22, <1>23, <1>24 DEF ChainHolds, FactorsHold, Seen
  <1>27. DeltasHold(n)
    BY <1>5, <1>24, <1>26, Zenon DEF DeltasHold
  <1>28. Engine!Newest(e.states).t <= Engine!Newest(n.states).t
    BY <1>6, <1>8, <1>11, <1>20, <1>24
  <1> QED BY <1>1, <1>3, <1>24, <1>25, <1>26, <1>27, <1>28 DEF EngineHolds

\* create_state().
LEMMA CreatedFollows ==
  ASSUME NEW e, EngineHolds(e), e.initialized, NEW t \in Engine!Times,
         t >= Engine!Newest(e.states).t + MinStateDt, NEW n \in Engine!Created(e, t)
  PROVE  Follows(n, e)
  <1>1. PICK new : new = Added(e, t)
    OBVIOUS
  <1>3. PICK grown : grown = Grown(e, t)
    OBVIOUS
  <1>4. PICK u \in Engine!Updated(grown, {Engine!Newest(e.states), new}) :
          n \in (IF u.initialized THEN Engine!Flushed(u) ELSE {u})
    BY <1>1, <1>3, Zenon DEF Engine!Created, Grown, Added
  <1>5. /\ EngineHolds(grown) /\ grown.initialized /\ Seen(grown) = Seen(e)
        /\ grown.vioPrev = e.vioPrev /\ grown.held = e.held \cup {new}
        /\ Engine!Newest(e.states).t <= Engine!Newest(grown.states).t
    BY <1>1, <1>3, GrownHolds
  <1>6. {Engine!Newest(e.states), new} \subseteq grown.held
    BY <1>5, NewestIs DEF EngineHolds
  <1>7. Follows(u, grown)
    BY <1>4, <1>5, <1>6, UpdatedFollows
  <1>8. EngineHolds(u) /\ OutHolds(u)
    BY <1>7 DEF Follows
  <1>9. Follows(n, u)
    BY <1>4, <1>8, FlushedFollows, FollowsItself
  <1>10. Follows(n, grown)
    BY <1>5, <1>7, <1>8, <1>9, FollowsOn
  <1>11. n.initialized => Engine!Newest(e.states).t <= Engine!Newest(n.states).t
    <2> SUFFICES ASSUME n.initialized
                 PROVE  Engine!Newest(e.states).t <= Engine!Newest(n.states).t
      OBVIOUS
    <2>1. /\ Engine!Newest(e.states).t \in Nat /\ Engine!Newest(grown.states).t \in Nat
          /\ Engine!Newest(n.states).t \in Nat
      BY <1>5, <1>10, NewestIs DEF EngineHolds, Follows
    <2>2. Engine!Newest(grown.states).t <= Engine!Newest(n.states).t
      BY <1>10 DEF Follows
    <2> QED BY <1>5, <2>1, <2>2
  <1>12. Seen(n) \subseteq Seen(e) /\ n.vioPrev \in {None, e.vioPrev}
    BY <1>5, <1>10 DEF Follows
  <1> QED BY <1>10, <1>11, <1>12, Zenon DEF Follows

-----------------------------------------------------------------------------
\* note_gate_result() changes the monitor or gives the engine up.
LEMMA NotedFollows ==
  ASSUME NEW e, EngineHolds(e), OutHolds(e), NEW pass, NEW t, NEW n, n = Engine!Noted(e, pass, t)
  PROVE  /\ Follows(n, e)
         /\ n.initialized => n.states = e.states /\ n.held = e.held
  <1>1. EngineTyped(e)
    BY SMTT(30) DEF EngineHolds
  <1>2. PICK m : /\ \/ n = [m EXCEPT !.collision = TRUE, !.since = t]
                    \/ n = [m EXCEPT !.collision = FALSE]
                    \/ n = Engine!Reinit(m) \/ n = m
                 /\ \E w, k : m = [e EXCEPT !.window = w, !.passes = k]
    <2> DEFINE w == LET a == Append(e.window, pass) IN
                      SubSeq(a, 1 + (IF Len(a) > CollisionWindow THEN 1 ELSE 0), Len(a))
               k == IF pass THEN Engine!Min({e.passes + 1, CalmPasses}) ELSE 0
               m == [e EXCEPT !.window = w, !.passes = k]
    <2>1. \/ n = [m EXCEPT !.collision = TRUE, !.since = t]
          \/ n = [m EXCEPT !.collision = FALSE]
          \/ n = Engine!Reinit(m) \/ n = m
      BY Zenon DEF Engine!Noted
    <2>2. \E v, l : m = [e EXCEPT !.window = v, !.passes = l]
      OBVIOUS
    <2> HIDE DEF m
    <2> QED BY <2>1, <2>2
  <1>3. /\ DOMAIN m = EngineFields /\ m.initialized = e.initialized /\ m.stray = e.stray
        /\ m.states = e.states /\ m.held = e.held /\ m.nextKey = e.nextKey
        /\ m.vioDone = e.vioDone /\ m.initTags = e.initTags
        /\ m.vioDeltas = e.vioDeltas /\ m.factors = e.factors /\ m.out = e.out
        /\ m.vioPrev = e.vioPrev
    BY <1>1, <1>2 DEF EngineTyped, EngineFields
  <1>4. CASE n = Engine!Reinit(m)
    <2>1. EngineTyped(m)
      BY <1>1, <1>3, Zenon DEF EngineTyped
    <2> QED BY <1>3, <1>4, <2>1, ReinitHolds DEF Follows
  <1>5. CASE n # Engine!Reinit(m)
    <2>1. /\ DOMAIN n = EngineFields /\ n.initialized = e.initialized /\ n.stray = e.stray
          /\ n.states = e.states /\ n.held = e.held /\ n.nextKey = e.nextKey
          /\ n.vioDone = e.vioDone /\ n.initTags = e.initTags
          /\ n.vioDeltas = e.vioDeltas /\ n.factors = e.factors /\ n.out = e.out
          /\ n.vioPrev = e.vioPrev
      <3>1. CASE n = m
        BY <1>3, <3>1, Zenon
      <3>2. CASE n = [m EXCEPT !.collision = FALSE]
        BY <1>3, <3>2 DEF EngineFields
      <3>3. CASE n = [m EXCEPT !.collision = TRUE, !.since = t]
        BY <1>3, <3>3 DEF EngineFields
      <3> QED BY <1>2, <1>5, <3>1, <3>2, <3>3
    <2>2. EngineHolds(n) /\ Seen(n) = Seen(e)
      BY <1>1, <2>1, SameChain, SMTT(30) DEF EngineTyped
    <2>3. OutHolds(n)
      BY <2>1, Zenon DEF OutHolds
    <2>4. n.initialized => Engine!Newest(e.states).t <= Engine!Newest(n.states).t
      <3>1. e.initialized => Engine!Newest(e.states).t \in Nat
        BY NewestIs DEF EngineHolds
      <3> QED BY <2>1, <3>1
    <2> QED BY <2>1, <2>2, <2>3, <2>4 DEF Follows
  <1> QED BY <1>4, <1>5

\* attach_tag().
LEMMA AttachedFollows ==
  ASSUME NEW e, EngineHolds(e), OutHolds(e), e.initialized, NEW key \in e.held, NEW t,
         NEW n \in Engine!Attached(e, key, t)
  PROVE  Follows(n, e)
  <1>1. PICK pass \in BOOLEAN :
          n \in LET m == Engine!Noted(e, pass, t) IN
                IF m.initialized /\ (pass \/ m.collision) THEN Engine!Updated(m, {key}) ELSE {m}
    BY Zenon DEF Engine!Attached
  <1>2. PICK m : m = Engine!Noted(e, pass, t)
    OBVIOUS
  <1>3. Follows(m, e) /\ (m.initialized => m.states = e.states /\ m.held = e.held)
    BY <1>2, NotedFollows
  <1>4. EngineHolds(m)
    BY <1>3 DEF Follows
  <1>5. CASE n = m
    BY <1>3, <1>5
  <1>6. CASE m.initialized /\ n \in Engine!Updated(m, {key})
    <2>1. {key} \subseteq m.held
      BY <1>3, <1>6
    <2>2. Follows(n, m)
      BY <1>4, <1>6, <2>1, UpdatedFollows
    <2> QED BY <1>3, <1>4, <2>2, FollowsOn
  <1> QED BY <1>1, <1>2, <1>5, <1>6

\* The state a late tag is attached to.
LEMMA NearestIs ==
  ASSUME EngineHolds(Engine!Engine), initialized, NEW t \in Engine!Times,
         Engine!Nearest(t) # None
  PROVE  Engine!Nearest(t) \in held
  <1>1. PICK e : e = Engine!Engine
    OBVIOUS
  <1>2. e.states = states /\ e.held = held /\ e.initialized = initialized
    BY <1>1 DEF Engine!Engine
  <1>3. PICK q \in Nat : q = Len(states)
    BY <1>1, <1>2, NewestIs DEF EngineHolds
  <1>4. \A i \in 1 .. q : states[i] \in held /\ states[i].t \in Nat
    BY <1>1, <1>2, <1>3, NewestIs DEF EngineHolds, ChainHolds, ChainIn
  <1>5. t \in Nat /\ MinStateDt \in Nat
    BY EngineConstants DEF Engine!Times
  <1>6. PICK dist : dist = [i \in 1 .. q |-> Engine!Distance(states[i].t, t)]
    OBVIOUS
  <1>7. \A i \in 1 .. q : dist[i] \in Nat /\ dist[i] = Engine!Distance(states[i].t, t)
    BY <1>4, <1>5, <1>6 DEF Engine!Distance
  <1>8. PICK near : near = {i \in 1 .. q : Engine!Distance(states[i].t, t) <= MinStateDt}
    OBVIOUS
  <1>9. near # {} /\ Engine!Nearest(t) = states[CHOOSE i \in near : \A j \in near :
                      \/ Engine!Distance(states[i].t, t) < Engine!Distance(states[j].t, t)
                      \/ Engine!Distance(states[i].t, t) = Engine!Distance(states[j].t, t) /\ j <= i]
    <2>1. near # {}
      BY <1>3, <1>8 DEF Engine!Nearest
    <2> QED BY <1>3, <1>8, <2>1, Zenon DEF Engine!Nearest
  <1>10. PICK d \in {dist[i] : i \in near} : \A x \in {dist[i] : i \in near} : d <= x
    <2>1. {dist[i] : i \in near} \in SUBSET Nat /\ {dist[i] : i \in near} # {}
      BY <1>7, <1>8, <1>9
    <2> QED BY <2>1, LeastIs
  <1>11. PICK S : S = {i \in near : dist[i] = d}
    OBVIOUS
  <1>12. PICK i \in S : \A j \in S : j <= i
    <2>1. S \in SUBSET Nat /\ S # {} /\ \A j \in S : j <= q
      BY <1>8, <1>10, <1>11
    <2> QED BY <1>3, <2>1, GreatestIs
  <1>13. i \in near /\ dist[i] = d
    BY <1>11, <1>12
  <1>14. ASSUME NEW j \in near
         PROVE  \/ Engine!Distance(states[i].t, t) < Engine!Distance(states[j].t, t)
                \/ Engine!Distance(states[i].t, t) = Engine!Distance(states[j].t, t) /\ j <= i
    <2>1. i \in 1 .. q /\ j \in 1 .. q
      BY <1>8, <1>13
    <2>2. dist[i] \in Nat /\ dist[j] \in Nat
      BY <1>7, <2>1
    <2>3. dist[i] <= dist[j]
      BY <1>10, <1>13
    <2>4. CASE dist[i] = dist[j]
      <3>1. j <= i
        BY <1>11, <1>12, <1>13, <2>4
      <3> QED BY <1>7, <2>1, <2>4, <3>1
    <2>5. CASE dist[i] < dist[j]
      BY <1>7, <2>1, <2>5
    <2> QED BY <2>2, <2>3, <2>4, <2>5
  <1>15. (CHOOSE k \in near : \A j \in near :
                      \/ Engine!Distance(states[k].t, t) < Engine!Distance(states[j].t, t)
                      \/ Engine!Distance(states[k].t, t) = Engine!Distance(states[j].t, t) /\ j <= k)
         \in near
    BY <1>13, <1>14, Zenon
  <1>16. \A k \in near : states[k] \in held
    BY <1>4, <1>8
  <1> QED BY <1>9, <1>15, <1>16

\* try_init(): the graph starts with one state and no motion.
LEMMA TriedHolds ==
  ASSUME NEW e, EngineHolds(e), OutHolds(e), ~e.initialized, NEW n \in Engine!Tried(e)
  PROVE  /\ EngineHolds(n) /\ OutHolds(n) /\ Seen(n) \subseteq Seen(e)
         /\ n.vioPrev \in {None, e.vioPrev}
  <1>1. EngineTyped(e) /\ DeltasHold(e) /\ e.initialized = FALSE
    BY DEF EngineHolds, EngineTyped
  <1>2. PICK p \in Nat : p = Len(e.initTags)
    BY <1>1 DEF EngineTyped
  <1>3. PICK burst : burst = SubSeq(e.initTags, Len(e.initTags) - InitTags + 1, Len(e.initTags))
    OBVIOUS
  <1>4. CASE p < InitTags
    <2>1. n = e
      BY <1>2, <1>4 DEF Engine!Tried
    <2> QED BY <2>1
  <1>5. CASE ~(p < InitTags)
    <2>1. /\ burst \in Seq(Engine!Times) /\ Len(burst) = InitTags
      <3>1. PICK m \in 1 .. p + 1 : m = p - InitTags + 1 /\ p - m + 1 = InitTags
        BY <1>5, EngineConstants
      <3>2. burst = SubSeq(e.initTags, m, p)
        BY <1>2, <1>3, <3>1
      <3>3. burst \in Seq(Engine!Times) /\ Len(burst) = p - m + 1
        BY <1>1, <1>2, <3>2, FromFront, SMTT(30) DEF EngineTyped
      <3> QED BY <3>1, <3>3
    <2>2. burst # <<>> /\ Tail(burst) \in Seq(Engine!Times)
      <3>1. burst # <<>>
        BY <2>1, EngineConstants
      <3> QED BY <2>1, <3>1, HeadTailProperties
    <2>3. CASE n = [e EXCEPT !.initTags = Tail(burst)]
      <3>1. /\ DOMAIN n = EngineFields /\ n.initialized = e.initialized /\ n.stray = e.stray
            /\ n.states = e.states /\ n.held = e.held /\ n.nextKey = e.nextKey
            /\ n.vioDone = e.vioDone /\ n.initTags = Tail(burst)
            /\ n.vioDeltas = e.vioDeltas /\ n.factors = e.factors /\ n.out = e.out
            /\ n.vioPrev = e.vioPrev
        BY <1>1, <2>3 DEF EngineTyped, EngineFields
      <3>2. EngineHolds(n) /\ Seen(n) = Seen(e)
        BY <1>1, <2>2, <3>1, SameChain DEF EngineTyped
      <3>3. OutHolds(n)
        BY <3>1, Zenon DEF OutHolds
      <3> QED BY <3>1, <3>2, <3>3
    <2>4. CASE \E t \in Engine!ToSet(burst) :
                 LET k == [t |-> t, key |-> 0]
                     m == [e EXCEPT !.initTags = burst, !.nextKey = 1, !.vioDone = 0,
                                    !.states = <<k>>, !.held = {k}, !.initialized = TRUE]
                 IN \E u \in Engine!Updated(m, {k}) : n = [u EXCEPT !.initTags = <<>>]
      <3>1. PICK t \in Engine!ToSet(burst) :
                 LET k == [t |-> t, key |-> 0]
                     m == [e EXCEPT !.initTags = burst, !.nextKey = 1, !.vioDone = 0,
                                    !.states = <<k>>, !.held = {k}, !.initialized = TRUE]
                 IN \E u \in Engine!Updated(m, {k}) : n = [u EXCEPT !.initTags = <<>>]
        BY <2>4
      <3>2. t \in Engine!Times
        BY <2>1 DEF Engine!ToSet
      <3>3. PICK k : k = [t |-> t, key |-> 0]
        OBVIOUS
      <3>4. PICK m : m = [e EXCEPT !.initTags = burst, !.nextKey = 1, !.vioDone = 0,
                                   !.states = <<k>>, !.held = {k}, !.initialized = TRUE]
        OBVIOUS
      <3>5. PICK u \in Engine!Updated(m, {k}) : n = [u EXCEPT !.initTags = <<>>]
        BY <3>1, <3>3, <3>4, Zenon
      <3>6. /\ DOMAIN m = EngineFields /\ m.initialized = TRUE /\ m.stray = e.stray
            /\ m.states = <<k>> /\ m.held = {k} /\ m.nextKey = 1
            /\ m.vioDone = 0 /\ m.initTags = burst
            /\ m.vioDeltas = e.vioDeltas /\ m.factors = e.factors /\ m.out = e.out
            /\ m.vioPrev = e.vioPrev
        BY <1>1, <3>4 DEF EngineTyped, EngineFields
      <3>7. k \in Engine!State /\ k.t = t /\ k.key = 0 /\ t \in Nat
        BY <3>2, <3>3, EngineConstants DEF Engine!State, Engine!Times
      <3>8. EngineTyped(m)
        <4>1. <<k>> \in Seq(Engine!State) /\ {k} \subseteq Engine!State
          BY <3>7
        <4>2. m.nextKey \in Nat /\ m.vioDone \in Nat
          BY <3>6
        <4>3. m.initialized \in BOOLEAN /\ ~(~m.initialized)
          BY <3>6, Zenon
        <4> QED BY <1>1, <2>1, <3>6, <4>1, <4>2, <4>3, Zenon DEF EngineTyped
      <3>9. ChainIn(<<k>>, {k}, 1)
        <4>1. Engine!Newest(<<k>>) = k /\ Len(<<k>>) = 1 /\ <<k>>[1] = k
          BY DEF Engine!Newest
        <4> QED BY <3>7, <4>1, EngineConstants DEF ChainIn
      <3>10. m.factors = <<>> /\ Seen(m) = Seen(e)
        BY <1>1, <3>6 DEF EngineTyped, Seen
      <3>11. ChainHolds(m) /\ FactorsHold(m) /\ DeltasHold(m)
        <4>1. FactorsHold(m)
          BY <3>10 DEF FactorsHold, FactorsIn
        <4> QED BY <1>1, <3>6, <3>9, <3>10, <4>1 DEF ChainHolds, DeltasHold
      <3>12. EngineHolds(m) /\ {k} \subseteq m.held
        BY <3>6, <3>8, <3>11 DEF EngineHolds
      <3>13. Follows(u, m)
        BY <3>5, <3>6, <3>12, UpdatedFollows
      <3>14. /\ EngineHolds(u) /\ OutHolds(u) /\ Seen(u) \subseteq Seen(e)
             /\ u.vioPrev \in {None, e.vioPrev}
        BY <3>6, <3>10, <3>13 DEF Follows
      <3>15. EngineTyped(u)
        BY <3>14 DEF EngineHolds
      <3>16. /\ DOMAIN n = EngineFields /\ n.initialized = u.initialized /\ n.stray = u.stray
             /\ n.states = u.states /\ n.held = u.held /\ n.nextKey = u.nextKey
             /\ n.vioDone = u.vioDone /\ n.initTags = <<>>
             /\ n.vioDeltas = u.vioDeltas /\ n.factors = u.factors /\ n.out = u.out
             /\ n.vioPrev = u.vioPrev
        BY <3>5, <3>15 DEF EngineTyped, EngineFields
      <3>17. EngineHolds(n) /\ Seen(n) = Seen(u)
        <4>1. <<>> \in Seq(Engine!Times)
          OBVIOUS
        <4> QED BY <3>14, <3>15, <3>16, <4>1, SameChain DEF EngineTyped
      <3>18. OutHolds(n)
        BY <3>14, <3>16, Zenon DEF OutHolds
      <3> QED BY <3>14, <3>16, <3>17, <3>18
    <2> QED BY <1>2, <1>3, <1>5, <2>3, <2>4 DEF Engine!Tried
  <1> QED BY <1>4, <1>5

-----------------------------------------------------------------------------
\* Only deltas are counted.
LEMMA SeenAreDeltas ==
  ASSUME NEW e, EngineTyped(e)
  PROVE  Seen(e) \subseteq Engine!Delta
  <1>1. \A m \in 1 .. Len(e.factors) : \A f \in e.factors[m] : f.deltas \subseteq Engine!Delta
    BY DEF EngineTyped, EngineFactor
  <1>2. \A k \in 1 .. Len(e.vioDeltas) : e.vioDeltas[k] \in Engine!Delta
    BY DEF EngineTyped
  <1> QED BY <1>1, <1>2 DEF Seen, SeenIn

\* What a step of the engine comes to.
Stepped(n) ==
    /\ Engine!Becomes(n) /\ EngineHolds(n) /\ OutHolds(n)
    /\ initialized /\ n.initialized => Engine!Newest(states).t <= Engine!Newest(n.states).t
    /\ lastVio'.t \in 0 .. MaxTime
    /\ n.vioPrev # None => n.vioPrev.t <= lastVio'.t
    /\ \A d \in Seen(n) : d.end <= lastVio'.t

LEMMA SteppedHolds ==
  ASSUME EngineInv, NEW n, Stepped(n)
  PROVE  EngineInv' /\ Engine!PoseForward
  <1>1. PICK m : m = Engine!Engine'
    OBVIOUS
  <1>2. EngineTyped(n) /\ OutHolds(n)
    BY DEF Stepped, EngineHolds
  <1>3. /\ DOMAIN m = EngineFields /\ m.initialized = n.initialized /\ m.stray = n.stray
        /\ m.states = n.states /\ m.held = n.held /\ m.nextKey = n.nextKey
        /\ m.vioDone = n.vioDone /\ m.initTags = n.initTags
        /\ m.vioDeltas = n.vioDeltas /\ m.factors = n.factors /\ m.out = n.out
        /\ m.vioPrev = n.vioPrev
    BY <1>1 DEF Engine!Engine, Engine!Becomes, Stepped, EngineFields
  <1>4. EngineHolds(m) /\ Seen(m) = Seen(n)
    BY <1>2, <1>3, SameChain, SMTT(30) DEF EngineTyped, Stepped
  <1>5. OutHolds(m)
    BY <1>2, <1>3, Zenon DEF OutHolds
  <1>6. m.vioPrev = vioPrev' /\ m.out = out'
    BY <1>1 DEF Engine!Engine
  <1>7. vioPrev' # None => (vioPrev').t <= lastVio'.t
    BY <1>3, <1>6 DEF Stepped
  <1>8. \A d \in Seen(m) : d.end <= lastVio'.t
    BY <1>4 DEF Stepped
  <1>9. EngineInv'
    BY <1>1, <1>4, <1>5, <1>7, <1>8 DEF EngineInv, Stepped
  <1>10. Engine!PoseForward
    <2>1. PICK e : e = Engine!Engine
      OBVIOUS
    <2>2. /\ e.initialized = initialized /\ e.states = states /\ e.out = out
          /\ EngineHolds(e) /\ OutHolds(e)
      BY <2>1 DEF Engine!Engine, EngineInv
    <2> SUFFICES ASSUME out.initialized, out'.initialized PROVE out'.t >= out.t
      BY DEF Engine!PoseForward
    <2>3. initialized /\ n.initialized
      BY <1>3, <1>5, <1>6, <2>2, Zenon DEF OutHolds
    <2>4. out.t = Engine!Newest(states).t /\ out'.t = Engine!Newest(n.states).t
      BY <1>3, <1>5, <1>6, <2>2, <2>3, Zenon DEF OutHolds
    <2>5. Engine!Newest(states).t \in Nat /\ Engine!Newest(n.states).t \in Nat
      BY <2>2, <2>3, NewestIs DEF EngineHolds, Stepped
    <2>6. Engine!Newest(states).t <= Engine!Newest(n.states).t
      BY <2>3 DEF Stepped
    <2> QED BY <2>4, <2>5, <2>6
  <1> QED BY <1>9, <1>10

\* A step that follows from the engine as it is, with no output of VIO.
LEMMA FollowedSteps ==
  ASSUME EngineInv, NEW n, Follows(n, Engine!Engine), Engine!Becomes(n), UNCHANGED lastVio
  PROVE  Stepped(n)
  <1>1. PICK e : e = Engine!Engine
    OBVIOUS
  <1>2. e.initialized = initialized /\ e.states = states /\ e.vioPrev = vioPrev
    BY <1>1 DEF Engine!Engine
  <1>3. Follows(n, e) /\ \A d \in Seen(e) : d.end <= lastVio.t
    BY <1>1 DEF EngineInv
  <1>4. EngineHolds(n) /\ OutHolds(n)
    BY <1>3 DEF Follows
  <1>5. initialized /\ n.initialized => Engine!Newest(states).t <= Engine!Newest(n.states).t
    BY <1>2, <1>3 DEF Follows
  <1>6. n.vioPrev # None => n.vioPrev.t <= lastVio'.t
    BY <1>2, <1>3 DEF Follows, EngineInv
  <1>7. \A d \in Seen(n) : d.end <= lastVio'.t
    BY <1>3 DEF Follows
  <1> QED BY <1>4, <1>5, <1>6, <1>7 DEF Stepped, EngineInv

\* The engine as a record.
LEMMA EngineIs ==
  ASSUME EngineInv, NEW e, e = Engine!Engine
  PROVE  /\ e.initialized = initialized /\ e.states = states /\ e.held = held
         /\ e.vioPrev = vioPrev /\ e.initTags = initTags /\ e.vioDeltas = vioDeltas
         /\ EngineHolds(e) /\ OutHolds(e) /\ EngineTyped(e)
         /\ \A d \in Seen(e) : d.end <= lastVio.t
  BY DEF Engine!Engine, EngineInv, EngineHolds

LEMMA OdomSteps ==
  ASSUME EngineInv, Engine!FeedOdom
  PROVE  \E n : Stepped(n)
  <1>1. PICK t \in Engine!Times :
          /\ initialized /\ t >= Engine!Newest(states).t + MinStateDt
          /\ \E n \in Engine!Created(Engine!Engine, t) : Engine!Becomes(n)
          /\ UNCHANGED lastVio
    BY DEF Engine!FeedOdom
  <1>2. PICK n \in Engine!Created(Engine!Engine, t) : Engine!Becomes(n)
    BY <1>1
  <1>3. PICK e : e = Engine!Engine
    OBVIOUS
  <1>4. Follows(n, e)
    BY <1>1, <1>2, <1>3, EngineIs, CreatedFollows
  <1> QED BY <1>1, <1>2, <1>3, <1>4, FollowedSteps

LEMMA ResetSteps ==
  ASSUME EngineInv, Engine!Reset
  PROVE  \E n : Stepped(n)
  <1>1. PICK e : e = Engine!Engine
    OBVIOUS
  <1>2. Follows(Engine!Reinit(e), e)
    BY <1>1, EngineIs, ReinitFollows
  <1> QED BY <1>1, <1>2, FollowedSteps DEF Engine!Reset

LEMMA TagSteps ==
  ASSUME EngineInv, Engine!FeedTag
  PROVE  \E n : Stepped(n)
  <1>1. PICK t \in Engine!Times :
          /\ UNCHANGED lastVio
          /\ \E n \in
               IF ~initialized
               THEN Engine!Tried([Engine!Engine EXCEPT !.initTags = Append(@, t)])
               ELSE IF t >= Engine!Newest(states).t + MinStateDt
               THEN UNION {IF n.initialized
                           THEN Engine!Attached(n, Engine!Newest(n.states), t) ELSE {n}
                           : n \in Engine!Created(Engine!Engine, t)}
               ELSE IF Engine!Nearest(t) = None THEN {Engine!Engine}
               ELSE Engine!Attached(Engine!Engine, Engine!Nearest(t), t) :
             Engine!Becomes(n)
    BY Zenon DEF Engine!FeedTag
  <1>2. PICK e : e = Engine!Engine
    OBVIOUS
  <1>3. CASE ~initialized
    <2>1. PICK m : m = [e EXCEPT !.initTags = Append(e.initTags, t)]
      OBVIOUS
    <2>2. PICK n \in Engine!Tried(m) : Engine!Becomes(n)
      BY <1>1, <1>2, <1>3, <2>1, Zenon
    <2>3. EngineHolds(e) /\ EngineTyped(e) /\ OutHolds(e) /\ e.initialized = initialized
      BY <1>2, EngineIs
    <2>4. /\ DOMAIN m = EngineFields /\ m.initialized = e.initialized /\ m.stray = e.stray
          /\ m.states = e.states /\ m.held = e.held /\ m.nextKey = e.nextKey
          /\ m.vioDone = e.vioDone /\ m.initTags = Append(e.initTags, t)
          /\ m.vioDeltas = e.vioDeltas /\ m.factors = e.factors /\ m.out = e.out
          /\ m.vioPrev = e.vioPrev
      BY <2>1, <2>3 DEF EngineTyped, EngineFields
    <2>5. m.initTags \in Seq(Engine!Times)
      BY <2>3, <2>4 DEF EngineTyped
    <2>6. EngineHolds(m) /\ Seen(m) = Seen(e)
      BY <2>3, <2>4, <2>5, SameChain DEF EngineTyped
    <2>7. OutHolds(m)
      BY <2>3, <2>4, Zenon DEF OutHolds
    <2>8. /\ EngineHolds(n) /\ OutHolds(n) /\ Seen(n) \subseteq Seen(e)
          /\ n.vioPrev \in {None, e.vioPrev}
      BY <1>3, <2>2, <2>3, <2>4, <2>6, <2>7, TriedHolds
    <2>9. n.vioPrev # None => n.vioPrev.t <= lastVio'.t
      BY <1>1, <1>2, <2>8, EngineIs DEF EngineInv
    <2>10. \A d \in Seen(n) : d.end <= lastVio'.t
      BY <1>1, <1>2, <2>8, EngineIs
    <2> QED BY <1>1, <1>3, <2>2, <2>8, <2>9, <2>10 DEF Stepped, EngineInv
  <1>4. CASE initialized /\ t >= Engine!Newest(states).t + MinStateDt
    <2>1. PICK m \in Engine!Created(e, t) :
            \E n \in IF m.initialized
                     THEN Engine!Attached(m, Engine!Newest(m.states), t) ELSE {m} :
              Engine!Becomes(n)
      BY <1>1, <1>2, <1>4, Zenon
    <2>2. PICK n \in IF m.initialized
                     THEN Engine!Attached(m, Engine!Newest(m.states), t) ELSE {m} :
            Engine!Becomes(n)
      BY <2>1
    <2>3. Follows(m, e)
      BY <1>2, <1>4, <2>1, EngineIs, CreatedFollows
    <2>4. EngineHolds(m) /\ OutHolds(m)
      BY <2>3 DEF Follows
    <2>5. Follows(n, m)
      <3>1. CASE m.initialized
        <4>1. Engine!Newest(m.states) \in m.held
          BY <2>4, <3>1, NewestIs DEF EngineHolds
        <4> QED BY <2>2, <2>4, <3>1, <4>1, AttachedFollows
      <3>2. CASE ~m.initialized
        BY <2>2, <2>4, <3>2, FollowsItself
      <3> QED BY <3>1, <3>2
    <2>6. EngineHolds(e)
      BY <1>2, EngineIs
    <2>7. Follows(n, e)
      BY <2>3, <2>4, <2>5, <2>6, FollowsOn
    <2> QED BY <1>1, <1>2, <2>2, <2>7, FollowedSteps
  <1>5. CASE initialized /\ ~(t >= Engine!Newest(states).t + MinStateDt)
    <2>1. PICK n \in IF Engine!Nearest(t) = None THEN {e}
                     ELSE Engine!Attached(e, Engine!Nearest(t), t) : Engine!Becomes(n)
      BY <1>1, <1>2, <1>5, Zenon
    <2>2. Follows(n, e)
      <3>1. CASE Engine!Nearest(t) = None
        BY <1>2, <2>1, <3>1, EngineIs, FollowsItself
      <3>2. CASE Engine!Nearest(t) # None
        <4>1. Engine!Nearest(t) \in e.held
          BY <1>2, <1>5, <3>2, EngineIs, NearestIs
        <4> QED BY <1>2, <1>5, <2>1, <3>2, <4>1, EngineIs, AttachedFollows
      <3> QED BY <3>1, <3>2
    <2> QED BY <1>1, <1>2, <2>1, <2>2, FollowedSteps
  <1> QED BY <1>3, <1>4, <1>5

\* A change of the last output of VIO alone.
LEMMA PrimedHolds ==
  ASSUME NEW e, EngineHolds(e), OutHolds(e), NEW p, DeltasIn(Seen(e), p),
         NEW n, n = [e EXCEPT !.vioPrev = p]
  PROVE  /\ EngineHolds(n) /\ OutHolds(n) /\ Seen(n) = Seen(e) /\ n.vioPrev = p
         /\ n.initialized = e.initialized /\ n.states = e.states
  <1>1. /\ DOMAIN n = EngineFields /\ n.initialized = e.initialized /\ n.stray = e.stray
        /\ n.states = e.states /\ n.held = e.held /\ n.nextKey = e.nextKey
        /\ n.vioDone = e.vioDone /\ n.initTags = e.initTags
        /\ n.vioDeltas = e.vioDeltas /\ n.factors = e.factors /\ n.out = e.out
        /\ n.vioPrev = p
    BY DEF EngineHolds, EngineTyped, EngineFields
  <1>2. EngineTyped(n) /\ OutHolds(n)
    <2>1. EngineTyped(e)
      BY DEF EngineHolds
    <2> QED BY <1>1, <2>1, Zenon DEF EngineTyped, OutHolds
  <1>3. Seen(n) = Seen(e)
    BY <1>1 DEF Seen
  <1>4. ChainHolds(n) /\ FactorsHold(n)
    BY <1>1, Zenon DEF EngineHolds, ChainHolds, FactorsHold
  <1> QED BY <1>1, <1>2, <1>3, <1>4 DEF EngineHolds, DeltasHold

\* A buffer of deltas with one more at its end, and perhaps one less in front.
Pushed(b, x, from) == SubSeq(Append(b, x), from, Len(Append(b, x)))
Among(r, b, x) == \A i \in 1 .. Len(r) : r[i] \in {x} \cup {b[k] : k \in 1 .. Len(b)}

LEMMA BufferAdds ==
  ASSUME NEW S, NEW b \in Seq(S), NEW x \in S, NEW from \in {1, 2}
  PROVE  Pushed(b, x, from) \in Seq(S) /\ Among(Pushed(b, x, from), b, x)
  <1>1. PICK d : d = Append(b, x)
    OBVIOUS
  <1>2. PICK r : r = Pushed(b, x, from) /\ r = SubSeq(d, from, Len(d))
    BY <1>1 DEF Pushed
  <1>3. PICK q \in Nat : q = Len(b)
    OBVIOUS
  <1>4. /\ d \in Seq(S) /\ Len(d) = Len(b) + 1
        /\ \A i \in 1 .. Len(b) : d[i] = b[i]
        /\ d[Len(b) + 1] = x
    BY <1>1, AppendProperties
  <1>5. PICK p \in Nat : p = q + 1 /\ p = Len(d) /\ from \in 1 .. p + 1
    BY <1>3, <1>4
  <1>6. \A i \in 1 .. p : d[i] \in {x} \cup {b[k] : k \in 1 .. q}
    <2>1. \A i \in 1 .. p : i \in 1 .. q \/ i = q + 1
      BY <1>5
    <2>2. d[q + 1] = x /\ \A i \in 1 .. q : d[i] = b[i]
      BY <1>3, <1>4
    <2> QED BY <2>1, <2>2
  <1>7. r = SubSeq(d, from, p)
    BY <1>2, <1>5
  <1>8. /\ r \in Seq(S) /\ Len(r) = p - from + 1
        /\ \A i \in 1 .. p - from + 1 : i + from - 1 \in 1 .. p /\ r[i] = d[i + from - 1]
    BY <1>4, <1>5, <1>7, FromFront
  <1>9. \A i \in 1 .. Len(r) : r[i] \in {x} \cup {b[k] : k \in 1 .. q}
    BY <1>6, <1>8
  <1> QED BY <1>3, <1>2, <1>8, <1>9 DEF Among

LEMMA SeenAmong ==
  ASSUME NEW r, NEW b, NEW x, Among(r, b, x), NEW fs
  PROVE  SeenIn(r, fs) \subseteq SeenIn(b, fs) \cup {x}
  <1> SUFFICES ASSUME NEW c \in SeenIn(r, fs), c # x PROVE c \in SeenIn(b, fs)
    OBVIOUS
  <1>1. CASE \E i \in 1 .. Len(r) : c = r[i]
    BY <1>1 DEF SeenIn, Among
  <1>2. CASE c \in UNION {UNION {f.deltas : f \in fs[m]} : m \in 1 .. Len(fs)}
    BY <1>2 DEF SeenIn
  <1> QED BY <1>1, <1>2 DEF SeenIn

\* One more delta, from the last output to this one.
Latest(e, t) == [begin |-> e.vioPrev.t, end |-> t]
Extended(e, p, r) == [e EXCEPT !.vioPrev = p, !.vioDeltas = r]

LEMMA DeltaAdds ==
  ASSUME NEW e, EngineHolds(e), OutHolds(e), e.initialized, e.vioPrev # None,
         NEW p, p.t \in Engine!Times, e.vioPrev.t < p.t,
         NEW r \in Seq(Engine!Delta), Among(r, e.vioDeltas, Latest(e, p.t))
  PROVE  /\ EngineHolds(Extended(e, p, r)) /\ OutHolds(Extended(e, p, r))
         /\ Extended(e, p, r).vioPrev = p
         /\ Extended(e, p, r).initialized = e.initialized
         /\ Extended(e, p, r).states = e.states
         /\ \A c \in Seen(Extended(e, p, r)) : c.end <= p.t
  <1>1. PICK n, t : n = Extended(e, p, r) /\ t = p.t
    OBVIOUS
  <1>2. /\ DOMAIN n = EngineFields /\ n.initialized = e.initialized /\ n.stray = e.stray
        /\ n.states = e.states /\ n.held = e.held /\ n.nextKey = e.nextKey
        /\ n.vioDone = e.vioDone /\ n.initTags = e.initTags
        /\ n.vioDeltas = r /\ n.factors = e.factors /\ n.out = e.out
        /\ n.vioPrev = p
    BY <1>1 DEF Extended, EngineHolds, EngineTyped, EngineFields
  <1>3. EngineTyped(e) /\ DeltasHold(e)
    BY DEF EngineHolds
  <1>4. t \in Engine!Times /\ p.t = t /\ e.vioPrev.t < t
    BY <1>1
  <1>5. e.vioPrev.t \in Engine!Times /\ \A c \in Seen(e) : c.end <= e.vioPrev.t
    BY <1>3, Zenon DEF DeltasHold, DeltasIn
  <1>6. PICK delta : /\ delta = Latest(e, t) /\ delta.begin = e.vioPrev.t /\ delta.end = t
    BY <1>1 DEF Latest
  <1>7. Seen(n) \subseteq Seen(e) \cup {delta}
    <2>1. Seen(n) = SeenIn(r, e.factors) /\ Seen(e) = SeenIn(e.vioDeltas, e.factors)
      BY <1>2 DEF Seen
    <2>2. Among(r, e.vioDeltas, delta)
      BY <1>1, <1>6
    <2> QED BY <2>1, <2>2, SeenAmong
  <1>8. EngineTyped(n) /\ OutHolds(n)
    <2>1. ~(~n.initialized)
      BY <1>2, Zenon
    <2> QED BY <1>2, <1>3, <2>1, Zenon DEF EngineTyped, OutHolds
  <1>9. ChainHolds(n) /\ FactorsHold(n)
    BY <1>2, Zenon DEF EngineHolds, ChainHolds, FactorsHold
  <1>10. \A c \in Seen(e) : c.begin \in Nat /\ c.end \in Nat
    BY <1>3, SeenAreDeltas DEF Engine!Delta, Engine!Times
  <1>11. t \in Nat /\ e.vioPrev.t \in Nat
    BY <1>4, <1>5 DEF Engine!Times
  <1>12. \A c \in Seen(n) : c.end <= t
    BY <1>4, <1>5, <1>6, <1>7, <1>10, <1>11, SMTT(30)
  <1>13. \A b, c \in Seen(n) : b # c => b.end <= c.begin \/ c.end <= b.begin
    <2> SUFFICES ASSUME NEW b \in Seen(n), NEW c \in Seen(n), b # c
                 PROVE  b.end <= c.begin \/ c.end <= b.begin
      OBVIOUS
    <2>1. \/ b \in Seen(e) /\ c \in Seen(e)
          \/ b = delta /\ c \in Seen(e)
          \/ b \in Seen(e) /\ c = delta
      BY <1>7, Zenon
    <2>2. CASE b \in Seen(e) /\ c \in Seen(e)
      BY <1>3, <2>2, Zenon DEF DeltasHold, DeltasIn
    <2>3. CASE b = delta /\ c \in Seen(e)
      BY <1>5, <1>6, <2>3, Zenon
    <2>4. CASE b \in Seen(e) /\ c = delta
      BY <1>5, <1>6, <2>4, Zenon
    <2> QED BY <2>1, <2>2, <2>3, <2>4
  <1>14. DeltasHold(n)
    <2>1. p # None => p.t \in Engine!Times /\ \A d \in Seen(n) : d.end <= p.t
      BY <1>1, <1>4, <1>12, Zenon
    <2> QED BY <1>2, <1>13, <2>1, Zenon DEF DeltasHold, DeltasIn
  <1>15. EngineHolds(n)
    BY <1>8, <1>9, <1>14 DEF EngineHolds
  <1> QED BY <1>1, <1>2, <1>8, <1>12, <1>15

LEMMA VioSteps ==
  ASSUME EngineInv, Engine!FeedVio
  PROVE  \E n : Stepped(n)
  <1>1. PICK t \in Engine!NextVio, epoch \in lastVio.epoch .. MaxEpochs, good \in BOOLEAN :
          LET sample == [t |-> t, epoch |-> epoch]
              delta  == [begin |-> vioPrev.t, end |-> t]
              primed == [Engine!Engine EXCEPT !.vioPrev = sample]
              e      == [primed EXCEPT !.vioDeltas =
                            LET d == Append(@, delta) IN
                            SubSeq(d, 1 + (IF Len(d) > VioCap THEN 1 ELSE 0), Len(d))]
          IN /\ lastVio' = sample
             /\ CASE ~good -> Engine!Becomes([Engine!Engine EXCEPT !.vioPrev = None])
                  [] good /\ (vioPrev = None \/ ~initialized) -> Engine!Becomes(primed)
                  [] good /\ vioPrev # None /\ initialized /\ vioPrev.epoch # epoch ->
                       Engine!Becomes(primed)
                  [] OTHER ->
                       \E n \in IF t >= Engine!Newest(states).t + MinStateDt
                                THEN Engine!Created(e, t) ELSE Engine!Flushed(e) :
                         Engine!Becomes(n)
    BY Zenon DEF Engine!FeedVio
  <1>2. PICK sample : sample = [t |-> t, epoch |-> epoch]
    OBVIOUS
  <1>3. PICK e : e = Engine!Engine
    OBVIOUS
  <1>4. /\ EngineHolds(e) /\ OutHolds(e) /\ e.vioPrev = vioPrev
        /\ e.initialized = initialized /\ e.states = states
        /\ \A d \in Seen(e) : d.end <= lastVio.t
    BY <1>3, EngineIs
  <1>5. /\ t \in Engine!Times /\ t \in Nat /\ lastVio.t \in Nat /\ lastVio.t < t
        /\ lastVio' = sample /\ sample.t = t /\ t \in 0 .. MaxTime
    BY <1>1, <1>2, EngineConstants DEF EngineInv, Engine!NextVio, Engine!Times
  <1>6. \A d \in Seen(e) : d.end \in Nat
    BY <1>4, SeenAreDeltas DEF EngineHolds, Engine!Delta, Engine!Times
  <1>7. \A d \in Seen(e) : d.end <= t
    BY <1>4, <1>5, <1>6
  <1>8. initialized => Engine!Newest(states).t \in Nat
    BY <1>4, NewestIs DEF EngineHolds
  <1>9. CASE Engine!Becomes([e EXCEPT !.vioPrev = None])
    <2>1. PICK n : n = [e EXCEPT !.vioPrev = None]
      OBVIOUS
    <2>2. DeltasIn(Seen(e), None)
      BY <1>4 DEF EngineHolds, DeltasHold, DeltasIn
    <2>3. /\ EngineHolds(n) /\ OutHolds(n) /\ Seen(n) = Seen(e) /\ n.vioPrev = None
          /\ n.states = e.states
      BY <1>4, <2>1, <2>2, PrimedHolds
    <2>4. initialized /\ n.initialized => Engine!Newest(states).t <= Engine!Newest(n.states).t
      BY <1>4, <1>8, <2>3
    <2>5. \A d \in Seen(n) : d.end <= lastVio'.t
      BY <1>5, <1>7, <2>3, Zenon
    <2>6. lastVio'.t \in 0 .. MaxTime
      BY <1>5, Zenon
    <2> QED BY <1>9, <2>1, <2>3, <2>4, <2>5, <2>6, Zenon DEF Stepped
  <1>10. CASE Engine!Becomes([e EXCEPT !.vioPrev = sample])
    <2>1. PICK n : n = [e EXCEPT !.vioPrev = sample]
      OBVIOUS
    <2>2. DeltasIn(Seen(e), sample)
      BY <1>4, <1>5, <1>7 DEF EngineHolds, DeltasHold, DeltasIn
    <2>3. /\ EngineHolds(n) /\ OutHolds(n) /\ Seen(n) = Seen(e) /\ n.vioPrev = sample
          /\ n.states = e.states
      BY <1>4, <2>1, <2>2, PrimedHolds
    <2>4. initialized /\ n.initialized => Engine!Newest(states).t <= Engine!Newest(n.states).t
      BY <1>4, <1>8, <2>3
    <2>5. \A d \in Seen(n) : d.end <= lastVio'.t
      BY <1>5, <1>7, <2>3, Zenon
    <2>6. lastVio'.t \in 0 .. MaxTime /\ n.vioPrev.t <= lastVio'.t
      BY <1>5, <2>3
    <2> QED BY <1>10, <2>1, <2>3, <2>4, <2>5, <2>6, Zenon DEF Stepped
  <1>11. CASE good /\ vioPrev # None /\ initialized /\ vioPrev.epoch = epoch
    <2>1. PICK delta : delta = [begin |-> vioPrev.t, end |-> t]
      OBVIOUS
    <2>2. PICK d : d = Append(e.vioDeltas, delta)
      OBVIOUS
    <2>3. PICK from : from = 1 + (IF Len(d) > VioCap THEN 1 ELSE 0)
      OBVIOUS
    <2>4. PICK m : m = [e EXCEPT !.vioPrev = sample, !.vioDeltas = SubSeq(d, from, Len(d))]
      OBVIOUS
    <2>5. PICK primed : primed = [e EXCEPT !.vioPrev = sample]
      OBVIOUS
    <2>6. primed.vioDeltas = e.vioDeltas
          /\ m = [primed EXCEPT !.vioDeltas = SubSeq(d, from, Len(d))]
      BY <1>4, <2>4, <2>5 DEF EngineHolds, EngineTyped, EngineFields
    <2>7. PICK n \in IF t >= Engine!Newest(states).t + MinStateDt
                     THEN Engine!Created(m, t) ELSE Engine!Flushed(m) :
            Engine!Becomes(n)
      BY <1>1, <1>2, <1>3, <1>11, <2>1, <2>2, <2>3, <2>5, <2>6, Zenon
    <2>8. vioPrev.t < t /\ delta \in Engine!Delta
      <3>1. vioPrev.t \in Engine!Times
        BY <1>4, <1>11, Zenon DEF EngineHolds, DeltasHold, DeltasIn
      <3>2. vioPrev.t \in Nat
        BY <3>1 DEF Engine!Times
      <3>3. vioPrev.t < t
        BY <1>5, <1>11, <3>2 DEF EngineInv
      <3> QED BY <1>5, <2>1, <3>1, <3>3 DEF Engine!Delta
    <2>9. PICK r : r = SubSeq(d, from, Len(d))
      OBVIOUS
    <2>10. r \in Seq(Engine!Delta) /\ Among(r, e.vioDeltas, delta)
      <3>1. from \in {1, 2}
        BY <2>3
      <3>2. e.vioDeltas \in Seq(Engine!Delta)
        BY <1>4 DEF EngineHolds, EngineTyped
      <3>3. r = Pushed(e.vioDeltas, delta, from)
        BY <2>2, <2>9 DEF Pushed
      <3> QED BY <2>8, <3>1, <3>2, <3>3, BufferAdds
    <2>11. /\ EngineHolds(m) /\ OutHolds(m) /\ m.vioPrev = sample
           /\ m.initialized = e.initialized
           /\ m.states = e.states /\ \A c \in Seen(m) : c.end <= t
      <3>1. m = Extended(e, sample, r)
        BY <2>4, <2>9 DEF Extended
      <3>2. /\ e.initialized /\ e.vioPrev # None /\ e.vioPrev.t < sample.t
            /\ delta = Latest(e, sample.t) /\ sample.t \in Engine!Times /\ sample.t = t
        BY <1>4, <1>5, <1>11, <2>1, <2>8 DEF Latest
      <3>3. EngineHolds(e) /\ OutHolds(e)
        BY <1>4
      <3> QED BY <2>10, <3>1, <3>2, <3>3, DeltaAdds, ZenonT(30)
    <2>12. Follows(n, m)
      <3>1. CASE t >= Engine!Newest(states).t + MinStateDt
        BY <1>4, <1>5, <1>11, <2>7, <2>11, <3>1, CreatedFollows
      <3>2. CASE ~(t >= Engine!Newest(states).t + MinStateDt)
        BY <2>7, <2>11, <3>2, FlushedFollows
      <3> QED BY <3>1, <3>2
    <2>13. /\ EngineHolds(n) /\ OutHolds(n) /\ n.vioPrev \in {None, sample}
           /\ \A c \in Seen(n) : c.end <= t
      BY <2>11, <2>12 DEF Follows
    <2>14. n.initialized => Engine!Newest(states).t <= Engine!Newest(n.states).t
      BY <1>4, <2>11, <2>12 DEF Follows
    <2>15. n.vioPrev # None => n.vioPrev.t <= t
      BY <1>5, <2>13
    <2> QED BY <1>5, <2>7, <2>13, <2>14, <2>15 DEF Stepped
  <1> QED BY <1>1, <1>2, <1>3, <1>9, <1>10, <1>11, Zenon

LEMMA EngineNext ==
  EngineInv /\ [Engine!Next]_engineVars => EngineInv' /\ (Engine!Next => Engine!PoseForward)
  <1>1. ASSUME EngineInv, Engine!Next PROVE EngineInv' /\ Engine!PoseForward
    <2>1. \E n : Stepped(n)
      BY <1>1, OdomSteps, VioSteps, TagSteps, ResetSteps DEF Engine!Next
    <2> QED BY <1>1, <2>1, SteppedHolds
  <1>2. ASSUME EngineInv, UNCHANGED engineVars PROVE EngineInv'
    <2>1. /\ Engine!Engine' = Engine!Engine /\ lastVio' = lastVio /\ vioPrev' = vioPrev
      BY <1>2 DEF engineVars, Engine!Engine
    <2> QED BY <1>2, <2>1 DEF EngineInv
  <1> QED BY <1>1, <1>2

\* What the invariant means: no call names a key the smoother dropped, and two deltas in
\* factors are apart, those of different factors because they end in different intervals.
LEMMA EngineMeans == EngineInv => Engine!KeysInGraph /\ Engine!EachDeltaOnce
  <1> SUFFICES ASSUME EngineInv PROVE Engine!KeysInGraph /\ Engine!EachDeltaOnce
    OBVIOUS
  <1>1. PICK e : e = Engine!Engine
    OBVIOUS
  <1>2. /\ e.stray = stray /\ e.states = states /\ e.held = held /\ e.factors = factors
        /\ e.initialized = initialized
    BY <1>1 DEF Engine!Engine
  <1>3. EngineHolds(e) /\ EngineTyped(e)
    BY <1>1, EngineIs
  <1>4. Engine!KeysInGraph
    <2>1. ~stray
      BY <1>2, <1>3, Zenon DEF EngineTyped
    <2>2. \A i \in 1 .. Len(states) : states[i] \in held
      <3>1. CASE initialized
        BY <1>2, <1>3, <3>1 DEF EngineHolds, ChainHolds, ChainIn
      <3>2. CASE ~initialized
        BY <1>2, <1>3, <3>2 DEF EngineTyped
      <3> QED BY <3>1, <3>2
    <2>3. DOMAIN states = 1 .. Len(states)
      BY <1>2, <1>3 DEF EngineTyped
    <2> QED BY <2>1, <2>2, <2>3 DEF Engine!KeysInGraph, Engine!ToSet
  <1>5. Engine!EachDeltaOnce
    <2> SUFFICES ASSUME NEW m \in 1 .. Len(factors), NEW n \in 1 .. Len(factors),
                        NEW f \in factors[m], NEW g \in factors[n]
                 PROVE  /\ m # n \/ f # g => f.b.t <= g.a.t \/ g.b.t <= f.a.t
                        /\ \A d \in f.deltas, c \in g.deltas :
                             m # n \/ f # g \/ d # c => d.end <= c.begin \/ c.end <= d.begin
      BY DEF Engine!EachDeltaOnce
    <2>1. /\ FactorsIn(factors, states, e.vioDone) /\ DeltasIn(Seen(e), e.vioPrev)
      BY <1>2, <1>3 DEF EngineHolds, FactorsHold, DeltasHold
    <2>2. f \in EngineFactor /\ g \in EngineFactor
      BY <1>2, <1>3 DEF EngineTyped
    <2>3. m \in Nat /\ n \in Nat /\ (m = n \/ m < n \/ n < m)
      <3>1. Len(factors) \in Nat
        BY <1>2, <1>3 DEF EngineTyped
      <3> QED BY <3>1
    <2>4. m # n \/ f # g => f.b.t <= g.a.t \/ g.b.t <= f.a.t
      BY <2>1, <2>3 DEF FactorsIn
    <2>5. ASSUME NEW d \in f.deltas, NEW c \in g.deltas, m # n \/ f # g \/ d # c
          PROVE  d.end <= c.begin \/ c.end <= d.begin
      <3>1. d \in Seen(e) /\ c \in Seen(e)
        BY <1>2 DEF Seen, SeenIn
      <3>2. f.a.t < d.end /\ d.end <= f.b.t /\ g.a.t < c.end /\ c.end <= g.b.t
        BY <2>1 DEF FactorsIn
      <3>3. f.a.t \in Nat /\ f.b.t \in Nat /\ g.a.t \in Nat /\ g.b.t \in Nat
        BY <2>2 DEF EngineFactor, Engine!State, Engine!Times
      <3>4. d.end \in Nat /\ c.end \in Nat
        <4>1. d \in Engine!Delta /\ c \in Engine!Delta
          BY <2>2 DEF EngineFactor
        <4> QED BY <4>1 DEF Engine!Delta, Engine!Times
      <3>5. d # c
        <4>1. CASE m = n /\ f = g
          BY <2>5, <4>1
        <4>2. CASE m # n \/ f # g
          <5>1. f.b.t <= g.a.t \/ g.b.t <= f.a.t
            BY <2>4, <4>2
          <5>2. d.end # c.end
            BY <3>2, <3>3, <3>4, <5>1
          <5> QED BY <5>2
        <4> QED BY <4>1, <4>2
      <3> QED BY <2>1, <3>1, <3>5 DEF DeltasIn
    <2> QED BY <2>4, <2>5
  <1> QED BY <1>4, <1>5

=============================================================================
