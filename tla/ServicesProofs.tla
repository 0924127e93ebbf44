--------------------------- MODULE ServicesProofs ---------------------------
(***************************************************************************)
(* Proofs about Services: for each component the invariant that its steps   *)
(* preserve, then what it means for the properties of the behaviours.       *)
(***************************************************************************)
EXTENDS Services, FiniteSetTheorems, TLAPS

-----------------------------------------------------------------------------
(* The fusion supervisor.                                                   *)

FusionRequests == [at : {"idle", "reload"}, cfg : {None}]
                  \cup [at : {"read", "built", "push"}, cfg : Fusion!EngineConfig]
Snapshots == [initialized : BOOLEAN, cfg : Fusion!EngineConfig \cup {None}]

FusionTyped ==
    /\ row \in Fusion!EngineConfig /\ active \in Fusion!EngineConfig /\ period \in Configs
    /\ caller \in [PutThreads -> FusionRequests]
    /\ queue \in Seq(Fusion!Events) /\ Len(queue) <= InboxCap
    /\ batch \in Seq(Fusion!Events) /\ Len(batch) <= InboxCap
    /\ engine \in Fusion!Engines \cup {None} /\ snapshot \in Snapshots
    /\ lostOrder \in BOOLEAN /\ sending \in BOOLEAN
    /\ running \subseteq Fusion!Threads
    /\ closed \in {{}, {"tag"}, {"tag", "vio"}, {"tag", "vio", "odom"}}

\* The snapshot is the engine's once the engine thread is through its batch.
Published == batch = <<>> /\ snapshot.initialized =>
    engine # None /\ snapshot.cfg = engine.cfg

\* With one thread that changes the rows: what it read is the row, and once it is past the
\* comparison the row is the active configuration.
Ready(c) == caller[c].at \in {"idle", "push"}
Reading ==
    /\ (\A c \in PutThreads : caller[c].at # "reload") => period = row.params
    /\ (\A c \in PutThreads : Ready(c)) => active = row
    /\ \A c \in PutThreads : caller[c].at \in {"read", "built", "push"} => caller[c].cfg = row

\* The last order of a queue, and the engine that follows it.
IsOrder(e) == e.kind = "reconfigure"
NoOrder(q) == \A i \in 1..Len(q) : ~IsOrder(q[i])
LastOrder(q, cfg) == \E i \in 1..Len(q) :
    IsOrder(q[i]) /\ q[i].cfg = cfg /\ \A j \in 1..Len(q) : j > i => ~IsOrder(q[j])
EngineIs(cfg) == (engine # None <=> cfg.enabled) /\ (engine # None => engine.cfg = cfg)

\* What the engine will be once it has taken what is queued is the active configuration,
\* unless its order is still to be pushed or was dropped.
Ordering ==
    \/ lostOrder \/ \E c \in PutThreads : caller[c].at = "push"
    \/ LastOrder(queue, active)
    \/ NoOrder(queue) /\ LastOrder(batch, active)
    \/ NoOrder(queue) /\ NoOrder(batch) /\ EngineIs(active)

FusionInv == FusionTyped /\ Published

LEMMA FusionStarts == Fusion!Init => FusionInv /\ Reading /\ Ordering
  <1> SUFFICES ASSUME Fusion!Init PROVE FusionInv /\ Reading /\ Ordering
    OBVIOUS
  <1> USE Assumptions DEF Fusion!FusionAssumption
  <1>1. PICK v \in Configs : row = [enabled |-> TRUE, params |-> v, imu |-> v]
    BY DEF Fusion!Init
  <1>2. row \in Fusion!EngineConfig /\ row.params \in Configs
    BY <1>1 DEF Fusion!EngineConfig
  <1> DEFINE e == [kind |-> "reconfigure", cfg |-> active]
  <1>3. /\ active = row /\ period = row.params /\ queue = <<e>> /\ batch = <<>>
        /\ lostOrder = FALSE /\ sending = FALSE /\ engine = None /\ closed = {}
        /\ running = Fusion!Threads
    BY DEF Fusion!Init
  <1>4. e \in Fusion!Events
    BY <1>2, <1>3 DEF Fusion!Events
  <1>5. e.kind = "reconfigure" /\ e.cfg = active
    OBVIOUS
  <1> HIDE DEF e
  <1>6. /\ queue \in Seq(Fusion!Events) /\ Len(queue) = 1 /\ queue[1] = e
        /\ batch \in Seq(Fusion!Events) /\ Len(batch) = 0
    BY <1>3, <1>4
  <1>7. snapshot \in Snapshots /\ snapshot.initialized = FALSE
    BY DEF Fusion!Init, Fusion!NoPose, Snapshots
  <1>8. caller \in [PutThreads -> FusionRequests] /\ \A c \in PutThreads : caller[c].at = "idle"
    BY DEF Fusion!Init, Fusion!Idle, FusionRequests
  <1>9. FusionTyped
    <2>1. Len(queue) <= InboxCap /\ Len(batch) <= InboxCap
      BY <1>6
    <2>2. row \in Fusion!EngineConfig /\ active \in Fusion!EngineConfig /\ period \in Configs
      BY <1>2, <1>3
    <2>3. /\ engine \in Fusion!Engines \cup {None} /\ lostOrder \in BOOLEAN /\ sending \in BOOLEAN
          /\ running \subseteq Fusion!Threads
          /\ closed \in {{}, {"tag"}, {"tag", "vio"}, {"tag", "vio", "odom"}}
      BY <1>3
    <2> QED BY <1>6, <1>7, <1>8, <2>1, <2>2, <2>3 DEF FusionTyped
  <1>10. Published
    BY <1>7 DEF Published
  <1>11. Reading
    BY <1>3, <1>8 DEF Reading
  <1>12. LastOrder(queue, active)
    BY <1>5, <1>6 DEF LastOrder, IsOrder
  <1> QED BY <1>9, <1>10, <1>11, <1>12 DEF FusionInv, Ordering

\* push(): the queue keeps its cap; a dropped order is remembered, and the last order stays
\* the last.
LEMMA Pushed ==
  ASSUME FusionTyped, NEW e \in Fusion!Events, Fusion!Push(e)
  PROVE  /\ queue' \in Seq(Fusion!Events) /\ Len(queue') <= InboxCap /\ lostOrder' \in BOOLEAN
         /\ IsOrder(e) => LastOrder(queue', e.cfg)
         /\ ~IsOrder(e) /\ ~lostOrder' =>
              /\ ~lostOrder
              /\ NoOrder(queue) => NoOrder(queue')
              /\ \A cfg : LastOrder(queue, cfg) => LastOrder(queue', cfg)
  <1> USE Assumptions DEF Fusion!FusionAssumption
  <1> DEFINE full == Len(queue) >= InboxCap
             kept == IF full THEN Tail(queue) ELSE queue
             n == Len(kept)
             shift == IF full THEN 1 ELSE 0
  <1>1. /\ queue' = Append(kept, e)
        /\ lostOrder' = (lostOrder \/ (full /\ Head(queue).kind \in {"reset", "reconfigure"}))
    BY DEF Fusion!Push
  <1>2. queue \in Seq(Fusion!Events) /\ Len(queue) <= InboxCap /\ lostOrder \in BOOLEAN
    BY DEF FusionTyped
  <1>3. full => queue # <<>>
    BY <1>2
  <1>4. /\ kept \in Seq(Fusion!Events) /\ n \in Nat /\ n < InboxCap /\ Len(queue) = n + shift
        /\ \A i \in 1..n : kept[i] = queue[i + shift]
        /\ full => queue[1] = Head(queue)
    BY <1>2, <1>3
  <1>5. /\ queue' \in Seq(Fusion!Events) /\ Len(queue') = n + 1 /\ queue'[n + 1] = e
        /\ \A i \in 1..n : queue'[i] = queue[i + shift]
    BY <1>1, <1>4
  <1>6. lostOrder' \in BOOLEAN
    BY <1>1, <1>2
  <1>7. ASSUME ~lostOrder' PROVE ~lostOrder /\ (full => ~IsOrder(queue[1]))
    BY <1>1, <1>4, <1>7 DEF IsOrder
  <1>8. shift \in {0, 1} /\ (shift = 1 => full)
    OBVIOUS
  <1> HIDE DEF full, kept, n, shift
  <1>9. ASSUME IsOrder(e) PROVE LastOrder(queue', e.cfg)
    BY <1>4, <1>5, <1>9 DEF LastOrder
  <1>10. ASSUME ~IsOrder(e), ~lostOrder', NoOrder(queue) PROVE NoOrder(queue')
    <2> SUFFICES ASSUME NEW i \in 1..(n + 1) PROVE ~IsOrder(queue'[i])
      BY <1>5 DEF NoOrder
    <2>1. CASE i = n + 1
      BY <1>5, <1>10, <2>1
    <2>2. CASE i # n + 1
      <3>1. i \in 1..n /\ i + shift \in 1..Len(queue)
        BY <2>2, <1>4, <1>8
      <3> QED BY <1>5, <1>10, <3>1 DEF NoOrder
    <2> QED BY <2>1, <2>2
  <1>11. ASSUME ~IsOrder(e), ~lostOrder', NEW cfg, LastOrder(queue, cfg) PROVE LastOrder(queue', cfg)
    <2>1. PICK i \in 1..Len(queue) :
            IsOrder(queue[i]) /\ queue[i].cfg = cfg /\ \A j \in 1..Len(queue) : j > i => ~IsOrder(queue[j])
      BY <1>11 DEF LastOrder
    <2>2. i # 1 \/ shift = 0
      BY <1>7, <1>8, <1>11, <2>1
    <2>3. PICK k \in 1..n : k + shift = i
      <3>1. i - shift \in 1..n /\ (i - shift) + shift = i
        BY <2>2, <1>4, <1>8
      <3> QED BY <3>1
    <2>4. queue'[k] = queue[i]
      BY <1>5, <2>3
    <2>5. ASSUME NEW j \in 1..(n + 1), j > k PROVE ~IsOrder(queue'[j])
      <3>1. CASE j = n + 1
        BY <1>5, <1>11, <3>1
      <3>2. CASE j # n + 1
        <4>1. j \in 1..n /\ j + shift \in 1..Len(queue) /\ j + shift > i
          BY <3>2, <2>3, <2>5, <1>4, <1>8
        <4> QED BY <1>5, <2>1, <4>1
      <3> QED BY <3>1, <3>2
    <2>6. k \in 1..(n + 1)
      BY <1>4
    <2> QED BY <1>5, <2>1, <2>4, <2>5, <2>6 DEF LastOrder
  <1> QED BY <1>4, <1>5, <1>6, <1>7, <1>9, <1>10, <1>11

\* The step of a PUT: requests are served one after the other by the one thread.
LEMMA ReloadTypes ==
  ASSUME FusionInv, NEW c \in PutThreads, Fusion!Reload(c)
  PROVE  FusionInv'
  <1>1. caller[c] \in FusionRequests
    BY DEF FusionInv, FusionTyped
  <1>2. UNCHANGED <<batch, engine, snapshot, sending, running, closed>>
    BY DEF Fusion!Reload, Fusion!Update, Fusion!ReadFusionRow, Fusion!ReadImuRow, Fusion!Adopt,
       Fusion!PushReconfigure, Fusion!work, Fusion!stops
  <1>3. Published'
    BY <1>2 DEF FusionInv, Published
  <1>4. CASE Fusion!Update(c)
    <2>1. row' \in Fusion!EngineConfig
      BY <1>4 DEF Fusion!Update, Fusion!EngineConfig, FusionInv, FusionTyped
    <2>2. caller' \in [PutThreads -> FusionRequests]
      <3>1. caller[c] = Fusion!Idle /\ caller' = [caller EXCEPT ![c].at = "reload"]
        BY <1>4 DEF Fusion!Update
      <3> QED BY <3>1 DEF FusionInv, FusionTyped, FusionRequests, Fusion!Idle
    <2> QED BY <1>2, <1>3, <1>4, <2>1, <2>2 DEF Fusion!Update, Fusion!inbox, FusionInv, FusionTyped
  <1>5. CASE Fusion!ReadFusionRow(c)
    <2>1. period' \in Configs
      BY <1>5 DEF Fusion!ReadFusionRow, Fusion!EngineConfig, FusionInv, FusionTyped
    <2>2. caller' \in [PutThreads -> FusionRequests]
      BY <1>5 DEF Fusion!ReadFusionRow, FusionInv, FusionTyped, FusionRequests
    <2> QED BY <1>2, <1>3, <1>5, <2>1, <2>2 DEF Fusion!ReadFusionRow, Fusion!inbox, FusionInv, FusionTyped
  <1>6. CASE Fusion!ReadImuRow(c)
    <2>1. caller[c].at = "read" /\ caller[c].cfg \in Fusion!EngineConfig
      BY <1>1, <1>6 DEF Fusion!ReadImuRow, FusionRequests
    <2>2. [caller[c].cfg EXCEPT !.imu = row.imu] \in Fusion!EngineConfig
      BY <2>1 DEF FusionInv, FusionTyped, Fusion!EngineConfig
    <2>3. [at |-> "built", cfg |-> [caller[c].cfg EXCEPT !.imu = row.imu]] \in FusionRequests
      BY <2>2 DEF FusionRequests
    <2>4. caller' = [caller EXCEPT ![c] = [at |-> "built", cfg |-> [caller[c].cfg EXCEPT !.imu = row.imu]]]
      BY <1>6 DEF Fusion!ReadImuRow
    <2>5. caller' \in [PutThreads -> FusionRequests]
      BY <2>3, <2>4 DEF FusionInv, FusionTyped
    <2> QED BY <1>2, <1>3, <1>6, <2>5 DEF Fusion!ReadImuRow, Fusion!inbox, FusionInv, FusionTyped
  <1>7. CASE Fusion!Adopt(c)
    <2>1. caller[c].at = "built" /\ caller[c].cfg \in Fusion!EngineConfig
      BY <1>1, <1>7 DEF Fusion!Adopt, FusionRequests
    <2>2. Fusion!Idle \in FusionRequests /\ [caller[c] EXCEPT !.at = "push"] \in FusionRequests
      BY <1>1, <2>1 DEF FusionRequests, Fusion!Idle
    <2>3. caller' = [caller EXCEPT ![c] = IF caller[c].cfg = active THEN Fusion!Idle
                                          ELSE [caller[c] EXCEPT !.at = "push"]]
      BY <1>7 DEF Fusion!Adopt
    <2>4. caller' \in [PutThreads -> FusionRequests]
      BY <2>2, <2>3 DEF FusionInv, FusionTyped
    <2>5. active' \in Fusion!EngineConfig
      BY <1>7, <2>1 DEF Fusion!Adopt
    <2> QED BY <1>2, <1>3, <1>7, <2>4, <2>5 DEF Fusion!Adopt, Fusion!inbox, FusionInv, FusionTyped
  <1>8. CASE Fusion!PushReconfigure(c)
    <2> DEFINE e == [kind |-> "reconfigure", cfg |-> caller[c].cfg]
    <2>1. caller[c].cfg \in Fusion!EngineConfig
      BY <1>1, <1>8 DEF Fusion!PushReconfigure, FusionRequests
    <2>2. e \in Fusion!Events
      BY <2>1 DEF Fusion!Events
    <2>3. Fusion!Push(e)
      BY <1>8 DEF Fusion!PushReconfigure
    <2>4. queue' \in Seq(Fusion!Events) /\ Len(queue') <= InboxCap /\ lostOrder' \in BOOLEAN
      BY <2>2, <2>3, Pushed DEF FusionInv
    <2>5. caller' \in [PutThreads -> FusionRequests]
      BY <1>8 DEF Fusion!PushReconfigure, Fusion!Idle, FusionInv, FusionTyped, FusionRequests
    <2> QED BY <1>2, <1>3, <1>8, <2>4, <2>5 DEF Fusion!PushReconfigure, FusionInv, FusionTyped
  <1> QED BY <1>4, <1>5, <1>6, <1>7, <1>8 DEF Fusion!Reload

LEMMA ReloadOrders ==
  ASSUME FusionInv, Reading, Ordering, \A c, d \in PutThreads : c = d,
         NEW c \in PutThreads, Fusion!Reload(c)
  PROVE  Reading' /\ Ordering'
  <1>1. /\ \A d \in PutThreads : d = c
        /\ caller \in [PutThreads -> FusionRequests] /\ caller[c] \in FusionRequests
        /\ row \in Fusion!EngineConfig
    BY DEF FusionInv, FusionTyped
  <1>2. CASE Fusion!Update(c)
    <2>1. /\ caller[c] = Fusion!Idle /\ caller' = [caller EXCEPT ![c].at = "reload"]
          /\ UNCHANGED <<active, period, queue, lostOrder, batch, engine>>
      BY <1>2 DEF Fusion!Update, Fusion!inbox, Fusion!work
    <2>2. caller'[c].at = "reload"
      BY <1>1, <2>1
    <2>3. Reading'
      BY <1>1, <2>2 DEF Reading, Ready
    <2>4. \A d \in PutThreads : caller[d].at # "push"
      BY <1>1, <2>1 DEF Fusion!Idle
    <2> QED BY <2>1, <2>3, <2>4 DEF Ordering, EngineIs
  <1>3. CASE Fusion!ReadFusionRow(c)
    <2>1. /\ caller[c].at = "reload" /\ caller' = [caller EXCEPT ![c] = [at |-> "read", cfg |-> row]]
          /\ period' = row.params /\ UNCHANGED <<row, active, queue, lostOrder, batch, engine>>
      BY <1>3 DEF Fusion!ReadFusionRow, Fusion!inbox, Fusion!work
    <2>2. caller'[c].at = "read" /\ caller'[c].cfg = row
      BY <1>1, <2>1
    <2>3. Reading'
      BY <1>1, <2>1, <2>2 DEF Reading, Ready
    <2>4. \A d \in PutThreads : caller[d].at # "push"
      BY <1>1, <2>1
    <2> QED BY <2>1, <2>3, <2>4 DEF Ordering, EngineIs
  <1>4. CASE Fusion!ReadImuRow(c)
    <2>1. /\ caller[c].at = "read"
          /\ caller' = [caller EXCEPT ![c] = [at |-> "built", cfg |-> [caller[c].cfg EXCEPT !.imu = row.imu]]]
          /\ UNCHANGED <<row, active, period, queue, lostOrder, batch, engine>>
      BY <1>4 DEF Fusion!ReadImuRow, Fusion!inbox, Fusion!work
    <2>2. caller[c].cfg = row
      BY <2>1 DEF Reading
    <2>3. [row EXCEPT !.imu = row.imu] = row
      BY <1>1 DEF Fusion!EngineConfig
    <2>4. caller'[c].at = "built" /\ caller'[c].cfg = row
      BY <1>1, <2>1, <2>2, <2>3
    <2>5. Reading'
      BY <1>1, <2>1, <2>4 DEF Reading, Ready
    <2>6. \A d \in PutThreads : caller[d].at # "push"
      BY <1>1, <2>1
    <2> QED BY <2>1, <2>5, <2>6 DEF Ordering, EngineIs
  <1>5. CASE Fusion!Adopt(c)
    <2>1. /\ caller[c].at = "built" /\ active' = caller[c].cfg
          /\ caller' = [caller EXCEPT ![c] = IF caller[c].cfg = active THEN Fusion!Idle
                                          ELSE [caller[c] EXCEPT !.at = "push"]]
          /\ UNCHANGED <<row, period, queue, lostOrder, batch, engine>>
      BY <1>5 DEF Fusion!Adopt, Fusion!inbox, Fusion!work
    <2>2. active' = row
      BY <2>1 DEF Reading
    <2>3. \A d \in PutThreads : caller[d].at # "push"
      BY <1>1, <2>1
    <2>4. CASE caller[c].cfg = active
      <3>1. caller'[c].at = "idle" /\ active' = active
        BY <1>1, <2>1, <2>4 DEF Fusion!Idle
      <3>2. Reading'
        BY <1>1, <2>1, <2>2, <3>1 DEF Reading, Ready
      <3>3. Ordering'
        BY <2>1, <2>3, <3>1 DEF Ordering, EngineIs
      <3> QED BY <3>2, <3>3
    <2>5. CASE caller[c].cfg # active
      <3>1. caller'[c].at = "push" /\ caller'[c].cfg = row
        <4>1. caller'[c] = [caller[c] EXCEPT !.at = "push"]
          BY <1>1, <2>1, <2>5
        <4> QED BY <1>1, <2>1, <2>2, <4>1 DEF FusionRequests
      <3>2. Reading'
        BY <1>1, <2>1, <2>2, <3>1 DEF Reading, Ready
      <3> QED BY <3>1, <3>2 DEF Ordering
    <2> QED BY <2>4, <2>5
  <1>6. CASE Fusion!PushReconfigure(c)
    <2> DEFINE e == [kind |-> "reconfigure", cfg |-> caller[c].cfg]
    <2>1. /\ caller[c].at = "push" /\ Fusion!Push(e) /\ caller' = [caller EXCEPT ![c] = Fusion!Idle]
          /\ UNCHANGED <<row, active, period>>
      BY <1>6 DEF Fusion!PushReconfigure
    <2>2. caller[c].cfg = row /\ active = row /\ row.params = period
      BY <1>1, <2>1 DEF Reading, Ready
    <2>3. caller'[c].at = "idle"
      BY <1>1, <2>1 DEF Fusion!Idle
    <2>4. Reading'
      BY <1>1, <2>1, <2>2, <2>3 DEF Reading, Ready
    <2>5. e \in Fusion!Events /\ IsOrder(e) /\ e.cfg = active'
      BY <1>1, <2>1, <2>2 DEF Fusion!Events, IsOrder
    <2> HIDE DEF e
    <2>6. LastOrder(queue', active')
      BY <2>1, <2>5, Pushed DEF FusionInv
    <2> QED BY <2>4, <2>6 DEF Ordering
  <1> QED BY <1>2, <1>3, <1>4, <1>5, <1>6 DEF Fusion!Reload

\* Events that are no orders.
LEMMA EventSteps ==
  ASSUME FusionInv, Fusion!PushReset \/ \E d \in Fusion!Drainers : Fusion!Drain(d)
  PROVE  /\ FusionInv' /\ UNCHANGED <<row, active, period, caller>>
         /\ Ordering => Ordering'
  <1>1. UNCHANGED <<row, active, period, caller, batch, engine, snapshot, sending, running, closed>>
    BY DEF Fusion!PushReset, Fusion!Drain, Fusion!config, Fusion!work, Fusion!stops
  <1>2. \/ UNCHANGED <<queue, lostOrder>>
        \/ \E k \in Fusion!Drainers \cup {"reset"} : Fusion!Push([kind |-> k])
    BY DEF Fusion!PushReset, Fusion!Drain, Fusion!inbox
  <1>3. CASE UNCHANGED <<queue, lostOrder>>
    BY <1>1, <1>3 DEF FusionInv, FusionTyped, Published, Ordering, EngineIs
  <1>4. CASE \E k \in Fusion!Drainers \cup {"reset"} : Fusion!Push([kind |-> k])
    <2>1. PICK k \in Fusion!Drainers \cup {"reset"} : Fusion!Push([kind |-> k])
      BY <1>4
    <2>2. [kind |-> k] \in Fusion!Events /\ ~IsOrder([kind |-> k])
      BY DEF Fusion!Events, IsOrder, Fusion!Drainers
    <2>3. /\ queue' \in Seq(Fusion!Events) /\ Len(queue') <= InboxCap /\ lostOrder' \in BOOLEAN
          /\ ~lostOrder' =>
              /\ ~lostOrder
              /\ NoOrder(queue) => NoOrder(queue')
              /\ \A cfg : LastOrder(queue, cfg) => LastOrder(queue', cfg)
      BY <2>1, <2>2, Pushed DEF FusionInv
    <2>4. FusionTyped'
      BY <1>1, <2>3 DEF FusionInv, FusionTyped
    <2>5. Published'
      BY <1>1 DEF FusionInv, Published
    <2>6. ASSUME Ordering PROVE Ordering'
      <3>1. CASE lostOrder'
        BY <3>1 DEF Ordering
      <3>2. CASE ~lostOrder'
        BY <1>1, <2>3, <2>6, <3>2 DEF Ordering, EngineIs
      <3> QED BY <3>1, <3>2
    <2> QED BY <1>1, <2>4, <2>5, <2>6 DEF FusionInv
  <1> QED BY <1>2, <1>3, <1>4

LEMMA TakeStep ==
  ASSUME FusionInv, Fusion!TakeBatch
  PROVE  /\ FusionInv' /\ UNCHANGED <<row, active, period, caller>>
         /\ Ordering => Ordering'
  <1>1. /\ batch = <<>> /\ queue # <<>> /\ batch' = queue /\ queue' = <<>>
        /\ UNCHANGED <<row, active, period, caller, lostOrder, engine, snapshot, sending, running, closed>>
    BY DEF Fusion!TakeBatch, Fusion!config, Fusion!stops
  <1>2. queue' \in Seq(Fusion!Events) /\ Len(queue') = 0 /\ Len(batch) = 0
    BY <1>1
  <1>3. FusionTyped'
    BY <1>1, <1>2, Assumptions DEF Fusion!FusionAssumption, FusionInv, FusionTyped
  <1>4. Published'
    BY <1>1 DEF Published
  <1>5. NoOrder(queue') /\ NoOrder(batch) /\ \A cfg : ~LastOrder(batch, cfg)
    BY <1>2 DEF NoOrder, LastOrder
  <1>6. Ordering => Ordering'
    BY <1>1, <1>5 DEF Ordering, EngineIs
  <1> QED BY <1>1, <1>3, <1>4, <1>6 DEF FusionInv

\* One event of the batch: an order makes the engine it asks for, and no other changes which
\* configuration it has.
LEMMA FedEngine ==
  ASSUME FusionInv, NEW e \in Fusion!Events, engine' \in Fusion!Fed(e)
  PROVE  /\ engine' \in Fusion!Engines \cup {None}
         /\ IsOrder(e) => /\ engine' # None <=> e.cfg.enabled
                          /\ engine' # None => engine'.cfg = e.cfg
         /\ ~IsOrder(e) => (engine' # None <=> engine # None) /\ (engine # None => engine'.cfg = engine.cfg)
  <1> USE Assumptions DEF Fusion!FusionAssumption
  <1>1. CASE IsOrder(e)
    <2>1. e.cfg \in Fusion!EngineConfig
      BY <1>1 DEF IsOrder, Fusion!Events, Fusion!Drainers
    <2>2. engine' = IF e.cfg.enabled THEN [cfg |-> e.cfg, initialized |-> FALSE] ELSE None
      BY <1>1 DEF IsOrder, Fusion!Fed
    <2>3. [cfg |-> e.cfg, initialized |-> FALSE] \in Fusion!Engines
      BY <2>1 DEF Fusion!Engines
    <2>4. e.cfg.enabled \in BOOLEAN
      BY <2>1 DEF Fusion!EngineConfig
    <2> QED BY <1>1, <2>2, <2>3, <2>4
  <1>2. CASE ~IsOrder(e) /\ engine = None
    <2>1. engine' = None
      BY <1>2 DEF IsOrder, Fusion!Fed
    <2> QED BY <1>2, <2>1
  <1>3. CASE ~IsOrder(e) /\ engine # None
    <2>1. engine \in Fusion!Engines
      BY <1>3 DEF FusionInv, FusionTyped
    <2>2. engine' = engine \/ \E b \in BOOLEAN : engine' = [engine EXCEPT !.initialized = b]
      BY <1>3 DEF IsOrder, Fusion!Fed
    <2>3. engine' \in Fusion!Engines /\ engine'.cfg = engine.cfg
      BY <2>1, <2>2 DEF Fusion!Engines
    <2> QED BY <1>3, <2>3
  <1> QED BY <1>1, <1>2, <1>3

LEMMA FeedStep ==
  ASSUME FusionInv, Fusion!FeedEngine
  PROVE  /\ FusionInv' /\ UNCHANGED <<row, active, period, caller>>
         /\ Ordering => Ordering'
  <1> DEFINE n == Len(batch)
             e == Head(batch)
  <1>1. /\ batch # <<>> /\ engine' \in Fusion!Fed(e) /\ batch' = Tail(batch)
        /\ UNCHANGED <<row, active, period, caller, queue, lostOrder, sending, running, closed>>
    BY DEF Fusion!FeedEngine, Fusion!config, Fusion!inbox, Fusion!stops
  <1>2. batch \in Seq(Fusion!Events) /\ n <= InboxCap
    BY DEF FusionInv, FusionTyped
  <1>3. /\ n \in Nat /\ n >= 1 /\ e \in Fusion!Events /\ e = batch[1]
        /\ batch' \in Seq(Fusion!Events) /\ Len(batch') = n - 1
        /\ \A i \in 1..(n - 1) : batch'[i] = batch[i + 1]
    BY <1>1, <1>2
  <1>4. /\ engine' \in Fusion!Engines \cup {None}
        /\ IsOrder(e) => /\ engine' # None <=> e.cfg.enabled
                         /\ engine' # None => engine'.cfg = e.cfg
        /\ ~IsOrder(e) => (engine' # None <=> engine # None) /\ (engine # None => engine'.cfg = engine.cfg)
    BY <1>1, <1>3, FedEngine
  <1>5. \/ n > 1 /\ snapshot' = snapshot
        \/ n = 1 /\ engine' = None /\ snapshot' = Fusion!NoPose
        \/ n = 1 /\ engine' # None /\ snapshot' = [initialized |-> engine'.initialized, cfg |-> engine'.cfg]
    BY <1>3 DEF Fusion!FeedEngine
  <1>6. snapshot' \in Snapshots /\ (n = 1 /\ snapshot'.initialized => engine' # None /\ snapshot'.cfg = engine'.cfg)
    <2>1. CASE n > 1 /\ snapshot' = snapshot
      <3>1. n # 1
        BY <1>3, <2>1
      <3> QED BY <2>1, <3>1 DEF FusionInv, FusionTyped
    <2>2. CASE n = 1 /\ engine' = None /\ snapshot' = Fusion!NoPose
      BY <2>2 DEF Fusion!NoPose, Snapshots
    <2>3. CASE n = 1 /\ engine' # None /\ snapshot' = [initialized |-> engine'.initialized, cfg |-> engine'.cfg]
      BY <1>4, <2>3 DEF Fusion!Engines, Snapshots
    <2> QED BY <1>5, <2>1, <2>2, <2>3
  <1> HIDE DEF n, e
  <1>7. FusionTyped'
    <2>1. Len(batch') <= InboxCap
      BY <1>2, <1>3, Assumptions DEF Fusion!FusionAssumption
    <2> QED BY <1>1, <1>3, <1>4, <1>6, <2>1 DEF FusionInv, FusionTyped
  <1>8. Published'
    <2>1. batch' = <<>> => n = 1
      BY <1>3
    <2> QED BY <1>6, <2>1 DEF Published
  <1>9. ASSUME NoOrder(batch) PROVE NoOrder(batch') /\ ~IsOrder(e)
    <2>1. 1 \in 1..n /\ \A i \in 1..(n - 1) : i + 1 \in 1..n
      BY <1>3
    <2> QED BY <1>3, <1>9, <2>1 DEF NoOrder, n
  <1>10. ASSUME NEW cfg, LastOrder(batch, cfg)
         PROVE  LastOrder(batch', cfg) \/ (NoOrder(batch') /\ IsOrder(e) /\ e.cfg = cfg)
    <2>1. PICK i \in 1..n :
            IsOrder(batch[i]) /\ batch[i].cfg = cfg /\ \A j \in 1..n : j > i => ~IsOrder(batch[j])
      BY <1>10 DEF LastOrder, n
    <2>2. \A j \in 1..(n - 1) : j + 1 \in 1..n /\ (j >= i => ~IsOrder(batch'[j]))
      BY <1>3, <2>1
    <2>3. CASE i = 1
      BY <1>3, <2>1, <2>2, <2>3 DEF NoOrder
    <2>4. CASE i # 1
      <3>1. PICK k \in 1..(n - 1) : k + 1 = i
        <4>1. i - 1 \in 1..(n - 1) /\ (i - 1) + 1 = i
          BY <1>3, <2>4
        <4> QED BY <4>1
      <3>2. \A j \in 1..(n - 1) : j > k => j >= i
        BY <3>1, <1>3
      <3> QED BY <1>3, <2>1, <2>2, <3>1, <3>2 DEF LastOrder
    <2> QED BY <2>3, <2>4
  <1>11. ASSUME Ordering PROVE Ordering'
    <2>1. CASE lostOrder \/ (\E c \in PutThreads : caller[c].at = "push") \/ LastOrder(queue, active)
      BY <1>1, <2>1 DEF Ordering
    <2>2. CASE NoOrder(queue) /\ LastOrder(batch, active)
      BY <1>1, <1>4, <1>10, <2>2 DEF Ordering, EngineIs
    <2>3. CASE NoOrder(queue) /\ NoOrder(batch) /\ EngineIs(active)
      BY <1>1, <1>4, <1>9, <2>3 DEF Ordering, EngineIs
    <2> QED BY <1>11, <2>1, <2>2, <2>3 DEF Ordering
  <1> QED BY <1>1, <1>7, <1>8, <1>11 DEF FusionInv

\* The output thread and the destructor.
LEMMA OtherSteps ==
  ASSUME FusionInv,
         \/ Fusion!CopySnapshot \/ Fusion!SendPose \/ Fusion!Stop \/ Fusion!Shutdown
  PROVE  /\ FusionInv' /\ UNCHANGED <<row, active, period, caller>>
         /\ Ordering => Ordering'
  <1>1. UNCHANGED <<row, active, period, caller, queue, lostOrder, batch, engine, snapshot>>
    BY DEF Fusion!CopySnapshot, Fusion!SendPose, Fusion!Stop, Fusion!Shutdown, Fusion!Unsubscribe,
       Fusion!SetStopping, Fusion!EngineEnds, Fusion!OutputEnds, Fusion!DrainerEnds,
       Fusion!config, Fusion!inbox, Fusion!work
  <1>2. sending' \in BOOLEAN /\ running' \subseteq Fusion!Threads
    BY DEF Fusion!CopySnapshot, Fusion!SendPose, Fusion!Stop, Fusion!Shutdown, Fusion!Unsubscribe,
       Fusion!SetStopping, Fusion!EngineEnds, Fusion!OutputEnds, Fusion!DrainerEnds,
       Fusion!stops, FusionInv, FusionTyped
  <1>3. closed' \in {{}, {"tag"}, {"tag", "vio"}, {"tag", "vio", "odom"}}
    <2>1. CASE closed' = closed
      BY <2>1 DEF FusionInv, FusionTyped
    <2>2. CASE Fusion!Unsubscribe
      <3>1. \A S : Fusion!Cardinality(S) = Cardinality(S)
        BY DEF Fusion!Cardinality, Cardinality
      <3>2. Cardinality({}) = 0 /\ Cardinality({"tag"}) = 1
        BY FS_EmptySet, FS_Singleton
      <3>3. Cardinality({"tag", "vio"}) = 2
        <4>1. IsFiniteSet({"tag"}) /\ "vio" \notin {"tag"}
          BY FS_Singleton
        <4>2. Cardinality({"tag"} \cup {"vio"}) = Cardinality({"tag"}) + 1
          BY <4>1, FS_AddElement
        <4>3. {"tag"} \cup {"vio"} = {"tag", "vio"}
          OBVIOUS
        <4> QED BY <3>2, <4>2, <4>3
      <3>4. /\ closed # {"tag", "vio", "odom"}
            /\ closed' = closed \cup {<<"tag", "vio", "odom">>[Fusion!Cardinality(closed) + 1]}
        BY <2>2 DEF Fusion!Unsubscribe, Fusion!Drainers
      <3>5. CASE closed = {}
        <4>1. Fusion!Cardinality(closed) = 0
          BY <3>1, <3>2, <3>5
        <4> QED BY <3>4, <3>5, <4>1
      <3>6. CASE closed = {"tag"}
        <4>1. Fusion!Cardinality(closed) = 1
          BY <3>1, <3>2, <3>6
        <4> QED BY <3>4, <3>6, <4>1
      <3>7. CASE closed = {"tag", "vio"}
        <4>1. Fusion!Cardinality(closed) = 2
          BY <3>1, <3>3, <3>7
        <4> QED BY <3>4, <3>7, <4>1
      <3> QED BY <3>4, <3>5, <3>6, <3>7 DEF FusionInv, FusionTyped
    <2> QED BY <2>1, <2>2 DEF Fusion!CopySnapshot, Fusion!SendPose, Fusion!Stop, Fusion!Shutdown,
         Fusion!SetStopping, Fusion!EngineEnds, Fusion!OutputEnds, Fusion!DrainerEnds, Fusion!stops
  <1> QED BY <1>1, <1>2, <1>3 DEF FusionInv, FusionTyped, Published, Ordering, EngineIs

LEMMA FusionNext ==
  ASSUME FusionInv, [Fusion!Next]_fusionVars
  PROVE  FusionInv'
  <1>1. CASE UNCHANGED fusionVars
    BY <1>1 DEF fusionVars, FusionInv, FusionTyped, Published
  <1>2. CASE Fusion!Next
    BY <1>2, ReloadTypes, EventSteps, TakeStep, FeedStep, OtherSteps DEF Fusion!Next
  <1> QED BY <1>1, <1>2

LEMMA FusionOrders ==
  ASSUME FusionInv, Reading, Ordering, \A c, d \in PutThreads : c = d, [Fusion!Next]_fusionVars
  PROVE  Reading' /\ Ordering'
  <1>1. CASE UNCHANGED fusionVars
    BY <1>1 DEF fusionVars, Reading, Ready, Ordering, EngineIs
  <1>2. CASE \E c \in PutThreads : Fusion!Reload(c)
    BY <1>2, ReloadOrders
  <1>3. CASE Fusion!Next /\ ~ \E c \in PutThreads : Fusion!Reload(c)
    <2>1. UNCHANGED <<row, active, period, caller>> /\ Ordering'
      BY <1>3, EventSteps, TakeStep, FeedStep, OtherSteps DEF Fusion!Next
    <2> QED BY <2>1 DEF Reading, Ready
  <1> QED BY <1>1, <1>2, <1>3

LEMMA FusionMeans ==
  ASSUME FusionInv
  PROVE  Fusion!TypeOK /\ (Reading /\ Ordering => Fusion!EngineFollowsRow)
  <1>1. Fusion!TypeOK
    BY DEF FusionInv, FusionTyped, Fusion!TypeOK, Fusion!Drainers
  <1>2. ASSUME Reading, Ordering, Fusion!Settled, ~lostOrder
        PROVE  /\ period = row.params
               /\ IF row.enabled THEN engine # None /\ engine.cfg = row ELSE engine = None
               /\ snapshot.initialized => engine # None /\ snapshot.cfg = engine.cfg
    <2>1. \A c \in PutThreads : caller[c].at = "idle"
      BY <1>2 DEF Fusion!Settled, Fusion!Idle
    <2>2. period = row.params /\ active = row
      BY <1>2, <2>1 DEF Reading, Ready
    <2>3. Len(queue) = 0 /\ Len(batch) = 0
      BY <1>2 DEF Fusion!Settled
    <2>4. \A cfg : ~LastOrder(queue, cfg) /\ ~LastOrder(batch, cfg)
      BY <2>3 DEF LastOrder
    <2>5. EngineIs(active)
      BY <1>2, <2>1, <2>4 DEF Ordering
    <2> QED BY <1>2, <2>2, <2>5 DEF EngineIs, FusionInv, Published, Fusion!Settled
  <1> QED BY <1>1, <1>2 DEF Fusion!EngineFollowsRow

-----------------------------------------------------------------------------
(* The odometry runner and its supervisor.                                  *)

Targets == [ok : BOOLEAN, val : VioValues, stamp : Nat]
VioRequests == [at : {"idle", "reload"}, target : Targets \cup {None}]
               \cup [at : {"rebuild"}, target : Targets]
Odometry == [t : Nat, epoch : Nat, filter : Nat, covered : BOOLEAN]

VioTyped ==
    /\ second \in Nat /\ vioRow \in Targets /\ vioRow.stamp <= second
    /\ vioReq \in [VioThreads -> VioRequests]
    /\ runner \in Vio!Runners \cup {None}
    /\ pairs \in Seq(Nat) /\ shut \in BOOLEAN /\ imu \in Seq(Nat) /\ subscribed \in BOOLEAN
    /\ time \in Nat /\ epoch \in Nat /\ filters \in Nat
    /\ out \in Odometry /\ vioCalls \in Nat

\* The runner is the one of the row, or a request is on its way to make it so: one that will
\* read the row, or one that read the row as it is and holds mu_.
Matches == (runner # None <=> vioRow.ok) /\ (runner # None => runner.stamp = vioRow.stamp)
Served ==
    /\ \A t, u \in VioThreads : vioReq[t].at = "rebuild" /\ vioReq[u].at = "rebuild" => t = u
    /\ vioCalls > 0 =>
         \/ \E t \in VioThreads : vioReq[t].at = "reload"
         \/ \E t \in VioThreads : vioReq[t].at = "rebuild" /\ vioReq[t].target = vioRow
         \/ Matches /\ \A t \in VioThreads : vioReq[t].at # "rebuild"
    /\ vioCalls = 0 => runner = None /\ \A t \in VioThreads : vioReq[t].at = "idle"
    /\ runner # None /\ (\A t \in VioThreads : vioReq[t].at # "rebuild") => ~shut /\ subscribed

\* An epoch is the number of a filter, and what waits is later than what was published.
Fed == runner # None /\ runner.at \in {"imu", "feed"}
Ordered ==
    /\ epoch = filters /\ out.epoch = out.filter /\ out.epoch <= epoch
    /\ runner # None => runner.filter = filters
    /\ \A i, j \in 1..Len(pairs) : i < j => pairs[i] < pairs[j]
    /\ \A i \in 1..Len(pairs) : pairs[i] <= time
    /\ out.epoch = epoch => out.t <= time /\ \A i \in 1..Len(pairs) : out.t < pairs[i]
    /\ Fed => /\ runner.t <= time /\ \A i \in 1..Len(pairs) : runner.t < pairs[i]
              /\ out.epoch = epoch => out.t < runner.t

VioInv == VioTyped /\ Served /\ Ordered

LEMMA VioStarts == Vio!Init => VioInv
  <1> SUFFICES ASSUME Vio!Init PROVE VioInv
    OBVIOUS
  <1>1. PICK c \in Vio!Contents : vioRow = Vio!Target(c.ok, c.val, 0)
    BY DEF Vio!Init
  <1>2. vioRow \in Targets /\ vioRow.stamp = 0
    BY <1>1 DEF Vio!Target, Targets, Vio!Contents
  <1>3. vioReq \in [VioThreads -> VioRequests]
    BY DEF Vio!Init, Vio!Idle, VioRequests
  <1>4. out \in Odometry /\ out.t = 0 /\ out.epoch = 0 /\ out.filter = 0
    BY DEF Vio!Init, Vio!NoOdometry, Odometry
  <1>5. VioTyped
    <2>1. pairs \in Seq(Nat) /\ imu \in Seq(Nat)
      BY DEF Vio!Init
    <2>2. second = 0 /\ time = 0 /\ epoch = 0 /\ filters = 0 /\ vioCalls = 0
          /\ shut = FALSE /\ subscribed = FALSE /\ runner = None
      BY DEF Vio!Init
    <2>3. /\ second \in Nat /\ time \in Nat /\ epoch \in Nat /\ filters \in Nat /\ vioCalls \in Nat
          /\ shut \in BOOLEAN /\ subscribed \in BOOLEAN /\ runner \in Vio!Runners \cup {None}
      BY <2>2
    <2>4. vioRow.stamp <= second
      BY <1>2, <2>2
    <2> QED BY <1>2, <1>3, <1>4, <2>1, <2>3, <2>4 DEF VioTyped
  <1>6. Served
    BY DEF Vio!Init, Vio!Idle, Served
  <1>7. Ordered
    BY <1>4 DEF Vio!Init, Ordered, Fed
  <1> QED BY <1>5, <1>6, <1>7 DEF VioInv

\* What the supervisor's threads do.
LEMMA PutStep ==
  ASSUME VioInv, NEW t \in VioThreads, Vio!Put(t)
  PROVE  VioInv'
  <1>1. PICK c \in Vio!Contents : vioRow' = Vio!Target(c.ok, c.val, second)
    BY DEF Vio!Put
  <1>2. /\ vioReq' = [vioReq EXCEPT ![t].at = "reload"] /\ vioReq[t].at = "idle"
        /\ vioCalls' = vioCalls + 1
        /\ UNCHANGED <<second, runner, pairs, shut, imu, subscribed, time, epoch, filters, out>>
    BY DEF Vio!Put
  <1>3. vioRow' \in Targets /\ vioRow'.stamp = second
    BY <1>1 DEF Vio!Target, Targets, Vio!Contents, VioInv, VioTyped
  <1>4. vioReq' \in [VioThreads -> VioRequests] /\ vioReq'[t].at = "reload"
        /\ \A u \in VioThreads : u # t => vioReq'[u] = vioReq[u]
    BY <1>2 DEF VioInv, VioTyped, VioRequests
  <1>5. VioTyped'
    BY <1>2, <1>3, <1>4 DEF VioInv, VioTyped
  <1>6. Served'
    <2>1. vioCalls' > 0
      BY <1>2 DEF VioInv, VioTyped
    <2>2. vioReq[t].at # "rebuild"
      BY <1>2
    <2> QED BY <1>2, <1>4, <2>1, <2>2 DEF VioInv, Served
  <1>7. Ordered'
    BY <1>2 DEF VioInv, Ordered, Fed
  <1> QED BY <1>5, <1>6, <1>7 DEF VioInv

LEMMA ReloadStep ==
  ASSUME VioInv, NEW t \in VioThreads, Vio!Reload(t)
  PROVE  VioInv'
  <1>1. /\ vioReq[t].at = "reload" /\ \A u \in VioThreads : vioReq[u].at # "rebuild"
        /\ UNCHANGED <<vioRow, second, runner, pairs, imu, time, epoch, filters, out, vioCalls>>
    BY DEF Vio!Reload, Vio!Locked, Vio!Waiting
  <1>2. vioCalls > 0
    BY <1>1 DEF VioInv, VioTyped, Served
  <1>3. Ordered'
    BY <1>1 DEF VioInv, Ordered, Fed
  <1>4. CASE (~vioRow.ok /\ runner = None)
             \/ (vioRow.ok /\ runner # None /\ runner.stamp = vioRow.stamp)
    <2>1. vioReq' = [vioReq EXCEPT ![t] = Vio!Idle] /\ UNCHANGED <<shut, subscribed>>
      BY <1>4 DEF Vio!Reload
    <2>2. vioReq' \in [VioThreads -> VioRequests] /\ \A u \in VioThreads : vioReq'[u].at # "rebuild"
      BY <1>1, <2>1 DEF VioInv, VioTyped, VioRequests, Vio!Idle
    <2>3. VioTyped'
      BY <1>1, <2>1, <2>2 DEF VioInv, VioTyped
    <2>4. Served'
      BY <1>1, <1>2, <1>4, <2>1, <2>2 DEF VioInv, Served, Matches
    <2> QED BY <1>3, <2>3, <2>4 DEF VioInv
  <1>5. CASE ~((~vioRow.ok /\ runner = None)
             \/ (vioRow.ok /\ runner # None /\ runner.stamp = vioRow.stamp))
    <2>1. /\ vioReq' = [vioReq EXCEPT ![t] = [at |-> "rebuild", target |-> vioRow]]
          /\ shut' = (shut \/ runner # None) /\ subscribed' = FALSE
      BY <1>5 DEF Vio!Reload
    <2>2. /\ vioReq' \in [VioThreads -> VioRequests] /\ vioReq'[t].at = "rebuild"
          /\ vioReq'[t].target = vioRow
          /\ \A u \in VioThreads : u # t => vioReq'[u].at # "rebuild"
      BY <1>1, <2>1 DEF VioInv, VioTyped, VioRequests
    <2>3. VioTyped'
      BY <1>1, <2>1, <2>2 DEF VioInv, VioTyped
    <2>4. Served'
      BY <1>1, <1>2, <2>2 DEF VioInv, Served
    <2> QED BY <1>3, <2>3, <2>4 DEF VioInv
  <1> QED BY <1>4, <1>5

LEMMA RebuildStep ==
  ASSUME VioInv, NEW t \in VioThreads, Vio!Rebuild(t)
  PROVE  VioInv'
  <1> USE Assumptions DEF Vio!VioAssumption
  <1>1. /\ vioReq[t].at = "rebuild" /\ vioReq' = [vioReq EXCEPT ![t] = Vio!Idle]
        /\ UNCHANGED <<vioRow, second, time, out, vioCalls>>
    BY DEF Vio!Rebuild, Vio!Waiting
  <1>2. vioReq[t].target \in Targets
    <2>1. vioReq[t] \in VioRequests
      BY DEF VioInv, VioTyped
    <2> QED BY <1>1, <2>1 DEF VioRequests
  <1>3. vioCalls > 0
    BY <1>1 DEF VioInv, VioTyped, Served
  <1>4. /\ vioReq' \in [VioThreads -> VioRequests]
        /\ \A u \in VioThreads : u # t => vioReq'[u] = vioReq[u]
        /\ \A u \in VioThreads : vioReq'[u].at # "rebuild"
    BY <1>1 DEF VioInv, VioTyped, VioRequests, Served, Vio!Idle
  <1>5. \/ \E u \in VioThreads : vioReq'[u].at = "reload"
        \/ vioReq[t].target = vioRow
    <2>1. CASE \E u \in VioThreads : vioReq[u].at = "reload"
      BY <1>1, <1>4, <2>1
    <2>2. CASE \E u \in VioThreads : vioReq[u].at = "rebuild" /\ vioReq[u].target = vioRow
      BY <1>1, <2>2 DEF VioInv, Served
    <2> QED BY <1>1, <1>3, <2>1, <2>2 DEF VioInv, Served
  <1>6. CASE /\ ~vioReq[t].target.ok /\ runner' = None
             /\ UNCHANGED <<pairs, shut, imu, subscribed, epoch, filters>>
    <2>1. VioTyped'
      BY <1>1, <1>4, <1>6 DEF VioInv, VioTyped
    <2>2. Served'
      BY <1>1, <1>3, <1>4, <1>5, <1>6 DEF VioInv, Served, Matches
    <2>3. Ordered'
      BY <1>1, <1>6 DEF VioInv, Ordered, Fed
    <2> QED BY <2>1, <2>2, <2>3 DEF VioInv
  <1>7. CASE /\ vioReq[t].target.ok /\ pairs' = <<>> /\ shut' = FALSE
             /\ imu' = <<>> /\ subscribed' = TRUE
             /\ epoch' = epoch + 1 /\ filters' = filters + 1
             /\ runner' = [val |-> vioReq[t].target.val, stamp |-> vioReq[t].target.stamp, filter |-> filters + 1,
                        at |-> "pop", t |-> 0, lastImu |-> 0, lastPair |-> 0, low |-> 0,
                        reinit |-> FALSE]
    <2>1. /\ runner' \in Vio!Runners /\ runner'.stamp = vioReq[t].target.stamp
          /\ runner'.filter = filters' /\ runner'.at = "pop"
      BY <1>2, <1>7 DEF VioInv, VioTyped, Vio!Runners, Targets
    <2>2. VioTyped'
      <3>1. pairs' \in Seq(Nat) /\ imu' \in Seq(Nat)
        BY <1>7
      <3>2. epoch' \in Nat /\ filters' \in Nat
        BY <1>7 DEF VioInv, VioTyped
      <3> QED BY <1>1, <1>4, <1>7, <2>1, <3>1, <3>2 DEF VioInv, VioTyped
    <2>3. Served'
      BY <1>1, <1>3, <1>4, <1>5, <1>7, <2>1 DEF VioInv, Served, Matches
    <2>4. Ordered'
      <3>1. out.epoch \in Nat /\ epoch \in Nat
        BY DEF VioInv, VioTyped, Odometry
      <3> QED BY <1>1, <1>7, <2>1, <3>1 DEF VioInv, Ordered, Fed
    <2> QED BY <2>2, <2>3, <2>4 DEF VioInv
  <1> QED BY <1>6, <1>7 DEF Vio!Rebuild

\* The clocks.
LEMMA ClockSteps ==
  ASSUME VioInv, Vio!NextSecond \/ Vio!Tick
  PROVE  VioInv'
  <1>1. CASE Vio!NextSecond
    <2>1. VioTyped'
      <3>1. vioRow.stamp \in Nat
        BY DEF VioInv, VioTyped, Targets
      <3> QED BY <1>1, <3>1 DEF Vio!NextSecond, VioInv, VioTyped
    <2> QED BY <1>1, <2>1 DEF Vio!NextSecond, VioInv, Served, Matches, Ordered, Fed
  <1>2. CASE Vio!Tick
    <2>1. /\ time' = time + 1 /\ imu' \in {imu, Append(imu, time + 1)}
          /\ pairs' \in {pairs, Append(pairs, time + 1)}
          /\ UNCHANGED <<vioRow, second, vioReq, runner, shut, subscribed, epoch, filters, out, vioCalls>>
      BY <1>2 DEF Vio!Tick
    <2>2. VioTyped'
      <3>1. time + 1 \in Nat /\ pairs \in Seq(Nat) /\ imu \in Seq(Nat)
        BY DEF VioInv, VioTyped
      <3>2. Append(pairs, time + 1) \in Seq(Nat) /\ Append(imu, time + 1) \in Seq(Nat)
        BY <3>1
      <3>3. pairs' \in Seq(Nat) /\ imu' \in Seq(Nat)
        BY <2>1, <3>1, <3>2
      <3> QED BY <2>1, <3>1, <3>3 DEF VioInv, VioTyped
    <2>3. Served'
      BY <2>1 DEF VioInv, Served, Matches
    <2>4. time \in Nat /\ pairs \in Seq(Nat) /\ out.t \in Nat
          /\ (Fed => runner.t \in Nat)
      BY DEF VioInv, VioTyped, Odometry, Fed, Vio!Runners
    <2>7. Ordered'
      <3>1. CASE pairs' = pairs
        <4>1. \A i \in 1..Len(pairs) : pairs[i] \in Nat /\ pairs[i] <= time'
          BY <2>1, <2>4 DEF VioInv, Ordered
        <4>2. out.epoch = epoch => out.t <= time'
          BY <2>1, <2>4 DEF VioInv, Ordered
        <4>3. Fed => runner.t <= time'
          BY <2>1, <2>4 DEF VioInv, Ordered
        <4>4. Fed' <=> Fed
          BY <2>1 DEF Fed
        <4>5. /\ epoch' = filters' /\ out'.epoch = out'.filter /\ out'.epoch <= epoch'
              /\ runner' # None => runner'.filter = filters'
              /\ \A i, j \in 1..Len(pairs') : i < j => pairs'[i] < pairs'[j]
          BY <2>1, <3>1 DEF VioInv, Ordered
        <4>6. /\ out'.epoch = epoch' => \A i \in 1..Len(pairs') : out'.t < pairs'[i]
              /\ Fed => /\ \A i \in 1..Len(pairs') : runner'.t < pairs'[i]
                        /\ out'.epoch = epoch' => out'.t < runner'.t
          BY <2>1, <3>1 DEF VioInv, Ordered
        <4> QED BY <2>1, <3>1, <4>1, <4>2, <4>3, <4>4, <4>5, <4>6 DEF Ordered
      <3>2. CASE pairs' = Append(pairs, time + 1)
        <4> DEFINE n == Len(pairs)
        <4>1. /\ Len(pairs') = n + 1 /\ n \in Nat /\ pairs'[n + 1] = time + 1
              /\ \A i \in 1..n : pairs'[i] = pairs[i]
          BY <2>4, <3>2
        <4>2. \A i \in 1..n : pairs[i] \in Nat /\ pairs[i] <= time
          BY <2>4 DEF VioInv, Ordered
        <4>3. \A i \in 1..(n + 1) : (i \in 1..n /\ pairs'[i] = pairs[i]) \/ (i = n + 1 /\ pairs'[i] = time + 1)
          BY <4>1
        <4>4. \A i, j \in 1..(n + 1) : i < j => pairs'[i] < pairs'[j]
          BY <2>4, <4>2, <4>3 DEF VioInv, Ordered
        <4>5. \A i \in 1..(n + 1) : pairs'[i] <= time'
          BY <2>1, <2>4, <4>2, <4>3
        <4>6. out.epoch = epoch => out.t <= time' /\ \A i \in 1..(n + 1) : out.t < pairs'[i]
          BY <2>1, <2>4, <4>3, SMTT(30) DEF VioInv, Ordered
        <4>7. Fed => runner.t <= time' /\ \A i \in 1..(n + 1) : runner.t < pairs'[i]
          BY <2>1, <2>4, <4>3, SMTT(30) DEF VioInv, Ordered
        <4>8. Fed' <=> Fed
          BY <2>1 DEF Fed
        <4>9. Len(pairs') = n + 1
          BY <4>1
        <4> HIDE DEF n
        <4>10. /\ epoch' = filters' /\ out'.epoch = out'.filter /\ out'.epoch <= epoch'
               /\ runner' # None => runner'.filter = filters'
               /\ Fed => (out'.epoch = epoch' => out'.t < runner'.t)
          BY <2>1 DEF VioInv, Ordered
        <4>11. out' = out /\ runner' = runner /\ epoch' = epoch
          BY <2>1
        <4> QED BY <4>4, <4>5, <4>6, <4>7, <4>8, <4>9, <4>10, <4>11 DEF Ordered
      <3> QED BY <2>1, <3>1, <3>2
    <2> QED BY <2>2, <2>3, <2>7 DEF VioInv
  <1> QED BY <1>1, <1>2

\* A step of the runner's thread that keeps its rows and serves no request.
LEMMA RunnerChanges ==
  ASSUME VioInv, runner # None, NEW new \in Vio!Runners, runner' = new, new.stamp = runner.stamp,
         pairs' \in Seq(Nat), imu' \in Seq(Nat), epoch' \in Nat, filters' \in Nat, out' \in Odometry,
         UNCHANGED <<vioRow, second, vioReq, shut, subscribed, time>>,
         vioCalls' \in {vioCalls, vioCalls + 1}, Ordered'
  PROVE  VioInv'
  <1> USE Assumptions DEF Vio!VioAssumption
  <1>1. vioCalls > 0 /\ vioCalls' > 0 /\ vioCalls' \in Nat
    BY DEF VioInv, VioTyped, Served
  <1>2. VioTyped'
    BY <1>1 DEF VioInv, VioTyped
  <1>3. Served'
    BY <1>1 DEF VioInv, Served, Matches
  <1> QED BY <1>2, <1>3 DEF VioInv

LEMMA RestartStep ==
  ASSUME VioInv, NEW t \in VioThreads, Vio!Restart(t)
  PROVE  VioInv'
  <1> DEFINE new == [runner EXCEPT !.reinit = TRUE]
  <1>1. /\ runner # None /\ runner' = new /\ vioCalls' = vioCalls + 1
        /\ UNCHANGED <<vioRow, second, vioReq, pairs, shut, imu, subscribed, time, epoch, filters, out>>
    BY DEF Vio!Restart
  <1>2. runner \in Vio!Runners
    BY <1>1 DEF VioInv, VioTyped
  <1>3. /\ new \in Vio!Runners /\ new.stamp = runner.stamp /\ new.filter = runner.filter
        /\ new.at = runner.at /\ new.t = runner.t
    BY <1>2 DEF Vio!Runners
  <1> HIDE DEF new
  <1>4. Ordered'
    BY <1>1, <1>3 DEF VioInv, Ordered, Fed
  <1> QED BY <1>1, <1>3, <1>4, RunnerChanges DEF VioInv, VioTyped

LEMMA Rebuilt ==
  ASSUME NEW r \in Vio!Runners, filters \in Nat
  PROVE  /\ Vio!Built(r) \in Vio!Runners /\ Vio!Built(r).stamp = r.stamp
         /\ Vio!Built(r).filter = filters + 1
  <1> DEFINE a == [r EXCEPT !.filter = filters + 1]
             b == [a EXCEPT !.lastImu = 0]
             d == [b EXCEPT !.lastPair = 0]
             e == [d EXCEPT !.low = 0]
  <1>1. a \in Vio!Runners /\ a.stamp = r.stamp /\ a.filter = filters + 1
    BY DEF Vio!Runners
  <1>2. Vio!Built(r) = e
    BY DEF Vio!Built
  <1> HIDE DEF a
  <1>3. b \in Vio!Runners /\ b.stamp = r.stamp /\ b.filter = filters + 1
    BY <1>1 DEF Vio!Runners
  <1> HIDE DEF b
  <1>4. d \in Vio!Runners /\ d.stamp = r.stamp /\ d.filter = filters + 1
    BY <1>3 DEF Vio!Runners
  <1> HIDE DEF d
  <1>5. e \in Vio!Runners /\ e.stamp = r.stamp /\ e.filter = filters + 1
    BY <1>4 DEF Vio!Runners
  <1> HIDE DEF e
  <1> QED BY <1>2, <1>5

LEMMA PopStep ==
  ASSUME VioInv, Vio!Pop
  PROVE  VioInv'
  <1> DEFINE gap == runner.lastPair # 0 /\ Head(pairs) - runner.lastPair > MaxGap
             anew == runner.reinit \/ gap
             r == [(IF anew THEN Vio!Built(runner) ELSE runner) EXCEPT !.reinit = FALSE]
             new == [r EXCEPT !.at = "imu", !.t = Head(pairs), !.lastPair = Head(pairs)]
  <1>1. /\ runner # None /\ runner.at = "pop" /\ pairs # <<>> /\ pairs' = Tail(pairs)
        /\ runner' = new
        /\ epoch' = IF anew THEN epoch + 1 ELSE epoch
        /\ filters' = IF anew THEN filters + 1 ELSE filters
        /\ UNCHANGED <<vioRow, second, vioReq, shut, imu, subscribed, time, out, vioCalls>>
    BY DEF Vio!Pop
  <1>2. /\ runner \in Vio!Runners /\ pairs \in Seq(Nat) /\ epoch \in Nat /\ filters \in Nat
        /\ time \in Nat /\ out.epoch \in Nat /\ out.t \in Nat
    BY <1>1 DEF VioInv, VioTyped, Odometry
  <1>3. Head(pairs) \in Nat /\ Head(pairs) = pairs[1]
    BY <1>1, <1>2
  <1>4. (IF anew THEN Vio!Built(runner) ELSE runner) \in Vio!Runners
        /\ (IF anew THEN Vio!Built(runner) ELSE runner).stamp = runner.stamp
        /\ (IF anew THEN Vio!Built(runner) ELSE runner).filter = IF anew THEN filters + 1 ELSE runner.filter
    BY <1>2, Rebuilt DEF Vio!Runners
  <1>5. /\ new \in Vio!Runners /\ new.stamp = runner.stamp /\ new.at = "imu" /\ new.t = Head(pairs)
        /\ new.filter = IF anew THEN filters + 1 ELSE runner.filter
    BY <1>2, <1>3, <1>4 DEF Vio!Runners
  <1> HIDE DEF new, anew
  <1>6. Ordered'
    <2> DEFINE n == Len(pairs)
    <2>1. /\ n \in Nat /\ n >= 1 /\ pairs' \in Seq(Nat) /\ Len(pairs') = n - 1
          /\ \A i \in 1..(n - 1) : pairs'[i] = pairs[i + 1] /\ i + 1 \in 1..n /\ 1 \in 1..n /\ 1 < i + 1
      BY <1>1, <1>2
    <2>2. \A i \in 1..n : pairs[i] \in Nat
      BY <1>2
    <2> HIDE DEF n
    <2>3. \A i \in 1..(n - 1) : pairs[1] < pairs'[i] /\ pairs'[i] <= time
      <3> SUFFICES ASSUME NEW i \in 1..(n - 1)
                   PROVE  pairs[1] < pairs'[i] /\ pairs'[i] <= time
        OBVIOUS
      <3>1. pairs'[i] = pairs[i + 1] /\ i + 1 \in 1..n /\ 1 \in 1..n /\ 1 < i + 1
        BY <2>1
      <3>2. \A l, m \in 1..n : l < m => pairs[l] < pairs[m]
        BY DEF VioInv, Ordered, n
      <3>3. \A l \in 1..n : pairs[l] <= time
        BY DEF VioInv, Ordered, n
      <3> QED BY <3>1, <3>2, <3>3
    <2>4. \A i, j \in 1..(n - 1) : i < j => pairs'[i] < pairs'[j]
      <3> SUFFICES ASSUME NEW i \in 1..(n - 1), NEW j \in 1..(n - 1), i < j
                   PROVE  pairs'[i] < pairs'[j]
        OBVIOUS
      <3>1. /\ pairs'[i] = pairs[i + 1] /\ i + 1 \in 1..n
            /\ pairs'[j] = pairs[j + 1] /\ j + 1 \in 1..n /\ i + 1 < j + 1
        BY <2>1
      <3>2. \A l, m \in 1..n : l < m => pairs[l] < pairs[m]
        BY DEF VioInv, Ordered, n
      <3> QED BY <3>1, <3>2
    <2>5. epoch' = filters' /\ out'.epoch = out'.filter /\ out'.epoch <= epoch'
      BY <1>1, <1>2 DEF VioInv, Ordered
    <2>6. runner'.filter = filters'
      BY <1>1, <1>5 DEF VioInv, Ordered
    <2>7. 1 \in 1..n /\ pairs[1] <= time
      BY <2>1 DEF VioInv, Ordered, n
    <2>8. out'.epoch = epoch' => out.epoch = epoch /\ epoch' = epoch
      BY <1>1, <1>2 DEF VioInv, Ordered
    <2>9. out'.epoch = epoch' => out.t <= time /\ out.t < pairs[1]
      BY <2>7, <2>8 DEF VioInv, Ordered, n
    <2>10. out'.epoch = epoch' => \A i \in 1..(n - 1) : out.t < pairs'[i]
      BY <1>2, <2>1, <2>2, <2>3, <2>7, <2>9, SMTT(30)
    <2> QED BY <1>1, <1>3, <1>5, <2>1, <2>3, <2>4, <2>5, <2>6, <2>7, <2>9, <2>10 DEF Ordered
  <1>7. pairs' \in Seq(Nat) /\ epoch' \in Nat /\ filters' \in Nat
    BY <1>1, <1>2
  <1> QED BY <1>1, <1>5, <1>6, <1>7, RunnerChanges DEF VioInv, VioTyped

\* The thread leaves, feeds samples to the filter, or lets a pair go.
LEMMA ThreadSteps ==
  ASSUME VioInv, Vio!Leave \/ Vio!FeedImu \/ Vio!Skip
  PROVE  VioInv'
  <1>1. runner # None /\ runner \in Vio!Runners /\ imu \in Seq(Nat)
    BY DEF VioInv, VioTyped, Vio!Leave, Vio!FeedImu, Vio!Skip
  <1>2. UNCHANGED <<vioRow, second, vioReq, pairs, shut, subscribed, time, epoch, filters, out, vioCalls>>
    BY DEF Vio!Leave, Vio!FeedImu, Vio!Skip
  <1>3. PICK new \in Vio!Runners :
          /\ runner' = new /\ new.stamp = runner.stamp /\ new.filter = runner.filter
          /\ new.t = runner.t
          /\ new.at \in {"imu", "feed"} => runner.at \in {"imu", "feed"}
    <2>1. CASE Vio!Leave
      BY <1>1, <2>1 DEF Vio!Leave, Vio!Runners
    <2>2. CASE Vio!Skip
      BY <1>1, <2>2 DEF Vio!Skip, Vio!Runners
    <2>3. CASE Vio!FeedImu
      <3>1. CASE imu # <<>> /\ runner.at = "imu" /\ runner' = [runner EXCEPT !.lastImu = Head(imu)]
        <4>1. Head(imu) \in Nat
          BY <1>1, <3>1
        <4> QED BY <1>1, <3>1, <4>1, SMTT(30) DEF Vio!Runners
      <3>2. CASE runner.at = "imu" /\ runner' = [runner EXCEPT !.at = "feed"]
        BY <1>1, <3>2 DEF Vio!Runners
      <3> QED BY <2>3, <3>1, <3>2 DEF Vio!FeedImu
    <2> QED BY <2>1, <2>2, <2>3
  <1>4. imu' \in Seq(Nat)
    BY <1>1, SMTT(30) DEF Vio!Leave, Vio!FeedImu, Vio!Skip
  <1>5. Ordered'
    BY <1>1, <1>2, <1>3 DEF VioInv, Ordered, Fed
  <1> QED BY <1>1, <1>2, <1>3, <1>4, <1>5, RunnerChanges DEF VioInv, VioTyped

LEMMA PublishStep ==
  ASSUME VioInv, Vio!PublishOdometry
  PROVE  VioInv' /\ Vio!OdometryNext
  <1>1. /\ runner # None /\ runner.at = "feed"
        /\ out' = [t |-> runner.t, epoch |-> epoch, filter |-> runner.filter,
               covered |-> runner.lastImu >= runner.t + Vio!Lead]
        /\ UNCHANGED <<vioRow, second, vioReq, pairs, shut, imu, subscribed, time, vioCalls>>
    BY DEF Vio!PublishOdometry
  <1>2. /\ runner \in Vio!Runners /\ epoch \in Nat /\ filters \in Nat /\ time \in Nat
        /\ runner.t \in Nat /\ runner.filter \in Nat
    BY <1>1 DEF VioInv, VioTyped, Vio!Runners
  <1>3. PICK few, exploded \in BOOLEAN :
         LET low == IF few THEN runner.low + 1 ELSE 0
             diverged == exploded \/ low >= Window
             r == IF diverged THEN Vio!Built(runner) ELSE [runner EXCEPT !.low = low] IN
         /\ runner' = [r EXCEPT !.at = "pop"]
         /\ epoch' = IF diverged THEN epoch + 1 ELSE epoch
         /\ filters' = IF diverged THEN filters + 1 ELSE filters
    BY DEF Vio!PublishOdometry
  <1> DEFINE low == IF few THEN runner.low + 1 ELSE 0
             diverged == exploded \/ low >= Window
             r == IF diverged THEN Vio!Built(runner) ELSE [runner EXCEPT !.low = low]
             new == [r EXCEPT !.at = "pop"]
  <1>4. /\ runner' = new
        /\ epoch' = IF diverged THEN epoch + 1 ELSE epoch
        /\ filters' = IF diverged THEN filters + 1 ELSE filters
    BY <1>3
  <1>5. /\ r \in Vio!Runners /\ r.stamp = runner.stamp
        /\ r.filter = IF diverged THEN filters + 1 ELSE runner.filter
    <2>1. low \in Nat
      BY <1>2 DEF Vio!Runners
    <2> HIDE DEF low, diverged
    <2>2. CASE diverged
      BY <1>2, <2>2, Rebuilt
    <2>3. CASE ~diverged
      BY <1>2, <2>1, <2>3 DEF Vio!Runners
    <2> QED BY <2>2, <2>3
  <1>6. new \in Vio!Runners /\ new.stamp = runner.stamp /\ new.at = "pop"
        /\ new.filter = IF diverged THEN filters + 1 ELSE runner.filter
    BY <1>5 DEF Vio!Runners
  <1> HIDE DEF new, diverged
  <1>7. /\ out' \in Odometry /\ out'.t = runner.t /\ out'.epoch = epoch /\ out'.filter = runner.filter
    <2>1. (runner.lastImu >= runner.t + Vio!Lead) \in BOOLEAN
      OBVIOUS
    <2> QED BY <1>1, <1>2, <2>1 DEF Odometry
  <1>8. Ordered'
    BY <1>1, <1>2, <1>4, <1>6, <1>7 DEF VioInv, Ordered, Fed
  <1>9. Vio!OdometryNext
    <2>1. out \in Odometry /\ out.epoch \in Nat /\ out.t \in Nat
      BY DEF VioInv, VioTyped, Odometry
    <2> QED BY <1>1, <1>2, <1>7, <2>1 DEF VioInv, Ordered, Fed, Vio!OdometryNext
  <1>10. pairs' \in Seq(Nat) /\ imu' \in Seq(Nat) /\ epoch' \in Nat /\ filters' \in Nat
    BY <1>1, <1>2, <1>4 DEF VioInv, VioTyped
  <1> QED BY <1>1, <1>4, <1>6, <1>7, <1>8, <1>9, <1>10, RunnerChanges

LEMMA VioNext ==
  ASSUME VioInv, [Vio!Next]_vioVars PROVE VioInv' /\ Vio!OdometryNext
  <1>1. CASE UNCHANGED vioVars
    BY <1>1 DEF vioVars, VioInv, VioTyped, Served, Matches, Ordered, Fed, Vio!OdometryNext
  <1>2. CASE Vio!PublishOdometry
    BY <1>2, PublishStep
  <1>3. CASE Vio!Next /\ ~Vio!PublishOdometry
    <2>1. out' = out
      BY <1>3 DEF Vio!Next, Vio!NextSecond, Vio!Tick, Vio!Put, Vio!Reload, Vio!Rebuild, Vio!Restart,
         Vio!Pop, Vio!Leave, Vio!FeedImu, Vio!Skip
    <2>2. VioInv'
      BY <1>3, PutStep, ReloadStep, RebuildStep, ClockSteps, RestartStep, PopStep, ThreadSteps DEF Vio!Next
    <2> QED BY <2>1, <2>2 DEF Vio!OdometryNext
  <1> QED BY <1>1, <1>2, <1>3

LEMMA VioMeans ==
  ASSUME VioInv PROVE Vio!TypeOK /\ Vio!RunnerFollowsRow
  <1>1. Vio!TypeOK
    <2> DEFINE W == {t \in VioThreads : Vio!Waiting(t)}
    <2>1. \A t, u \in W : t = u
      BY DEF VioInv, Served, Vio!Waiting
    <2>2. W = {} \/ \E t : W = {t}
      BY <2>1
    <2>3. Cardinality(W) = 0 \/ Cardinality(W) = 1
      BY <2>2, FS_EmptySet, FS_Singleton
    <2>4. Vio!Cardinality(W) <= 1
      <3>1. Vio!Cardinality(W) = Cardinality(W)
        BY DEF Vio!Cardinality, Cardinality
      <3> QED BY <2>3, <3>1
    <2>5. vioRow.val \in VioValues /\ vioRow.stamp <= second
      BY DEF VioInv, VioTyped, Targets
    <2>6. runner # None => runner.at \in {"pop", "imu", "feed", "gone"}
      BY DEF VioInv, VioTyped, Vio!Runners
    <2> QED BY <2>4, <2>5, <2>6 DEF Vio!TypeOK
  <1>2. Vio!RunnerFollowsRow
    BY DEF VioInv, VioTyped, Served, Matches, Vio!RunnerFollowsRow, Vio!Quiet
  <1> QED BY <1>1, <1>2

-----------------------------------------------------------------------------
(* The calibration supervisor.                                              *)

Kinds == {"cam", "imu"}
Outcomes == {"Succeeded", "Failed", "Cancelled"}
Readers == {"read", "store", "tell", "notify", "gone"}
Jobs == [kind : Kinds, cams : SUBSET Cams, state : {"Running"} \cup Outcomes,
         child : {"forked", "grouped", "signalled", "ok", "bad"}, reader : Readers,
         cancel : BOOLEAN, ok : SUBSET Cams, stored : BOOLEAN, error : BOOLEAN]
JobRequests == [at : {"idle", "launch", "reap"}, kind : Kinds, cams : SUBSET Cams]
               \cup [at : {"cancel"}, kind : Kinds, cams : {{j} : j \in DOMAIN jobs}]
Logs == [at : {"idle"}, job : {0}, stored : BOOLEAN, error : BOOLEAN]
        \cup [at : {"streaming", "done"}, job : DOMAIN jobs, stored : BOOLEAN, error : BOOLEAN]

CalibTyped ==
    /\ phase \in {"up", "closing", "closed"} /\ mu \in Clients \cup {None}
    /\ sessions \in SUBSET Cams /\ ext \in SUBSET Cams
    /\ jobs \in Seq(Jobs)
    /\ slot \in [Kinds -> DOMAIN jobs \cup {None}]
    /\ req \in [Clients -> JobRequests]
    /\ result \in [Cams -> Nat] /\ told \in [Cams -> Nat]
    /\ sse \in [Streams -> Logs]

\* A running job has a slot, there is one slot in use, and whoever holds mu_ to replace a
\* job has seen that none runs.
OneRuns ==
    /\ \A j \in DOMAIN jobs : jobs[j].state = "Running" => \E k \in Kinds : slot[k] = j
    /\ \A k, l \in Kinds : slot[k] # None /\ slot[l] # None => k = l
    /\ \A c \in Clients : req[c].at = "reap" =>
         /\ mu = c
         /\ \A k \in Kinds : slot[k] # None => jobs[slot[k]].state # "Running"
    /\ sessions \cap ext = {}

\* What the reader of a job has done so far of its result.
Outcome(job) ==
    /\ job.reader = "read" <=> job.state = "Running"
    /\ job.reader \in {"store", "tell"} => job.state = "Succeeded"
    /\ job.state # "Succeeded" => ~job.stored
    /\ job.state = "Succeeded" /\ job.reader \in {"notify", "gone"} =>
         /\ job.stored <=> job.ok = job.cams
         /\ job.error <=> job.ok # job.cams

\* A camera that was not told of its row yet will be, by the job that wrote it.
Pending ==
    \A k \in Cams : told[k] = result[k] \/
        \E j \in DOMAIN jobs : jobs[j].reader = "tell" /\ k \in jobs[j].ok

CalibInv ==
    /\ CalibTyped /\ OneRuns /\ Pending
    /\ \A j \in DOMAIN jobs : Outcome(jobs[j])

USE DEF Kinds

LEMMA CalibStarts == Calib!Init => CalibInv
  BY DEF Calib!Init, CalibInv, CalibTyped, OneRuns, Pending, Outcome, Jobs, JobRequests, Logs,
         Calib!Kinds, Calib!Idle, Calib!NoLog

\* Requests that touch sessions only.
LEMMA SessionSteps ==
  ASSUME NEW c \in Clients, CalibInv,
         \/ Calib!StartSession(c) \/ Calib!StartExtrinsics(c)
         \/ Calib!StopSession(c) \/ Calib!StopExtrinsics(c)
  PROVE  CalibInv'
  <1>1. CASE Calib!StartSession(c)
    BY <1>1 DEF Calib!StartSession, Calib!Free, CalibInv, CalibTyped, OneRuns, Pending,
                JobRequests, Logs
  <1>2. CASE Calib!StartExtrinsics(c)
    BY <1>2 DEF Calib!StartExtrinsics, Calib!Free, CalibInv, CalibTyped, OneRuns, Pending,
                JobRequests, Logs
  <1>3. CASE Calib!StopSession(c)
    BY <1>3 DEF Calib!StopSession, Calib!Free, CalibInv, CalibTyped, OneRuns, Pending,
                JobRequests, Logs
  <1>4. CASE Calib!StopExtrinsics(c)
    BY <1>4 DEF Calib!StopExtrinsics, Calib!Free, CalibInv, CalibTyped, OneRuns, Pending,
                JobRequests, Logs
  <1> QED BY <1>1, <1>2, <1>3, <1>4

LEMMA LaunchStep ==
  ASSUME NEW c \in Clients, CalibInv, Calib!Launch(c) PROVE CalibInv'
  <1>1. CASE \E k \in Calib!Kinds : slot[k] # None /\ Calib!Running(slot[k])
    <2>1. req' = [req EXCEPT ![c] = Calib!Idle]
          /\ UNCHANGED <<phase, mu, sessions, ext, slot, jobs, result, told, sse>>
      BY <1>1 DEF Calib!Launch
    <2>2. req' \in [Clients -> JobRequests]
          /\ \A d \in Clients : req'[d].at = "reap" => req[d].at = "reap"
      BY <2>1 DEF CalibInv, CalibTyped, JobRequests, Calib!Idle
    <2> QED BY <2>1, <2>2 DEF CalibInv, CalibTyped, OneRuns, Pending, JobRequests, Logs
  <1>2. CASE ~ \E k \in Calib!Kinds : slot[k] # None /\ Calib!Running(slot[k])
    <2>1. \A d \in Clients : req[d].at # "reap"
      BY Assumptions DEF Calib!CalibAssumption, Calib!Launch, CalibInv, OneRuns
    <2>2. mu' = c /\ req' = [req EXCEPT ![c].at = "reap"] /\ req[c].at = "launch"
          /\ UNCHANGED <<phase, sessions, ext, slot, jobs, result, told, sse>>
      BY <1>2 DEF Calib!Launch
    <2>3. req' \in [Clients -> JobRequests]
      BY <2>2, ZenonT(60) DEF CalibInv, CalibTyped, JobRequests
    <2>4. \A d \in Clients : req'[d].at = "reap" => d = c
      BY <2>1, <2>2 DEF CalibInv, CalibTyped
    <2>5. \A k \in Kinds : slot[k] # None => jobs[slot[k]].state # "Running"
      BY <1>2 DEF Calib!Running, Calib!Kinds
    <2>6. CalibTyped'
      BY <2>2, <2>3 DEF CalibInv, CalibTyped, JobRequests, Logs
    <2>7. OneRuns'
      BY <2>2, <2>4, <2>5 DEF CalibInv, OneRuns
    <2>8. Pending'
      BY <2>2 DEF CalibInv, Pending
    <2> QED
      BY <2>2, <2>6, <2>7, <2>8 DEF CalibInv
  <1> QED BY <1>1, <1>2
LEMMA ReapStep ==
  ASSUME NEW c \in Clients, CalibInv, Calib!Reap(c) PROVE CalibInv'
  <1> DEFINE New == [kind |-> req[c].kind, cams |-> req[c].cams, state |-> "Running",
                     child |-> "forked", reader |-> "read", cancel |-> FALSE,
                     ok |-> {}, stored |-> FALSE, error |-> FALSE]
  <1>1. /\ req[c].at = "reap" /\ mu = c /\ mu' = None /\ req' = [req EXCEPT ![c] = Calib!Idle]
        /\ UNCHANGED <<phase, sessions, ext, result, told, sse>>
    BY DEF Calib!Reap
  <1>2. \A j \in DOMAIN jobs : jobs[j].state # "Running"
    <2>1. \A j \in DOMAIN jobs : j # None
      BY Assumptions DEF Calib!CalibAssumption, CalibInv, CalibTyped
    <2> QED BY <1>1, <2>1 DEF CalibInv, OneRuns
  <1>3. \A d \in Clients : req'[d].at # "reap"
    BY <1>1 DEF CalibInv, CalibTyped, OneRuns, Calib!Idle
  <1>4. CASE slot' = [k \in Kinds |-> None] /\ UNCHANGED jobs
    <2>1. CalibTyped'
      BY <1>1, <1>4 DEF CalibInv, CalibTyped, JobRequests, Logs, Calib!Idle
    <2>2. OneRuns'
      BY <1>1, <1>2, <1>3, <1>4 DEF CalibInv, OneRuns
    <2>3. Pending' /\ \A j \in DOMAIN jobs' : Outcome(jobs[j])'
      BY <1>1, <1>4 DEF CalibInv, Pending, Outcome
    <2> QED BY <2>1, <2>2, <2>3 DEF CalibInv
  <1>5. CASE /\ slot' = [k \in Kinds |-> IF k = req[c].kind THEN Len(jobs) + 1 ELSE None]
             /\ jobs' = Append(jobs, New)
    <2>12. req[c] \in JobRequests
      BY DEF CalibInv, CalibTyped
    <2>11. req[c].kind \in Kinds /\ req[c].cams \in SUBSET Cams
      BY <1>1, <2>12 DEF JobRequests
    <2>1. New \in Jobs /\ jobs \in Seq(Jobs)
      BY <2>11 DEF CalibInv, CalibTyped, Jobs, Outcomes, Readers
    <2>2. /\ jobs' \in Seq(Jobs) /\ Len(jobs) \in Nat
          /\ DOMAIN jobs = 1..Len(jobs) /\ DOMAIN jobs' = 1..(Len(jobs) + 1)
          /\ \A j \in DOMAIN jobs : jobs'[j] = jobs[j]
          /\ jobs'[Len(jobs) + 1] = New
      BY <2>1, <1>5
    <2> HIDE DEF New
    <2>3. req' \in [Clients -> JobRequests'] /\ sse' \in [Streams -> Logs']
      <3>1. req' \in [Clients -> JobRequests]
        BY <1>1 DEF CalibInv, CalibTyped, JobRequests, Calib!Idle
      <3>2. JobRequests \subseteq JobRequests' /\ Logs \subseteq Logs'
        BY <2>2 DEF JobRequests, Logs
      <3> QED BY <1>1, <3>1, <3>2 DEF CalibInv, CalibTyped
    <2>4. slot' \in [Kinds -> DOMAIN jobs' \cup {None}]
      BY <1>5, <2>2
    <2>5. CalibTyped'
      BY <1>1, <2>2, <2>3, <2>4 DEF CalibInv, CalibTyped
    <2>6. \A j \in DOMAIN jobs' : jobs'[j].state = "Running" => \E k \in Kinds : slot'[k] = j
      <3>1. req[c].kind \in Kinds
        BY <1>1 DEF CalibInv, CalibTyped, JobRequests
      <3> QED BY <1>2, <1>5, <2>2, <3>1
    <2>7. OneRuns'
      BY <1>1, <1>3, <1>5, <2>6 DEF CalibInv, OneRuns
    <2>8. Pending'
      BY <1>1, <2>2 DEF CalibInv, Pending
    <2>9. Outcome(New)
      BY DEF Outcome, New
    <2>10. \A j \in DOMAIN jobs' : Outcome(jobs[j])'
      BY <2>2, <2>9 DEF CalibInv, Outcome
    <2> QED BY <2>5, <2>7, <2>8, <2>10 DEF CalibInv
  <1> QED BY <1>4, <1>5 DEF Calib!Reap, Calib!Kinds

\* A step that gives one job a new record, and starts none.
LEMMA JobChanges ==
  ASSUME CalibInv, NEW j \in DOMAIN jobs, NEW new \in Jobs, Outcome(new),
         jobs' = [jobs EXCEPT ![j] = new],
         new.state = "Running" => jobs[j].state = "Running",
         UNCHANGED <<phase, sessions, ext, slot, mu, sse>>,
         req' \in [Clients -> JobRequests],
         \A d \in Clients : req'[d].at = "reap" => req[d].at = "reap",
         result' \in [Cams -> Nat], told' \in [Cams -> Nat], Pending'
  PROVE  CalibInv'
  <1>1. jobs \in Seq(Jobs) /\ DOMAIN jobs = 1..Len(jobs)
    BY DEF CalibInv, CalibTyped
  <1>2. /\ jobs' \in Seq(Jobs) /\ DOMAIN jobs' = DOMAIN jobs
        /\ \A i \in DOMAIN jobs : jobs'[i] = IF i = j THEN new ELSE jobs[i]
    BY <1>1
  <1>3. CalibTyped'
    BY <1>2 DEF CalibInv, CalibTyped, JobRequests, Logs
  <1>4. OneRuns'
    BY <1>2 DEF CalibInv, CalibTyped, OneRuns
  <1>5. \A i \in DOMAIN jobs' : Outcome(jobs[i])'
    BY <1>2 DEF CalibInv, Outcome
  <1> QED BY <1>3, <1>4, <1>5 DEF CalibInv

\* The child of a job, and its reader up to the final state.
LEMMA ChildSteps ==
  ASSUME CalibInv, NEW j \in DOMAIN jobs,
         Calib!Setpgid(j) \/ Calib!ChildExits(j) \/ Calib!ReadEnd(j) \/ Calib!Notify(j)
  PROVE  CalibInv'
  <1>1. jobs[j] \in Jobs /\ Outcome(jobs[j])
    BY DEF CalibInv, CalibTyped
  <1>2. PICK new \in Jobs :
          /\ jobs' = [jobs EXCEPT ![j] = new] /\ Outcome(new)
          /\ jobs[j].reader = "tell" => new.reader = "tell" /\ new.ok = jobs[j].ok
          /\ new.state = "Running" => jobs[j].state = "Running"
    <2>1. CASE Calib!Setpgid(j)
      <3> DEFINE new == [jobs[j] EXCEPT !.child = "grouped"]
      <3>1. jobs' = [jobs EXCEPT ![j] = new]
        BY <2>1 DEF Calib!Setpgid, Calib!SetJob
      <3>2. new \in Jobs
        BY <1>1 DEF Jobs
      <3>3. new.reader = jobs[j].reader /\ new.ok = jobs[j].ok /\ Outcome(new)
            /\ new.state = jobs[j].state
        BY <1>1 DEF Outcome, Jobs
      <3> QED BY <3>1, <3>2, <3>3
    <2>2. CASE Calib!ChildExits(j)
      <3>1. PICK code \in {"ok", "bad"} : jobs' = [jobs EXCEPT ![j]["child"] = code]
        BY <2>2 DEF Calib!ChildExits, Calib!SetJob
      <3> DEFINE new == [jobs[j] EXCEPT !.child = code]
      <3>2. jobs' = [jobs EXCEPT ![j] = new]
        BY <3>1
      <3>3. new \in Jobs
        BY <1>1 DEF Jobs
      <3>4. new.reader = jobs[j].reader /\ new.ok = jobs[j].ok /\ Outcome(new)
            /\ new.state = jobs[j].state
        BY <1>1 DEF Outcome, Jobs
      <3> QED BY <3>2, <3>3, <3>4
    <2>3. CASE Calib!ReadEnd(j)
      <3> DEFINE new == [jobs[j] EXCEPT
            !.state = IF jobs[j].cancel THEN "Cancelled"
                      ELSE IF jobs[j].child = "ok" THEN "Succeeded" ELSE "Failed",
            !.reader = IF jobs[j].child = "ok" /\ ~jobs[j].cancel THEN "store" ELSE "notify"]
      <3>1. jobs' = [jobs EXCEPT ![j] = new] /\ jobs[j].reader = "read"
        BY <2>3 DEF Calib!ReadEnd
      <3>2. new \in Jobs
        BY <1>1 DEF Jobs, Outcomes, Readers
      <3>3. Outcome(new) /\ new.state # "Running"
        BY <1>1, <3>1 DEF Outcome, Jobs
      <3> QED BY <3>1, <3>2, <3>3
    <2>4. CASE Calib!Notify(j)
      <3> DEFINE new == [jobs[j] EXCEPT !.reader = "gone"]
      <3>1. jobs' = [jobs EXCEPT ![j] = new] /\ jobs[j].reader = "notify"
        BY <2>4 DEF Calib!Notify, Calib!SetJob
      <3>2. new \in Jobs
        BY <1>1 DEF Jobs, Readers
      <3>3. Outcome(new) /\ new.state = jobs[j].state
        BY <1>1, <3>1 DEF Outcome, Jobs
      <3> QED BY <3>1, <3>2, <3>3
    <2> QED BY <2>1, <2>2, <2>3, <2>4
  <1>3. UNCHANGED <<phase, sessions, ext, slot, mu, sse, req, result, told>>
    BY DEF Calib!Setpgid, Calib!ChildExits, Calib!ReadEnd, Calib!Notify
  <1>4. jobs \in Seq(Jobs)
    BY DEF CalibInv, CalibTyped
  <1>5. DOMAIN jobs' = DOMAIN jobs /\ \A i \in DOMAIN jobs : jobs'[i] = IF i = j THEN new ELSE jobs[i]
    BY <1>2, <1>4
  <1>6. Pending'
    BY <1>2, <1>3, <1>5 DEF CalibInv, Pending
  <1> QED
    BY <1>2, <1>3, <1>6, JobChanges DEF CalibInv, CalibTyped

\* The result of a job, and who is told.
LEMMA ResultSteps ==
  ASSUME CalibInv, NEW j \in DOMAIN jobs, Calib!Store(j) \/ Calib!Tell(j)
  PROVE  CalibInv'
  <1>1. /\ jobs[j] \in Jobs /\ Outcome(jobs[j]) /\ jobs \in Seq(Jobs) /\ j \in Nat
        /\ result \in [Cams -> Nat] /\ told \in [Cams -> Nat]
    BY DEF CalibInv, CalibTyped
  <1>2. UNCHANGED <<phase, sessions, ext, slot, mu, sse, req>>
    BY DEF Calib!Store, Calib!Tell
  <1>3. req' \in [Clients -> JobRequests]
    BY <1>2 DEF CalibInv, CalibTyped
  <1>4. CASE Calib!Store(j)
    <2>1. PICK ok \in SUBSET jobs[j].cams :
            /\ result' = [k \in Cams |-> IF k \in ok THEN j ELSE result[k]]
            /\ jobs' = [jobs EXCEPT ![j].ok = ok, ![j].reader = "tell",
                          ![j].stored = jobs[j].kind = "cam" /\ ok # {},
                          ![j].error = jobs[j].kind = "cam" /\ ok = {}]
      BY <1>4 DEF Calib!Store
    <2> DEFINE new == [jobs[j] EXCEPT !.ok = ok, !.reader = "tell",
                          !.stored = jobs[j].kind = "cam" /\ ok # {},
                          !.error = jobs[j].kind = "cam" /\ ok = {}]
    <2>2. jobs' = [jobs EXCEPT ![j] = new] /\ jobs[j].reader = "store" /\ told' = told
      BY <1>4, <2>1, ZenonT(60) DEF Calib!Store
    <2>3. new \in Jobs /\ new.reader = "tell" /\ new.ok = ok /\ new.state = jobs[j].state
      BY <1>1 DEF Jobs, Readers
    <2>4. Outcome(new)
      BY <1>1, <2>2 DEF Outcome, Jobs
    <2> HIDE DEF new
    <2>5. DOMAIN jobs' = DOMAIN jobs
          /\ \A i \in DOMAIN jobs : jobs'[i] = IF i = j THEN new ELSE jobs[i]
      BY <1>1, <2>2
    <2>6. Pending'
      <3> SUFFICES ASSUME NEW k \in Cams, told'[k] # result'[k]
                   PROVE  \E i \in DOMAIN jobs' : jobs'[i].reader = "tell" /\ k \in jobs'[i].ok
        BY DEF Pending
      <3>1. CASE k \in ok
        BY <2>3, <2>5, <3>1
      <3>2. CASE k \notin ok
        <4>1. result'[k] = result[k] /\ told'[k] = told[k]
          BY <2>1, <2>2, <3>2
        <4>2. PICK i \in DOMAIN jobs : jobs[i].reader = "tell" /\ k \in jobs[i].ok
          BY <4>1 DEF CalibInv, Pending
        <4>3. i # j
          BY <2>2, <4>2
        <4> QED BY <2>5, <4>2, <4>3
      <3> QED BY <3>1, <3>2
    <2>7. result' \in [Cams -> Nat] /\ told' \in [Cams -> Nat]
      BY <1>1, <2>1, <2>2
    <2> QED BY <1>2, <1>3, <2>2, <2>3, <2>4, <2>6, <2>7, JobChanges
  <1>5. CASE Calib!Tell(j)
    <2> DEFINE new == [jobs[j] EXCEPT !.reader = "notify",
                          !.stored = jobs[j].ok = jobs[j].cams,
                          !.error = jobs[j].ok # jobs[j].cams]
    <2>2. /\ jobs' = [jobs EXCEPT ![j] = new] /\ jobs[j].reader = "tell" /\ result' = result
          /\ told' = [k \in Cams |-> IF k \in jobs[j].ok THEN result[k] ELSE told[k]]
      BY <1>5 DEF Calib!Tell
    <2>3. new \in Jobs /\ new.state = jobs[j].state
      BY <1>1 DEF Jobs, Readers
    <2>4. Outcome(new)
      BY <1>1, <2>2 DEF Outcome, Jobs
    <2> HIDE DEF new
    <2>5. DOMAIN jobs' = DOMAIN jobs
          /\ \A i \in DOMAIN jobs : jobs'[i] = IF i = j THEN new ELSE jobs[i]
      BY <1>1, <2>2
    <2>6. Pending'
      BY <1>1, <2>2, <2>5 DEF CalibInv, Pending
    <2>7. result' \in [Cams -> Nat] /\ told' \in [Cams -> Nat]
      BY <1>1, <2>2
    <2> QED BY <1>2, <1>3, <2>2, <2>3, <2>4, <2>6, <2>7, JobChanges
  <1> QED BY <1>4, <1>5

\* Cancelling leaves the reader and the outcome of a job alone.
LEMMA SignalledKeeps ==
  ASSUME NEW job \in Jobs, Outcome(job)
  PROVE  /\ Calib!Signalled(job) \in Jobs /\ Outcome(Calib!Signalled(job))
         /\ Calib!Signalled(job).state = job.state
         /\ Calib!Signalled(job).reader = job.reader /\ Calib!Signalled(job).ok = job.ok
  <1>1. Calib!Signalled(job) \in Jobs
    BY DEF Calib!Signalled, Jobs
  <1>2. /\ Calib!Signalled(job).state = job.state /\ Calib!Signalled(job).cams = job.cams
        /\ Calib!Signalled(job).reader = job.reader /\ Calib!Signalled(job).ok = job.ok
        /\ Calib!Signalled(job).stored = job.stored /\ Calib!Signalled(job).error = job.error
    BY DEF Calib!Signalled, Jobs
  <1> QED BY <1>1, <1>2 DEF Outcome

LEMMA CancelSteps ==
  ASSUME CalibInv, NEW c \in Clients, Calib!FindToCancel(c) \/ Calib!Cancel(c)
  PROVE  CalibInv'
  <1>1. CASE Calib!FindToCancel(c)
    <2>1. PICK k \in Kinds :
            /\ slot[k] # None
            /\ req' = [req EXCEPT ![c] = [at |-> "cancel", kind |-> k, cams |-> {slot[k]}]]
      BY <1>1 DEF Calib!FindToCancel, Calib!Kinds
    <2>2. UNCHANGED <<phase, sessions, ext, slot, mu, jobs, result, told, sse>>
      BY <1>1 DEF Calib!FindToCancel
    <2>3. slot[k] \in DOMAIN jobs
      BY <2>1 DEF CalibInv, CalibTyped
    <2>4. [at |-> "cancel", kind |-> k, cams |-> {slot[k]}] \in JobRequests
      BY <2>3 DEF JobRequests
    <2>5. req' \in [Clients -> JobRequests] /\ \A d \in Clients : req'[d].at = "reap" => req[d].at = "reap"
      BY <2>1, <2>4 DEF CalibInv, CalibTyped
    <2>6. CalibTyped'
      BY <2>2, <2>5 DEF CalibInv, CalibTyped, JobRequests, Logs
    <2>7. OneRuns'
      BY <2>2, <2>5 DEF CalibInv, OneRuns
    <2> QED BY <2>2, <2>6, <2>7 DEF CalibInv, Pending
  <1>2. CASE Calib!Cancel(c)
    <2>1. /\ req[c].at = "cancel" /\ req' = [req EXCEPT ![c] = Calib!Idle]
          /\ UNCHANGED <<phase, sessions, ext, slot, mu, result, told, sse>>
      BY <1>2 DEF Calib!Cancel
    <2>2. PICK j \in DOMAIN jobs : req[c].cams = {j}
      <3>1. req[c] \in JobRequests
        BY DEF CalibInv, CalibTyped
      <3> QED BY <2>1, <3>1 DEF JobRequests
    <2>3. (CHOOSE n \in req[c].cams : TRUE) = j
      BY <2>2
    <2>4. jobs' = [jobs EXCEPT ![j] = Calib!Signalled(jobs[j])]
      BY <1>2, <2>3 DEF Calib!Cancel
    <2>5. jobs[j] \in Jobs /\ Outcome(jobs[j]) /\ jobs \in Seq(Jobs)
      BY DEF CalibInv, CalibTyped
    <2> DEFINE new == Calib!Signalled(jobs[j])
    <2>6. /\ new \in Jobs /\ Outcome(new) /\ new.state = jobs[j].state
          /\ new.reader = jobs[j].reader /\ new.ok = jobs[j].ok
      BY <2>5, SignalledKeeps
    <2> HIDE DEF new
    <2>7. /\ DOMAIN jobs' = DOMAIN jobs
          /\ \A i \in DOMAIN jobs : jobs'[i] = IF i = j THEN new ELSE jobs[i]
      BY <2>4, <2>5 DEF new
    <2>8. Pending'
      BY <2>1, <2>6, <2>7 DEF CalibInv, Pending
    <2>9. req' \in [Clients -> JobRequests] /\ \A d \in Clients : req'[d].at = "reap" => req[d].at = "reap"
      BY <2>1 DEF CalibInv, CalibTyped, JobRequests, Calib!Idle
    <2>10. jobs' = [jobs EXCEPT ![j] = new]
      BY <2>4 DEF new
    <2>11. result' \in [Cams -> Nat] /\ told' \in [Cams -> Nat]
      BY <2>1 DEF CalibInv, CalibTyped
    <2> QED BY <2>1, <2>6, <2>8, <2>9, <2>10, <2>11, JobChanges
  <1> QED BY <1>1, <1>2

\* The handlers that stream a log, and the end of the supervisor.
LEMMA LogSteps ==
  ASSUME CalibInv, NEW s \in Streams,
         Calib!OpenLog(s) \/ Calib!SendDone(s) \/ Calib!CloseLog(s)
  PROVE  CalibInv'
  <1>1. UNCHANGED <<phase, sessions, ext, slot, mu, req, jobs, result, told>>
    BY DEF Calib!OpenLog, Calib!SendDone, Calib!CloseLog
  <1>2. sse' \in [Streams -> Logs]
    <2>1. CASE Calib!OpenLog(s)
      <3>1. PICK k \in Kinds : slot[k] # None /\ sse' = [sse EXCEPT ![s] =
              [at |-> "streaming", job |-> slot[k], stored |-> FALSE, error |-> FALSE]]
        BY <2>1 DEF Calib!OpenLog, Calib!Kinds
      <3>2. slot[k] \in DOMAIN jobs
        BY <3>1 DEF CalibInv, CalibTyped
      <3> QED BY <3>1, <3>2 DEF CalibInv, CalibTyped, Logs
    <2>2. CASE Calib!SendDone(s)
      <3>1. sse[s] \in Logs /\ sse[s].at = "streaming"
        BY <2>2 DEF CalibInv, CalibTyped, Calib!SendDone
      <3>2. sse[s].job \in DOMAIN jobs
        BY <3>1 DEF Logs
      <3>3. jobs[sse[s].job] \in Jobs
        BY <3>2 DEF CalibInv, CalibTyped
      <3>4. jobs[sse[s].job].stored \in BOOLEAN /\ jobs[sse[s].job].error \in BOOLEAN
        BY <3>3 DEF Jobs
      <3>5. sse' = [sse EXCEPT ![s].at = "done", ![s].stored = jobs[sse[s].job].stored,
                               ![s].error = jobs[sse[s].job].error]
        BY <2>2 DEF Calib!SendDone
      <3> DEFINE new == [sse[s] EXCEPT !.at = "done", !.stored = jobs[sse[s].job].stored,
                               !.error = jobs[sse[s].job].error]
      <3>6. new \in Logs
        BY <3>1, <3>2, <3>4 DEF Logs
      <3>7. sse' = [sse EXCEPT ![s] = new]
        BY <3>5
      <3> HIDE DEF new
      <3> QED BY <3>6, <3>7 DEF CalibInv, CalibTyped
    <2>3. CASE Calib!CloseLog(s)
      BY <2>3 DEF CalibInv, CalibTyped, Calib!CloseLog, Calib!NoLog, Logs
    <2> QED BY <2>1, <2>2, <2>3
  <1>3. Logs' = Logs /\ JobRequests' = JobRequests
    BY <1>1 DEF Logs, JobRequests
  <1>4. CalibTyped'
    BY <1>1, <1>2, <1>3 DEF CalibInv, CalibTyped
  <1>5. OneRuns' /\ Pending' /\ \A j \in DOMAIN jobs' : Outcome(jobs[j])'
    BY <1>1 DEF CalibInv, OneRuns, Pending, Outcome
  <1> QED BY <1>4, <1>5 DEF CalibInv

LEMMA DestroySteps ==
  ASSUME CalibInv, Calib!Destroy \/ Calib!Destroyed
  PROVE  CalibInv'
  <1>1. CASE Calib!Destroy
    <2>1. /\ phase' = "closing" /\ sessions' = {} /\ ext' = {}
          /\ UNCHANGED <<slot, mu, req, result, told, sse>>
          /\ jobs' = [j \in DOMAIN jobs |->
                IF \E k \in Kinds : slot[k] = j THEN Calib!Signalled(jobs[j]) ELSE jobs[j]]
      BY <1>1 DEF Calib!Destroy, Calib!Kinds
    <2>2. jobs \in Seq(Jobs)
      BY DEF CalibInv, CalibTyped
    <2>3. DOMAIN jobs' = DOMAIN jobs
      BY <2>1
    <2>4. \A j \in DOMAIN jobs :
            /\ jobs'[j] \in Jobs /\ Outcome(jobs'[j]) /\ jobs'[j].state = jobs[j].state
            /\ jobs'[j].reader = jobs[j].reader /\ jobs'[j].ok = jobs[j].ok
      <3> SUFFICES ASSUME NEW j \in DOMAIN jobs
                   PROVE  /\ jobs'[j] \in Jobs /\ Outcome(jobs'[j]) /\ jobs'[j].state = jobs[j].state
                          /\ jobs'[j].reader = jobs[j].reader /\ jobs'[j].ok = jobs[j].ok
        OBVIOUS
      <3>1. jobs[j] \in Jobs /\ Outcome(jobs[j])
        BY <2>2 DEF CalibInv
      <3>2. jobs'[j] = Calib!Signalled(jobs[j]) \/ jobs'[j] = jobs[j]
        BY <2>1
      <3> QED BY <3>1, <3>2, SignalledKeeps
    <2>5. jobs' \in Seq(Jobs)
      BY <2>1, <2>2, <2>4
    <2>6. CalibTyped'
      BY <2>1, <2>3, <2>5 DEF CalibInv, CalibTyped, JobRequests, Logs
    <2>7. OneRuns'
      <3>1. \A j \in DOMAIN jobs' : jobs'[j].state = "Running" => \E k \in Kinds : slot'[k] = j
        BY <2>1, <2>3, <2>4 DEF CalibInv, OneRuns
      <3>2. \A k \in Kinds : slot[k] # None =>
              slot[k] \in DOMAIN jobs /\ jobs'[slot[k]].state = jobs[slot[k]].state
        BY <2>4 DEF CalibInv, CalibTyped
      <3>3. \A d \in Clients : req'[d].at = "reap" =>
              /\ mu' = d
              /\ \A k \in Kinds : slot'[k] # None => jobs'[slot'[k]].state # "Running"
        BY <2>1, <3>2 DEF CalibInv, OneRuns
      <3>4. \A k, l \in Kinds : slot'[k] # None /\ slot'[l] # None => k = l
        BY <2>1 DEF CalibInv, OneRuns
      <3>5. sessions' \cap ext' = {}
        BY <2>1
      <3> QED BY <3>1, <3>3, <3>4, <3>5 DEF OneRuns
    <2>8. Pending'
      BY <2>1, <2>3, <2>4 DEF CalibInv, Pending
    <2>9. \A j \in DOMAIN jobs' : Outcome(jobs[j])'
      BY <2>3, <2>4 DEF Outcome
    <2> QED BY <2>6, <2>7, <2>8, <2>9 DEF CalibInv
  <1>2. CASE Calib!Destroyed
    BY <1>2 DEF Calib!Destroyed, CalibInv, CalibTyped, OneRuns, Pending, Outcome, JobRequests, Logs
  <1> QED BY <1>1, <1>2

LEMMA CalibNext ==
  ASSUME CalibInv, [Calib!Next]_calibVars PROVE CalibInv'
  <1>1. CASE UNCHANGED calibVars
    BY <1>1 DEF calibVars, CalibInv, CalibTyped, OneRuns, Pending, Outcome, JobRequests, Logs
  <1>2. CASE Calib!Next
    BY <1>2, SessionSteps, LaunchStep, ReapStep, CancelSteps, ChildSteps, ResultSteps,
       LogSteps, DestroySteps DEF Calib!Next, Calib!Reader
  <1> QED BY <1>1, <1>2

LEMMA CalibMeans ==
  ASSUME CalibInv
  PROVE  Calib!TypeOK /\ Calib!OneJobOneRecording /\ Calib!ResultsReachCameras
  <1>1. Calib!TypeOK
    <2>1. \A c \in Clients : req[c].at \in {"idle", "launch", "reap", "cancel"}
      BY DEF CalibInv, CalibTyped, JobRequests
    <2>2. \A j \in DOMAIN jobs : jobs[j].reader \in Readers
      <3>1. \A j \in DOMAIN jobs : jobs[j] \in Jobs
        BY DEF CalibInv, CalibTyped
      <3> QED BY <3>1 DEF Jobs
    <2>3. \A s \in Streams : sse[s].at \in {"idle", "streaming", "done"}
      BY DEF CalibInv, CalibTyped, Logs
    <2> QED BY <2>1, <2>2, <2>3 DEF CalibInv, CalibTyped, Calib!TypeOK, Calib!Kinds, Readers
  <1>2. Calib!OneJobOneRecording
    <2> DEFINE R == {j \in DOMAIN jobs : Calib!Running(j)}
    <2>1. \A i, j \in R : i = j
      <3>1. \A j \in DOMAIN jobs : j # None
        BY Assumptions DEF Calib!CalibAssumption, CalibInv, CalibTyped
      <3> QED BY <3>1 DEF CalibInv, OneRuns, Calib!Running
    <2>2. R = {} \/ \E j : R = {j}
      BY <2>1
    <2>3. Cardinality(R) = 0 \/ Cardinality(R) = 1
      BY <2>2, FS_EmptySet, FS_Singleton
    <2>4. Calib!Cardinality(R) <= 1
      <3>1. Calib!Cardinality(R) = Cardinality(R)
        BY DEF Calib!Cardinality, Cardinality
      <3> QED BY <2>3, <3>1
    <2> QED BY <2>4 DEF Calib!OneJobOneRecording, CalibInv, OneRuns
  <1>3. Calib!ResultsReachCameras
    <2>1. ASSUME NEW j \in DOMAIN jobs, Calib!Gone(j)
          PROVE  /\ jobs[j].stored <=> (jobs[j].state = "Succeeded" /\ jobs[j].ok = jobs[j].cams)
                 /\ jobs[j].state = "Succeeded" => jobs[j].stored # jobs[j].error
      <3>1. jobs[j].stored \in BOOLEAN /\ jobs[j].error \in BOOLEAN
        <4>1. jobs[j] \in Jobs
          BY DEF CalibInv, CalibTyped
        <4> QED BY <4>1 DEF Jobs
      <3> QED BY <2>1, <3>1 DEF CalibInv, Outcome, Calib!Gone
    <2>2. ASSUME \A j \in DOMAIN jobs : jobs[j].reader # "tell" PROVE told = result
      BY <2>2, SMTT(30) DEF CalibInv, CalibTyped, Pending
    <2> QED BY <2>1, <2>2 DEF Calib!ResultsReachCameras
  <1> QED BY <1>1, <1>2, <1>3

-----------------------------------------------------------------------------
(* The IMU log.                                                             *)

LogRequests == [at : {"idle", "start", "stop", "analyze", "apply", "reload"},
                of : (1..Len(drain)) \cup {None}]
Stamped == Seq(0..MaxSamples)

LogTyped ==
    /\ recording \in BOOLEAN /\ crashed \in BOOLEAN
    /\ {sub, thread, last, imuRow, imuTold} \subseteq (1..Len(drain)) \cup {None}
    /\ drain \in Seq({"pop", "exit", "ended"})
    /\ imuQueue \in Seq(Stamped) /\ Len(imuQueue) = Len(drain)
    /\ log \in Seq(Stamped) /\ Len(log) = Len(drain)
    /\ attached \subseteq 1..Len(drain)
    /\ imuReq \in [LogClients -> LogRequests]
    /\ imuTime \in Nat /\ samples \in 0..MaxSamples /\ imuTime <= samples
    /\ imuCalls \in 0..LogCalls

\* recording says whether a drain thread is under way, and the bus holds no subscription
\* but that one's.
OneLog ==
    /\ recording => \E k \in 1..Len(drain) : \A l \in 1..Len(drain) : drain[l] # "ended" <=> l = k
    /\ ~recording => \A k \in 1..Len(drain) : drain[k] = "ended"
    /\ sub # None => attached = {sub} /\ drain[sub] # "ended"
    /\ sub = None => attached = {}

\* Figures that fusion was not told of are told by the request that wrote them.
Applying == imuRow # imuTold => \E c \in LogClients : imuReq[c].at = "reload"

LogInv == LogTyped /\ OneLog /\ Applying

LEMMA LogStarts == Log!Init => LogInv
  <1> SUFFICES ASSUME Log!Init PROVE LogInv
    OBVIOUS
  <1> USE Assumptions DEF Log!ImuLogAssumption
  <1>1. Len(drain) = 0 /\ drain \in Seq({"pop", "exit", "ended"})
        /\ imuQueue \in Seq(Stamped) /\ Len(imuQueue) = 0
        /\ log \in Seq(Stamped) /\ Len(log) = 0
    BY DEF Log!Init
  <1>2. imuReq \in [LogClients -> LogRequests]
    BY DEF Log!Init, Log!Idle, LogRequests
  <1>3. LogTyped
    <2>1. {sub, thread, last, imuRow, imuTold} \subseteq {None} /\ attached = {}
      BY DEF Log!Init
    <2>2. imuTime = 0 /\ samples = 0 /\ imuCalls = 0 /\ recording = FALSE /\ crashed = FALSE
      BY DEF Log!Init
    <2>3. samples \in 0..MaxSamples /\ imuCalls \in 0..LogCalls
      BY <2>2
    <2>4. {sub, thread, last, imuRow, imuTold} \subseteq (1..Len(drain)) \cup {None}
      BY <2>1
    <2>5. attached \subseteq 1..Len(drain) /\ imuTime \in Nat /\ imuTime <= samples
      BY <2>1, <2>2
    <2>6. recording \in BOOLEAN /\ crashed \in BOOLEAN
      BY <2>2
    <2> QED BY <1>1, <1>2, <2>3, <2>4, <2>5, <2>6 DEF LogTyped
  <1>4. OneLog
    BY <1>1 DEF Log!Init, OneLog
  <1> QED BY <1>3, <1>4 DEF Log!Init, LogInv, Applying

\* Requests that leave the drain threads alone.
LEMMA LogRequestSteps ==
  ASSUME LogInv, NEW c \in LogClients,
         \/ Log!StartChecks(c) \/ Log!StartRefused(c) \/ Log!StartOverThread(c)
         \/ Log!Stop(c) \/ Log!StopJoins(c) \/ Log!AnalyzeChecks(c) \/ Log!AnalyzeReads(c)
         \/ Log!ApplyCopies(c) \/ Log!ApplyWrites(c) \/ Log!ApplyReloads(c)
  PROVE  LogInv'
  <1> USE Assumptions DEF Log!ImuLogAssumption
  <1>1. UNCHANGED <<recording, drain, imuQueue, log, imuTime, samples>>
    BY DEF Log!StartChecks, Log!StartRefused, Log!StartOverThread, Log!Stop, Log!StopJoins,
       Log!AnalyzeChecks, Log!AnalyzeReads, Log!ApplyCopies, Log!ApplyWrites, Log!ApplyReloads,
       Log!impl, Log!files, Log!allan, Log!world
  <1>2. \/ sub' = sub /\ attached' = attached
        \/ sub' = None /\ attached' = attached \ {sub}
    BY DEF Log!StartChecks, Log!StartRefused, Log!StartOverThread, Log!Stop, Log!StopJoins,
       Log!AnalyzeChecks, Log!AnalyzeReads, Log!ApplyCopies, Log!ApplyWrites, Log!ApplyReloads,
       Log!impl, Log!files, Log!allan, Log!world
  <1>3. imuCalls' \in {imuCalls} \/ (imuCalls < LogCalls /\ imuCalls' = imuCalls + 1)
    BY DEF Log!StartChecks, Log!StartRefused, Log!StartOverThread, Log!Stop, Log!StopJoins,
       Log!AnalyzeChecks, Log!AnalyzeReads, Log!ApplyCopies, Log!ApplyWrites, Log!ApplyReloads,
       Log!Call
  <1>4. crashed' \in BOOLEAN /\ thread' \in {thread, None}
    BY DEF Log!StartChecks, Log!StartRefused, Log!StartOverThread, Log!Stop, Log!StopJoins,
       Log!AnalyzeChecks, Log!AnalyzeReads, Log!ApplyCopies, Log!ApplyWrites, Log!ApplyReloads,
       Log!impl, Log!world, LogInv, LogTyped
  <1>5. PICK to \in {"idle", "start", "stop", "analyze", "apply", "reload"},
             of \in {thread, last, None} :
          imuReq' = [imuReq EXCEPT ![c] = [at |-> to, of |-> of]] \/ imuReq' = imuReq
    BY DEF Log!StartChecks, Log!StartRefused, Log!StartOverThread, Log!Stop, Log!StopJoins,
       Log!AnalyzeChecks, Log!AnalyzeReads, Log!ApplyCopies, Log!ApplyWrites, Log!ApplyReloads,
       Log!Goto, Log!Reply, Log!Idle
  <1>6. imuReq' \in [LogClients -> LogRequests]
    BY <1>5 DEF LogInv, LogTyped, LogRequests
  <1>7. {last', imuRow', imuTold'} \subseteq (1..Len(drain)) \cup {None}
    <2>1. imuReq[c].of \in (1..Len(drain)) \cup {None}
      <3>1. imuReq[c] \in LogRequests
        BY DEF LogInv, LogTyped
      <3> QED BY <3>1 DEF LogRequests
    <2>2. Len(drain) \in Nat
      BY DEF LogInv, LogTyped
    <2> QED BY <2>1, <2>2 DEF Log!StartChecks, Log!StartRefused, Log!StartOverThread, Log!Stop, Log!StopJoins,
       Log!AnalyzeChecks, Log!AnalyzeReads, Log!ApplyCopies, Log!ApplyWrites, Log!ApplyReloads,
       Log!files, Log!allan, LogInv, LogTyped
  <1>8. Applying'
    <2>1. CASE Log!ApplyReloads(c)
      BY <2>1 DEF Log!ApplyReloads, Applying
    <2>2. CASE Log!ApplyWrites(c)
      <3>1. imuReq'[c].at = "reload"
        BY <2>2 DEF Log!ApplyWrites, Log!Goto, LogInv, LogTyped
      <3> QED BY <3>1 DEF Applying
    <2>3. CASE ~Log!ApplyReloads(c) /\ ~Log!ApplyWrites(c)
      <3>1. imuRow' = imuRow /\ imuTold' = imuTold
        BY <2>3 DEF Log!StartChecks, Log!StartRefused, Log!StartOverThread, Log!Stop, Log!StopJoins,
           Log!AnalyzeChecks, Log!AnalyzeReads, Log!ApplyCopies, Log!allan
      <3>2. imuReq' = imuReq \/ imuReq[c].at # "reload"
        BY <2>3 DEF Log!StartChecks, Log!StartRefused, Log!StartOverThread, Log!Stop, Log!StopJoins,
           Log!AnalyzeChecks, Log!AnalyzeReads, Log!ApplyCopies, Log!Call, Log!Idle
      <3>3. \A d \in LogClients : imuReq[d].at = "reload" => imuReq'[d].at = "reload"
        BY <3>2, <1>5 DEF LogInv, LogTyped
      <3> QED BY <3>1, <3>3 DEF LogInv, Applying
    <2> QED BY <2>1, <2>2, <2>3
  <1>9. LogTyped'
    <2>1. sub' \in {sub, None} /\ attached' \subseteq attached
      BY <1>2
    <2>2. imuCalls' \in 0..LogCalls
      BY <1>3 DEF LogInv, LogTyped
    <2> QED BY <1>1, <1>4, <1>6, <1>7, <2>1, <2>2 DEF LogInv, LogTyped, LogRequests
  <1>10. OneLog'
    BY <1>1, <1>2 DEF LogInv, OneLog
  <1> QED BY <1>8, <1>9, <1>10 DEF LogInv

LEMMA LogBegins ==
  ASSUME LogInv, NEW c \in LogClients, Log!StartBegins(c)
  PROVE  LogInv'
  <1> USE Assumptions DEF Log!ImuLogAssumption
  <1>11. PICK k \in Nat : k = Len(drain) + 1
    BY DEF LogInv, LogTyped
  <1>1. /\ ~recording /\ recording' = TRUE /\ sub' = k /\ thread' = k
        /\ drain' = Append(drain, "pop") /\ attached' = attached \cup {k}
        /\ imuQueue' = Append(imuQueue, <<>>) /\ log' = Append(log, <<>>)
        /\ imuReq' = [imuReq EXCEPT ![c] = Log!Idle] /\ imuReq[c].at = "start"
        /\ UNCHANGED <<last, imuRow, imuTold, imuTime, samples, crashed, imuCalls>>
    BY <1>11 DEF Log!StartBegins, Log!Reply, Log!allan, Log!world
  <1>2. /\ Len(drain) \in Nat /\ Len(drain') = k /\ DOMAIN drain = 1..Len(drain)
        /\ drain' \in Seq({"pop", "exit", "ended"})
        /\ \A l \in 1..Len(drain) : drain'[l] = drain[l]
        /\ drain'[k] = "pop"
    BY <1>1, <1>11 DEF LogInv, LogTyped
  <1>3. ASSUME NEW q \in Seq(Stamped), Len(q) = Len(drain)
        PROVE  Append(q, <<>>) \in Seq(Stamped) /\ Len(Append(q, <<>>)) = k
    <2>2. <<>> \in Stamped
      BY DEF Stamped
    <2> QED BY <2>2, <1>2, <1>3, <1>11
  <1>4. 1..k = (1..Len(drain)) \cup {k} /\ k \notin 1..Len(drain)
    BY <1>2, <1>11
  <1>5. \A l \in 1..Len(drain) : drain[l] = "ended"
    BY <1>1 DEF LogInv, OneLog
  <1>6. attached = {}
    BY <1>5 DEF LogInv, LogTyped, OneLog
  <1>7. imuReq' \in [LogClients -> LogRequests']
    BY <1>1, <1>2, <1>4 DEF LogInv, LogTyped, LogRequests, Log!Idle
  <1>8. LogTyped'
    <2>1. /\ imuQueue' \in Seq(Stamped) /\ Len(imuQueue') = Len(drain')
          /\ log' \in Seq(Stamped) /\ Len(log') = Len(drain')
      BY <1>1, <1>2, <1>3 DEF LogInv, LogTyped
    <2>2. {sub', thread', last', imuRow', imuTold'} \subseteq (1..Len(drain')) \cup {None}
      BY <1>1, <1>2, <1>4 DEF LogInv, LogTyped
    <2>3. attached' \subseteq 1..Len(drain')
      BY <1>1, <1>2, <1>4, <1>6
    <2> QED BY <1>1, <1>2, <1>7, <2>1, <2>2, <2>3 DEF LogInv, LogTyped
  <1>9. OneLog'
    <2>1. \A l \in 1..Len(drain') : drain'[l] # "ended" <=> l = k
      <3>1. 1..Len(drain') = (1..Len(drain)) \cup {k}
        BY <1>2, <1>4
      <3>2. \A l \in 1..Len(drain) : drain'[l] = "ended" /\ l # k
        BY <1>2, <1>4, <1>5
      <3>3. drain'[k] = "pop"
        BY <1>2
      <3> QED BY <3>1, <3>2, <3>3
    <2>2. k # None /\ k \in 1..Len(drain')
      BY <1>2, <1>4
    <2> QED BY <1>1, <1>2, <1>6, <2>1, <2>2 DEF OneLog
  <1>10. Applying'
    BY <1>1 DEF LogInv, LogTyped, Applying
  <1> QED BY <1>8, <1>9, <1>10 DEF LogInv

LEMMA DrainSteps ==
  ASSUME LogInv, NEW k \in DOMAIN drain, Log!Drain(k)
  PROVE  LogInv'
  <1> USE Assumptions DEF Log!ImuLogAssumption
  <1>1. drain \in Seq({"pop", "exit", "ended"}) /\ DOMAIN drain = 1..Len(drain) /\ Len(drain) \in Nat
    BY DEF LogInv, LogTyped
  <1>2. PICK new \in {"pop", "exit", "ended"} :
          /\ drain' = [drain EXCEPT ![k] = new] /\ drain[k] # "ended"
          /\ new = "ended" <=> Log!DrainEnds(k)
    BY DEF Log!Drain, Log!DrainTakes, Log!DrainWoken, Log!DrainEnds
  <1>3. /\ drain' \in Seq({"pop", "exit", "ended"}) /\ Len(drain') = Len(drain)
        /\ \A l \in 1..Len(drain) : drain'[l] = IF l = k THEN new ELSE drain[l]
    BY <1>1, <1>2
  <1>4. UNCHANGED <<thread, imuReq, last, imuRow, imuTold, imuTime, samples, crashed, imuCalls>>
    BY DEF Log!Drain, Log!DrainTakes, Log!DrainWoken, Log!DrainEnds, Log!impl, Log!allan, Log!world
  <1>5. /\ imuQueue' \in Seq(Stamped) /\ Len(imuQueue') = Len(drain)
        /\ log' \in Seq(Stamped) /\ Len(log') = Len(drain)
    <2>1. CASE Log!DrainTakes(k)
      <3>1. /\ imuQueue[k] # <<>> /\ imuQueue' = [imuQueue EXCEPT ![k] = Tail(imuQueue[k])]
            /\ log' = [log EXCEPT ![k] = Append(log[k], Head(imuQueue[k]))]
        BY <2>1 DEF Log!DrainTakes
      <3>2. imuQueue[k] \in Stamped /\ log[k] \in Stamped
        BY <1>1 DEF LogInv, LogTyped
      <3>3. Tail(imuQueue[k]) \in Stamped /\ Append(log[k], Head(imuQueue[k])) \in Stamped
        <4>1. ASSUME NEW q \in Stamped, NEW r \in Stamped, q # <<>>
              PROVE  Tail(q) \in Stamped /\ Append(r, Head(q)) \in Stamped
          BY <4>1 DEF Stamped
        <4> QED BY <3>1, <3>2, <4>1, Zenon
      <3> QED BY <3>1, <3>3, <1>1 DEF LogInv, LogTyped
    <2>2. CASE Log!DrainWoken(k) \/ Log!DrainEnds(k)
      BY <2>2 DEF Log!DrainWoken, Log!DrainEnds, LogInv, LogTyped
    <2> QED BY <2>1, <2>2 DEF Log!Drain
  <1>6. \/ new # "ended" /\ UNCHANGED <<recording, sub, attached>>
        \/ /\ new = "ended" /\ recording' = FALSE /\ sub' = None
           /\ attached' = attached \ {sub}
    BY <1>2 DEF Log!Drain, Log!DrainTakes, Log!DrainWoken, Log!DrainEnds, Log!impl
  <1>7. LogTyped'
    BY <1>3, <1>4, <1>5, <1>6 DEF LogInv, LogTyped, LogRequests
  <1>8. OneLog'
    <2>1. drain[k] # "ended" /\ k \in 1..Len(drain)
      BY <1>1, <1>2
    <2>2. recording /\ \A l \in 1..Len(drain) : drain[l] # "ended" <=> l = k
      BY <2>1 DEF LogInv, OneLog, LogTyped
    <2>3. sub = None \/ sub = k
      BY <2>2 DEF LogInv, OneLog, LogTyped
    <2>4. CASE new # "ended" /\ UNCHANGED <<recording, sub, attached>>
      <3>1. \A l \in 1..Len(drain') : drain'[l] # "ended" <=> l = k
        BY <1>3, <2>2, <2>4
      <3> QED BY <2>1, <2>2, <2>3, <2>4, <1>3, <3>1 DEF LogInv, OneLog
    <2>5. CASE new = "ended" /\ recording' = FALSE /\ sub' = None /\ attached' = attached \ {sub}
      <3>1. \A l \in 1..Len(drain') : drain'[l] = "ended"
        BY <1>3, <2>2, <2>5
      <3>2. attached' = {}
        BY <2>5 DEF LogInv, OneLog
      <3> QED BY <2>5, <3>1, <3>2 DEF OneLog
    <2> QED BY <1>6, <2>4, <2>5
  <1>9. Applying'
    BY <1>4 DEF LogInv, Applying
  <1> QED BY <1>7, <1>8, <1>9 DEF LogInv

LEMMA SampleStep ==
  ASSUME LogInv, Log!Sample
  PROVE  LogInv'
  <1> USE Assumptions DEF Log!ImuLogAssumption
  <1>1. /\ samples < MaxSamples /\ imuTime' \in {imuTime + 1, 1} /\ samples' = samples + 1
        /\ imuQueue' = [k \in DOMAIN imuQueue |-> IF k \in attached THEN Append(imuQueue[k], imuTime')
                                        ELSE imuQueue[k]]
        /\ UNCHANGED <<recording, sub, thread, drain, attached, log, imuReq, last, imuRow, imuTold, crashed, imuCalls>>
    BY DEF Log!Sample, Log!impl, Log!allan
  <1>2. imuTime' \in 0..MaxSamples /\ samples' \in 0..MaxSamples /\ imuTime' <= samples' /\ imuTime' \in Nat
    BY <1>1 DEF LogInv, LogTyped
  <1>3. \A k \in 1..Len(drain) : Append(imuQueue[k], imuTime') \in Stamped
    BY <1>2 DEF LogInv, LogTyped, Stamped
  <1>4. imuQueue' \in Seq(Stamped) /\ Len(imuQueue') = Len(drain)
    <2>1. imuQueue \in Seq(Stamped) /\ Len(imuQueue) = Len(drain) /\ DOMAIN imuQueue = 1..Len(drain)
      BY DEF LogInv, LogTyped
    <2>2. \A k \in 1..Len(drain) : imuQueue'[k] \in Stamped
      BY <1>1, <1>3, <2>1
    <2> QED BY <1>1, <2>1, <2>2
  <1>5. LogTyped'
    BY <1>1, <1>2, <1>4 DEF LogInv, LogTyped, LogRequests
  <1> QED BY <1>1, <1>5 DEF LogInv, OneLog, Applying

LEMMA LogNext ==
  ASSUME LogInv, [Log!Next]_logVars PROVE LogInv'
  <1>1. CASE UNCHANGED logVars
    BY <1>1 DEF logVars, LogInv, LogTyped, OneLog, Applying, LogRequests
  <1>2. CASE Log!Next
    BY <1>2, LogRequestSteps, LogBegins, DrainSteps, SampleStep DEF Log!Next, Log!Client
  <1> QED BY <1>1, <1>2

LEMMA LogMeans ==
  ASSUME LogInv PROVE Log!TypeOK /\ Log!OneRecording /\ Log!FusionTold
  <1> USE Assumptions DEF Log!ImuLogAssumption
  <1>1. Log!TypeOK
    <2>1. /\ imuQueue \in [1..Len(drain) -> Stamped] /\ log \in [1..Len(drain) -> Stamped]
          /\ imuTime \in 0..MaxSamples
      BY DEF LogInv, LogTyped
    <2> QED BY <2>1 DEF LogInv, LogTyped, LogRequests, Stamped, Log!TypeOK, Log!Sessions
  <1>2. Log!OneRecording
    <2> DEFINE Live == {k \in 1..Len(drain) : drain[k] # "ended"}
    <2>1. Log!Cardinality(Live) = Cardinality(Live)
      BY DEF Log!Cardinality, Cardinality
    <2>2. CASE recording
      <3>0. PICK k \in 1..Len(drain) : \A l \in 1..Len(drain) : drain[l] # "ended" <=> l = k
        BY <2>2 DEF LogInv, OneLog
      <3>1. Live = {k}
        BY <3>0
      <3>2. Cardinality(Live) = 1
        BY <3>1, FS_Singleton
      <3>3. Log!Cardinality(Live) = 1
        BY <2>1, <3>2
      <3> QED BY <2>2, <3>3 DEF Log!OneRecording, Log!Sessions, LogInv, OneLog
    <2>3. CASE ~recording
      <3>1. Live = {}
        BY <2>3 DEF LogInv, OneLog
      <3>2. Cardinality(Live) = 0
        BY <3>1, FS_EmptySet
      <3>3. Log!Cardinality(Live) = 0
        BY <2>1, <3>2
      <3> QED BY <2>3, <3>3 DEF Log!OneRecording, Log!Sessions, LogInv, OneLog
    <2> QED BY <2>2, <2>3
  <1>3. Log!FusionTold
    BY DEF LogInv, Applying, Log!FusionTold, Log!Idle
  <1> QED BY <1>1, <1>2, <1>3

-----------------------------------------------------------------------------
(* A camera's stream and its peers.                                         *)

LEMMA PeersStart == Stream!Init => Stream!TypeOK
  <1> SUFFICES ASSUME Stream!Init PROVE Stream!TypeOK
    OBVIOUS
  <1>1. encoding \in Seq(BOOLEAN) /\ Len(encoding) <= MaxEncoding /\ sinceKey \in 0..KeyInterval
    BY Assumptions DEF Stream!PeersAssumption, Stream!Init
  <1> QED BY <1>1 DEF Stream!Init, Stream!TypeOK

\* What an HTTP thread or libdatachannel does to one peer.
LEMMA PeerSteps ==
  ASSUME Stream!TypeOK, NEW p \in Peers,
         \/ Stream!Offer(p) \/ Stream!Route(p) \/ Stream!Opens(p) \/ Stream!Loses(p)
         \/ Stream!CallClose(p)
  PROVE  Stream!TypeOK'
  <1> USE DEF Stream!TypeOK, Stream!link, Stream!lists, Stream!thread, Stream!encoder
  <1>1. CASE Stream!Offer(p)
    BY <1>1 DEF Stream!Offer
  <1>2. CASE Stream!Answer(p)
    BY <1>2 DEF Stream!Answer
  <1>3. CASE Stream!Install(p)
    BY <1>3 DEF Stream!Install
  <1>7. CASE Stream!AddPeer(p)
    BY <1>7 DEF Stream!AddPeer
  <1>8. CASE Stream!RequestKeyframe(p)
    BY <1>8 DEF Stream!RequestKeyframe
  <1>4. CASE Stream!Opens(p)
    BY <1>4 DEF Stream!Opens
  <1>5. CASE Stream!Loses(p)
    BY <1>5 DEF Stream!Loses
  <1>6. CASE Stream!CallClose(p)
    BY <1>6 DEF Stream!CallClose
  <1> QED BY <1>1, <1>2, <1>3, <1>4, <1>5, <1>6, <1>7, <1>8 DEF Stream!Route

\* The worker, the encoder's thread, and the end of the consumer.
LEMMA WorkerSteps ==
  ASSUME Stream!TypeOK,
         \/ Stream!NextFrame \/ Stream!Purge \/ Stream!SkipFrame \/ Stream!Encode
         \/ Stream!Output \/ Stream!Detach \/ Stream!WorkerEnds \/ Stream!Destroyed
  PROVE  Stream!TypeOK'
  <1> USE DEF Stream!TypeOK, Stream!link, Stream!lists, Stream!thread, Stream!encoder
  <1>1. CASE Stream!NextFrame \/ Stream!Purge \/ Stream!SkipFrame
    BY <1>1 DEF Stream!NextFrame, Stream!Purge, Stream!SkipFrame
  <1>2. CASE Stream!Encode
    <2>1. /\ worker' = "wait" /\ wantKey' = FALSE
          /\ UNCHANGED <<at, conn, fired, owed, calling, cb, pending, peers, purging,
                         peersRunning, decoding, dangled>>
      BY <1>2 DEF Stream!Encode
    <2>2. encoding' \in Seq(BOOLEAN) /\ Len(encoding') <= MaxEncoding
      <3>1. PICK key \in BOOLEAN : encoding' = Append(encoding, key) /\ Len(encoding) < MaxEncoding
        BY <1>2 DEF Stream!Encode
      <3> QED BY <3>1, Assumptions DEF Stream!PeersAssumption
    <2>3. sinceKey' \in 0..KeyInterval
      BY <1>2, Assumptions DEF Stream!PeersAssumption, Stream!Encode
    <2> QED BY <2>1, <2>2, <2>3
  <1>3. CASE Stream!Output
    <2>1. encoding' \in Seq(BOOLEAN) /\ Len(encoding') <= MaxEncoding
      <3>1. encoding # <<>> /\ encoding' = Tail(encoding) /\ encoding \in Seq(BOOLEAN)
        BY <1>3 DEF Stream!Output
      <3>2. encoding' \in Seq(BOOLEAN) /\ Len(encoding') = Len(encoding) - 1 /\ Len(encoding) \in Nat
        BY <3>1
      <3> QED BY <3>2, Assumptions DEF Stream!PeersAssumption
    <2>2. decoding' \subseteq Peers
      BY <1>3 DEF Stream!Output
    <2> QED BY <1>3, <2>1, <2>2 DEF Stream!Output
  <1>4. CASE Stream!Detach \/ Stream!WorkerEnds
    BY <1>4 DEF Stream!Detach, Stream!WorkerEnds
  <1>5. CASE Stream!Destroyed
    BY <1>5 DEF Stream!Destroyed
  <1> QED BY <1>1, <1>2, <1>3, <1>4, <1>5

LEMMA PeersNext ==
  ASSUME Stream!TypeOK, [Stream!Next]_peersVars
  PROVE  Stream!TypeOK'
  <1>1. CASE UNCHANGED peersVars
    BY <1>1 DEF peersVars, Stream!TypeOK
  <1>2. CASE Stream!Next
    BY <1>2, PeerSteps, WorkerSteps DEF Stream!Next
  <1> QED BY <1>1, <1>2

-----------------------------------------------------------------------------
(* The services together.                                                   *)

ServicesInv ==
    /\ part = "Fusion" => FusionInv
    /\ part = "Vio" => VioInv
    /\ part = "Calib" => CalibInv
    /\ part = "Log" => LogInv
    /\ part = "Peers" => Stream!TypeOK

OrdersInv == part = "Fusion" => Reading /\ Ordering

LEMMA ServicesStart == Init => ServicesInv /\ OrdersInv
  BY FusionStarts, VioStarts, CalibStarts, LogStarts, PeersStart DEF Init, ServicesInv, OrdersInv

\* A step of the composition is one of its component.
LEMMA ComponentStep ==
  ASSUME [Next]_vars
  PROVE  /\ part' = part
         /\ part = "Fusion" => [Fusion!Next]_fusionVars
         /\ part = "Vio" => [Vio!Next]_vioVars
         /\ part = "Calib" => [Calib!Next]_calibVars
         /\ part = "Log" => [Log!Next]_logVars
         /\ part = "Peers" => [Stream!Next]_peersVars
  <1>1. part' = part
    BY DEF Next, Only, vars
  <1>2. CASE UNCHANGED vars
    BY <1>1, <1>2 DEF vars
  <1>3. CASE Next
    BY <1>1, <1>3 DEF Next
  <1> QED BY <1>2, <1>3

LEMMA ServicesStep ==
  ServicesInv /\ [Next]_vars => ServicesInv' /\ (part = "Vio" => Vio!OdometryNext)
  <1> SUFFICES ASSUME ServicesInv, [Next]_vars
               PROVE  ServicesInv' /\ (part = "Vio" => Vio!OdometryNext)
    OBVIOUS
  <1>1. part = "Fusion" => FusionInv'
    BY ComponentStep, FusionNext DEF ServicesInv
  <1>2. part = "Vio" => VioInv' /\ Vio!OdometryNext
    BY ComponentStep, VioNext DEF ServicesInv
  <1>3. part = "Calib" => CalibInv'
    BY ComponentStep, CalibNext DEF ServicesInv
  <1>4. part = "Log" => LogInv'
    BY ComponentStep, LogNext DEF ServicesInv
  <1>5. part = "Peers" => Stream!TypeOK'
    BY ComponentStep, PeersNext DEF ServicesInv
  <1> QED BY <1>1, <1>2, <1>3, <1>4, <1>5, ComponentStep DEF ServicesInv

LEMMA OrdersStep ==
  ASSUME \A c, d \in PutThreads : c = d
  PROVE  ServicesInv /\ OrdersInv /\ [Next]_vars => OrdersInv'
  <1> SUFFICES ASSUME ServicesInv, OrdersInv, [Next]_vars PROVE OrdersInv'
    OBVIOUS
  <1>1. part = "Fusion" => Reading' /\ Ordering'
    BY ComponentStep, FusionOrders DEF ServicesInv, OrdersInv
  <1> QED BY <1>1, ComponentStep DEF OrdersInv

\* The inductive invariants of the five services hold, each where its component is.
THEOREM ServicesInductive == Spec => []ServicesInv
  BY ServicesStart, ServicesStep, PTL DEF Spec

\* Every variable of the services has its type, whatever the numbers of threads, cameras,
\* jobs, streams and peers.
THEOREM ServicesTypeCorrect == Spec => []TypeOK
  <1>1. ServicesInv => TypeOK
    BY FusionMeans, VioMeans, CalibMeans, LogMeans DEF ServicesInv, TypeOK
  <1> QED BY <1>1, ServicesInductive, PTL

\* ensure_runner_locked(), reload() and apply(): once requests have returned and the queue
\* is empty, the odometry runner, the fusion engine and the noise figures are those of the
\* rows, provided one thread at a time changes the fusion configuration; any number of
\* threads may restart odometry, or record and apply noise figures.
THEOREM ServicesFollowTheirRows ==
  ASSUME \A c, d \in PutThreads : c = d
  PROVE  Spec => []ServicesFollowRows
  <1>1. ServicesInv /\ OrdersInv => ServicesFollowRows
    BY FusionMeans, VioMeans, LogMeans DEF ServicesInv, OrdersInv, ServicesFollowRows
  <1>2. ServicesInv /\ OrdersInv /\ [Next]_vars => OrdersInv'
    BY OrdersStep
  <1> QED BY <1>1, <1>2, ServicesStart, ServicesInductive, PTL DEF Spec

\* build_vio() and the epoch published with odometry: one epoch never mixes two filters, and
\* its odometry comes in increasing time, through restarts, gaps, divergence and rebuilds.
THEOREM EpochsAreFilters == Spec => EpochPerFilter
  <1>1. ServicesInv /\ [Next]_vars => [part = "Vio" => Vio!OdometryNext]_vars
    BY ServicesStep
  <1> QED BY <1>1, ServicesInductive, PTL DEF Spec, EpochPerFilter

\* start_kalibr_job(), start_imu_job() and ImuLogRecorder: one job of either kind runs at a
\* time, no camera is in two recordings, and one log is recorded by a thread whose
\* subscription is the only one the bus holds, for any number of clients.
THEOREM OneOfEach == Spec => []OneJobOneRecording
  <1>1. ServicesInv => OneJobOneRecording
    BY CalibMeans, LogMeans DEF ServicesInv, OneJobOneRecording
  <1> QED BY <1>1, ServicesInductive, PTL

\* handle_exit() and on_stored_: a job is stored exactly when every camera took its result,
\* and once no reader has cameras left to tell, they have been told of what the rows hold.
THEOREM CamerasGetTheirResults == Spec => []ResultsReachCameras
  <1>1. ServicesInv => ResultsReachCameras
    BY CalibMeans DEF ServicesInv, ResultsReachCameras
  <1> QED BY <1>1, ServicesInductive, PTL
=============================================================================
