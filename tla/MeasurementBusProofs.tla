------------------------ MODULE MeasurementBusProofs ------------------------
(***************************************************************************)
(* The measurement bus loses nothing it does not count, delivers in order  *)
(* and loses no wake-up, for any publishers, subscribers, capacities and   *)
(* number of values.                                                       *)
(***************************************************************************)
EXTENDS MeasurementBus, TLAPS

-----------------------------------------------------------------------------
(* The inductive invariant.                                                 *)

Values == 1..MaxPublish

\* A queue of values newer than the last one popped, in the order of publication.
QueueOK(q, seen, pub) ==
    /\ q \in Seq(Values)
    /\ \A i \in 1..Len(q) : seen < q[i] /\ q[i] <= pub
    /\ \A i, j \in 1..Len(q) : i < j => q[i] < q[j]

\* The newest values, without a gap.
Newest(q, pub) == \A i \in 1..Len(q) : q[i] = pub - Len(q) + i

Types ==
    /\ published \in 0..MaxPublish
    /\ subs \subseteq Subscribers
    /\ queue \in [Subscribers -> Seq(Values)]
    /\ dropped \in [Subscribers -> Nat]
    /\ attached \in [Subscribers -> BOOLEAN]
    /\ notifying \subseteq Publishers \cup Subscribers
    /\ consumer \in [Subscribers -> {"none", "running", "asleep", "woken", "exit"}]
    /\ since \in [Subscribers -> Nat]
    /\ popped \in [Subscribers -> Nat]
    /\ last \in [Subscribers -> Nat]

\* What one subscriber has been given.  A detached one keeps what it was given.
GivenOK(s) ==
    /\ QueueOK(queue[s], last[s], published)
    /\ Len(queue[s]) <= Capacity[s]
    /\ last[s] <= published
    /\ since[s] + popped[s] + dropped[s] + Len(queue[s]) <= published
    /\ s \in subs => /\ since[s] + popped[s] + dropped[s] + Len(queue[s]) = published
                     /\ Newest(queue[s], published)
    /\ consumer[s] = "none" => /\ s \notin subs /\ queue[s] = <<>>
                               /\ popped[s] = 0 /\ dropped[s] = 0 /\ last[s] = 0

BusInv == /\ Types
          /\ \A s \in Subscribers : GivenOK(s)
          /\ NoLostWakeup

-----------------------------------------------------------------------------
(* Queues.                                                                  *)

LEMMA ValuesAreNat == Values \subseteq Nat
  BY DEF Values

\* pop_front()
LEMMA Popping ==
  ASSUME NEW q, NEW seen \in Nat, NEW pub \in Nat, QueueOK(q, seen, pub), q # <<>>
  PROVE  /\ QueueOK(Tail(q), Head(q), pub) /\ QueueOK(Tail(q), seen, pub)
         /\ Head(q) \in Nat /\ seen < Head(q) /\ Head(q) <= pub
         /\ Len(Tail(q)) = Len(q) - 1 /\ Len(q) \in Nat \ {0}
         /\ Newest(q, pub) => Newest(Tail(q), pub)
  <1>1. q \in Seq(Values)
    BY DEF QueueOK
  <1>2. /\ Tail(q) \in Seq(Values) /\ Len(Tail(q)) = Len(q) - 1 /\ Len(q) \in Nat \ {0}
        /\ Head(q) = q[1]
    BY <1>1
  <1>3. \A i \in 1..Len(Tail(q)) : Tail(q)[i] = q[i + 1]
    BY <1>1
  <1>4. \A i \in 1..Len(q) : q[i] \in Nat
    <2>1. \A i \in 1..Len(q) : q[i] \in Values
      BY <1>1
    <2> QED BY <2>1, ValuesAreNat
  <1>5. 1 \in 1..Len(q) /\ \A i \in 1..Len(Tail(q)) : i + 1 \in 1..Len(q) /\ 1 < i + 1
    BY <1>2
  <1>6. Head(q) \in Nat /\ seen < Head(q) /\ Head(q) <= pub
    BY <1>2, <1>4, <1>5 DEF QueueOK
  <1>7. \A i \in 1..Len(Tail(q)) : Head(q) < Tail(q)[i] /\ Tail(q)[i] <= pub
    BY <1>2, <1>3, <1>5 DEF QueueOK
  <1>8. \A i, j \in 1..Len(Tail(q)) : i < j => Tail(q)[i] < Tail(q)[j]
    <2> SUFFICES ASSUME NEW i \in 1..Len(Tail(q)), NEW j \in 1..Len(Tail(q)), i < j
                 PROVE  Tail(q)[i] < Tail(q)[j]
      OBVIOUS
    <2>1. i + 1 < j + 1
      OBVIOUS
    <2> QED BY <2>1, <1>3, <1>5 DEF QueueOK
  <1>9. QueueOK(Tail(q), Head(q), pub)
    BY <1>2, <1>7, <1>8 DEF QueueOK
  <1>10. \A i \in 1..Len(Tail(q)) : Tail(q)[i] \in Nat
    BY <1>3, <1>4, <1>5
  <1>11. \A i \in 1..Len(Tail(q)) : seen < Tail(q)[i]
    BY <1>6, <1>7, <1>10
  <1>12. QueueOK(Tail(q), seen, pub)
    BY <1>2, <1>7, <1>8, <1>11 DEF QueueOK
  <1>13. ASSUME Newest(q, pub)
         PROVE  Newest(Tail(q), pub)
    <2>1. \A i \in 1..Len(Tail(q)) : q[i + 1] = pub - Len(q) + (i + 1)
      BY <1>5, <1>13 DEF Newest
    <2>2. \A i \in 1..Len(Tail(q)) : pub - Len(q) + (i + 1) = pub - Len(Tail(q)) + i
      BY <1>2
    <2> QED BY <1>3, <2>1, <2>2 DEF Newest
  <1> QED BY <1>2, <1>6, <1>9, <1>12, <1>13

\* push_back() of the next value
LEMMA Pushing ==
  ASSUME NEW q, NEW seen \in Nat, NEW pub \in Nat, QueueOK(q, seen, pub), seen <= pub,
         pub + 1 \in Values
  PROVE  /\ QueueOK(Append(q, pub + 1), seen, pub + 1)
         /\ Len(Append(q, pub + 1)) = Len(q) + 1 /\ Len(q) \in Nat
         /\ Newest(q, pub) => Newest(Append(q, pub + 1), pub + 1)
  <1> DEFINE r == Append(q, pub + 1)
  <1>1. q \in Seq(Values)
    BY DEF QueueOK
  <1>2. r \in Seq(Values) /\ Len(r) = Len(q) + 1 /\ Len(q) \in Nat
    BY <1>1
  <1>3. r[Len(q) + 1] = pub + 1 /\ \A i \in 1..Len(q) : r[i] = q[i] /\ q[i] \in Nat
    <2>1. r[Len(q) + 1] = pub + 1 /\ \A i \in 1..Len(q) : r[i] = q[i]
      BY <1>1
    <2>2. \A i \in 1..Len(q) : q[i] \in Values
      BY <1>1
    <2> QED BY <2>1, <2>2, ValuesAreNat
  <1> HIDE DEF r
  <1>4. \A i \in 1..Len(r) : i \in 1..Len(q) \/ i = Len(q) + 1
    BY <1>2
  <1>5. \A i \in 1..Len(r) : seen < r[i] /\ r[i] <= pub + 1
    BY <1>3, <1>4 DEF QueueOK
  <1>6. \A i, j \in 1..Len(r) : i < j => r[i] < r[j]
    <2> SUFFICES ASSUME NEW i \in 1..Len(r), NEW j \in 1..Len(r), i < j
                 PROVE  r[i] < r[j]
      OBVIOUS
    <2>1. i \in 1..Len(q)
      BY <1>2
    <2>2. CASE j \in 1..Len(q)
      BY <1>3, <2>1, <2>2 DEF QueueOK
    <2>3. CASE j = Len(q) + 1
      BY <1>3, <2>1, <2>3 DEF QueueOK
    <2> QED BY <1>4, <2>2, <2>3
  <1>7. QueueOK(r, seen, pub + 1)
    BY <1>2, <1>5, <1>6 DEF QueueOK
  <1>8. ASSUME Newest(q, pub)
        PROVE  Newest(r, pub + 1)
    <2>1. \A i \in 1..Len(q) : r[i] = pub - Len(q) + i
      BY <1>3, <1>8 DEF Newest
    <2>2. \A i \in 1..Len(r) : r[i] = pub + 1 - Len(r) + i
      BY <1>2, <1>3, <1>4, <2>1, SMTT(30)
    <2> QED BY <2>2 DEF Newest
  <1> QED BY <1>2, <1>7, <1>8 DEF r

LEMMA Later ==
  ASSUME NEW q, NEW seen \in Nat, NEW pub \in Nat, QueueOK(q, seen, pub)
  PROVE  QueueOK(q, seen, pub + 1)
  <1>1. q \in Seq(Values)
    BY DEF QueueOK
  <1>2. \A i \in 1..Len(q) : q[i] \in Values
    BY <1>1
  <1>3. \A i \in 1..Len(q) : q[i] <= pub + 1
    <2>1. \A i \in 1..Len(q) : q[i] \in Nat
      BY <1>2, ValuesAreNat
    <2>2. \A i \in 1..Len(q) : q[i] <= pub
      BY Zenon DEF QueueOK
    <2>3. \A a \in Nat : a <= pub => a <= pub + 1
      OBVIOUS
    <2> QED BY <2>1, <2>2, <2>3, Zenon
  <1> QED BY <1>1, <1>3, Zenon DEF QueueOK

-----------------------------------------------------------------------------
(* Every step keeps the invariant.                                          *)

LEMMA BusInit == ASSUME BusAssumption PROVE Init => BusInv
  <1> SUFFICES ASSUME Init PROVE BusInv
    OBVIOUS
  <1>1. <<>> \in Seq(Values) /\ Len(<<>>) = 0
    OBVIOUS
  <1>2. Types
    BY <1>1, BusAssumption DEF Init, Types, BusAssumption
  <1>3. ASSUME NEW s \in Subscribers
        PROVE  GivenOK(s)
    <2>1. QueueOK(queue[s], 0, 0)
      BY <1>1, <1>3 DEF Init, QueueOK
    <2> QED BY <1>1, <2>1, BusAssumption DEF Init, GivenOK, BusAssumption
  <1>4. NoLostWakeup
    BY DEF Init, NoLostWakeup
  <1> QED BY <1>2, <1>3, <1>4 DEF BusInv

\* A value published to a subscriber with room, or in the place of the oldest.
LEMMA PublishedTo ==
  ASSUME BusAssumption, BusInv, NEW p \in Publishers, Publish(p), NEW s \in Subscribers, s \in subs
  PROVE  GivenOK(s)' /\ queue'[s] \in Seq(Values)
  <1> DEFINE q == queue[s]
             n == published + 1
  <1>1. /\ published \in Nat /\ n \in Values /\ published' = n
        /\ last[s] \in Nat /\ popped[s] \in Nat /\ dropped[s] \in Nat /\ since[s] \in Nat
        /\ Capacity[s] \in Nat \ {0} /\ Len(q) \in Nat
    <2>1. q \in Seq(Values)
      BY DEF BusInv, Types
    <2> QED BY <2>1, BusAssumption DEF BusAssumption, BusInv, Types, Publish, Values
  <1>2. GivenOK(s) /\ consumer[s] # "none"
    BY DEF BusInv, GivenOK
  <1>3. /\ QueueOK(q, last[s], published) /\ Newest(q, published) /\ last[s] <= published
        /\ Len(q) <= Capacity[s]
        /\ since[s] + popped[s] + dropped[s] + Len(q) = published
    BY <1>2 DEF GivenOK
  <1>4. /\ s \in subs' /\ consumer'[s] # "none"
        /\ last'[s] = last[s] /\ popped'[s] = popped[s] /\ since'[s] = since[s]
    BY <1>2 DEF Publish
  <1>5. queue'[s] = Pushed(s) /\ dropped'[s] = IF Full(s) THEN dropped[s] + 1 ELSE dropped[s]
    BY DEF Publish
  <1>6. /\ since[s] + popped[s] + (dropped[s] + 1) + Len(q) = n
        /\ since[s] + popped[s] + dropped[s] + (Len(q) + 1) = n
    <2>1. /\ since[s] + popped[s] \in Nat /\ dropped[s] \in Nat
          /\ Len(queue[s]) \in Nat /\ published \in Nat
          /\ since[s] + popped[s] + dropped[s] + Len(queue[s]) = published
      BY <1>1, <1>3
    <2>2. /\ since[s] + popped[s] + (dropped[s] + 1) + Len(queue[s]) = published + 1
          /\ since[s] + popped[s] + dropped[s] + (Len(queue[s]) + 1) = published + 1
      <3>1. PICK a \in Nat, c \in Nat, d \in Nat, e \in Nat :
              a = since[s] + popped[s] /\ c = dropped[s] /\ d = Len(queue[s]) /\ e = published
        BY <2>1, Zenon
      <3>2. a + c + d = e
        BY <2>1, <3>1, Zenon
      <3>3. a + (c + 1) + d = e + 1 /\ a + c + (d + 1) = e + 1
        BY <3>2
      <3> QED BY <3>1, <3>3, Zenon
    <2> QED BY <2>2
  <1>7. CASE Full(s)
    <2>1. queue'[s] = Append(Tail(q), n) /\ dropped'[s] = dropped[s] + 1
      BY <1>5, <1>7 DEF Pushed
    <2>2. q # <<>> /\ Len(q) >= Capacity[s]
      BY <1>1, <1>7 DEF Full
    <2>3. /\ QueueOK(Tail(q), last[s], published) /\ Newest(Tail(q), published)
          /\ Len(Tail(q)) = Len(q) - 1
      <3>1. /\ QueueOK(queue[s], last[s], published) /\ Newest(queue[s], published)
            /\ published \in Nat /\ last[s] \in Nat /\ queue[s] # <<>>
        BY <1>1, <1>3, <2>2
      <3> QED BY <3>1, Popping, Zenon
    <2>4. /\ QueueOK(queue'[s], last[s], n) /\ Newest(queue'[s], n)
          /\ Len(queue'[s]) = Len(Tail(q)) + 1
      BY <1>1, <1>3, <2>1, <2>3, Pushing, Zenon
    <2>5. Len(queue'[s]) = Len(q)
      BY <1>1, <2>3, <2>4
    <2>6. since[s] + popped[s] + dropped'[s] + Len(queue'[s]) = n
      BY <1>6, <2>1, <2>5, Zenon
    <2> QED BY <1>1, <1>3, <1>4, <2>4, <2>5, <2>6 DEF GivenOK, QueueOK
  <1>8. CASE ~Full(s)
    <2>1. queue'[s] = Append(q, n) /\ dropped'[s] = dropped[s]
      BY <1>5, <1>8 DEF Pushed
    <2>2. Len(q) + 1 <= Capacity[s]
      BY <1>1, <1>8 DEF Full
    <2>3. /\ QueueOK(queue'[s], last[s], n) /\ Newest(queue'[s], n)
          /\ Len(queue'[s]) = Len(q) + 1
      BY <1>1, <1>3, <2>1, Pushing, ZenonT(30)
    <2>4. since[s] + popped[s] + dropped'[s] + Len(queue'[s]) = n
      BY <1>6, <2>1, <2>3, Zenon
    <2> QED BY <1>1, <1>3, <1>4, <2>2, <2>3, <2>4, SMTT(30) DEF GivenOK, QueueOK
  <1> QED BY <1>7, <1>8

LEMMA PublishStep ==
  ASSUME BusAssumption, BusInv, NEW p \in Publishers, Publish(p)
  PROVE  BusInv'
  <1>1. ASSUME NEW s \in Subscribers, s \notin subs
        PROVE  GivenOK(s)' /\ queue'[s] \in Seq(Values)
    <2>1. /\ queue'[s] = queue[s] /\ dropped'[s] = dropped[s] /\ last'[s] = last[s]
          /\ popped'[s] = popped[s] /\ since'[s] = since[s] /\ consumer'[s] = consumer[s]
          /\ s \notin subs' /\ published' = published + 1
      BY <1>1 DEF Publish
    <2>2. /\ published \in Nat /\ last[s] \in Nat /\ popped[s] \in Nat /\ dropped[s] \in Nat
          /\ since[s] \in Nat /\ queue[s] \in Seq(Values) /\ Len(queue[s]) \in Nat
      BY DEF BusInv, Types
    <2>3. GivenOK(s)
      BY DEF BusInv
    <2>4. QueueOK(queue[s], last[s], published + 1)
      BY <2>2, <2>3, Later DEF GivenOK
    <2> QED BY <2>1, <2>2, <2>3, <2>4 DEF GivenOK
  <1>2. ASSUME NEW s \in Subscribers
        PROVE  GivenOK(s)' /\ queue'[s] \in Seq(Values)
    BY <1>1, PublishedTo
  <1>3. Types'
    <2>1. published' \in 0..MaxPublish
      BY BusAssumption DEF BusAssumption, BusInv, Types, Publish
    <2>2. queue' \in [Subscribers -> Seq(Values)]
      <3>1. queue' = [s \in Subscribers |-> queue'[s]]
        BY DEF Publish
      <3> QED BY <1>2, <3>1
    <2>3. dropped' \in [Subscribers -> Nat]
      BY DEF BusInv, Types, Publish
    <2>4. notifying' \subseteq Publishers \cup Subscribers
      BY DEF BusInv, Types, Publish
    <2> QED BY <2>1, <2>2, <2>3, <2>4 DEF BusInv, Types, Publish
  <1>4. NoLostWakeup'
    BY DEF NoLostWakeup, Publish
  <1> QED BY <1>2, <1>3, <1>4 DEF BusInv

\* wait_pop() and try_pop() take the oldest.
LEMMA PoppedBy ==
  ASSUME BusAssumption, BusInv, NEW s \in Subscribers, queue[s] # <<>>,
         queue' = [queue EXCEPT ![s] = Tail(@)], last' = [last EXCEPT ![s] = Head(queue[s])],
         popped' = [popped EXCEPT ![s] = @ + 1], UNCHANGED <<published, subs, dropped, since>>,
         consumer' \in [Subscribers -> {"none", "running", "asleep", "woken", "exit"}],
         \A u \in Subscribers : consumer'[u] = "none" => consumer[u] = "none"
  PROVE  /\ \A u \in Subscribers : GivenOK(u)'
         /\ queue' \in [Subscribers -> Seq(Values)] /\ last' \in [Subscribers -> Nat]
         /\ popped' \in [Subscribers -> Nat]
         /\ last[s] < last'[s]
  <1> DEFINE q == queue[s]
  <1>1. /\ published \in Nat /\ last[s] \in Nat /\ popped[s] \in Nat /\ dropped[s] \in Nat
        /\ since[s] \in Nat /\ q \in Seq(Values) /\ GivenOK(s)
    BY DEF BusInv, Types
  <1>2. /\ QueueOK(Tail(q), Head(q), published) /\ Len(Tail(q)) = Len(q) - 1
        /\ Len(q) \in Nat \ {0} /\ Head(q) \in Nat /\ last[s] < Head(q) /\ Head(q) <= published
        /\ Newest(q, published) => Newest(Tail(q), published)
    BY <1>1, Popping DEF GivenOK
  <1>3. queue'[s] = Tail(q) /\ last'[s] = Head(q) /\ popped'[s] = popped[s] + 1
    BY DEF BusInv, Types
  <1>4. Tail(q) \in Seq(Values)
    BY <1>2 DEF QueueOK
  <1>5. consumer'[s] # "none"
    BY <1>1 DEF GivenOK
  <1>6. GivenOK(s)'
    <2>1. /\ last[s] <= published /\ Len(q) <= Capacity[s] /\ Capacity[s] \in Nat
          /\ since[s] + popped[s] + dropped[s] + Len(q) <= published
          /\ s \in subs => /\ since[s] + popped[s] + dropped[s] + Len(q) = published
                           /\ Newest(q, published)
      BY <1>1, BusAssumption DEF GivenOK, BusAssumption
    <2>2. Len(Tail(q)) <= Capacity[s]
      BY <1>2, <2>1
    <2>3. since[s] + (popped[s] + 1) + dropped[s] + Len(Tail(q))
            = since[s] + popped[s] + dropped[s] + Len(q)
      <3>1. /\ since[s] \in Nat /\ popped[s] \in Nat /\ dropped[s] \in Nat
            /\ Len(queue[s]) \in Nat \ {0} /\ Len(Tail(queue[s])) = Len(queue[s]) - 1
        BY <1>1, <1>2
      <3>2. since[s] + (popped[s] + 1) = since[s] + popped[s] + 1 /\ since[s] + popped[s] \in Nat
        BY <3>1
      <3>3. since[s] + (popped[s] + 1) + dropped[s] + (Len(queue[s]) - 1)
              = since[s] + popped[s] + dropped[s] + Len(queue[s])
        <4>1. PICK a \in Nat, c \in Nat, d \in Nat \ {0} :
                a = since[s] + popped[s] /\ c = dropped[s] /\ d = Len(queue[s])
          BY <3>1, <3>2, Zenon
        <4>2. a + 1 + c + (d - 1) = a + c + d
          OBVIOUS
        <4> QED BY <3>2, <4>1, <4>2, Zenon
      <3> QED BY <3>1, <3>3, Zenon
    <2> QED BY <1>2, <1>3, <1>5, <2>1, <2>2, <2>3 DEF GivenOK
  <1>7. ASSUME NEW u \in Subscribers, u # s
        PROVE  GivenOK(u)'
    <2>1. queue'[u] = queue[u] /\ last'[u] = last[u] /\ popped'[u] = popped[u]
      BY <1>7 DEF BusInv, Types
    <2> QED BY <1>7, <2>1 DEF BusInv, GivenOK
  <1> QED BY <1>2, <1>3, <1>4, <1>6, <1>7 DEF BusInv, Types

LEMMA PopSteps ==
  ASSUME BusAssumption, BusInv, NEW s \in Subscribers, WaitPop(s) \/ TryPop(s)
  PROVE  BusInv' /\ PopsNext
  <1>1. CASE TryPop(s) \/ (WaitPop(s) /\ attached[s] /\ queue[s] # <<>>)
    <2>1. /\ queue[s] # <<>> /\ queue' = [queue EXCEPT ![s] = Tail(@)]
          /\ last' = [last EXCEPT ![s] = Head(queue[s])] /\ popped' = [popped EXCEPT ![s] = @ + 1]
          /\ UNCHANGED <<published, subs, dropped, since, attached, notifying>>
          /\ consumer' = consumer \/ consumer' = [consumer EXCEPT ![s] = "running"]
      BY <1>1 DEF TryPop, WaitPop
    <2>2. /\ consumer' \in [Subscribers -> {"none", "running", "asleep", "woken", "exit"}]
          /\ \A u \in Subscribers : consumer'[u] = "none" => consumer[u] = "none"
          /\ \A u \in Subscribers : consumer'[u] = "asleep" => consumer[u] = "asleep" /\ u # s
      BY <2>1 DEF BusInv, Types, WaitPop, TryPop
    <2>3. /\ \A u \in Subscribers : GivenOK(u)'
          /\ queue' \in [Subscribers -> Seq(Values)] /\ last' \in [Subscribers -> Nat]
          /\ popped' \in [Subscribers -> Nat]
          /\ last[s] < last'[s]
      BY <2>1, <2>2, BusAssumption, PoppedBy
    <2>4. Types'
      BY <2>1, <2>2, <2>3 DEF BusInv, Types
    <2>5. NoLostWakeup'
      BY <1>1, <2>1, <2>2 DEF BusInv, Types, NoLostWakeup
    <2>6. PopsNext
      BY <2>1, <2>3 DEF BusInv, Types, PopsNext
    <2> QED BY <2>3, <2>4, <2>5, <2>6 DEF BusInv
  <1>2. CASE WaitPop(s) /\ ~(attached[s] /\ queue[s] # <<>>)
    <2>1. /\ consumer' = [consumer EXCEPT ![s] = IF attached[s] THEN "asleep" ELSE "exit"]
          /\ UNCHANGED <<published, subs, queue, dropped, attached, notifying, since, popped, last>>
      BY <1>2 DEF WaitPop
    <2>2. consumer' \in [Subscribers -> {"none", "running", "asleep", "woken", "exit"}]
      BY <2>1 DEF BusInv, Types
    <2>3. \A u \in Subscribers : consumer'[u] = "none" => consumer[u] = "none"
      BY <2>1 DEF BusInv, Types
    <2>4. \A u \in Subscribers : GivenOK(u)'
      BY <2>1, <2>3 DEF BusInv, GivenOK
    <2>5. Types'
      BY <2>1, <2>2 DEF BusInv, Types
    <2>6. NoLostWakeup'
      BY <1>2, <2>1 DEF BusInv, Types, NoLostWakeup
    <2>7. PopsNext
      BY <2>1 DEF PopsNext
    <2> QED BY <2>4, <2>5, <2>6, <2>7 DEF BusInv
  <1> QED BY <1>1, <1>2 DEF WaitPop, TryPop

\* Who subscribes starts with an empty queue and the values published from now on.
LEMMA SubscribeStep ==
  ASSUME BusAssumption, BusInv, NEW s \in Subscribers, Subscribe(s)
  PROVE  BusInv'
  <1>1. /\ queue[s] = <<>> /\ popped[s] = 0 /\ dropped[s] = 0 /\ last[s] = 0
        /\ consumer[s] = "none" /\ published \in Nat /\ GivenOK(s)
    BY DEF BusInv, Types, GivenOK, Subscribe
  <1>2. /\ since'[s] = published /\ consumer'[s] = "running"
        /\ UNCHANGED <<published, queue, dropped, attached, notifying, popped, last>>
        /\ \A u \in Subscribers \ {s} : /\ since'[u] = since[u] /\ consumer'[u] = consumer[u]
                                        /\ (u \in subs') = (u \in subs)
    BY DEF BusInv, Types, Subscribe
  <1>3. Len(<<>>) = 0 /\ Newest(<<>>, published)
    BY DEF Newest
  <1>4. GivenOK(s)'
    BY <1>1, <1>2, <1>3 DEF GivenOK
  <1>5. ASSUME NEW u \in Subscribers, u # s
        PROVE  GivenOK(u)'
    BY <1>2, <1>5 DEF BusInv, GivenOK
  <1>6. Types'
    BY <1>2 DEF BusInv, Types, Subscribe
  <1>7. NoLostWakeup'
    BY <1>2 DEF BusInv, NoLostWakeup
  <1> QED BY <1>4, <1>5, <1>6, <1>7 DEF BusInv

LEMMA UnsubscribeStep ==
  ASSUME BusInv, NEW s \in Subscribers, Unsubscribe(s)
  PROVE  BusInv'
  <1>1. /\ subs' \subseteq subs
        /\ UNCHANGED <<published, queue, dropped, consumer, since, popped, last>>
    BY DEF Unsubscribe
  <1>2. ASSUME NEW u \in Subscribers
        PROVE  GivenOK(u)'
    BY <1>1 DEF BusInv, GivenOK
  <1>3. Types'
    BY DEF BusInv, Types, Unsubscribe
  <1>4. NoLostWakeup'
    BY DEF NoLostWakeup, Unsubscribe
  <1> QED BY <1>2, <1>3, <1>4 DEF BusInv

LEMMA NotifyStep ==
  ASSUME BusInv, NEW n \in Publishers \cup Subscribers, NotifyAll(n)
  PROVE  BusInv'
  <1>1. /\ UNCHANGED <<published, subs, queue, dropped, attached, since, popped, last>>
        /\ \A u \in Subscribers : /\ consumer'[u] = "none" => consumer[u] = "none"
                                  /\ consumer'[u] # "asleep"
    BY DEF NotifyAll
  <1>2. ASSUME NEW u \in Subscribers
        PROVE  GivenOK(u)'
    BY <1>1 DEF BusInv, GivenOK
  <1>3. Types'
    BY DEF BusInv, Types, NotifyAll
  <1>4. NoLostWakeup'
    BY <1>1 DEF NoLostWakeup
  <1> QED BY <1>2, <1>3, <1>4 DEF BusInv

LEMMA BusNext ==
  ASSUME BusAssumption
  PROVE  BusInv /\ [Next]_vars => BusInv' /\ (PopsNext \/ UNCHANGED vars)
  <1> SUFFICES ASSUME BusInv, [Next]_vars PROVE BusInv' /\ (PopsNext \/ UNCHANGED vars)
    OBVIOUS
  <1>1. CASE UNCHANGED vars
    BY <1>1 DEF vars, BusInv, Types, GivenOK, NoLostWakeup
  <1>2. ASSUME NEW p \in Publishers, Publish(p)
        PROVE  BusInv' /\ PopsNext
    BY <1>2, PublishStep, BusAssumption DEF PopsNext, Publish
  <1>3. ASSUME NEW n \in Publishers \cup Subscribers, NotifyAll(n)
        PROVE  BusInv' /\ PopsNext
    BY <1>3, NotifyStep DEF PopsNext, NotifyAll
  <1>4. ASSUME NEW s \in Subscribers, Subscribe(s)
        PROVE  BusInv' /\ PopsNext
    BY <1>4, SubscribeStep, BusAssumption DEF PopsNext, Subscribe
  <1>5. ASSUME NEW s \in Subscribers, Unsubscribe(s)
        PROVE  BusInv' /\ PopsNext
    BY <1>5, UnsubscribeStep DEF PopsNext, Unsubscribe
  <1>6. ASSUME NEW s \in Subscribers, WaitPop(s) \/ TryPop(s)
        PROVE  BusInv' /\ PopsNext
    BY <1>6, PopSteps, BusAssumption
  <1>7. CASE Quiet
    BY <1>1, <1>7 DEF Quiet
  <1> QED BY <1>1, <1>2, <1>3, <1>4, <1>5, <1>6, <1>7 DEF Next

-----------------------------------------------------------------------------
(* The theorems.                                                            *)

\* What the invariant says of every reachable state.
LEMMA BusSafe ==
  ASSUME BusAssumption, BusInv
  PROVE  TypeOK /\ NothingLostUncounted /\ NoLostWakeup
  <1>1. NothingLostUncounted
    <2> SUFFICES ASSUME NEW s \in subs
                 PROVE  /\ popped[s] + dropped[s] + Len(queue[s]) = published - since[s]
                        /\ \A i \in 1..Len(queue[s]) : queue[s][i] = published - Len(queue[s]) + i
      BY DEF NothingLostUncounted
    <2>1. s \in Subscribers
      BY DEF BusInv, Types
    <2>2. /\ since[s] \in Nat /\ popped[s] \in Nat /\ dropped[s] \in Nat
          /\ queue[s] \in Seq(Values) /\ published \in Nat
      BY <2>1 DEF BusInv, Types
    <2>3. /\ since[s] + popped[s] + dropped[s] + Len(queue[s]) = published
          /\ Newest(queue[s], published)
      BY <2>1 DEF BusInv, GivenOK
    <2>4. Len(queue[s]) \in Nat
      BY <2>2
    <2>5. popped[s] + dropped[s] + Len(queue[s]) = published - since[s]
      <3>1. PICK a \in Nat, b \in Nat, c \in Nat, d \in Nat, e \in Nat :
              /\ a = since[s] /\ b = popped[s] /\ c = dropped[s] /\ d = Len(queue[s])
              /\ e = published
        BY <2>2, <2>4, Zenon
      <3>2. a + b + c + d = e
        BY <2>3, <3>1, Zenon
      <3>3. b + c + d = e - a
        BY <3>2
      <3> QED BY <3>1, <3>3, Zenon
    <2> QED BY <2>3, <2>5 DEF Newest
  <1>2. TypeOK
    <2>1. published \in 0..MaxPublish /\ published \in Nat
      BY DEF BusInv, Types, BusAssumption
    <2>2. ASSUME NEW s \in Subscribers
          PROVE  /\ dropped[s] \in 0..MaxPublish /\ since[s] \in 0..MaxPublish
                 /\ popped[s] \in 0..MaxPublish /\ last[s] \in 0..MaxPublish
      <3> DEFINE n == Len(queue[s])
      <3>1. /\ since[s] \in Nat /\ popped[s] \in Nat /\ dropped[s] \in Nat /\ last[s] \in Nat
            /\ queue[s] \in Seq(Values)
        BY DEF BusInv, Types
      <3>2. n \in Nat
        BY <3>1
      <3>3. since[s] + popped[s] + dropped[s] + n <= published /\ last[s] <= published
        BY DEF BusInv, GivenOK
      <3>4. MaxPublish \in Nat /\ published <= MaxPublish
        BY <2>1 DEF BusAssumption
      <3> DEFINE a == since[s]
                 b == popped[s]
                 c == dropped[s]
                 e == last[s]
      <3>5. a \in Nat /\ b \in Nat /\ c \in Nat /\ e \in Nat /\ a + b + c + n <= published
            /\ e <= published
        BY <3>1, <3>3
      <3> HIDE DEF n, a, b, c, e
      <3>6. a \in 0..MaxPublish /\ b \in 0..MaxPublish /\ c \in 0..MaxPublish
            /\ e \in 0..MaxPublish
        BY <3>2, <3>4, <3>5, <2>1
      <3> QED BY <3>6 DEF a, b, c, e
    <2>3. /\ dropped \in [Subscribers -> 0..MaxPublish] /\ since \in [Subscribers -> 0..MaxPublish]
          /\ popped \in [Subscribers -> 0..MaxPublish] /\ last \in [Subscribers -> 0..MaxPublish]
      BY <2>2 DEF BusInv, Types
    <2>4. \A s \in Subscribers : queue[s] \in Seq(1..MaxPublish) /\ Len(queue[s]) <= Capacity[s]
      BY DEF BusInv, Types, GivenOK, Values
    <2> QED BY <2>1, <2>3, <2>4 DEF BusInv, Types, TypeOK
  <1> QED BY <1>1, <1>2 DEF BusInv

\* BusInv is inductive.
THEOREM BusInductive ==
  ASSUME BusAssumption
  PROVE  Spec => []BusInv
  BY BusInit, BusNext, PTL DEF Spec

\* Whatever the capacities and the speed of the consumers, every value published
\* since subscribe() was popped, is queued, or is counted in dropped.
THEOREM NothingIsLostUncounted ==
  ASSUME BusAssumption
  PROVE  Spec => []NothingLostUncounted
  <1>1. BusInv => NothingLostUncounted
    BY BusSafe
  <1> QED BY <1>1, BusInductive, PTL

\* No subscriber pops a value twice or an older one after a newer, whoever published
\* them and however many were dropped.
THEOREM PopsAreInOrder ==
  ASSUME BusAssumption
  PROVE  Spec => PopsInOrder
  BY BusInductive, BusNext, PTL DEF Spec, PopsInOrder

\* No wake-up of a consumer is lost.
THEOREM BusLosesNoWakeup ==
  ASSUME BusAssumption
  PROVE  Spec => []NoLostWakeup
  <1>1. BusInv => NoLostWakeup
    BY DEF BusInv
  <1> QED BY <1>1, BusInductive, PTL
=============================================================================
