------------------------ MODULE SyncControllerProofs ------------------------
(***************************************************************************)
(* TEST_OUTPUT makes at most one pulse per call, for any number of calls,  *)
(* threads, configurations and faults.                                     *)
(***************************************************************************)
EXTENDS SyncController, FiniteSetTheorems, TLAPS

-----------------------------------------------------------------------------
(* The inductive invariant.                                                 *)

\* The commands a call other than a test sends.
Plain == {"SetConfig", "Arm", "Stop"}

\* What a call has left to do: a test is one command sent once, and no other
\* call sends TEST_OUTPUT.
CallOK(h) ==
    /\ h.at = "desire" => h.op \in {"arm", "stop"}
    /\ h.at = "snapshot" => h.op = "resync"
    /\ h.at \in {"send", "await"} => h.plan # <<>>
    /\ h.op = "test" => h.at \in {"check", "send", "await"}
    /\ h.op = "test" /\ h.at # "check" => h.tries = 1 /\ Len(h.plan) = 1
    /\ h.op # "test" => h.plan \in Seq(Plain)

GoodCall == {h \in Call : CallOK(h)}

\* The tests that have not been sent, and those the board has not handled.
Waiting(calls_of) ==
    {t \in Threads : calls_of[t].op = "test" /\ calls_of[t].at \in {"check", "send"}}
OnWire(s) == {i \in 1..Len(s) : s[i].cmd = "TestOutput"}

\* A test is waiting, on the wire, or has made its pulse, and in only one place.
Budget == edges + Cardinality(OnWire(toBoard)) + Cardinality(Waiting(thread)) <= tests

IInv == /\ TypeOK
        /\ thread \in [Threads -> GoodCall]
        /\ tests <= calls
        /\ Budget

-----------------------------------------------------------------------------
(* Counting.                                                                *)

LEMMA ThreadsFinite == IsFiniteSet(Threads)
  BY ControllerAssumption, FS_AddElement DEF Threads

\* There are finitely many of both.
LEMMA WaitingFinite ==
  ASSUME NEW h
  PROVE  IsFiniteSet(Waiting(h)) /\ Cardinality(Waiting(h)) \in Nat
  <1>1. Waiting(h) \in SUBSET Threads
    BY DEF Waiting
  <1> QED BY <1>1, ThreadsFinite, FS_Subset, FS_CardinalityType

LEMMA OnWireFinite ==
  ASSUME NEW S, NEW s \in Seq(S)
  PROVE  IsFiniteSet(OnWire(s)) /\ Cardinality(OnWire(s)) \in Nat
  <1>1. OnWire(s) \in SUBSET (1..Len(s)) /\ Len(s) \in Nat
    BY DEF OnWire
  <1>2. IsFiniteSet(1..Len(s))
    BY <1>1, FS_Interval
  <1> QED BY <1>1, <1>2, FS_Subset, FS_CardinalityType

\* A frame written is counted if it is a test.
LEMMA Written ==
  ASSUME NEW S, NEW s \in Seq(S), NEW m \in S
  PROVE  Cardinality(OnWire(Append(s, m)))
           = Cardinality(OnWire(s)) + (IF m.cmd = "TestOutput" THEN 1 ELSE 0)
  <1>1. OnWire(Append(s, m))
          = IF m.cmd = "TestOutput" THEN OnWire(s) \cup {Len(s) + 1} ELSE OnWire(s)
    BY DEF OnWire
  <1>2. Len(s) + 1 \notin OnWire(s)
    BY DEF OnWire
  <1>3. IsFiniteSet(OnWire(s)) /\ Cardinality(OnWire(s)) \in Nat
    BY OnWireFinite
  <1>4. Cardinality(OnWire(s) \cup {Len(s) + 1}) = Cardinality(OnWire(s)) + 1
    BY <1>2, <1>3, FS_AddElement
  <1> QED BY <1>1, <1>3, <1>4

\* A frame handled is no longer counted.
LEMMA Handled ==
  ASSUME NEW S, NEW s \in Seq(S), s # <<>>
  PROVE  Cardinality(OnWire(s))
           = Cardinality(OnWire(Tail(s))) + (IF Head(s).cmd = "TestOutput" THEN 1 ELSE 0)
  <1> DEFINE R == OnWire(s) \ {1}
             T == OnWire(Tail(s))
             next == [i \in T |-> i + 1]
  <1>1. Tail(s) \in Seq(S) /\ Len(Tail(s)) = Len(s) - 1 /\ Len(s) \in Nat \ {0}
    OBVIOUS
  <1>2. \A i \in 1..Len(Tail(s)) : Tail(s)[i] = s[i + 1]
    OBVIOUS
  <1>3. \A i \in T : i \in Nat /\ i + 1 \in R
    BY <1>1, <1>2 DEF OnWire
  <1>4. \A j \in R : j - 1 \in T /\ next[j - 1] = j
    <2>1. TAKE j \in R
    <2>2. j \in 2..Len(s) /\ s[j].cmd = "TestOutput"
      BY <1>1 DEF OnWire
    <2>3. j - 1 \in 1..Len(Tail(s)) /\ Tail(s)[j - 1] = s[j]
      BY <2>2, <1>1, <1>2
    <2> QED BY <2>2, <2>3 DEF OnWire
  <1>5. next \in Bijection(T, R)
    <2> HIDE DEF T, R
    <2>1. next \in [T -> R] /\ \A i \in T : next[i] = i + 1
      BY <1>3
    <2>2. next \in Injection(T, R)
      BY <2>1, <1>3 DEF Injection, IsInjective
    <2>3. next \in Surjection(T, R)
      BY <2>1, <1>4 DEF Surjection
    <2> QED BY <2>2, <2>3 DEF Bijection
  <1>6. Cardinality(R) = Cardinality(T)
    <2>1. IsFiniteSet(T)
      BY <1>1, OnWireFinite
    <2> HIDE DEF T, R, next
    <2>2. ExistsBijection(T, R)
      BY <1>5 DEF ExistsBijection
    <2> QED BY <2>1, <2>2, FS_Bijection
  <1>7. 1 \in OnWire(s) <=> Head(s).cmd = "TestOutput"
    BY <1>1 DEF OnWire
  <1>8. Cardinality(OnWire(s)) \in Nat /\ Cardinality(T) \in Nat /\ IsFiniteSet(OnWire(s))
    BY <1>1, OnWireFinite
  <1>9. Cardinality(R) = IF 1 \in OnWire(s) THEN Cardinality(OnWire(s)) - 1
                                            ELSE Cardinality(OnWire(s))
    BY <1>8, FS_RemoveElement
  <1> QED BY <1>6, <1>7, <1>8, <1>9

\* Frames lost with the cable are no longer counted.
LEMMA Lost ==
  ASSUME NEW S, NEW s \in Seq(S), NEW n \in 0..Len(s)
  PROVE  Cardinality(OnWire(SubSeq(s, 1, n))) <= Cardinality(OnWire(s))
  <1>1. OnWire(SubSeq(s, 1, n)) \in SUBSET OnWire(s)
    BY DEF OnWire
  <1> QED BY <1>1, OnWireFinite, FS_Subset

LEMMA Empty == Cardinality(OnWire(<<>>)) = 0
  <1>1. OnWire(<<>>) = {}
    BY DEF OnWire
  <1> QED BY <1>1, FS_EmptySet

-----------------------------------------------------------------------------
(* What a step does to the calls.                                           *)

\* No step of a call makes a test that was not there.
CallsOK == thread' \in [Threads -> GoodCall] /\ Waiting(thread') \subseteq Waiting(thread)

LEMMA NothingSpent ==
  ASSUME IInv, Waiting(thread') \subseteq Waiting(thread), UNCHANGED <<edges, tests, toBoard>>
  PROVE  Budget'
  <1>1. Cardinality(Waiting(thread')) <= Cardinality(Waiting(thread))
    BY WaitingFinite, FS_Subset
  <1>2. /\ Cardinality(OnWire(toBoard)) \in Nat /\ edges \in Nat /\ tests \in Nat
        /\ Cardinality(Waiting(thread)) \in Nat /\ Cardinality(Waiting(thread')) \in Nat
    BY OnWireFinite, WaitingFinite DEF IInv, TypeOK
  <1> QED BY <1>1, <1>2 DEF IInv, Budget

LEMMA IdleIsGood == Idle \in GoodCall
  <1>1. <<>> \in Seq(Commands) /\ <<>> \in Seq(Plain)
    OBVIOUS
  <1>2. Idle \in Call
    BY <1>1 DEF Idle, Call, AllConfigs
  <1>3. CallOK(Idle)
    BY <1>1 DEF Idle, CallOK
  <1> QED BY <1>2, <1>3 DEF GoodCall

\* A call goes on with the plan p and n attempts.
Sending(h, p, n) ==
    [h EXCEPT !.at = "send", !.plan = p, !.tries = n, !.id = None, !.acked = FALSE,
              !.crossed = FALSE]

LEMMA SendingIsGood ==
  ASSUME NEW h \in GoodCall, NEW p \in Seq(Commands), p # <<>>, NEW n \in 0..2,
         h.op = "test" => n = 1 /\ Len(p) = 1, h.op # "test" => p \in Seq(Plain)
  PROVE  Sending(h, p, n) \in GoodCall /\ Sending(h, p, n).op = h.op
  <1>1. h \in Call
    BY DEF GoodCall
  <1>2. Sending(h, p, n) \in Call
    BY <1>1 DEF Call, Sending
  <1>3. /\ Sending(h, p, n).op = h.op /\ Sending(h, p, n).at = "send"
        /\ Sending(h, p, n).plan = p /\ Sending(h, p, n).tries = n
    BY <1>1 DEF Call, Sending
  <1>4. CallOK(Sending(h, p, n))
    BY <1>3 DEF CallOK
  <1> QED BY <1>2, <1>3, <1>4 DEF GoodCall

LEMMA MoreThanOne == \A n \in Nat : n > 1 => n # 1
  OBVIOUS

LEMMA PlanGoesOn ==
  ASSUME NEW S, NEW p \in Seq(S), Len(p) > 1
  PROVE  Tail(p) \in Seq(S) /\ Tail(p) # <<>>
  <1>1. p # <<>> /\ Len(p) \in Nat
    OBVIOUS
  <1>2. Tail(p) \in Seq(S) /\ Len(Tail(p)) = Len(p) - 1
    BY <1>1
  <1>3. Len(Tail(p)) # 0
    BY <1>1, <1>2
  <1>4. Len(<<>>) = 0
    OBVIOUS
  <1> QED BY <1>2, <1>3, <1>4, Zenon

\* One call changes, and is a waiting test only if it was one.
LEMMA OneChanges ==
  ASSUME IInv, NEW t \in Threads, NEW h \in GoodCall, thread' = [thread EXCEPT ![t] = h],
         h.op = "test" /\ h.at \in {"check", "send"} => t \in Waiting(thread)
  PROVE  CallsOK
  <1>1. thread' \in [Threads -> GoodCall]
    BY DEF IInv
  <1>2. Waiting(thread') \subseteq Waiting(thread)
    BY DEF IInv, Waiting
  <1> QED BY <1>1, <1>2 DEF CallsOK

\* What a call that waits for the connection or for an answer looks like.
LEMMA CallFacts ==
  ASSUME IInv, NEW t \in Threads
  PROVE  /\ thread[t] \in GoodCall /\ thread[t].plan \in Seq(Commands)
         /\ Len(thread[t].plan) \in Nat /\ thread[t].tries \in 0..2
         /\ thread[t].op # "test" => thread[t].plan \in Seq(Plain)
         /\ thread[t].at \in {"send", "await"} => thread[t].plan # <<>>
         /\ thread[t].at \in {"send", "await"} /\ thread[t].op = "test"
              => thread[t].tries = 1 /\ Len(thread[t].plan) = 1
  <1>1. thread[t] \in GoodCall
    BY DEF IInv
  <1>2. thread[t] \in Call /\ CallOK(thread[t])
    BY <1>1 DEF GoodCall
  <1>3. thread[t].plan \in Seq(Commands) /\ thread[t].tries \in 0..2
    BY <1>2 DEF Call
  <1>4. Len(thread[t].plan) \in Nat
    BY <1>3
  <1>5. /\ thread[t].op # "test" => thread[t].plan \in Seq(Plain)
        /\ thread[t].at \in {"send", "await"} => thread[t].plan # <<>>
    BY <1>2 DEF CallOK
  <1>6. thread[t].at \in {"send", "await"} /\ thread[t].op = "test"
          => thread[t].tries = 1 /\ Len(thread[t].plan) = 1
    BY <1>2 DEF CallOK
  <1> QED BY <1>1, <1>3, <1>4, <1>5, <1>6

LEMMA Finished ==
  ASSUME IInv, NEW t \in Threads, NEW ok \in BOOLEAN, Finish(t, ok)
  PROVE  CallsOK /\ resync_needed' \in BOOLEAN
  <1>1. CallsOK
    <2>1. Idle.op # "test"
      BY DEF Idle
    <2> QED BY <2>1, IdleIsGood, OneChanges DEF Finish
  <1>2. resync_needed' \in BOOLEAN
    BY DEF Finish, IInv, TypeOK
  <1> QED BY <1>1, <1>2

\* A command is sent again only by a call that is not a test.
LEMMA AttemptFailed ==
  ASSUME IInv, NEW t \in Threads, thread[t].at \in {"send", "await"}, Failed(t)
  PROVE  CallsOK /\ resync_needed' \in BOOLEAN
  <1>1. CASE thread[t].tries > 1
    <2> DEFINE h == Sending(thread[t], thread[t].plan, thread[t].tries - 1)
    <2>1. thread[t].op # "test" /\ thread[t].plan # <<>> /\ thread[t].tries - 1 \in 0..2
      BY <1>1, CallFacts
    <2>2. h \in GoodCall /\ h.op # "test"
      BY <2>1, CallFacts, SendingIsGood
    <2> DEFINE g == [thread[t] EXCEPT !.at = "send", !.tries = @ - 1, !.id = None,
                                      !.acked = FALSE, !.crossed = FALSE]
    <2>3. thread' = [thread EXCEPT ![t] = h]
      <3>1. thread' = [thread EXCEPT ![t] = g]
        BY <1>1 DEF Failed, IInv
      <3>2. g = h
        BY CallFacts DEF Sending, GoodCall, Call
      <3> QED BY <3>1, <3>2
    <2>4. CallsOK
      <3> HIDE DEF h
      <3> QED BY <2>2, <2>3, OneChanges
    <2> QED BY <1>1, <2>4 DEF Failed, IInv, TypeOK
  <1>2. CASE ~(thread[t].tries > 1)
    BY <1>2, Finished DEF Failed
  <1> QED BY <1>1, <1>2

\* A test is one command.
LEMMA AttemptSucceeded ==
  ASSUME IInv, NEW t \in Threads, thread[t].at \in {"send", "await"}, Succeeded(t)
  PROVE  CallsOK /\ resync_needed' \in BOOLEAN
  <1>1. CASE Len(thread[t].plan) > 1
    <2> DEFINE h == Sending(thread[t], Tail(thread[t].plan), 2)
    <2>1. thread[t].op # "test"
      <3> QED BY <1>1, CallFacts, MoreThanOne, Zenon
    <2>2. /\ Tail(thread[t].plan) \in Seq(Commands) /\ Tail(thread[t].plan) \in Seq(Plain)
          /\ Tail(thread[t].plan) # <<>>
      BY <1>1, <2>1, CallFacts, PlanGoesOn
    <2>3. h \in GoodCall /\ h.op # "test"
      <3> HIDE DEF h
      <3>1. thread[t] \in GoodCall /\ 2 \in 0..2
        BY CallFacts
      <3>2. h \in GoodCall /\ h.op = thread[t].op
        BY <2>1, <2>2, <3>1, SendingIsGood, Zenon DEF h
      <3> QED BY <2>1, <3>2
    <2>4. thread' = [thread EXCEPT ![t] = h]
      BY <1>1 DEF Succeeded, Sending, IInv
    <2>5. CallsOK
      <3> HIDE DEF h
      <3> QED BY <2>3, <2>4, OneChanges
    <2> QED BY <1>1, <2>5 DEF Succeeded, IInv, TypeOK
  <1>2. CASE ~(Len(thread[t].plan) > 1)
    BY <1>2, Finished DEF Succeeded
  <1> QED BY <1>1, <1>2

\* The plan of a test is one command, and nobody else's plan has a test.
LEMMA PlanIsGood ==
  ASSUME NEW op, NEW arm \in BOOLEAN
  PROVE  /\ Plan(op, arm) \in Seq(Commands) /\ Plan(op, arm) # <<>>
         /\ op = "test" => Len(Plan(op, arm)) = 1
         /\ op # "test" => Plan(op, arm) \in Seq(Plain)
  <1>1. CASE op = "test"
    <2>1. Plan(op, arm) = <<"TestOutput">>
      BY <1>1 DEF Plan
    <2>2. <<"TestOutput">> \in Seq(Commands) /\ <<"TestOutput">> # <<>>
      BY DEF Commands
    <2>3. Len(<<"TestOutput">>) = 1
      OBVIOUS
    <2> QED BY <1>1, <2>1, <2>2, <2>3, Zenon
  <1>2. CASE op # "test"
    <2>1. \/ Plan(op, arm) = <<"Stop">>
          \/ Plan(op, arm) = <<"SetConfig", "Arm">>
          \/ Plan(op, arm) = <<"SetConfig">>
      BY <1>2 DEF Plan
    <2>2. CASE Plan(op, arm) = <<"Stop">>
      BY <1>2, <2>2 DEF Commands, Plain
    <2>3. CASE Plan(op, arm) = <<"SetConfig", "Arm">>
      BY <1>2, <2>3 DEF Commands, Plain
    <2>4. CASE Plan(op, arm) = <<"SetConfig">>
      BY <1>2, <2>4 DEF Commands, Plain
    <2> QED BY <2>1, <2>2, <2>3, <2>4
  <1> QED BY <1>1, <1>2

\* A call that finds the port open sends its commands; a test stays one test.
LEMMA Started ==
  ASSUME IInv, NEW t \in Threads, thread[t].op \in {"arm", "stop", "test"},
         thread[t].op = "test" => thread[t].at = "check", StartIfConnected(t)
  PROVE  CallsOK /\ resync_needed' \in BOOLEAN
  <1>1. CASE io = "up"
    <2> DEFINE p == Plan(thread[t].op, TRUE)
               n == TriesFor(thread[t].op)
               h == [thread[t] EXCEPT !.at = "send", !.plan = p, !.tries = n]
    <2>1. thread' = [thread EXCEPT ![t] = h] /\ resync_needed' = resync_needed
      BY <1>1 DEF StartIfConnected, IInv
    <2>2. /\ p \in Seq(Commands) /\ p # <<>> /\ n \in 0..2
          /\ thread[t].op = "test" => n = 1 /\ Len(p) = 1
          /\ thread[t].op # "test" => p \in Seq(Plain)
      <3>1. n \in 0..2 /\ (thread[t].op = "test" => n = 1)
        BY DEF TriesFor
      <3> QED BY <3>1, PlanIsGood, Zenon
    <2> HIDE DEF p, n
    <2>3. thread[t] \in GoodCall /\ thread[t] \in Call
      BY CallFacts DEF GoodCall
    <2>4. h \in GoodCall /\ h.op = thread[t].op
      BY <2>2, <2>3 DEF GoodCall, Call, CallOK
    <2>5. h.op = "test" => t \in Waiting(thread)
      BY <2>4 DEF Waiting
    <2> HIDE DEF h
    <2>6. CallsOK
      BY <2>1, <2>4, <2>5, OneChanges
    <2> QED BY <2>1, <2>6 DEF IInv, TypeOK
  <1>2. CASE io # "up"
    BY <1>2, Finished DEF StartIfConnected
  <1> QED BY <1>1, <1>2

-----------------------------------------------------------------------------
(* Every step keeps the invariant.                                          *)

\* What remains to show of a step that makes no pulse and sends nothing.
LEMMA Preserved ==
  ASSUME IInv, CallsOK, UNCHANGED <<edges, tests, calls, toBoard>>, TypeOK'
  PROVE  IInv'
  BY NothingSpent DEF IInv, CallsOK

\* The calls are typed when they are good.
LEMMA CallsTyped ==
  ASSUME CallsOK
  PROVE  thread' \in [Threads -> Call]
  BY DEF CallsOK, GoodCall

LEMMA DesiredStep ==
  ASSUME IInv, NEW t \in Threads, SetDesired(t)
  PROVE  IInv'
  <1>1. thread[t] \in Call /\ CallOK(thread[t]) /\ thread[t].op = "arm"
    BY CallFacts DEF GoodCall, SetDesired
  <1> DEFINE h == [thread[t] EXCEPT !.at = "check"]
  <1>2. h \in GoodCall /\ h.op # "test"
    BY <1>1 DEF GoodCall, Call, CallOK
  <1>3. thread' = [thread EXCEPT ![t] = h]
    BY DEF SetDesired, IInv
  <1> HIDE DEF h
  <1>4. CallsOK
    BY <1>2, <1>3, OneChanges
  <1>5. thread[t].cfg \in AllConfigs
    BY <1>1 DEF Call
  <1>6. TypeOK'
    BY <1>4, <1>5, CallsTyped
       DEF IInv, TypeOK, SetDesired, cmdVars, wireVars, boardVars, history
  <1> QED BY <1>4, <1>6, Preserved DEF SetDesired, wireVars, boardVars, history

LEMMA StartSteps ==
  ASSUME IInv, NEW t \in Threads, SetSlotPins(t) \/ ClearWant(t) \/ CheckConnected(t)
  PROVE  IInv'
  <1>1. thread[t] \in Call
    BY CallFacts DEF GoodCall
  <1>2. thread[t].cfg \in AllConfigs
    BY <1>1 DEF Call
  <1>3. CASE SetSlotPins(t)
    <2>1. CallsOK /\ resync_needed' \in BOOLEAN
      BY <1>3, Started DEF SetSlotPins
    <2>2. TypeOK'
      BY <1>2, <1>3, <2>1, CallsTyped
         DEF IInv, TypeOK, SetSlotPins, cmdVars, wireVars, boardVars, history
    <2> QED BY <1>3, <2>1, <2>2, Preserved DEF SetSlotPins, wireVars, boardVars, history
  <1>4. CASE ClearWant(t)
    <2>1. CallsOK /\ resync_needed' \in BOOLEAN
      BY <1>4, Started DEF ClearWant
    <2>2. TypeOK'
      BY <1>4, <2>1, CallsTyped
         DEF IInv, TypeOK, ClearWant, cmdVars, wireVars, boardVars, history
    <2> QED BY <1>4, <2>1, <2>2, Preserved DEF ClearWant, wireVars, boardVars, history
  <1>5. CASE CheckConnected(t)
    <2>1. CallsOK /\ resync_needed' \in BOOLEAN
      BY <1>5, Started DEF CheckConnected
    <2>2. TypeOK'
      BY <1>5, <2>1, CallsTyped
         DEF IInv, TypeOK, CheckConnected, hostVars, cmdVars, wireVars, boardVars, history
    <2> QED BY <1>5, <2>1, <2>2, Preserved DEF CheckConnected, wireVars, boardVars, history
  <1> QED BY <1>3, <1>4, <1>5

\* The end of a wait, and an attempt that cannot be written.
LEMMA EndSteps ==
  ASSUME IInv, NEW t \in Threads, SendFails(t) \/ Wake(t) \/ Timeout(t)
  PROVE  IInv'
  <1>1. CASE SendFails(t)
    <2>1. CallsOK /\ resync_needed' \in BOOLEAN
      BY <1>1, AttemptFailed DEF SendFails
    <2>2. TypeOK'
      BY <1>1, <2>1, CallsTyped
         DEF IInv, TypeOK, SendFails, hostVars, cmdVars, wireVars, boardVars, history
    <2> QED BY <1>1, <2>1, <2>2, Preserved DEF SendFails, wireVars, boardVars, history
  <1>2. CASE Wake(t)
    <2>1. CallsOK /\ resync_needed' \in BOOLEAN
      BY <1>2, AttemptFailed, AttemptSucceeded DEF Wake
    <2>2. TypeOK'
      BY <1>2, <2>1, CallsTyped
         DEF IInv, TypeOK, Wake, hostVars, cmdVars, wireVars, boardVars, history
    <2> QED BY <1>2, <2>1, <2>2, Preserved DEF Wake, wireVars, boardVars, history
  <1>3. CASE Timeout(t)
    <2>1. CallsOK /\ resync_needed' \in BOOLEAN
      BY <1>3, AttemptFailed DEF Timeout
    <2>2. faults' \in 0..MaxFaults
      BY <1>3, ControllerAssumption DEF Timeout, Fault, IInv, TypeOK
    <2>3. TypeOK'
      BY <1>3, <2>1, <2>2, CallsTyped
         DEF IInv, TypeOK, Timeout, hostVars, wireVars, boardVars, history
    <2> QED BY <1>3, <2>1, <2>3, Preserved DEF Timeout, wireVars, boardVars, history
  <1> QED BY <1>1, <1>2, <1>3

LEMMA FreshIdTyped == FreshId \in Ids
  <1>1. \E i \in Ids : Ids \subseteq InUse \/ i \notin InUse
    BY ControllerAssumption
  <1> QED BY <1>1 DEF FreshId

\* A test that is sent leaves the waiting ones and enters the wire.
LEMMA SendStep ==
  ASSUME IInv, NEW t \in Threads, Send(t)
  PROVE  IInv'
  <1> DEFINE c == Head(thread[t].plan)
             m == [id |-> FreshId, cmd |-> c, cfg |-> Payload(t)]
  <1>1. thread[t].at = "send" /\ thread[t].plan # <<>> /\ thread[t].plan \in Seq(Commands)
    BY CallFacts DEF Send
  <1>2. c \in Commands
    BY <1>1
  <1>3. c = "TestOutput" => thread[t].op = "test"
    <2>1. CASE thread[t].op # "test"
      <3>1. thread[t].plan \in Seq(Plain)
        BY <2>1, CallFacts
      <3>2. c \in Plain
        BY <1>1, <3>1
      <3> QED BY <3>2 DEF Plain
    <2> QED BY <2>1
  <1> HIDE DEF c
  <1>4. Payload(t) \in AllConfigs
    BY CallFacts DEF Payload, GoodCall, Call, AllConfigs
  <1>5. m \in Request
    BY <1>2, <1>4, FreshIdTyped DEF Request
  <1>6. toBoard' = Append(toBoard, m)
    BY DEF Send, c
  <1>7. thread' \in [Threads -> GoodCall]
    <2>1. ASSUME NEW u \in Threads
          PROVE  thread'[u] \in GoodCall
      <3>1. thread[u] \in Call /\ CallOK(thread[u]) /\ thread[t] \in Call /\ CallOK(thread[t])
        BY CallFacts DEF GoodCall
      <3>2. CASE u = t
        <4>1. thread'[u] = [thread[t] EXCEPT !.at = "await", !.id = FreshId,
                !.crossed = \E v \in Threads \ {t} : thread[v].at = "await"]
          BY <3>2 DEF Send
        <4>2. thread'[u] \in Call
          BY <4>1, <3>1, FreshIdTyped DEF Call
        <4>3. CallOK(thread'[u])
          BY <4>1, <3>1, <1>1 DEF Call, CallOK
        <4> QED BY <4>2, <4>3 DEF GoodCall
      <3>3. CASE u # t
        <4>1. thread'[u] = [thread[u] EXCEPT !.crossed = @ \/ thread[u].at = "await"]
          BY <3>3 DEF Send
        <4>2. thread'[u] \in Call
          BY <4>1, <3>1 DEF Call
        <4>3. CallOK(thread'[u])
          BY <4>1, <3>1 DEF Call, CallOK
        <4> QED BY <4>2, <4>3 DEF GoodCall
      <3> QED BY <3>2, <3>3
    <2>2. thread' = [u \in Threads |-> thread'[u]]
      BY DEF Send
    <2> QED BY <2>1, <2>2
  <1>8. Waiting(thread') \in SUBSET (Waiting(thread) \ {t})
    <2>1. ASSUME NEW u \in Threads, u # t
          PROVE  thread'[u].op = thread[u].op /\ thread'[u].at = thread[u].at
      BY <2>1, CallFacts DEF Send, GoodCall, Call
    <2>2. thread'[t].at = "await"
      BY CallFacts DEF Send, GoodCall, Call
    <2> QED BY <2>1, <2>2 DEF Waiting
  <1>9. Budget'
    <2>1. /\ edges \in Nat /\ tests \in Nat /\ edges' = edges /\ tests' = tests
          /\ toBoard \in Seq(Request)
      <3>1. UNCHANGED <<boardVars, history>>
        BY DEF Send
      <3> QED BY <3>1 DEF IInv, TypeOK, boardVars, history
    <2>2. Cardinality(OnWire(toBoard'))
            = Cardinality(OnWire(toBoard)) + (IF c = "TestOutput" THEN 1 ELSE 0)
      BY <1>5, <1>6, <2>1, Written
    <2>3. Cardinality(Waiting(thread')) <= Cardinality(Waiting(thread) \ {t})
      BY <1>8, WaitingFinite, FS_Subset, FS_RemoveElement
    <2>4. Cardinality(Waiting(thread) \ {t})
            = IF t \in Waiting(thread) THEN Cardinality(Waiting(thread)) - 1
              ELSE Cardinality(Waiting(thread))
      BY WaitingFinite, FS_RemoveElement
    <2>5. c = "TestOutput" => t \in Waiting(thread)
      BY <1>1, <1>3 DEF Waiting
    <2>6. /\ Cardinality(OnWire(toBoard)) \in Nat /\ Cardinality(Waiting(thread)) \in Nat
          /\ Cardinality(Waiting(thread')) \in Nat
      BY <2>1, OnWireFinite, WaitingFinite
    <2> QED BY <2>1, <2>2, <2>3, <2>4, <2>5, <2>6 DEF IInv, Budget
  <1>10. TypeOK'
    <2>1. thread' \in [Threads -> Call]
      BY <1>7 DEF GoodCall
    <2>2. toBoard' \in Seq(Request)
      BY <1>5, <1>6 DEF IInv, TypeOK
    <2>3. pending' \in [id : Ids, cmd : Commands]
      BY <1>2, FreshIdTyped DEF Send, c
    <2> QED BY <2>1, <2>2, <2>3
            DEF IInv, TypeOK, Send, hostVars, boardVars, history
  <1> QED BY <1>7, <1>9, <1>10 DEF IInv, Send, history

\* The I/O thread makes no pulse and sends no test.
LEMMA IoSteps ==
  ASSUME IInv, IoStep
  PROVE  IInv'
  <1>1. UNCHANGED thread /\ CallsOK
    BY DEF IoStep, Open, ProbeOk, ProbeFails, Disconnect, ReadFrame, IInv, CallsOK
  <1>2. CASE Open
    <2> DEFINE m == [id |-> None, cmd |-> "Hello", cfg |-> NoConfig]
    <2>1. m \in Request
      BY DEF Request, AllConfigs
    <2>2. toBoard' = Append(toBoard, m) /\ toBoard \in Seq(Request) /\ m.cmd # "TestOutput"
      BY <1>2 DEF Open, IInv, TypeOK
    <2> HIDE DEF m
    <2>3. Cardinality(OnWire(toBoard')) = Cardinality(OnWire(toBoard))
      BY <2>1, <2>2, Written, OnWireFinite
    <2>4. Budget'
      BY <1>1, <1>2, <2>3 DEF IInv, Budget, Open, boardVars, history
    <2>5. TypeOK'
      <3>1. toBoard' \in Seq(Request)
        BY <2>1, <2>2
      <3>2. io' = "probing" /\ dtr' = TRUE /\ broken' = FALSE
        BY <1>2 DEF Open
      <3>3. UNCHANGED <<intent, hostVars, resync_needed, cmdVars, thread, toHost, boardVars,
                        history, faults>>
        BY <1>2 DEF Open
      <3> QED BY <3>1, <3>2, <3>3
              DEF IInv, TypeOK, hostVars, cmdVars, boardVars, history
    <2> QED BY <1>1, <1>2, <2>4, <2>5 DEF IInv, Open, history
  <1>3. CASE ProbeOk
    <2>1. TypeOK'
      BY <1>1, <1>3 DEF IInv, TypeOK, ProbeOk, hostVars, cmdVars, boardVars, history
    <2> QED BY <1>1, <1>3, <2>1, Preserved DEF ProbeOk, boardVars, history
  <1>4. CASE ProbeFails
    <2>1. TypeOK'
      <3>1. toHost' \in Seq(Answer)
        BY <1>4 DEF ProbeFails
      <3>2. io' = "down" /\ dtr' = FALSE
        BY <1>4 DEF ProbeFails
      <3>3. UNCHANGED <<intent, hostVars, resync_needed, broken, cmdVars, thread, toBoard,
                        boardVars, history, faults>>
        BY <1>4 DEF ProbeFails
      <3> QED BY <3>1, <3>2, <3>3
              DEF IInv, TypeOK, hostVars, cmdVars, boardVars, history
    <2> QED BY <1>1, <1>4, <2>1, Preserved DEF ProbeFails, boardVars, history
  <1>5. CASE Disconnect
    <2>1. TypeOK'
      BY <1>1, <1>5 DEF IInv, TypeOK, Disconnect, hostVars, wireVars, boardVars, history
    <2> QED BY <1>1, <1>5, <2>1, Preserved DEF Disconnect, wireVars, boardVars, history
  <1>6. CASE ReadFrame
    <2>1. toHost \in Seq(Answer) /\ toHost # <<>>
      BY <1>6 DEF IInv, TypeOK, ReadFrame
    <2>2. Head(toHost) \in Answer /\ Tail(toHost) \in Seq(Answer)
      BY <2>1
    <2>3. Head(toHost).status \in Statuses
      BY <2>2 DEF Answer
    <2>4. toHost' \in Seq(Answer)
      BY <1>6, <2>2 DEF ReadFrame
    <2>5. /\ pending' \in {None} \cup [id : Ids, cmd : Commands]
          /\ cmd_status' \in {None} \cup Statuses
      BY <1>6, <2>3 DEF IInv, TypeOK, ReadFrame, cmdVars
    <2>6. TypeOK'
      BY <1>1, <1>6, <2>4, <2>5 DEF IInv, TypeOK, ReadFrame, hostVars, boardVars, history
    <2> QED BY <1>1, <1>6, <2>6, Preserved DEF ReadFrame, boardVars, history
  <1> QED BY <1>2, <1>3, <1>4, <1>5, <1>6 DEF IoStep

\* A call begins with nothing to send yet.
LEMMA BeginIsGood ==
  ASSUME NEW op, NEW at, NEW cfg \in AllConfigs,
         <<op, at>> \in {<<"arm", "desire">>, <<"stop", "desire">>, <<"test", "check">>,
                         <<"resync", "snapshot">>}
  PROVE  /\ [Idle EXCEPT !.op = op, !.at = at, !.cfg = cfg] \in GoodCall
         /\ [Idle EXCEPT !.op = op, !.at = at, !.cfg = cfg].op = op
         /\ [Idle EXCEPT !.op = op, !.at = at, !.cfg = cfg].at = at
  <1> DEFINE h == [Idle EXCEPT !.op = op, !.at = at, !.cfg = cfg]
  <1>1. Idle \in Call /\ Idle.plan = <<>>
    <2>1. Idle.plan = <<>>
      BY DEF Idle
    <2> QED BY <2>1, IdleIsGood DEF GoodCall
  <1>2. \/ op = "arm" /\ at = "desire"
        \/ op = "stop" /\ at = "desire"
        \/ op = "test" /\ at = "check"
        \/ op = "resync" /\ at = "snapshot"
    OBVIOUS
  <1>3. h \in Call
    BY <1>1, <1>2 DEF Call
  <1>4. h.op = op /\ h.at = at /\ h.plan = <<>>
    BY <1>1 DEF Call
  <1>5. <<>> \in Seq(Plain)
    OBVIOUS
  <1> HIDE DEF h
  <1>6. CallOK(h)
    BY <1>2, <1>4, <1>5 DEF CallOK
  <1>7. h \in GoodCall
    BY <1>3, <1>6 DEF GoodCall
  <1> QED BY <1>4, <1>7 DEF h

\* An arm or a stop adds no test; a test adds one to wait and one to the budget.
LEMMA CallSteps ==
  ASSUME IInv, NEW t \in Callers, (\E c \in Configs : CallArm(t, c)) \/ CallStop(t) \/ CallTest(t)
  PROVE  IInv'
  <1>1. t \in Threads
    BY DEF Threads
  <1>2. ASSUME calls < MaxCalls, calls' = calls + 1
        PROVE  calls' \in 0..MaxCalls /\ calls < calls'
    BY <1>2, ControllerAssumption DEF IInv, TypeOK
  <1>3. ASSUME NEW c \in Configs, CallArm(t, c)
        PROVE  IInv'
    <2> DEFINE h == [Idle EXCEPT !.op = "arm", !.at = "desire", !.cfg = c]
    <2>1. h \in GoodCall /\ h.op = "arm"
      BY BeginIsGood DEF AllConfigs
    <2>2. thread' = [thread EXCEPT ![t] = h]
      BY <1>3 DEF CallArm, Begin
    <2> HIDE DEF h
    <2>3. CallsOK
      BY <1>1, <2>1, <2>2, OneChanges
    <2>4. Budget'
      BY <1>3, <2>3, NothingSpent DEF CallsOK, CallArm, wireVars, boardVars
    <2>5. calls' \in 0..MaxCalls /\ calls < calls'
      BY <1>2, <1>3 DEF CallArm, MayCall
    <2>6. TypeOK'
      BY <1>3, <2>3, <2>5, CallsTyped
         DEF IInv, TypeOK, CallArm, Alone, hostVars, cmdVars, wireVars, boardVars
    <2> QED BY <1>3, <2>3, <2>4, <2>5, <2>6 DEF IInv, TypeOK, CallsOK, CallArm
  <1>4. CASE CallStop(t)
    <2> DEFINE h == [Idle EXCEPT !.op = "stop", !.at = "desire", !.cfg = NoConfig]
    <2>1. h \in GoodCall /\ h.op = "stop"
      BY BeginIsGood DEF AllConfigs
    <2>2. thread' = [thread EXCEPT ![t] = h]
      BY <1>4 DEF CallStop, Begin
    <2> HIDE DEF h
    <2>3. CallsOK
      BY <1>1, <2>1, <2>2, OneChanges
    <2>4. Budget'
      BY <1>4, <2>3, NothingSpent DEF CallsOK, CallStop, wireVars, boardVars
    <2>5. calls' \in 0..MaxCalls /\ calls < calls'
      BY <1>2, <1>4 DEF CallStop, MayCall
    <2>6. TypeOK'
      BY <1>4, <2>3, <2>5, CallsTyped
         DEF IInv, TypeOK, CallStop, Alone, hostVars, cmdVars, wireVars, boardVars
    <2> QED BY <1>4, <2>3, <2>4, <2>5, <2>6 DEF IInv, TypeOK, CallsOK, CallStop
  <1>5. CASE CallTest(t)
    <2> DEFINE h == [Idle EXCEPT !.op = "test", !.at = "check", !.cfg = NoConfig]
    <2>1. h \in GoodCall
      BY BeginIsGood DEF AllConfigs
    <2>2. thread' = [thread EXCEPT ![t] = h]
      BY <1>5 DEF CallTest, Begin
    <2> HIDE DEF h
    <2>3. thread' \in [Threads -> GoodCall]
      BY <2>1, <2>2 DEF IInv
    <2>4. Waiting(thread') \in SUBSET (Waiting(thread) \cup {t})
      BY <2>2 DEF Waiting, IInv
    <2>5. calls' \in 0..MaxCalls /\ calls' = calls + 1 /\ tests' = tests + 1
      BY <1>2, <1>5 DEF CallTest, MayCall
    <2>6. Budget'
      <3>1. edges' = edges /\ toBoard' = toBoard
        BY <1>5 DEF CallTest, wireVars, boardVars
      <3>2. /\ IsFiniteSet(Waiting(thread) \cup {t})
            /\ Cardinality(Waiting(thread) \cup {t}) <= Cardinality(Waiting(thread)) + 1
        BY WaitingFinite, FS_AddElement
      <3>3. Cardinality(Waiting(thread')) <= Cardinality(Waiting(thread) \cup {t})
        BY <2>4, <3>2, FS_Subset
      <3>4. /\ Cardinality(OnWire(toBoard)) \in Nat /\ Cardinality(Waiting(thread)) \in Nat
            /\ Cardinality(Waiting(thread')) \in Nat
            /\ Cardinality(Waiting(thread) \cup {t}) \in Nat
        BY <3>2, OnWireFinite, WaitingFinite, FS_CardinalityType DEF IInv, TypeOK
      <3>5. edges \in Nat /\ tests \in Nat
        BY DEF IInv, TypeOK
      <3> QED BY <2>5, <3>1, <3>2, <3>3, <3>4, <3>5 DEF IInv, Budget
    <2>7. tests' <= calls' /\ tests' \in 0..MaxCalls
      BY <2>5, ControllerAssumption DEF IInv, TypeOK
    <2>8. thread' \in [Threads -> Call]
      BY <2>3 DEF GoodCall
    <2>9. TypeOK'
      BY <1>5, <2>5, <2>7, <2>8
         DEF IInv, TypeOK, CallTest, Alone, hostVars, cmdVars, wireVars, boardVars
    <2> QED BY <2>3, <2>6, <2>7, <2>9 DEF IInv
  <1> QED BY <1>3, <1>4, <1>5

\* The resync thread sends what it has read.
LEMMA SnapshotTyped ==
  ASSUME NEW h \in Call, NEW c \in AllConfigs, NEW p \in Seq(Commands), NEW n \in 0..2
  PROVE  [h EXCEPT !.at = "send", !.cfg = c, !.tries = n, !.plan = p] \in Call
  BY DEF Call

LEMMA ResyncSteps ==
  ASSUME IInv, ResyncWake \/ ResyncSnapshot
  PROVE  IInv'
  <1>1. Resync \in Threads
    BY DEF Threads
  <1>2. CASE ResyncWake
    <2> DEFINE h == [Idle EXCEPT !.op = "resync", !.at = "snapshot", !.cfg = NoConfig]
    <2>1. h \in GoodCall /\ h.op = "resync"
      BY BeginIsGood DEF AllConfigs
    <2>2. thread' = [thread EXCEPT ![Resync] = h]
      BY <1>2 DEF ResyncWake, Begin
    <2> HIDE DEF h
    <2>3. CallsOK
      BY <1>1, <2>1, <2>2, OneChanges
    <2>4. TypeOK'
      BY <1>2, <2>3, CallsTyped
         DEF IInv, TypeOK, ResyncWake, Alone, hostVars, cmdVars, wireVars, boardVars
    <2> QED BY <1>2, <2>3, <2>4, Preserved DEF ResyncWake, wireVars, boardVars
  <1>3. CASE ResyncSnapshot
    <2> DEFINE p == Plan("resync", want)
               g == [thread[Resync] EXCEPT !.at = "send", !.cfg = desired, !.tries = 2,
                                           !.plan = p]
               h == IF desired = NoConfig \/ io # "up" THEN Idle ELSE g
    <2>1. thread' = [thread EXCEPT ![Resync] = h]
      BY <1>1, <1>3 DEF ResyncSnapshot, IInv
    <2>2. thread[Resync] \in Call /\ CallOK(thread[Resync]) /\ thread[Resync].op = "resync"
      BY <1>1, <1>3, CallFacts DEF ResyncSnapshot, GoodCall, CallOK
    <2>3. want \in BOOLEAN /\ desired \in AllConfigs
      BY DEF IInv, TypeOK
    <2>4. p \in Seq(Commands) /\ p # <<>> /\ p \in Seq(Plain)
      BY <2>3, PlanIsGood
    <2> HIDE DEF p
    <2>5. g \in Call
      <3>1. 2 \in 0..2
        OBVIOUS
      <3> QED BY <2>2, <2>3, <2>4, <3>1, SnapshotTyped, Zenon
    <2>6. CallOK(g) /\ g.op = "resync"
      BY <2>2, <2>4 DEF CallOK, Call
    <2>7. Idle.op # "test"
      BY DEF Idle
    <2> HIDE DEF g
    <2>8. h \in GoodCall /\ h.op # "test"
      BY <2>5, <2>6, <2>7, IdleIsGood DEF GoodCall
    <2> HIDE DEF h
    <2>9. CallsOK
      BY <1>1, <2>1, <2>8, OneChanges
    <2>10. TypeOK'
      BY <1>3, <2>9, CallsTyped
         DEF IInv, TypeOK, ResyncSnapshot, hostVars, cmdVars, wireVars, boardVars, history
    <2> QED BY <1>3, <2>9, <2>10, Preserved DEF ResyncSnapshot, wireVars, boardVars, history
  <1> QED BY <1>2, <1>3

LEMMA PollStep ==
  ASSUME IInv, PollDtr
  PROVE  IInv'
  <1>1. UNCHANGED thread /\ CallsOK
    BY DEF PollDtr, IInv, CallsOK
  <1>2. TypeOK'
    BY <1>1 DEF IInv, TypeOK, PollDtr, hostVars, cmdVars, wireVars, history
  <1> QED BY <1>1, <1>2, Preserved DEF PollDtr, wireVars, history

\* The board makes a pulse for a test only, and takes its frame from the wire.
LEMMA HandleStep ==
  ASSUME IInv, NEW sent \in BOOLEAN, HandleCommand(sent)
  PROVE  IInv'
  <1> DEFINE m == Head(toBoard)
  <1>1. toBoard \in Seq(Request) /\ toBoard # <<>> /\ toBoard' = Tail(toBoard)
    BY DEF HandleCommand, IInv, TypeOK
  <1>2. m \in Request /\ toBoard' \in Seq(Request)
    BY <1>1
  <1>3. Execute(m)
    BY DEF HandleCommand
  <1>4. m.id \in Ids \cup {None} /\ m.cmd \in Commands \cup {"Hello"} /\ m.cfg \in AllConfigs
    BY <1>2 DEF Request
  <1> HIDE DEF m
  <1>5. /\ groups' \in AllConfigs /\ armed' \in BOOLEAN
        /\ \/ edges' = edges
           \/ m.cmd = "TestOutput" /\ edges' = edges + 1
    <2>1. groups \in AllConfigs /\ armed \in BOOLEAN
      BY DEF IInv, TypeOK
    <2>2. CASE m.cmd = "SetConfig"
      BY <1>3, <1>4, <2>1, <2>2 DEF Execute
    <2>3. CASE m.cmd = "Arm"
      BY <1>3, <2>1, <2>3 DEF Execute
    <2>4. CASE m.cmd = "Stop"
      BY <1>3, <2>1, <2>4 DEF Execute
    <2>5. CASE m.cmd = "TestOutput"
      BY <1>3, <2>1, <2>5 DEF Execute
    <2>6. CASE m.cmd = "Hello"
      BY <1>3, <2>1, <2>6 DEF Execute
    <2> QED BY <1>4, <2>2, <2>3, <2>4, <2>5, <2>6 DEF Commands
  <1>6. CallsOK
    <2>1. ASSUME NEW t \in Threads
          PROVE  /\ thread'[t] \in GoodCall
                 /\ thread'[t].op = thread[t].op /\ thread'[t].at = thread[t].at
      <3>1. thread[t] \in Call /\ CallOK(thread[t])
        BY CallFacts DEF GoodCall
      <3>2. thread'[t] = thread[t] \/ thread'[t] = [thread[t] EXCEPT !.acked = TRUE]
        BY DEF HandleCommand
      <3>3. thread'[t] \in Call
        BY <3>1, <3>2 DEF Call
      <3>4. /\ thread'[t].op = thread[t].op /\ thread'[t].at = thread[t].at
            /\ thread'[t].plan = thread[t].plan /\ thread'[t].tries = thread[t].tries
        BY <3>1, <3>2 DEF Call
      <3>5. CallOK(thread'[t])
        BY <3>1, <3>4 DEF CallOK
      <3> QED BY <3>3, <3>4, <3>5 DEF GoodCall
    <2>2. thread' = [t \in Threads |-> thread'[t]]
      BY DEF HandleCommand
    <2>3. Waiting(thread') \subseteq Waiting(thread)
      BY <2>1 DEF Waiting
    <2>4. thread' \in [Threads -> GoodCall]
      BY <2>1, <2>2
    <2> QED BY <2>3, <2>4 DEF CallsOK
  <1>7. tests' = tests /\ calls' = calls
    BY DEF HandleCommand, history
  <1>8. Budget'
    <2>1. Cardinality(OnWire(toBoard))
            = Cardinality(OnWire(toBoard')) + (IF m.cmd = "TestOutput" THEN 1 ELSE 0)
      BY <1>1, Handled DEF m
    <2>2. Cardinality(Waiting(thread')) <= Cardinality(Waiting(thread))
      BY <1>6, WaitingFinite, FS_Subset DEF CallsOK
    <2>3. /\ Cardinality(OnWire(toBoard)) \in Nat /\ Cardinality(OnWire(toBoard')) \in Nat
          /\ Cardinality(Waiting(thread)) \in Nat /\ Cardinality(Waiting(thread')) \in Nat
      BY <1>1, <1>2, OnWireFinite, WaitingFinite
    <2>4. edges \in Nat /\ tests \in Nat
      BY DEF IInv, TypeOK
    <2> QED BY <1>5, <1>7, <2>1, <2>2, <2>3, <2>4 DEF IInv, Budget
  <1>9. edges' \in 0..MaxCalls
    <2>1. /\ Cardinality(OnWire(toBoard')) \in Nat /\ Cardinality(Waiting(thread')) \in Nat
      BY <1>2, OnWireFinite, WaitingFinite
    <2>2. edges' \in Nat /\ tests' \in 0..MaxCalls
      BY <1>5, <1>7 DEF IInv, TypeOK
    <2> QED BY <1>8, <2>1, <2>2, ControllerAssumption DEF Budget
  <1>10. toHost' \in Seq(Answer) /\ faults' \in 0..MaxFaults
    <2>1. toHost \in Seq(Answer) /\ faults \in 0..MaxFaults
      BY DEF IInv, TypeOK
    <2>2. CASE sent
      <3> DEFINE a == [id |-> m.id, cmd |-> m.cmd, status |-> StatusOf(m)]
      <3>1. toHost' = Append(toHost, a) /\ UNCHANGED faults
        BY <2>2 DEF HandleCommand, m
      <3>2. StatusOf(m) \in Statuses
        BY DEF StatusOf, Statuses
      <3>3. a \in Answer
        BY <1>4, <3>2 DEF Answer
      <3> HIDE DEF a
      <3> QED BY <2>1, <3>1, <3>3
    <2>3. CASE ~sent
      <3>1. (IF dtr THEN Fault ELSE UNCHANGED faults) /\ UNCHANGED toHost
        BY <2>3 DEF HandleCommand
      <3> QED BY <2>1, <3>1, ControllerAssumption DEF Fault
    <2> QED BY <2>2, <2>3
  <1>11. UNCHANGED <<intent, hostVars, resync_needed, io, broken, cmdVars, dtr, usb_seen,
                     history>>
    BY DEF HandleCommand
  <1>12. TypeOK'
    BY <1>2, <1>5, <1>6, <1>9, <1>10, <1>11, CallsTyped
       DEF IInv, TypeOK, hostVars, cmdVars, history
  <1> QED BY <1>6, <1>7, <1>8, <1>12 DEF IInv, CallsOK

\* A fault loses frames, never adds one.
LEMMA FaultSteps ==
  ASSUME IInv, Unplug \/ Reset
  PROVE  IInv'
  <1>1. UNCHANGED thread /\ CallsOK
    BY DEF Unplug, Reset, IInv, CallsOK
  <1>2. UNCHANGED <<edges, tests, calls>> /\ faults' \in 0..MaxFaults
    BY ControllerAssumption DEF Unplug, Reset, Fault, IInv, TypeOK, boardVars, history
  <1>3. toHost' \in Seq(Answer)
    <2>1. toHost' = <<>>
      BY DEF Unplug, Reset
    <2> QED BY <2>1
  <1>4. /\ toBoard' \in Seq(Request)
        /\ Cardinality(OnWire(toBoard')) <= Cardinality(OnWire(toBoard))
    <2>1. toBoard \in Seq(Request) /\ Cardinality(OnWire(toBoard)) \in Nat
      BY OnWireFinite DEF IInv, TypeOK
    <2>2. CASE Unplug
      <3>1. PICK n \in 0..Len(toBoard) : toBoard' = SubSeq(toBoard, 1, n)
        BY <2>2 DEF Unplug
      <3> QED BY <2>1, <3>1, Lost
    <2>3. CASE Reset
      <3>1. toBoard' = <<>>
        BY <2>3 DEF Reset
      <3> QED BY <2>1, <3>1, Empty
    <2> QED BY <2>2, <2>3
  <1>5. Budget'
    <2>1. /\ edges \in Nat /\ tests \in Nat /\ Cardinality(OnWire(toBoard)) \in Nat
          /\ Cardinality(OnWire(toBoard')) \in Nat /\ Cardinality(Waiting(thread)) \in Nat
      BY <1>4, OnWireFinite, WaitingFinite DEF IInv, TypeOK
    <2> QED BY <1>1, <1>2, <1>4, <2>1 DEF IInv, Budget
  <1>6. TypeOK'
    <2>1. CASE Unplug
      BY <1>1, <1>2, <1>3, <1>4, <2>1
         DEF IInv, TypeOK, Unplug, hostVars, cmdVars, boardVars, history
    <2>2. CASE Reset
      BY <1>1, <1>2, <1>3, <1>4, <2>2, ZenonT(60)
         DEF IInv, TypeOK, Reset, AllConfigs, hostVars, cmdVars, history
    <2> QED BY <2>1, <2>2
  <1> QED BY <1>1, <1>2, <1>5, <1>6 DEF IInv, CallsOK

-----------------------------------------------------------------------------
(* The theorems.                                                            *)

LEMMA InitInv == Init => IInv
  <1> SUFFICES ASSUME Init PROVE IInv
    OBVIOUS
  <1>1. thread \in [Threads -> GoodCall]
    BY IdleIsGood DEF Init
  <1>2. thread \in [Threads -> Call]
    BY <1>1 DEF GoodCall
  <1>3. Waiting(thread) = {}
    BY DEF Init, Waiting, Idle
  <1>4. Budget
    BY <1>3, Empty, FS_EmptySet DEF Init, Budget
  <1>5. toBoard \in Seq(Request) /\ toHost \in Seq(Answer)
    BY DEF Init
  <1>6. /\ edges \in 0..MaxCalls /\ tests \in 0..MaxCalls /\ calls \in 0..MaxCalls
        /\ faults \in 0..MaxFaults
    BY ControllerAssumption DEF Init
  <1>7. /\ intent \in BOOLEAN /\ want \in BOOLEAN /\ resync_needed \in BOOLEAN
        /\ desired \in AllConfigs /\ slot_pins \in AllConfigs
    BY DEF Init, AllConfigs
  <1>8. /\ io \in {"down", "probing", "up"} /\ broken \in BOOLEAN
        /\ pending = None /\ cmd_status = None
        /\ dtr \in BOOLEAN /\ usb_seen \in BOOLEAN
        /\ groups \in AllConfigs /\ armed \in BOOLEAN /\ raced \in BOOLEAN
    BY DEF Init, AllConfigs
  <1>9. TypeOK
    BY <1>2, <1>5, <1>6, <1>7, <1>8 DEF TypeOK
  <1> QED BY <1>1, <1>4, <1>9 DEF Init, IInv

LEMMA NextInv == IInv /\ [Next]_vars => IInv'
  <1> SUFFICES ASSUME IInv, [Next]_vars PROVE IInv'
    OBVIOUS
  <1>1. CASE UNCHANGED vars
    BY <1>1 DEF vars, hostVars, cmdVars, wireVars, boardVars, history, IInv, TypeOK, Budget
  <1>2. CASE \E t \in Callers : (\E c \in Configs : CallArm(t, c)) \/ CallStop(t) \/ CallTest(t)
    BY <1>2, CallSteps
  <1>3. ASSUME NEW t \in Threads, CallStep(t)
        PROVE  IInv'
    BY <1>3, DesiredStep, StartSteps, EndSteps, SendStep DEF CallStep
  <1>4. CASE ResyncWake \/ ResyncSnapshot
    BY <1>4, ResyncSteps
  <1>5. CASE IoStep
    BY <1>5, IoSteps
  <1>6. CASE BoardStep \/ HandleCommand(FALSE)
    BY <1>6, PollStep, HandleStep DEF BoardStep
  <1>7. CASE Unplug \/ Reset
    BY <1>7, FaultSteps
  <1>8. CASE Rest
    BY <1>1, <1>8 DEF Rest
  <1> QED BY <1>1, <1>2, <1>3, <1>4, <1>5, <1>6, <1>7, <1>8 DEF Next

\* IInv is inductive.
THEOREM ControllerInductive == Spec => []IInv
  BY InitInv, NextInv, PTL DEF Spec

\* A retried command, a lost or late ACK, a reconnect or a reset never makes a
\* camera take two pictures for one test-output call.
THEOREM OnePulsePerTest == Spec => []TestPulsesOnce
  <1>1. IInv => TestPulsesOnce
    <2> SUFFICES ASSUME IInv PROVE TestPulsesOnce
      OBVIOUS
    <2>1. /\ Cardinality(OnWire(toBoard)) \in Nat /\ Cardinality(Waiting(thread)) \in Nat
          /\ edges \in Nat /\ tests \in Nat
      BY OnWireFinite, WaitingFinite DEF IInv, TypeOK
    <2> QED BY <2>1 DEF IInv, Budget, TestPulsesOnce
  <1> QED BY <1>1, ControllerInductive, PTL

\* Commands, statuses, frames and calls keep their types.
THEOREM ControllerTypeCorrect == Spec => []TypeOK
  <1>1. IInv => TypeOK
    BY DEF IInv
  <1> QED BY <1>1, ControllerInductive, PTL

-----------------------------------------------------------------------------
(***************************************************************************)
(* Lost and late acknowledgements, early timeouts, unplugs and resets      *)
(* leave the board as the operator asked once the retries have settled, if *)
(* no two calls overlapped: for any number of calls, threads, request ids, *)
(* configurations and faults.  What is on the wire carries the proof: who  *)
(* acknowledged what does not matter, only which command the board will    *)
(* handle last.  A call reports success only for a command the board       *)
(* acknowledged, while request ids are not used up.                        *)
(***************************************************************************)

(* What the frames on the wire will do to the board.                        *)

\* No command of kinds comes after the i-th frame of s.
NoneAfter(s, i, kinds) == \A j \in 1..Len(s) : j > i => s[j].cmd \notin kinds

\* Something holds once the board has handled s: it holds now, or a frame of made
\* makes it true, and no command of undone comes later.
Ends(s, now, made, undone) ==
    \/ now /\ NoneAfter(s, 0, undone)
    \/ \E i \in 1..Len(s) : s[i] \in made /\ NoneAfter(s, i, undone)

Configure(c) == {m \in Request : m.cmd = "SetConfig" /\ m.cfg = c}
Sent(kinds) == {m \in Request : m.cmd \in kinds}
Disarming == {"SetConfig", "Stop"}

\* The board will have the groups c, be armed, be disarmed.
WillHave(s, g, c) == Ends(s, g = c, Configure(c), {"SetConfig"})
WillArm(s, a) == Ends(s, a = TRUE, Sent({"Arm"}), Disarming)
WillDisarm(s, a) == Ends(s, a = FALSE, Sent(Disarming), {"Arm"})

-----------------------------------------------------------------------------
(* What the calls under way have still to do.                               *)

\* The connection is up and no resync is due.
Fine == io = "up" /\ ~broken /\ ~resync_needed

\* The board will end as the operator asked.
OnCourse ==
    IF intent THEN WillHave(toBoard, groups, desired) /\ WillArm(toBoard, armed)
              ELSE WillDisarm(toBoard, armed)

\* The host's own state follows the database.
HostAgrees ==
    /\ want = intent
    /\ intent => slot_pins = desired /\ desired # NoConfig

\* A call with the plan <<"SetConfig", "Arm">>, at any point of it.
Arming(h) ==
    /\ h.cfg = desired
    /\ \/ /\ h.plan = <<"SetConfig", "Arm">>
          /\ h.at = "await" /\ Fine => WillHave(toBoard, groups, desired)
       \/ /\ h.plan = <<"Arm">>
          /\ Fine => WillHave(toBoard, groups, desired)
          /\ h.at = "await" /\ Fine => WillArm(toBoard, armed)

ArmState(h) ==
    /\ intent = TRUE
    /\ h.at \in {"check", "send", "await"} => want = TRUE /\ desired = h.cfg
    /\ h.at \in {"send", "await"} => HostAgrees /\ Arming(h)

\* A stop asks for no resync when it fails: its last attempt must have been written.
StopState(h) ==
    /\ intent = FALSE
    /\ h.at \in {"send", "await"} =>
         /\ want = FALSE
         /\ h.plan = <<"Stop">>
         /\ (h.at = "await" \/ h.tries <= 1) /\ Fine => WillDisarm(toBoard, armed)

ResyncState(h) ==
    /\ HostAgrees
    /\ h.at \in {"send", "await"} =>
         IF intent THEN Arming(h)
         ELSE /\ h.plan = <<"SetConfig">>
              /\ h.at = "await" /\ Fine => WillDisarm(toBoard, armed)

\* Nobody is changing anything: no call, or a test of the outputs.
RestState == HostAgrees /\ (Fine => OnCourse)

BusyState(h) ==
    CASE h.op = "arm" -> ArmState(h)
      [] h.op = "stop" -> StopState(h)
      [] h.op = "resync" -> ResyncState(h)
      [] OTHER -> RestState

\* No two calls overlap, and each state is on its way to the operator's.
Unraced ==
    /\ \A t, u \in Threads : thread[t].op # "idle" /\ thread[u].op # "idle" => t = u
    /\ \A t \in Threads : thread[t].op # "idle" => BusyState(thread[t])
    /\ Alone => RestState

\* Until a configuration was ever asked for, nothing arms the board.
NothingAsked ==
    desired = NoConfig =>
      /\ ~armed
      /\ NoneAfter(toBoard, 0, {"Arm"})
      /\ \A t \in Threads : "Arm" \notin ToSet(thread[t].plan)

\* What a call of a kind goes through; a configuration is desired once an arm has set it.
Shape(t, h) ==
    /\ h.op \in {"idle", "arm", "stop", "test", "resync"}
    /\ h.op = "idle" <=> h.at = "idle"
    /\ h.op = "arm" => /\ h.cfg \in Configs
                       /\ h.at \in {"desire", "check", "send", "await"}
                       /\ h.at # "desire" => desired # NoConfig
    /\ h.op = "stop" => h.at \in {"desire", "send", "await"}
    /\ h.op = "test" /\ h.at \in {"send", "await"} => h.plan = <<"TestOutput">>
    /\ h.op = "resync" => t = Resync /\ h.at \in {"snapshot", "send", "await"}

CallsShaped == \A t \in Threads : Shape(t, thread[t])

\* The inductive invariant.
SInv ==
    /\ CallsShaped
    /\ io # "down" /\ ~broken => dtr
    /\ NothingAsked
    /\ ~raced => Unraced
-----------------------------------------------------------------------------
(* Facts about the wire.                                                    *)

\* Writing a frame: it may make the fact true, and else must not undo it.
LEMMA EndsWritten ==
  ASSUME NEW s \in Seq(Request), NEW m \in Request, NEW now, NEW made, NEW undone,
         m \in made \/ (m.cmd \notin undone /\ Ends(s, now, made, undone))
  PROVE  Ends(Append(s, m), now, made, undone)
  <1> DEFINE r == Append(s, m)
  <1>1. /\ Len(s) \in Nat /\ Len(r) = Len(s) + 1 /\ r[Len(s) + 1] = m
        /\ \A i \in 1..Len(s) : r[i] = s[i]
    OBVIOUS
  <1> HIDE DEF r
  <1>2. CASE m \in made
    <2>1. NoneAfter(r, Len(s) + 1, undone)
      BY <1>1 DEF NoneAfter
    <2> QED BY <1>1, <1>2, <2>1 DEF Ends, r
  <1>3. CASE m.cmd \notin undone /\ Ends(s, now, made, undone)
    <2>1. ASSUME NEW i \in 0..Len(s), NoneAfter(s, i, undone)
          PROVE  NoneAfter(r, i, undone)
      <3>1. SUFFICES ASSUME NEW j \in 1..Len(r), j > i
                     PROVE  r[j].cmd \notin undone
        BY DEF NoneAfter
      <3>2. CASE j = Len(s) + 1
        BY <1>1, <1>3, <3>2
      <3>3. CASE j # Len(s) + 1
        <4>1. j \in 1..Len(s)
          BY <1>1, <3>1, <3>3
        <4> QED BY <1>1, <2>1, <3>1, <4>1 DEF NoneAfter
      <3> QED BY <3>2, <3>3
    <2>2. CASE now /\ NoneAfter(s, 0, undone)
      BY <1>1, <2>1, <2>2 DEF Ends, r
    <2>3. CASE \E i \in 1..Len(s) : s[i] \in made /\ NoneAfter(s, i, undone)
      <3>1. PICK i \in 1..Len(s) : s[i] \in made /\ NoneAfter(s, i, undone)
        BY <2>3
      <3>2. i \in 0..Len(s) /\ i \in 1..Len(r) /\ r[i] \in made
        BY <1>1, <3>1
      <3>3. NoneAfter(r, i, undone)
        BY <2>1, <3>1, <3>2
      <3> QED BY <3>2, <3>3 DEF Ends, r
    <2> QED BY <1>3, <2>2, <2>3 DEF Ends
  <1> QED BY <1>2, <1>3

\* The board handles the next frame: what it makes true must hold afterwards.
LEMMA EndsHandled ==
  ASSUME NEW s \in Seq(Request), s # <<>>, NEW now, NEW after, NEW made, NEW undone,
         Ends(s, now, made, undone),
         now /\ NoneAfter(s, 0, undone) => after,
         Head(s) \in made /\ NoneAfter(s, 1, undone) => after
  PROVE  Ends(Tail(s), after, made, undone)
  <1> DEFINE r == Tail(s)
  <1>1. /\ Len(s) \in Nat \ {0} /\ Len(r) = Len(s) - 1 /\ Head(s) = s[1]
        /\ \A i \in 1..Len(r) : r[i] = s[i + 1]
    OBVIOUS
  <1> HIDE DEF r
  <1>2. ASSUME NEW i \in 1..Len(s), NoneAfter(s, i, undone)
        PROVE  NoneAfter(r, i - 1, undone)
    <2>1. SUFFICES ASSUME NEW j \in 1..Len(r), j > i - 1
                   PROVE  r[j].cmd \notin undone
      BY DEF NoneAfter
    <2>2. j + 1 \in 1..Len(s) /\ j + 1 > i /\ r[j] = s[j + 1]
      BY <1>1, <2>1
    <2> QED BY <1>2, <2>2 DEF NoneAfter
  <1>3. CASE now /\ NoneAfter(s, 0, undone)
    <2>1. NoneAfter(s, 1, undone) /\ 1 \in 1..Len(s) /\ s[1].cmd \notin undone
      BY <1>1, <1>3 DEF NoneAfter
    <2>2. NoneAfter(r, 1 - 1, undone)
      BY <1>2, <2>1
    <2> QED BY <1>1, <1>3, <2>1, <2>2 DEF Ends, r
  <1>4. CASE \E i \in 1..Len(s) : s[i] \in made /\ NoneAfter(s, i, undone)
    <2>1. PICK i \in 1..Len(s) : s[i] \in made /\ NoneAfter(s, i, undone)
      BY <1>4
    <2>2. NoneAfter(r, i - 1, undone)
      BY <1>2, <2>1
    <2>3. CASE i = 1
      BY <1>1, <2>1, <2>2, <2>3 DEF Ends, r
    <2>4. CASE i # 1
      <3>1. i - 1 \in 1..Len(r) /\ r[i - 1] = s[i]
        BY <1>1, <2>4
      <3> QED BY <2>1, <2>2, <3>1 DEF Ends, r
    <2> QED BY <2>3, <2>4
  <1> QED BY <1>3, <1>4 DEF Ends

\* With nothing on the wire it holds now.
LEMMA EndsNow ==
  ASSUME NEW now \in BOOLEAN, NEW made, NEW undone, Ends(<<>>, now, made, undone)
  PROVE  now
  BY DEF Ends

\* What the board has after the frame m.
GroupsAfter(m, g) == IF m.cmd = "SetConfig" THEN m.cfg ELSE g
ArmedAfter(m, g, a) == IF m.cmd \in Disarming THEN FALSE
                       ELSE IF m.cmd = "Arm" THEN g # NoConfig ELSE a

LEMMA HaveHandled ==
  ASSUME NEW s \in Seq(Request), s # <<>>, NEW g, NEW c, WillHave(s, g, c)
  PROVE  WillHave(Tail(s), GroupsAfter(Head(s), g), c)
  <1>1. Head(s) \in Request
    OBVIOUS
  <1>2. g = c /\ NoneAfter(s, 0, {"SetConfig"}) => GroupsAfter(Head(s), g) = c
    BY <1>1 DEF GroupsAfter, NoneAfter
  <1>3. Head(s) \in Configure(c) => GroupsAfter(Head(s), g) = c
    BY DEF GroupsAfter, Configure
  <1> QED BY <1>2, <1>3, EndsHandled DEF WillHave

LEMMA ArmHandled ==
  ASSUME NEW s \in Seq(Request), s # <<>>, NEW g, NEW c, c # NoConfig, NEW a \in BOOLEAN,
         WillHave(s, g, c), WillArm(s, a)
  PROVE  WillArm(Tail(s), ArmedAfter(Head(s), g, a))
  <1> DEFINE b == ArmedAfter(Head(s), g, a)
  <1>1. Head(s) \in Request /\ Head(s) = s[1] /\ Len(s) \in Nat \ {0}
    OBVIOUS
  <1>2. \A i \in {0, 1} : NoneAfter(s, i, Disarming) /\ (i = 1 => s[1].cmd = "Arm") => g = c
    <2> SUFFICES ASSUME NEW i \in {0, 1}, NoneAfter(s, i, Disarming),
                        i = 1 => s[1].cmd = "Arm"
                 PROVE  g = c
      OBVIOUS
    <2>1. \A j \in 1..Len(s) : s[j].cmd # "SetConfig"
      BY <1>1 DEF NoneAfter, Disarming
    <2> QED BY <2>1 DEF WillHave, Ends, Configure
  <1>3. a = TRUE /\ NoneAfter(s, 0, Disarming) => b = TRUE
    <2> SUFFICES ASSUME a = TRUE, NoneAfter(s, 0, Disarming) PROVE b = TRUE
      OBVIOUS
    <2>1. g = c /\ Head(s).cmd \notin Disarming
      BY <1>1, <1>2 DEF NoneAfter
    <2> QED BY <2>1 DEF ArmedAfter
  <1>4. Head(s) \in Sent({"Arm"}) /\ NoneAfter(s, 1, Disarming) => b = TRUE
    <2> SUFFICES ASSUME Head(s) \in Sent({"Arm"}), NoneAfter(s, 1, Disarming)
                 PROVE  b = TRUE
      OBVIOUS
    <2>1. g = c /\ Head(s).cmd = "Arm"
      BY <1>1, <1>2 DEF Sent
    <2> QED BY <2>1 DEF ArmedAfter, Disarming
  <1> HIDE DEF b
  <1>5. Ends(s, a = TRUE, Sent({"Arm"}), Disarming)
    BY DEF WillArm
  <1>6. Ends(Tail(s), b = TRUE, Sent({"Arm"}), Disarming)
    BY <1>3, <1>4, <1>5, EndsHandled
  <1> QED BY <1>6 DEF WillArm, b

LEMMA DisarmHandled ==
  ASSUME NEW s \in Seq(Request), s # <<>>, NEW g, NEW a \in BOOLEAN, WillDisarm(s, a)
  PROVE  WillDisarm(Tail(s), ArmedAfter(Head(s), g, a))
  <1> DEFINE b == ArmedAfter(Head(s), g, a)
  <1>1. Head(s) \in Request /\ Head(s) = s[1] /\ Len(s) \in Nat \ {0}
    OBVIOUS
  <1>2. a = FALSE /\ NoneAfter(s, 0, {"Arm"}) => b = FALSE
    <2> SUFFICES ASSUME a = FALSE, NoneAfter(s, 0, {"Arm"}) PROVE b = FALSE
      OBVIOUS
    <2>1. Head(s).cmd # "Arm"
      BY <1>1 DEF NoneAfter
    <2> QED BY <2>1 DEF ArmedAfter
  <1>3. Head(s) \in Sent(Disarming) /\ NoneAfter(s, 1, {"Arm"}) => b = FALSE
    BY DEF ArmedAfter, Sent
  <1> HIDE DEF b
  <1>4. Ends(s, a = FALSE, Sent(Disarming), {"Arm"})
    BY DEF WillDisarm
  <1>5. Ends(Tail(s), b = FALSE, Sent(Disarming), {"Arm"})
    BY <1>2, <1>3, <1>4, EndsHandled
  <1> QED BY <1>5 DEF WillDisarm, b

\* A frame that is not one of kinds joins the wire; frames that leave it add none.
LEMMA NoneWritten ==
  ASSUME NEW s \in Seq(Request), NEW m \in Request, NEW kinds, m.cmd \notin kinds,
         NoneAfter(s, 0, kinds)
  PROVE  NoneAfter(Append(s, m), 0, kinds)
  BY DEF NoneAfter

LEMMA NoneHandled ==
  ASSUME NEW s \in Seq(Request), s # <<>>, NEW kinds, NoneAfter(s, 0, kinds)
  PROVE  NoneAfter(Tail(s), 0, kinds) /\ Head(s).cmd \notin kinds
  BY DEF NoneAfter

LEMMA NoneLost ==
  ASSUME NEW s \in Seq(Request), NEW n \in 0..Len(s), NEW kinds, NoneAfter(s, 0, kinds)
  PROVE  NoneAfter(SubSeq(s, 1, n), 0, kinds)
  BY DEF NoneAfter
-----------------------------------------------------------------------------
(* Steps that leave the calls where they are: the I/O thread, the board and *)
(* the faults.                                                              *)

\* The same call at the same point; only its acknowledgement may have arrived.
Same(h, k) == /\ k.op = h.op /\ k.at = h.at /\ k.cfg = h.cfg /\ k.plan = h.plan
              /\ k.tries = h.tries

CallsSame == \A t \in Threads : Same(thread[t], thread'[t])

\* What the board was going to do, it is still going to do.
WireKept ==
    /\ \A c \in AllConfigs : WillHave(toBoard, groups, c) => WillHave(toBoard, groups, c)'
    /\ \A c \in Configs : /\ WillHave(toBoard, groups, c) /\ WillArm(toBoard, armed)
                          => WillArm(toBoard, armed)'
    /\ WillDisarm(toBoard, armed) => WillDisarm(toBoard, armed)'

LEMMA Undisturbed ==
  ASSUME IInv, ~raced => Unraced, CallsSame,
         UNCHANGED <<intent, desired, want, slot_pins, raced>>, Fine' => Fine /\ WireKept
  PROVE  ~raced' => Unraced'
  <1> SUFFICES ASSUME ~raced, Unraced PROVE Unraced'
    OBVIOUS
  <1>1. \A t \in Threads : /\ thread'[t].op = thread[t].op /\ thread'[t].at = thread[t].at
                           /\ thread'[t].cfg = thread[t].cfg /\ thread'[t].plan = thread[t].plan
                           /\ thread'[t].tries = thread[t].tries
    BY DEF CallsSame, Same
  <1>2. desired \in AllConfigs /\ (desired # NoConfig => desired \in Configs)
    BY DEF IInv, TypeOK, AllConfigs
  <1>3. HostAgrees' <=> HostAgrees
    BY DEF HostAgrees
  <1>4. HostAgrees /\ (Fine => OnCourse) => (Fine' => OnCourse')
    <2> SUFFICES ASSUME HostAgrees, Fine => OnCourse, Fine' PROVE OnCourse'
      OBVIOUS
    <2>1. CASE intent
      BY <1>2, <2>1 DEF OnCourse, HostAgrees, WireKept
    <2>2. CASE ~intent
      BY <2>2 DEF OnCourse, WireKept
    <2> QED BY <2>1, <2>2
  <1>5. RestState => RestState'
    BY <1>3, <1>4 DEF RestState
  <1>6. ASSUME NEW t \in Threads, HostAgrees, intent, Arming(thread[t])
        PROVE  Arming(thread[t])'
    BY <1>1, <1>2, <1>6 DEF Arming, HostAgrees, WireKept
  <1>7. ASSUME NEW t \in Threads, thread[t].op # "idle"
        PROVE  BusyState(thread[t])'
    <2>1. BusyState(thread[t])
      BY <1>7 DEF Unraced
    <2>2. CASE thread[t].op = "arm"
      <3>1. ArmState(thread[t])
        BY <2>1, <2>2 DEF BusyState
      <3>2. ArmState(thread[t])'
        BY <1>1, <1>3, <1>6, <3>1 DEF ArmState
      <3> QED BY <1>1, <2>2, <3>2 DEF BusyState
    <2>3. CASE thread[t].op = "stop"
      <3>1. StopState(thread[t])
        BY <2>1, <2>3 DEF BusyState
      <3>2. StopState(thread[t])'
        BY <1>1, <3>1 DEF StopState, WireKept
      <3> QED BY <1>1, <2>3, <3>2 DEF BusyState
    <2>4. CASE thread[t].op = "resync"
      <3>1. ResyncState(thread[t])
        BY <2>1, <2>4 DEF BusyState
      <3>2. ResyncState(thread[t])'
        BY <1>1, <1>3, <1>6, <3>1 DEF ResyncState, WireKept
      <3> QED BY <1>1, <2>4, <3>2 DEF BusyState
    <2>5. CASE thread[t].op \notin {"arm", "stop", "resync"}
      BY <1>1, <1>5, <2>1, <2>5 DEF BusyState
    <2> QED BY <2>2, <2>3, <2>4, <2>5
  <1>8. Alone' <=> Alone
    BY <1>1 DEF Alone
  <1> QED BY <1>1, <1>5, <1>7, <1>8 DEF Unraced

LEMMA ShapesKept ==
  ASSUME CallsShaped, CallsSame, desired' = desired
  PROVE  CallsShaped'
  BY DEF CallsShaped, CallsSame, Same, Shape

\* A step of the I/O thread or a fault: nobody's call moves, and the connection is
\* lost, or comes up with a resync due, or nothing happens to the board.
LEMMA IoKeeps ==
  ASSUME IInv, SInv, IoStep
  PROVE  SInv'
  <1>1. CallsSame /\ UNCHANGED <<intent, desired, want, slot_pins, raced, groups, armed>>
    BY DEF IoStep, Open, ProbeOk, ProbeFails, Disconnect, ReadFrame, CallsSame, Same,
           hostVars, boardVars, history
  <1>2. CallsShaped'
    BY <1>1, ShapesKept DEF SInv
  <1>3. (io # "down" /\ ~broken => dtr)'
    BY DEF IoStep, Open, ProbeOk, ProbeFails, Disconnect, ReadFrame, SInv, hostVars,
           boardVars, history, cmdVars, wireVars
  <1>4. toBoard \in Seq(Request) /\ [id |-> None, cmd |-> "Hello", cfg |-> NoConfig] \in Request
    BY DEF IInv, TypeOK, Request, AllConfigs
  <1>5. NoneAfter(toBoard, 0, {"Arm"}) => NoneAfter(toBoard', 0, {"Arm"})
    <2>1. CASE toBoard' = toBoard
      BY <2>1
    <2>2. CASE Open
      BY <1>4, <2>2, NoneWritten DEF Open
    <2> QED BY <2>1, <2>2 DEF IoStep, ProbeOk, ProbeFails, Disconnect, ReadFrame, wireVars
  <1>6. NothingAsked'
    BY <1>1, <1>5 DEF SInv, NothingAsked, CallsSame, Same
  <1>7. Fine' => Fine /\ UNCHANGED toBoard
    BY DEF Fine, IoStep, Open, ProbeOk, ProbeFails, Disconnect, ReadFrame
  <1>8. Fine' => Fine /\ WireKept
    BY <1>1, <1>7 DEF WireKept, WillHave, WillArm, WillDisarm
  <1>9. ~raced' => Unraced'
    BY <1>1, <1>8, Undisturbed DEF SInv
  <1> QED BY <1>2, <1>3, <1>6, <1>9 DEF SInv

LEMMA FaultKeeps ==
  ASSUME IInv, SInv, Unplug \/ Reset
  PROVE  SInv'
  <1>1. CallsSame /\ UNCHANGED <<intent, desired, want, slot_pins, raced>>
    BY DEF Unplug, Reset, CallsSame, Same, hostVars, history
  <1>2. CallsShaped'
    BY <1>1, ShapesKept DEF SInv
  <1>3. (io # "down" /\ ~broken => dtr)'
    BY DEF Unplug, Reset
  <1>4. NoneAfter(toBoard, 0, {"Arm"}) => NoneAfter(toBoard', 0, {"Arm"})
    <2>1. CASE Unplug
      <3>1. PICK n \in 0..Len(toBoard) : toBoard' = SubSeq(toBoard, 1, n)
        BY <2>1 DEF Unplug
      <3> QED BY <3>1, NoneLost DEF IInv, TypeOK
    <2>2. CASE Reset
      BY <2>2 DEF Reset, NoneAfter
    <2> QED BY <2>1, <2>2
  <1>5. armed' => armed
    BY DEF Unplug, Reset, boardVars
  <1>6. NothingAsked'
    BY <1>1, <1>4, <1>5 DEF SInv, NothingAsked, CallsSame, Same
  <1>7. ~Fine'
    BY DEF Fine, Unplug, Reset
  <1>8. ~raced' => Unraced'
    BY <1>1, <1>7, Undisturbed DEF SInv
  <1> QED BY <1>2, <1>3, <1>6, <1>8 DEF SInv

\* The board polls DTR: it disarms only when the host has gone.
LEMMA PollKeeps ==
  ASSUME IInv, SInv, PollDtr
  PROVE  SInv'
  <1>1. /\ CallsSame
        /\ UNCHANGED <<intent, desired, want, slot_pins, raced, groups, toBoard, io, broken,
                       resync_needed, dtr>>
    BY DEF PollDtr, CallsSame, Same, hostVars, history, wireVars
  <1>2. CallsShaped'
    BY <1>1, ShapesKept DEF SInv
  <1>3. armed' => armed
    BY DEF PollDtr
  <1>4. NothingAsked'
    BY <1>1, <1>3 DEF SInv, NothingAsked, CallsSame, Same
  <1>5. Fine' => Fine /\ armed' = armed
    <2>1. armed \in BOOLEAN
      BY DEF IInv, TypeOK
    <2>2. Fine' => Fine /\ dtr
      BY <1>1 DEF Fine, SInv
    <2> QED BY <2>1, <2>2 DEF PollDtr
  <1>6. Fine' => Fine /\ WireKept
    BY <1>1, <1>5 DEF WireKept, WillHave, WillArm, WillDisarm
  <1>7. ~raced' => Unraced'
    BY <1>1, <1>6, Undisturbed DEF SInv
  <1> QED BY <1>1, <1>2, <1>4, <1>7 DEF SInv

\* handle_command() in terms of GroupsAfter and ArmedAfter.
LEMMA Executed ==
  ASSUME IInv, NEW m \in Request, Execute(m)
  PROVE  groups' = GroupsAfter(m, groups) /\ armed' = ArmedAfter(m, groups, armed)
  <1>1. m.cmd \in Commands \cup {"Hello"}
    BY DEF Request
  <1> QED BY <1>1 DEF Execute, GroupsAfter, ArmedAfter, Disarming, Commands

\* The board handles a frame.
LEMMA HandleKeeps ==
  ASSUME IInv, SInv, NEW sent \in BOOLEAN, HandleCommand(sent)
  PROVE  SInv'
  <1> DEFINE m == Head(toBoard)
  <1>1. /\ CallsSame
        /\ UNCHANGED <<intent, desired, want, slot_pins, raced, io, broken,
                       resync_needed, dtr>>
    <2>1. \A t \in Threads : thread[t] \in Call
      BY DEF IInv, GoodCall
    <2>2. \A t \in Threads : thread'[t] \in {thread[t], [thread[t] EXCEPT !.acked = TRUE]}
      BY DEF HandleCommand
    <2>3. CallsSame
      BY <2>1, <2>2 DEF CallsSame, Same, Call
    <2> QED BY <2>3 DEF HandleCommand, hostVars, history
  <1>2. toBoard \in Seq(Request) /\ toBoard # <<>> /\ toBoard' = Tail(toBoard) /\ armed \in BOOLEAN
    BY DEF HandleCommand, IInv, TypeOK
  <1>3. m \in Request
    BY <1>2
  <1>4. groups' = GroupsAfter(m, groups) /\ armed' = ArmedAfter(m, groups, armed)
    BY <1>3, Executed DEF HandleCommand
  <1>5. CallsShaped'
    BY <1>1, ShapesKept DEF SInv
  <1>6. NothingAsked'
    <2> SUFFICES ASSUME desired = NoConfig
                 PROVE  ~armed' /\ NoneAfter(toBoard', 0, {"Arm"})
      BY <1>1 DEF SInv, NothingAsked, CallsSame, Same
    <2>1. ~armed /\ NoneAfter(toBoard, 0, {"Arm"})
      BY DEF SInv, NothingAsked
    <2>2. NoneAfter(Tail(toBoard), 0, {"Arm"}) /\ m.cmd \notin {"Arm"}
      BY <1>2, <2>1, NoneHandled
    <2> QED BY <1>2, <1>4, <2>1, <2>2 DEF ArmedAfter
  <1> HIDE DEF m
  <1>7. WireKept
    <2>1. ASSUME NEW c \in AllConfigs, WillHave(toBoard, groups, c)
          PROVE  WillHave(toBoard', groups', c)
      BY <1>2, <1>4, <2>1, HaveHandled DEF m
    <2>2. ASSUME NEW c \in Configs, WillHave(toBoard, groups, c), WillArm(toBoard, armed)
          PROVE  WillArm(toBoard', armed')
      <3>1. c # NoConfig
        BY ControllerAssumption
      <3> QED BY <1>2, <1>4, <2>2, <3>1, ArmHandled DEF m
    <2>3. ASSUME WillDisarm(toBoard, armed)
          PROVE  WillDisarm(toBoard', armed')
      BY <1>2, <1>4, <2>3, DisarmHandled DEF m
    <2> QED BY <2>1, <2>2, <2>3 DEF WireKept
  <1>8. Fine' => Fine
    BY <1>1 DEF Fine
  <1>9. ~raced' => Unraced'
    BY <1>1, <1>7, <1>8, Undisturbed DEF SInv
  <1> QED BY <1>1, <1>5, <1>6, <1>9 DEF SInv
-----------------------------------------------------------------------------
(* Steps of one call.                                                       *)

OthersSame(t) == \A u \in Threads \ {t} : Same(thread[u], thread'[u])

\* The call of t moves on, or is over.
LEMMA OneMoves ==
  ASSUME IInv, SInv, NEW t \in Threads, thread[t].op # "idle", OthersSame(t), raced' = raced,
         ~raced => IF thread'[t].op = "idle" THEN RestState' ELSE BusyState(thread[t])'
  PROVE  ~raced' => Unraced'
  <1> SUFFICES ASSUME ~raced, Unraced PROVE Unraced'
    BY DEF SInv
  <1>1. \A u \in Threads \ {t} : thread[u].op = "idle" /\ thread'[u].op = "idle"
    BY DEF Unraced, OthersSame, Same
  <1>2. \A u \in Threads : thread'[u].op # "idle" => u = t /\ BusyState(thread[u])'
    BY <1>1
  <1>3. Alone' => RestState'
    BY DEF Alone
  <1> QED BY <1>2, <1>3 DEF Unraced

LEMMA ShapesMove ==
  ASSUME IInv, SInv, NEW t \in Threads, OthersSame(t), Shape(t, thread[t])',
         desired # NoConfig => desired' # NoConfig
  PROVE  CallsShaped'
  BY DEF SInv, CallsShaped, Shape, OthersSame, Same

\* No command that arms is planned that was not.
LEMMA AskedMoves ==
  ASSUME IInv, SInv, NEW t \in Threads, OthersSame(t),
         desired' = NoConfig => /\ desired = NoConfig /\ (armed' => armed)
                                /\ NoneAfter(toBoard', 0, {"Arm"})
                                /\ "Arm" \notin ToSet(thread'[t].plan)
  PROVE  NothingAsked'
  BY DEF SInv, NothingAsked, OthersSame, Same

\* An attempt that failed or an acknowledgement: where it leaves the call.
Again(t) ==
    /\ thread[t].tries > 1 /\ thread'[t].tries = thread[t].tries - 1
    /\ thread'[t].at = "send" /\ thread'[t].op = thread[t].op
    /\ thread'[t].cfg = thread[t].cfg /\ thread'[t].plan = thread[t].plan
    /\ resync_needed' = resync_needed

Advanced(t) ==
    /\ Len(thread[t].plan) > 1 /\ thread'[t].plan = Tail(thread[t].plan)
    /\ thread'[t].tries = 2
    /\ thread'[t].at = "send" /\ thread'[t].op = thread[t].op
    /\ thread'[t].cfg = thread[t].cfg
    /\ resync_needed' = resync_needed

Over(t, ok) ==
    /\ thread'[t] = Idle
    /\ resync_needed' = (resync_needed \/ (~ok /\ thread[t].op \in {"arm", "resync"}))

LEMMA FinishMoves ==
  ASSUME IInv, NEW t \in Threads, NEW ok \in BOOLEAN, Finish(t, ok)
  PROVE  OthersSame(t) /\ Over(t, ok)
  BY DEF IInv, Finish, OthersSame, Same, Over

LEMMA FailedMoves ==
  ASSUME IInv, NEW t \in Threads, Failed(t)
  PROVE  OthersSame(t) /\ (Again(t) \/ (thread[t].tries <= 1 /\ Over(t, FALSE)))
  <1>1. thread[t] \in Call /\ thread[t].tries \in 0..2
    BY CallFacts DEF GoodCall
  <1>2. CASE thread[t].tries > 1
    <2> DEFINE g == [thread[t] EXCEPT !.at = "send", !.tries = @ - 1, !.id = None,
                                      !.acked = FALSE, !.crossed = FALSE]
    <2>1. thread' = [thread EXCEPT ![t] = g] /\ resync_needed' = resync_needed
      BY <1>2 DEF Failed, IInv
    <2>2. /\ g.tries = thread[t].tries - 1 /\ g.at = "send" /\ g.op = thread[t].op
          /\ g.cfg = thread[t].cfg /\ g.plan = thread[t].plan
      BY <1>1 DEF Call
    <2> HIDE DEF g
    <2>3. thread'[t] = g /\ OthersSame(t)
      BY <2>1 DEF IInv, OthersSame, Same
    <2> QED BY <1>2, <2>1, <2>2, <2>3 DEF Again
  <1>3. CASE ~(thread[t].tries > 1)
    <2>1. Finish(t, FALSE)
      BY <1>3 DEF Failed
    <2>2. OthersSame(t) /\ Over(t, FALSE)
      BY <2>1, FinishMoves
    <2>3. thread[t].tries <= 1
      BY <1>1, <1>3
    <2> QED BY <2>2, <2>3
  <1> QED BY <1>2, <1>3

LEMMA SucceededMoves ==
  ASSUME IInv, NEW t \in Threads, Succeeded(t)
  PROVE  OthersSame(t) /\ (Advanced(t) \/ (~(Len(thread[t].plan) > 1) /\ Over(t, TRUE)))
  <1>1. thread[t] \in Call
    BY CallFacts DEF GoodCall
  <1>2. CASE Len(thread[t].plan) > 1
    <2> DEFINE g == [thread[t] EXCEPT !.at = "send", !.plan = Tail(@), !.tries = 2,
                                      !.id = None, !.acked = FALSE, !.crossed = FALSE]
    <2>1. thread' = [thread EXCEPT ![t] = g] /\ resync_needed' = resync_needed
      BY <1>2 DEF Succeeded, IInv
    <2>2. /\ g.tries = 2 /\ g.at = "send" /\ g.op = thread[t].op
          /\ g.cfg = thread[t].cfg /\ g.plan = Tail(thread[t].plan)
      BY <1>1 DEF Call
    <2> HIDE DEF g
    <2>3. thread'[t] = g /\ OthersSame(t)
      BY <2>1 DEF IInv, OthersSame, Same
    <2> QED BY <1>2, <2>1, <2>2, <2>3 DEF Advanced
  <1>3. CASE ~(Len(thread[t].plan) > 1)
    BY <1>3, FinishMoves DEF Succeeded
  <1> QED BY <1>2, <1>3

LEMMA OverIdle ==
  ASSUME NEW t \in Threads, NEW ok \in BOOLEAN, Over(t, ok)
  PROVE  /\ thread'[t].op = "idle" /\ thread'[t].at = "idle" /\ ToSet(thread'[t].plan) = {}
         /\ Shape(t, thread[t])'
  BY DEF Over, Idle, Shape, ToSet

LEMMA PlanTail ==
  ASSUME NEW S, NEW p \in Seq(S), Len(p) > 1
  PROVE  ToSet(Tail(p)) \subseteq ToSet(p)
  BY DEF ToSet

\* An unraced call that sends is one of these.
LEMMA SendingStates ==
  ASSUME IInv, SInv, NEW t \in Threads, thread[t].at \in {"send", "await"}, ~raced
  PROVE  /\ thread[t].op \in {"arm", "stop", "test", "resync"}
         /\ thread[t].op = "arm" => intent /\ HostAgrees /\ Arming(thread[t])
         /\ thread[t].op = "stop" => StopState(thread[t]) /\ ~intent /\ ~want
         /\ thread[t].op = "resync" => ResyncState(thread[t])
         /\ thread[t].op = "test" => RestState
  <1>1. Shape(t, thread[t])
    BY DEF SInv, CallsShaped
  <1>2. thread[t].op \in {"arm", "stop", "test", "resync"}
    BY <1>1 DEF Shape
  <1>3. BusyState(thread[t])
    BY <1>2 DEF SInv, Unraced
  <1>4. thread[t].op = "arm" => intent /\ HostAgrees /\ Arming(thread[t])
    BY <1>3 DEF BusyState, ArmState
  <1>5. thread[t].op = "stop" => StopState(thread[t]) /\ ~intent /\ ~want
    BY <1>3 DEF BusyState, StopState
  <1>6. thread[t].op = "resync" => ResyncState(thread[t])
    BY <1>3 DEF BusyState
  <1>7. thread[t].op = "test" => RestState
    BY <1>3 DEF BusyState
  <1> QED BY <1>2, <1>4, <1>5, <1>6, <1>7

\* An attempt of an unraced call fails: a stop still holds it to its last command,
\* and the others send again or ask for a resync.
LEMMA FailedKeeps ==
  ASSUME IInv, SInv, NEW t \in Threads, thread[t].at \in {"send", "await"}, Failed(t),
         UNCHANGED <<intent, desired, want, slot_pins, raced, io, broken, dtr, toBoard,
                     groups, armed>>,
         thread[t].at = "send" => ~Fine
  PROVE  SInv'
  <1>1. OthersSame(t) /\ (Again(t) \/ (thread[t].tries <= 1 /\ Over(t, FALSE)))
    BY FailedMoves
  <1>2. Shape(t, thread[t]) /\ thread[t].op # "idle"
    BY DEF SInv, CallsShaped, Shape
  <1>3. Shape(t, thread[t])'
    BY <1>1, <1>2, OverIdle DEF Again, Shape
  <1>4. CallsShaped'
    BY <1>1, <1>3, ShapesMove
  <1>5. ToSet(thread'[t].plan) \subseteq ToSet(thread[t].plan)
    BY <1>1, OverIdle DEF Again
  <1>6. NothingAsked'
    BY <1>1, <1>5, AskedMoves DEF SInv, NothingAsked
  <1>7. Fine' => Fine /\ thread[t].at = "await"
    <2>1. resync_needed => resync_needed'
      BY <1>1, Zenon DEF Again, Over
    <2> QED BY <2>1 DEF Fine
  <1>8. HostAgrees' <=> HostAgrees
    BY DEF HostAgrees
  <1>9. ASSUME ~raced
        PROVE  IF thread'[t].op = "idle" THEN RestState' ELSE BusyState(thread[t])'
    <2>1. /\ thread[t].op \in {"arm", "stop", "test", "resync"}
          /\ thread[t].op = "arm" => intent /\ HostAgrees /\ Arming(thread[t])
          /\ thread[t].op = "stop" => StopState(thread[t]) /\ ~intent /\ ~want
          /\ thread[t].op = "resync" => ResyncState(thread[t])
          /\ thread[t].op = "test" => RestState
      BY <1>9, SendingStates
    <2>2. CASE Over(t, FALSE)
      <3>1. thread'[t].op = "idle" /\ (thread[t].op \in {"arm", "resync"} => ~Fine')
        BY <2>2, OverIdle DEF Over, Fine
      <3>2. HostAgrees
        BY <2>1 DEF RestState, ResyncState, StopState, HostAgrees
      <3>3. CASE thread[t].op \in {"arm", "resync"}
        BY <1>8, <3>1, <3>2, <3>3 DEF RestState
      <3>4. CASE thread[t].op = "stop"
        <4>1. Fine' => WillDisarm(toBoard, armed)
          BY <1>7, <2>1, <3>4 DEF StopState
        <4> QED BY <1>8, <2>1, <3>1, <3>2, <3>4, <4>1 DEF RestState, OnCourse
      <3>5. CASE thread[t].op = "test"
        BY <1>7, <1>8, <2>1, <3>1, <3>5 DEF RestState, OnCourse
      <3> QED BY <2>1, <3>3, <3>4, <3>5
    <2>3. CASE Again(t)
      <3>1. /\ thread'[t].op = thread[t].op /\ thread'[t].at = "send"
            /\ thread'[t].plan = thread[t].plan /\ thread'[t].cfg = thread[t].cfg
        BY <2>3 DEF Again
      <3>2. Arming(thread[t]) => Arming(thread[t])'
        BY <1>7, <3>1 DEF Arming
      <3>3. CASE thread[t].op = "arm"
        <4>1. ArmState(thread[t])'
          BY <1>8, <2>1, <3>1, <3>2, <3>3 DEF ArmState, HostAgrees, Arming
        <4> QED BY <3>1, <3>3, <4>1 DEF BusyState
      <3>4. CASE thread[t].op = "stop"
        <4>1. StopState(thread[t])'
          BY <1>7, <2>1, <3>1, <3>4 DEF StopState
        <4> QED BY <3>1, <3>4, <4>1 DEF BusyState
      <3>5. CASE thread[t].op = "resync"
        <4>1. ResyncState(thread[t])'
          BY <1>8, <2>1, <3>1, <3>2, <3>5 DEF ResyncState
        <4> QED BY <3>1, <3>5, <4>1 DEF BusyState
      <3>6. CASE thread[t].op = "test"
        <4>1. RestState'
          BY <1>7, <1>8, <2>1, <3>6 DEF RestState, OnCourse
        <4> QED BY <3>1, <3>6, <4>1 DEF BusyState
      <3> QED BY <2>1, <3>1, <3>3, <3>4, <3>5, <3>6
    <2> QED BY <1>1, <2>2, <2>3
  <1>10. ~raced' => Unraced'
    BY <1>1, <1>2, <1>9, OneMoves
  <1> QED BY <1>4, <1>6, <1>10 DEF SInv

\* A command counts as acknowledged, by its own ACK or another: it had been written.
LEMMA SucceededKeeps ==
  ASSUME IInv, SInv, NEW t \in Threads, thread[t].at = "await", Succeeded(t),
         UNCHANGED <<intent, desired, want, slot_pins, raced, io, broken, dtr, toBoard,
                     groups, armed>>
  PROVE  SInv'
  <1>1. OthersSame(t) /\ (Advanced(t) \/ (~(Len(thread[t].plan) > 1) /\ Over(t, TRUE)))
    BY SucceededMoves
  <1>2. Shape(t, thread[t]) /\ thread[t].op # "idle"
    BY DEF SInv, CallsShaped, Shape
  <1>3. Shape(t, thread[t])'
    <2>1. CASE Over(t, TRUE)
      BY <2>1, OverIdle
    <2>2. CASE Advanced(t)
      <3>1. thread[t].op # "test"
        BY <2>2, CallFacts, MoreThanOne, Zenon DEF Advanced
      <3> QED BY <1>2, <2>2, <3>1 DEF Advanced, Shape
    <2> QED BY <1>1, <2>1, <2>2
  <1>4. CallsShaped'
    BY <1>1, <1>3, ShapesMove
  <1>5. ToSet(thread'[t].plan) \subseteq ToSet(thread[t].plan)
    BY <1>1, OverIdle, CallFacts, PlanTail DEF Advanced
  <1>6. NothingAsked'
    BY <1>1, <1>5, AskedMoves DEF SInv, NothingAsked
  <1>7. Fine' <=> Fine
    <2>1. resync_needed <=> resync_needed'
      <3>1. resync_needed \in BOOLEAN
        BY DEF IInv, TypeOK
      <3> QED BY <1>1, <3>1 DEF Advanced, Over
    <2> QED BY <2>1 DEF Fine
  <1>8. HostAgrees' <=> HostAgrees
    BY DEF HostAgrees
  <1>9. ASSUME ~raced
        PROVE  IF thread'[t].op = "idle" THEN RestState' ELSE BusyState(thread[t])'
    <2>1. /\ thread[t].op \in {"arm", "stop", "test", "resync"}
          /\ thread[t].op = "arm" => intent /\ HostAgrees /\ Arming(thread[t])
          /\ thread[t].op = "stop" => StopState(thread[t]) /\ ~intent /\ ~want
          /\ thread[t].op = "resync" => ResyncState(thread[t])
          /\ thread[t].op = "test" => RestState
      BY <1>9, SendingStates
    <2>2. /\ Len(<<"SetConfig", "Arm">>) = 2 /\ Tail(<<"SetConfig", "Arm">>) = <<"Arm">>
          /\ Len(<<"Arm">>) = 1 /\ Len(<<"Stop">>) = 1 /\ Len(<<"SetConfig">>) = 1
      OBVIOUS
    <2>3. CASE Over(t, TRUE) /\ ~(Len(thread[t].plan) > 1)
      <3>1. thread'[t].op = "idle"
        BY <2>3, OverIdle
      <3>2. HostAgrees
        BY <2>1 DEF RestState, ResyncState, StopState, HostAgrees
      <3>3. Arming(thread[t]) /\ Fine
              => WillHave(toBoard, groups, desired) /\ WillArm(toBoard, armed)
        BY <2>2, <2>3 DEF Arming
      <3>4. Fine => OnCourse
        BY <2>1, <3>3 DEF OnCourse, StopState, ResyncState, RestState
      <3> QED BY <1>7, <1>8, <3>1, <3>2, <3>4 DEF RestState, OnCourse
    <2>4. CASE Advanced(t)
      <3>1. /\ thread'[t].op = thread[t].op /\ thread'[t].at = "send"
            /\ thread'[t].plan = Tail(thread[t].plan) /\ thread'[t].cfg = thread[t].cfg
            /\ Len(thread[t].plan) > 1
        BY <2>4 DEF Advanced
      <3>0. \A p : Len(p) = 1 => thread[t].plan # p
        BY <3>1, CallFacts, MoreThanOne, Zenon
      <3>2. Arming(thread[t]) => Arming(thread[t])'
        <4> SUFFICES ASSUME Arming(thread[t]) PROVE Arming(thread[t])'
          OBVIOUS
        <4>1. thread[t].plan # <<"Arm">>
          BY <2>2, <3>0, Zenon
        <4>2. thread[t].plan = <<"SetConfig", "Arm">> /\ (Fine => WillHave(toBoard, groups, desired))
          BY <4>1 DEF Arming
        <4>3. thread'[t].plan = <<"Arm">>
          BY <2>2, <3>1, <4>2
        <4> QED BY <1>7, <3>1, <4>2, <4>3 DEF Arming
      <3>3. CASE thread[t].op = "arm"
        <4>1. ArmState(thread[t])'
          BY <1>8, <2>1, <3>1, <3>2, <3>3 DEF ArmState, HostAgrees, Arming
        <4> QED BY <3>1, <3>3, <4>1 DEF BusyState
      <3>4. CASE thread[t].op = "resync"
        <4>1. thread[t].plan # <<"SetConfig">>
          BY <2>2, <3>0, Zenon
        <4>2. intent /\ Arming(thread[t]) /\ HostAgrees
          BY <2>1, <3>4, <4>1 DEF ResyncState
        <4>3. ResyncState(thread[t])'
          BY <1>8, <3>2, <4>2 DEF ResyncState
        <4> QED BY <3>1, <3>4, <4>3 DEF BusyState
      <3>5. thread[t].op # "stop"
        <4>1. thread[t].plan # <<"Stop">>
          BY <2>2, <3>0, Zenon
        <4> QED BY <2>1, <4>1 DEF StopState
      <3>6. thread[t].op # "test"
        BY <3>1, CallFacts, MoreThanOne, Zenon
      <3> QED BY <2>1, <3>1, <3>3, <3>4, <3>5, <3>6
    <2> QED BY <1>1, <2>3, <2>4
  <1>10. ~raced' => Unraced'
    BY <1>1, <1>2, <1>9, OneMoves
  <1> QED BY <1>4, <1>6, <1>10 DEF SInv

LEMMA EndKeeps ==
  ASSUME IInv, SInv, NEW t \in Threads, SendFails(t) \/ Wake(t) \/ Timeout(t)
  PROVE  SInv'
  <1>1. /\ UNCHANGED <<intent, desired, want, slot_pins, raced, io, broken, dtr, toBoard,
                       groups, armed>>
        /\ thread[t].at \in {"send", "await"}
    BY DEF SendFails, Wake, Timeout, hostVars, history, wireVars, boardVars
  <1>2. CASE SendFails(t)
    <2>1. Failed(t) /\ ~Fine
      BY <1>2 DEF SendFails, Fine
    <2> QED BY <1>1, <2>1, FailedKeeps
  <1>3. CASE Wake(t) \/ Timeout(t)
    <2>1. thread[t].at = "await" /\ (Succeeded(t) \/ Failed(t))
      BY <1>3 DEF Wake, Timeout
    <2> QED BY <1>1, <2>1, FailedKeeps, SucceededKeeps
  <1> QED BY <1>2, <1>3

\* A frame written that neither configures, arms nor stops.
LEMMA QuietWritten ==
  ASSUME NEW s \in Seq(Request), NEW m \in Request, m.cmd \notin {"SetConfig", "Arm", "Stop"},
         NEW g, NEW a
  PROVE  /\ \A c : WillHave(s, g, c) => WillHave(Append(s, m), g, c)
         /\ WillArm(s, a) => WillArm(Append(s, m), a)
         /\ WillDisarm(s, a) => WillDisarm(Append(s, m), a)
  <1>1. m.cmd \notin {"SetConfig"} /\ m.cmd \notin Disarming /\ m.cmd \notin {"Arm"}
    BY DEF Disarming
  <1> QED BY <1>1, EndsWritten DEF WillHave, WillArm, WillDisarm

\* What the frames of a plan do.
LEMMA PlanWritten ==
  ASSUME NEW s \in Seq(Request), NEW m \in Request, NEW g, NEW a
  PROVE  /\ m.cmd = "SetConfig" => WillHave(Append(s, m), g, m.cfg)
         /\ m.cmd = "Arm" => /\ WillArm(Append(s, m), a)
                             /\ \A c : WillHave(s, g, c) => WillHave(Append(s, m), g, c)
         /\ m.cmd \in Disarming => WillDisarm(Append(s, m), a)
  <1>1. m.cmd = "SetConfig" => m \in Configure(m.cfg)
    BY DEF Configure
  <1>2. m.cmd = "Arm" => m \in Sent({"Arm"}) /\ m.cmd \notin {"SetConfig"}
    BY DEF Sent
  <1>3. m.cmd \in Disarming => m \in Sent(Disarming)
    BY DEF Sent
  <1> QED BY <1>1, <1>2, <1>3, EndsWritten DEF WillHave, WillArm, WillDisarm

LEMMA SendKeeps ==
  ASSUME IInv, SInv, NEW t \in Threads, Send(t)
  PROVE  SInv'
  <1> DEFINE m == [id |-> FreshId, cmd |-> Head(thread[t].plan), cfg |-> Payload(t)]
  <1>1. /\ UNCHANGED <<intent, desired, want, slot_pins, raced, io, broken, dtr, resync_needed,
                       groups, armed>>
        /\ thread[t].at = "send" /\ toBoard' = Append(toBoard, m)
    BY DEF Send, hostVars, history, boardVars
  <1>2. \A u \in Threads : thread[u] \in Call
    BY DEF IInv, GoodCall
  <1>3. OthersSame(t)
    <2>1. \A u \in Threads \ {t} :
            thread'[u] = [thread[u] EXCEPT !.crossed = @ \/ thread[u].at = "await"]
      BY DEF Send
    <2> QED BY <1>2, <2>1, ZenonT(60) DEF OthersSame, Same, Call
  <1>4. /\ thread'[t].at = "await" /\ thread'[t].op = thread[t].op
        /\ thread'[t].cfg = thread[t].cfg /\ thread'[t].plan = thread[t].plan
        /\ thread'[t].tries = thread[t].tries
    <2>1. thread'[t] = [thread[t] EXCEPT !.at = "await", !.id = FreshId,
                          !.crossed = \E v \in Threads \ {t} : thread[v].at = "await"]
      BY DEF Send
    <2> QED BY <1>2, <2>1 DEF Call
  <1>5. /\ thread[t].plan \in Seq(Commands) /\ thread[t].plan # <<>> /\ thread[t].cfg \in AllConfigs
        /\ Head(thread[t].plan) \in Commands
    BY <1>1, <1>2, CallFacts DEF Call
  <1>6. m \in Request /\ toBoard \in Seq(Request)
    BY <1>5, FreshIdTyped DEF Request, Payload, AllConfigs, IInv, TypeOK
  <1>7. m.cmd = Head(thread[t].plan) /\ (m.cmd = "SetConfig" => m.cfg = thread[t].cfg)
    BY DEF Payload
  <1> HIDE DEF m
  <1>8. Shape(t, thread[t]) /\ thread[t].op # "idle"
    BY <1>1 DEF SInv, CallsShaped, Shape
  <1>9. Shape(t, thread[t])'
    BY <1>1, <1>4, <1>8 DEF Shape
  <1>10. CallsShaped'
    BY <1>1, <1>3, <1>9, ShapesMove
  <1>11. NothingAsked'
    <2>1. Head(thread[t].plan) \in ToSet(thread[t].plan)
      BY <1>5 DEF ToSet
    <2>2. desired = NoConfig => NoneAfter(toBoard', 0, {"Arm"})
      <3> SUFFICES ASSUME desired = NoConfig PROVE NoneAfter(toBoard', 0, {"Arm"})
        OBVIOUS
      <3>1. NoneAfter(toBoard, 0, {"Arm"}) /\ "Arm" \notin ToSet(thread[t].plan)
        BY DEF SInv, NothingAsked
      <3>2. m.cmd \notin {"Arm"}
        BY <1>7, <2>1, <3>1
      <3> QED BY <1>1, <1>6, <3>1, <3>2, NoneWritten
    <2> QED BY <1>1, <1>3, <1>4, <2>2, AskedMoves DEF SInv, NothingAsked
  <1>12. Fine' <=> Fine
    BY <1>1 DEF Fine
  <1>13. HostAgrees' <=> HostAgrees
    BY <1>1 DEF HostAgrees
  <1>14. ASSUME ~raced
         PROVE  BusyState(thread[t])'
    <2>1. /\ thread[t].op \in {"arm", "stop", "test", "resync"}
          /\ thread[t].op = "arm" => intent /\ HostAgrees /\ Arming(thread[t])
          /\ thread[t].op = "stop" => StopState(thread[t]) /\ ~intent /\ ~want
          /\ thread[t].op = "resync" => ResyncState(thread[t])
          /\ thread[t].op = "test" => RestState
      BY <1>1, <1>14, SendingStates
    <2>2. /\ Head(<<"SetConfig", "Arm">>) = "SetConfig" /\ Head(<<"Arm">>) = "Arm"
          /\ Head(<<"Stop">>) = "Stop" /\ Head(<<"SetConfig">>) = "SetConfig"
      OBVIOUS
    <2>3. Arming(thread[t]) => Arming(thread[t])'
      <3> SUFFICES ASSUME Arming(thread[t]) PROVE Arming(thread[t])'
        OBVIOUS
      <3>1. thread[t].cfg = desired
        BY DEF Arming
      <3>2. CASE thread[t].plan = <<"SetConfig", "Arm">>
        <4>1. m.cmd = "SetConfig" /\ m.cfg = desired
          BY <1>7, <2>2, <3>1, <3>2
        <4>2. WillHave(toBoard', groups', desired')
          BY <1>1, <1>6, <4>1, PlanWritten
        <4> QED BY <1>1, <1>4, <3>1, <3>2, <4>2 DEF Arming
      <3>3. CASE thread[t].plan = <<"Arm">> /\ (Fine => WillHave(toBoard, groups, desired))
        <4>1. m.cmd = "Arm"
          BY <1>7, <2>2, <3>3
        <4>2. WillArm(toBoard', armed') /\ (Fine => WillHave(toBoard', groups', desired'))
          BY <1>1, <1>6, <3>3, <4>1, PlanWritten
        <4> QED BY <1>1, <1>4, <1>12, <3>1, <3>3, <4>2 DEF Arming
      <3> QED BY <3>2, <3>3 DEF Arming
    <2>4. CASE thread[t].op = "arm"
      <3>1. ArmState(thread[t])'
        BY <1>1, <1>4, <1>13, <2>1, <2>3, <2>4 DEF ArmState, HostAgrees, Arming
      <3> QED BY <1>4, <2>4, <3>1 DEF BusyState
    <2>5. CASE thread[t].op = "stop"
      <3>1. thread[t].plan = <<"Stop">> /\ intent = FALSE /\ want = FALSE
        BY <1>1, <2>1, <2>5 DEF StopState
      <3>2. m.cmd \in Disarming
        BY <1>7, <2>2, <3>1 DEF Disarming
      <3>3. WillDisarm(toBoard', armed')
        BY <1>1, <1>6, <3>2, PlanWritten
      <3>4. StopState(thread[t])'
        BY <1>1, <1>4, <3>1, <3>3 DEF StopState
      <3> QED BY <1>4, <2>5, <3>4 DEF BusyState
    <2>6. CASE thread[t].op = "resync"
      <3>1. CASE intent
        <4>1. ResyncState(thread[t])'
          BY <1>1, <1>13, <2>1, <2>3, <2>6, <3>1 DEF ResyncState
        <4> QED BY <1>4, <2>6, <4>1 DEF BusyState
      <3>2. CASE ~intent
        <4>1. thread[t].plan = <<"SetConfig">> /\ HostAgrees
          BY <1>1, <2>1, <2>6, <3>2 DEF ResyncState
        <4>2. m.cmd \in Disarming
          BY <1>7, <2>2, <4>1 DEF Disarming
        <4>3. WillDisarm(toBoard', armed')
          BY <1>1, <1>6, <4>2, PlanWritten
        <4>4. ResyncState(thread[t])'
          BY <1>1, <1>4, <1>13, <3>2, <4>1, <4>3 DEF ResyncState
        <4> QED BY <1>4, <2>6, <4>4 DEF BusyState
      <3> QED BY <3>1, <3>2
    <2>7. CASE thread[t].op = "test"
      <3>1. thread[t].plan = <<"TestOutput">>
        BY <1>1, <2>7 DEF SInv, CallsShaped, Shape
      <3>2. m.cmd \notin {"SetConfig", "Arm", "Stop"}
        BY <1>7, <3>1
      <3>3. OnCourse => OnCourse'
        BY <1>1, <1>6, <3>2, QuietWritten DEF OnCourse
      <3>4. RestState'
        BY <1>12, <1>13, <2>1, <2>7, <3>3 DEF RestState
      <3> QED BY <1>4, <2>7, <3>4 DEF BusyState
    <2> QED BY <2>1, <2>4, <2>5, <2>6, <2>7
  <1>15. ~raced' => Unraced'
    BY <1>1, <1>3, <1>4, <1>8, <1>14, OneMoves
  <1> QED BY <1>1, <1>10, <1>11, <1>15 DEF SInv

LEMMA SetDesiredKeeps ==
  ASSUME IInv, SInv, NEW t \in Threads, SetDesired(t)
  PROVE  SInv'
  <1>1. /\ UNCHANGED <<intent, slot_pins, raced, io, broken, dtr, toBoard, groups, armed>>
        /\ thread[t].at = "desire" /\ thread[t].op = "arm"
        /\ desired' = thread[t].cfg /\ want' = TRUE
    BY DEF SetDesired, history, wireVars, boardVars
  <1>2. thread[t] \in Call /\ Shape(t, thread[t])
    BY CallFacts DEF GoodCall, SInv, CallsShaped
  <1>3. OthersSame(t)
    BY DEF SetDesired, IInv, OthersSame, Same
  <1>4. /\ thread'[t].at = "check" /\ thread'[t].op = "arm" /\ thread'[t].cfg = thread[t].cfg
        /\ thread'[t].plan = thread[t].plan
    BY <1>1, <1>2 DEF SetDesired, IInv, Call
  <1>5. desired' # NoConfig /\ thread[t].cfg \in Configs
    BY <1>1, <1>2, ControllerAssumption DEF Shape
  <1>6. CallsShaped'
    <2>1. Shape(t, thread[t])'
      BY <1>4, <1>5 DEF Shape
    <2> QED BY <1>3, <1>5, <2>1, ShapesMove
  <1>7. NothingAsked'
    BY <1>5 DEF NothingAsked
  <1>8. ASSUME ~raced
        PROVE  BusyState(thread[t])'
    <2>1. ArmState(thread[t])
      BY <1>1, <1>8 DEF SInv, Unraced, BusyState
    <2>2. ArmState(thread[t])'
      BY <1>1, <1>4, <2>1 DEF ArmState
    <2> QED BY <1>4, <2>2 DEF BusyState
  <1>9. ~raced' => Unraced'
    BY <1>1, <1>3, <1>4, <1>8, OneMoves
  <1> QED BY <1>1, <1>6, <1>7, <1>9 DEF SInv

\* The connection check: the call sends its plan, or is over.
LEMMA StartMoves ==
  ASSUME IInv, NEW t \in Threads, StartIfConnected(t)
  PROVE  /\ OthersSame(t)
         /\ \/ /\ io = "up" /\ thread'[t].at = "send" /\ thread'[t].op = thread[t].op
               /\ thread'[t].cfg = thread[t].cfg
               /\ thread'[t].plan = Plan(thread[t].op, TRUE)
               /\ thread'[t].tries = TriesFor(thread[t].op)
               /\ resync_needed' = resync_needed
            \/ io # "up" /\ Over(t, FALSE)
  <1>1. thread[t] \in Call
    BY CallFacts DEF GoodCall
  <1>2. CASE io = "up"
    <2> DEFINE p == Plan(thread[t].op, TRUE)
               n == TriesFor(thread[t].op)
               g == [thread[t] EXCEPT !.at = "send", !.plan = p, !.tries = n]
    <2> HIDE DEF p, n
    <2>1. thread' = [thread EXCEPT ![t] = g] /\ resync_needed' = resync_needed
      BY <1>2 DEF StartIfConnected, IInv, p, n
    <2>2. /\ g.tries = n /\ g.at = "send" /\ g.op = thread[t].op
          /\ g.cfg = thread[t].cfg /\ g.plan = p
      BY <1>1 DEF Call
    <2> HIDE DEF g
    <2>3. thread'[t] = g /\ OthersSame(t)
      BY <2>1 DEF IInv, OthersSame, Same
    <2> QED BY <1>2, <2>1, <2>2, <2>3 DEF p, n
  <1>3. CASE io # "up"
    <2>1. Finish(t, FALSE)
      BY <1>3 DEF StartIfConnected
    <2> QED BY <1>3, <2>1, FinishMoves
  <1> QED BY <1>2, <1>3

LEMMA SlotPinsKeeps ==
  ASSUME IInv, SInv, NEW t \in Threads, SetSlotPins(t)
  PROVE  SInv'
  <1>1. /\ UNCHANGED <<intent, desired, want, raced, io, broken, dtr, toBoard, groups, armed>>
        /\ thread[t].at = "check" /\ thread[t].op = "arm" /\ slot_pins' = thread[t].cfg
    BY DEF SetSlotPins, history, wireVars, boardVars
  <1>2. /\ OthersSame(t)
        /\ \/ /\ thread'[t].at = "send" /\ thread'[t].op = "arm"
              /\ thread'[t].cfg = thread[t].cfg /\ thread'[t].plan = <<"SetConfig", "Arm">>
           \/ Over(t, FALSE)
    BY <1>1, StartMoves DEF SetSlotPins, Plan
  <1>3. Shape(t, thread[t]) /\ desired # NoConfig
    BY <1>1 DEF SInv, CallsShaped, Shape
  <1>4. CallsShaped'
    <2>1. Shape(t, thread[t])'
      BY <1>1, <1>2, <1>3, OverIdle DEF Shape
    <2> QED BY <1>1, <1>2, <2>1, ShapesMove
  <1>5. NothingAsked'
    BY <1>1, <1>3 DEF NothingAsked
  <1>6. ASSUME ~raced
        PROVE  IF thread'[t].op = "idle" THEN RestState' ELSE BusyState(thread[t])'
    <2>1. intent = TRUE /\ want = TRUE /\ desired = thread[t].cfg
      BY <1>1, <1>6 DEF SInv, Unraced, BusyState, ArmState
    <2>2. HostAgrees'
      BY <1>1, <1>3, <2>1 DEF HostAgrees
    <2>3. CASE Over(t, FALSE)
      <3>1. thread'[t].op = "idle" /\ ~Fine'
        BY <1>1, <2>3, OverIdle DEF Over, Fine
      <3> QED BY <2>2, <3>1 DEF RestState
    <2>4. CASE /\ thread'[t].at = "send" /\ thread'[t].op = "arm"
               /\ thread'[t].cfg = thread[t].cfg /\ thread'[t].plan = <<"SetConfig", "Arm">>
      <3>1. Arming(thread[t])'
        BY <1>1, <2>1, <2>4 DEF Arming
      <3>2. ArmState(thread[t])'
        BY <1>1, <2>1, <2>2, <2>4, <3>1 DEF ArmState
      <3> QED BY <2>4, <3>2 DEF BusyState
    <2> QED BY <1>2, <2>3, <2>4
  <1>7. ~raced' => Unraced'
    BY <1>1, <1>2, <1>6, OneMoves
  <1> QED BY <1>1, <1>4, <1>5, <1>7 DEF SInv

LEMMA ClearWantKeeps ==
  ASSUME IInv, SInv, NEW t \in Threads, ClearWant(t)
  PROVE  SInv'
  <1>1. /\ UNCHANGED <<intent, desired, slot_pins, raced, io, broken, dtr, toBoard, groups, armed>>
        /\ thread[t].at = "desire" /\ thread[t].op = "stop" /\ want' = FALSE
    BY DEF ClearWant, history, wireVars, boardVars
  <1>2. /\ OthersSame(t)
        /\ \/ /\ thread'[t].at = "send" /\ thread'[t].op = "stop"
              /\ thread'[t].plan = <<"Stop">> /\ thread'[t].tries = 2
           \/ io # "up" /\ Over(t, FALSE)
    BY <1>1, StartMoves DEF ClearWant, Plan, TriesFor
  <1>3. "Arm" \notin ToSet(thread'[t].plan)
    <2>1. "Arm" \notin ToSet(<<"Stop">>)
      BY DEF ToSet
    <2>2. thread'[t].plan = <<"Stop">> \/ Over(t, FALSE)
      BY <1>2
    <2>3. Over(t, FALSE) => ToSet(thread'[t].plan) = {}
      BY OverIdle
    <2> QED BY <2>1, <2>2, <2>3
  <1>4. CallsShaped'
    <2>1. Shape(t, thread[t])'
      BY <1>1, <1>2, OverIdle DEF Shape
    <2> QED BY <1>1, <1>2, <2>1, ShapesMove
  <1>5. NothingAsked'
    BY <1>1, <1>2, <1>3, AskedMoves DEF SInv, NothingAsked
  <1>6. ASSUME ~raced
        PROVE  IF thread'[t].op = "idle" THEN RestState' ELSE BusyState(thread[t])'
    <2>1. intent = FALSE
      BY <1>1, <1>6 DEF SInv, Unraced, BusyState, StopState
    <2>2. CASE io # "up" /\ Over(t, FALSE)
      <3>1. thread'[t].op = "idle" /\ ~Fine'
        BY <1>1, <2>2, OverIdle DEF Fine
      <3> QED BY <1>1, <2>1, <3>1 DEF RestState, HostAgrees
    <2>3. CASE /\ thread'[t].at = "send" /\ thread'[t].op = "stop"
               /\ thread'[t].plan = <<"Stop">> /\ thread'[t].tries = 2
      <3>1. StopState(thread[t])'
        BY <1>1, <2>1, <2>3 DEF StopState
      <3> QED BY <2>3, <3>1 DEF BusyState
    <2> QED BY <1>2, <2>2, <2>3
  <1>7. ~raced' => Unraced'
    BY <1>1, <1>2, <1>6, OneMoves
  <1> QED BY <1>1, <1>4, <1>5, <1>7 DEF SInv

LEMMA CheckKeeps ==
  ASSUME IInv, SInv, NEW t \in Threads, CheckConnected(t)
  PROVE  SInv'
  <1>1. /\ UNCHANGED <<intent, desired, want, slot_pins, raced, io, broken, dtr, toBoard,
                       groups, armed>>
        /\ thread[t].at = "check" /\ thread[t].op = "test"
    BY DEF CheckConnected, hostVars, history, wireVars, boardVars
  <1>2. /\ OthersSame(t)
        /\ \/ /\ thread'[t].at = "send" /\ thread'[t].op = "test"
              /\ thread'[t].plan = <<"TestOutput">>
           \/ Over(t, FALSE)
        /\ resync_needed => resync_needed'
    <2>1. OthersSame(t)
      BY <1>1, StartMoves DEF CheckConnected
    <2>2. resync_needed => resync_needed'
      BY <1>1, StartMoves DEF CheckConnected, Over
    <2>3. \/ /\ thread'[t].at = "send" /\ thread'[t].op = "test"
             /\ thread'[t].plan = <<"TestOutput">>
          \/ Over(t, FALSE)
      BY <1>1, StartMoves DEF CheckConnected, Plan
    <2> QED BY <2>1, <2>2, <2>3
  <1>3. "Arm" \notin ToSet(thread'[t].plan)
    <2>1. "Arm" \notin ToSet(<<"TestOutput">>)
      BY DEF ToSet
    <2>2. thread'[t].plan = <<"TestOutput">> \/ Over(t, FALSE)
      BY <1>2
    <2>3. Over(t, FALSE) => ToSet(thread'[t].plan) = {}
      BY OverIdle
    <2> QED BY <2>1, <2>2, <2>3
  <1>4. CallsShaped'
    <2>1. Shape(t, thread[t])'
      BY <1>1, <1>2, OverIdle DEF Shape
    <2> QED BY <1>1, <1>2, <2>1, ShapesMove
  <1>5. NothingAsked'
    BY <1>1, <1>2, <1>3, AskedMoves DEF SInv, NothingAsked
  <1>6. ASSUME ~raced
        PROVE  IF thread'[t].op = "idle" THEN RestState' ELSE BusyState(thread[t])'
    <2>1. RestState
      BY <1>1, <1>6 DEF SInv, Unraced, BusyState
    <2>2. Fine' => Fine
      BY <1>1, <1>2 DEF Fine
    <2>3. RestState'
      BY <1>1, <2>1, <2>2 DEF RestState, HostAgrees, OnCourse
    <2> QED BY <1>2, <2>3, OverIdle DEF BusyState
  <1>7. ~raced' => Unraced'
    BY <1>1, <1>2, <1>6, OneMoves
  <1> QED BY <1>1, <1>4, <1>5, <1>7 DEF SInv

-----------------------------------------------------------------------------
(* Steps that begin a call, and the snapshot of the resync thread.          *)

\* A call begins: alone, or the calls are raced from here on.
LEMMA BeginMoves ==
  ASSUME IInv, SInv, NEW t \in Threads, thread[t].op = "idle", NEW op, NEW at, NEW cfg,
         Begin(t, op, at, cfg), op # "idle",
         UNCHANGED <<desired, io, broken, dtr, toBoard, armed>>,
         ~raced' => Alone, Shape(t, thread[t])', ~raced' => BusyState(thread[t])'
  PROVE  SInv'
  <1>1. OthersSame(t)
    BY DEF Begin, IInv, OthersSame, Same
  <1>2. thread'[t].op = op /\ ToSet(thread'[t].plan) = {}
    BY DEF Begin, IInv, Idle, ToSet
  <1>3. CallsShaped'
    BY <1>1, ShapesMove
  <1>4. NothingAsked'
    BY <1>1, <1>2, AskedMoves DEF SInv, NothingAsked
  <1>5. ~raced' => Unraced'
    <2> SUFFICES ASSUME ~raced' PROVE Unraced'
      OBVIOUS
    <2>1. \A u \in Threads \ {t} : thread'[u].op = "idle"
      BY <1>1 DEF Alone, OthersSame, Same
    <2>2. \A u \in Threads : thread'[u].op # "idle" => u = t /\ BusyState(thread[u])'
      BY <2>1
    <2>3. ~Alone'
      BY <1>2 DEF Alone
    <2> QED BY <2>2, <2>3 DEF Unraced
  <1> QED BY <1>3, <1>4, <1>5 DEF SInv

\* What the call looks like once it has begun.
LEMMA Begun ==
  ASSUME IInv, NEW t \in Threads, NEW op, NEW at, NEW cfg, Begin(t, op, at, cfg)
  PROVE  thread'[t].op = op /\ thread'[t].at = at /\ thread'[t].cfg = cfg
  BY DEF Begin, IInv, Idle

LEMMA ArmKeeps ==
  ASSUME IInv, SInv, NEW t \in Callers, NEW c \in Configs, CallArm(t, c)
  PROVE  SInv'
  <1>1. t \in Threads /\ thread[t].op = "idle"
    BY DEF Threads, CallArm, MayCall
  <1>2. UNCHANGED <<desired, io, broken, dtr, toBoard, armed>> /\ (~raced' => Alone)
    BY DEF CallArm, hostVars, wireVars, boardVars
  <1>3. Begin(t, "arm", "desire", c) /\ intent' = TRUE
    BY DEF CallArm
  <1>4. thread'[t].op = "arm" /\ thread'[t].at = "desire" /\ thread'[t].cfg = c
    BY <1>1, <1>3, Begun
  <1>5. Shape(t, thread[t])' /\ BusyState(thread[t])'
    BY <1>3, <1>4 DEF Shape, BusyState, ArmState
  <1> QED BY <1>1, <1>2, <1>3, <1>5, BeginMoves

LEMMA StopTestKeep ==
  ASSUME IInv, SInv, NEW t \in Callers, CallStop(t) \/ CallTest(t)
  PROVE  SInv'
  <1>1. t \in Threads /\ thread[t].op = "idle"
    BY DEF Threads, CallStop, CallTest, MayCall
  <1>2. /\ UNCHANGED <<desired, want, slot_pins, io, broken, dtr, toBoard, groups, armed,
                       resync_needed>>
        /\ ~raced' => Alone /\ ~raced
    BY DEF CallStop, CallTest, hostVars, wireVars, boardVars
  <1>3. CASE CallStop(t)
    <2>1. Begin(t, "stop", "desire", NoConfig) /\ intent' = FALSE
      BY <1>3 DEF CallStop
    <2>2. thread'[t].op = "stop" /\ thread'[t].at = "desire"
      BY <1>1, <2>1, Begun
    <2>3. Shape(t, thread[t])' /\ BusyState(thread[t])'
      BY <2>1, <2>2 DEF Shape, BusyState, StopState
    <2> QED BY <1>1, <1>2, <2>1, <2>3, BeginMoves
  <1>4. CASE CallTest(t)
    <2>1. Begin(t, "test", "check", NoConfig) /\ intent' = intent
      BY <1>4 DEF CallTest
    <2>2. thread'[t].op = "test" /\ thread'[t].at = "check"
      BY <1>1, <2>1, Begun
    <2>3. Shape(t, thread[t])'
      BY <2>2 DEF Shape
    <2>4. ~raced' => BusyState(thread[t])'
      <3>1. ~raced' => RestState
        BY <1>2 DEF SInv, Unraced
      <3>2. RestState => RestState'
        BY <1>2, <2>1 DEF RestState, HostAgrees, Fine, OnCourse
      <3> QED BY <2>2, <3>1, <3>2 DEF BusyState
    <2> QED BY <1>1, <1>2, <2>1, <2>3, <2>4, BeginMoves
  <1> QED BY <1>3, <1>3, <1>4

LEMMA WakeKeeps ==
  ASSUME IInv, SInv, ResyncWake
  PROVE  SInv'
  <1>1. /\ Resync \in Threads /\ thread[Resync].op = "idle"
        /\ Begin(Resync, "resync", "snapshot", NoConfig)
    BY DEF Threads, ResyncWake
  <1>2. /\ UNCHANGED <<intent, desired, want, slot_pins, io, broken, dtr, toBoard, groups, armed>>
        /\ ~raced' => Alone /\ ~raced
    BY DEF ResyncWake, hostVars, wireVars, boardVars
  <1>3. thread'[Resync].op = "resync" /\ thread'[Resync].at = "snapshot"
    BY <1>1, Begun
  <1>4. Shape(Resync, thread[Resync])'
    BY <1>3 DEF Shape
  <1>5. ~raced' => BusyState(thread[Resync])'
    <2>1. ~raced' => HostAgrees
      BY <1>2 DEF SInv, Unraced, RestState
    <2>2. HostAgrees => HostAgrees'
      BY <1>2 DEF HostAgrees
    <2> QED BY <1>3, <2>1, <2>2 DEF BusyState, ResyncState
  <1> QED BY <1>1, <1>2, <1>4, <1>5, BeginMoves

LEMMA SnapshotKeeps ==
  ASSUME IInv, SInv, ResyncSnapshot
  PROVE  SInv'
  <1>1. /\ UNCHANGED <<intent, desired, want, slot_pins, raced, io, broken, dtr, toBoard,
                       groups, armed, resync_needed>>
        /\ Resync \in Threads /\ thread[Resync].at = "snapshot"
    BY DEF ResyncSnapshot, Threads, hostVars, history, wireVars, boardVars
  <1>2. thread[Resync] \in Call /\ Shape(Resync, thread[Resync])
    BY <1>1, CallFacts DEF GoodCall, SInv, CallsShaped
  <1>3. thread[Resync].op = "resync"
    BY <1>1, CallFacts DEF GoodCall, CallOK
  <1>4. OthersSame(Resync)
    BY DEF ResyncSnapshot, IInv, OthersSame, Same
  <1>5. CASE desired = NoConfig \/ io # "up"
    <2>1. thread'[Resync] = Idle
      BY <1>1, <1>5 DEF ResyncSnapshot, IInv
    <2>2. Over(Resync, TRUE)
      <3>1. resync_needed \in BOOLEAN
        BY DEF IInv, TypeOK
      <3> QED BY <1>1, <2>1, <3>1 DEF Over
    <2>3. /\ thread'[Resync].op = "idle" /\ ToSet(thread'[Resync].plan) = {}
          /\ Shape(Resync, thread[Resync])'
      BY <1>1, <2>2, OverIdle
    <2>4. CallsShaped'
      BY <1>1, <1>4, <2>3, ShapesMove
    <2>5. NothingAsked'
      BY <1>1, <1>4, <2>3, AskedMoves DEF SInv, NothingAsked
    <2>6. ASSUME ~raced
          PROVE  RestState'
      <3>1. HostAgrees
        BY <1>1, <1>3, <2>6 DEF SInv, Unraced, BusyState, ResyncState
      <3>2. Fine => desired = NoConfig
        BY <1>5 DEF Fine
      <3>3. desired = NoConfig => ~intent /\ WillDisarm(toBoard, armed)
        <4> SUFFICES ASSUME desired = NoConfig PROVE ~intent /\ WillDisarm(toBoard, armed)
          OBVIOUS
        <4>1. armed = FALSE /\ NoneAfter(toBoard, 0, {"Arm"})
          BY DEF SInv, NothingAsked, IInv, TypeOK
        <4> QED BY <3>1, <4>1 DEF HostAgrees, WillDisarm, Ends
      <3> QED BY <1>1, <3>1, <3>2, <3>3 DEF RestState, HostAgrees, Fine, OnCourse
    <2>7. ~raced' => Unraced'
      BY <1>1, <1>3, <1>4, <2>3, <2>6, OneMoves
    <2> QED BY <1>1, <2>4, <2>5, <2>7 DEF SInv
  <1>6. CASE desired # NoConfig /\ io = "up"
    <2> DEFINE p == Plan("resync", want)
               g == [thread[Resync] EXCEPT !.at = "send", !.cfg = desired, !.tries = 2,
                                           !.plan = p]
    <2>1. p = IF want THEN <<"SetConfig", "Arm">> ELSE <<"SetConfig">>
      BY DEF Plan
    <2> HIDE DEF p
    <2>2. thread'[Resync] = g
      BY <1>1, <1>6 DEF ResyncSnapshot, IInv, p
    <2>3. /\ thread'[Resync].at = "send" /\ thread'[Resync].op = "resync"
          /\ thread'[Resync].cfg = desired /\ thread'[Resync].plan = p
      BY <1>2, <1>3, <2>2 DEF Call
    <2>4. CallsShaped'
      <3>1. Shape(Resync, thread[Resync])'
        BY <1>1, <2>3 DEF Shape
      <3> QED BY <1>1, <1>4, <3>1, ShapesMove
    <2>5. NothingAsked'
      BY <1>1, <1>6 DEF NothingAsked
    <2>6. ASSUME ~raced
          PROVE  BusyState(thread[Resync])'
      <3>1. HostAgrees
        BY <1>1, <1>3, <2>6 DEF SInv, Unraced, BusyState, ResyncState
      <3>2. HostAgrees'
        BY <1>1, <3>1 DEF HostAgrees
      <3>3. intent' => Arming(thread[Resync])'
        BY <1>1, <2>1, <2>3, <3>1 DEF HostAgrees, Arming
      <3>4. ~intent' => thread'[Resync].plan = <<"SetConfig">>
        BY <1>1, <2>1, <2>3, <3>1 DEF HostAgrees
      <3>5. ResyncState(thread[Resync])'
        BY <2>3, <3>2, <3>3, <3>4 DEF ResyncState
      <3> QED BY <2>3, <3>5 DEF BusyState
    <2>7. ~raced' => Unraced'
      BY <1>1, <1>3, <1>4, <2>3, <2>6, OneMoves
    <2> QED BY <1>1, <2>4, <2>5, <2>7 DEF SInv
  <1> QED BY <1>5, <1>6

-----------------------------------------------------------------------------
(* The theorem.                                                             *)

LEMMA InitSafe == Init => SInv
  <1> SUFFICES ASSUME Init PROVE SInv
    OBVIOUS
  <1>1. \A t \in Threads : /\ thread[t].op = "idle" /\ thread[t].at = "idle"
                           /\ ToSet(thread[t].plan) = {} /\ Shape(t, thread[t])
    BY DEF Init, Idle, ToSet, Shape
  <1>2. CallsShaped /\ NothingAsked
    BY <1>1 DEF Init, CallsShaped, NothingAsked, NoneAfter
  <1>3. HostAgrees
    BY ControllerAssumption DEF Init, HostAgrees
  <1>4. Unraced
    BY <1>1, <1>3 DEF Init, Unraced, RestState, Fine
  <1> QED BY <1>2, <1>4 DEF Init, SInv

LEMMA NextSafe == IInv /\ SInv /\ [Next]_vars => SInv'
  <1> SUFFICES ASSUME IInv, SInv, [Next]_vars PROVE SInv'
    OBVIOUS
  <1>1. CASE UNCHANGED vars
    <2>1. /\ UNCHANGED <<intent, desired, want, slot_pins, raced, io, broken, dtr, toBoard,
                         groups, armed, resync_needed, thread>>
      BY <1>1 DEF vars, hostVars, wireVars, boardVars, history
    <2>2. CallsSame /\ WireKept /\ (Fine' => Fine)
      BY <2>1 DEF CallsSame, Same, WireKept, Fine
    <2>3. CallsShaped' /\ NothingAsked'
      BY <2>1, <2>2, ShapesKept DEF SInv, NothingAsked
    <2>4. ~raced' => Unraced'
      BY <2>1, <2>2, Undisturbed DEF SInv
    <2> QED BY <2>1, <2>3, <2>4 DEF SInv
  <1>2. ASSUME NEW t \in Callers,
               (\E c \in Configs : CallArm(t, c)) \/ CallStop(t) \/ CallTest(t)
        PROVE  SInv'
    <2>1. CASE \E c \in Configs : CallArm(t, c)
      BY <2>1, ArmKeeps
    <2>2. CASE CallStop(t)
      BY <2>2, StopTestKeep
    <2>3. CASE CallTest(t)
      BY <2>3, StopTestKeep
    <2> QED BY <1>2, <2>1, <2>2, <2>3
  <1>3. ASSUME NEW t \in Threads, CallStep(t)
        PROVE  SInv'
    BY <1>3, SetDesiredKeeps, SlotPinsKeeps, ClearWantKeeps, CheckKeeps, EndKeeps, SendKeeps
       DEF CallStep
  <1>4. CASE ResyncWake \/ ResyncSnapshot
    BY <1>4, WakeKeeps, SnapshotKeeps
  <1>5. CASE IoStep
    BY <1>5, IoKeeps
  <1>6. CASE BoardStep \/ HandleCommand(FALSE)
    BY <1>6, PollKeeps, HandleKeeps DEF BoardStep
  <1>7. CASE Unplug \/ Reset
    BY <1>7, FaultKeeps
  <1>8. CASE Rest
    BY <1>1, <1>8 DEF Rest
  <1> QED BY <1>1, <1>2, <1>3, <1>4, <1>5, <1>6, <1>7, <1>8 DEF Next

\* SInv is inductive, given the types.
THEOREM ControllerOnCourse == Spec => []SInv
  <1>1. Init => SInv
    BY InitSafe
  <1>2. IInv /\ SInv /\ [Next]_vars => SInv'
    BY NextSafe
  <1> QED BY <1>1, <1>2, ControllerInductive, PTL DEF Spec

\* Whatever was lost, late, unplugged or reset, once everything asked for has been
\* done the board is armed exactly if the operator's last word was to arm it, with
\* the configuration asked for, unless two calls overlapped.
THEOREM SettledBoardInSync == Spec => []SettledInSync
  <1>1. IInv /\ SInv => SettledInSync
    <2> SUFFICES ASSUME IInv, SInv, Settled, ~raced PROVE InSync
      BY DEF SettledInSync
    <2>1. RestState /\ Fine /\ toBoard = <<>>
      BY DEF SInv, Unraced, Settled, Fine
    <2>2. armed \in BOOLEAN /\ intent \in BOOLEAN
      BY DEF IInv, TypeOK
    <2>3. CASE intent
      <3>1. WillHave(<<>>, groups, desired) /\ WillArm(<<>>, armed) /\ slot_pins = desired
        BY <2>1, <2>3 DEF RestState, HostAgrees, OnCourse
      <3>2. groups = desired /\ armed = TRUE
        BY <3>1, EndsNow DEF WillHave, WillArm
      <3> QED BY <2>2, <2>3, <3>1, <3>2 DEF InSync
    <2>4. CASE ~intent
      <3>1. WillDisarm(<<>>, armed)
        BY <2>1, <2>4 DEF RestState, OnCourse
      <3>2. armed = FALSE
        BY <3>1, EndsNow DEF WillDisarm
      <3> QED BY <2>2, <2>4, <3>2 DEF InSync
    <2> QED BY <2>3, <2>4
  <1> QED BY <1>1, ControllerInductive, ControllerOnCourse, PTL

-----------------------------------------------------------------------------
(* Acknowledgements.                                                        *)

\* A request id is left that no call and no frame uses.
IdsLeft == ~(Ids \subseteq InUse)

\* The call still waits for the first answer to its command, and no other command was
\* sent in the meantime.
Unanswered(h) == h.at = "await" /\ ~h.acked /\ ~h.crossed

\* The host has no Ok for it, and none is on the way.
AckState(h) ==
    Unanswered(h) => /\ cmd_status # "Ok"
                     /\ pending # None => pending.id = h.id
                     /\ \A m \in ToSet(toHost) : m.id = h.id => m.status # "Ok"

AckInv == \A t \in Threads : AckState(thread[t])

LEMMA ToSetFacts ==
  ASSUME NEW S, NEW s \in Seq(S), NEW m \in S
  PROVE  /\ ToSet(Append(s, m)) = ToSet(s) \cup {m}
         /\ s # <<>> => ToSet(Tail(s)) \subseteq ToSet(s) /\ Head(s) \in ToSet(s)
  <1>1. ToSet(Append(s, m)) = ToSet(s) \cup {m}
    <2> DEFINE r == Append(s, m)
    <2>1. /\ Len(s) \in Nat /\ DOMAIN s = 1..Len(s) /\ DOMAIN r = 1..(Len(s) + 1)
          /\ r[Len(s) + 1] = m /\ \A i \in 1..Len(s) : r[i] = s[i]
      OBVIOUS
    <2> HIDE DEF r
    <2>2. ToSet(r) \subseteq ToSet(s) \cup {m}
      BY <2>1 DEF ToSet
    <2>3. ToSet(s) \cup {m} \subseteq ToSet(r)
      BY <2>1 DEF ToSet
    <2> QED BY <2>2, <2>3 DEF r
  <1>2. ASSUME s # <<>> PROVE ToSet(Tail(s)) \subseteq ToSet(s) /\ Head(s) \in ToSet(s)
    BY <1>2 DEF ToSet
  <1> QED BY <1>1, <1>2

\* Whoever waits unanswered did so before, for the same command.
StillWaiting ==
    \A t \in Threads : Unanswered(thread'[t]) => Unanswered(thread[t]) /\ thread'[t].id = thread[t].id

\* A step that gives the host no answer it did not have.
LEMMA NoAnswer ==
  ASSUME AckInv, StillWaiting, None # "Ok",
         cmd_status' \in {cmd_status, None}, pending' \in {pending, None},
         ToSet(toHost') \subseteq ToSet(toHost)
  PROVE  AckInv'
  <1> SUFFICES ASSUME NEW t \in Threads, Unanswered(thread'[t])
               PROVE  /\ cmd_status' # "Ok"
                      /\ pending' # None => pending'.id = thread'[t].id
                      /\ \A m \in ToSet(toHost') : m.id = thread'[t].id => m.status # "Ok"
    BY DEF AckInv, AckState, Unanswered
  <1>1. Unanswered(thread[t]) /\ thread'[t].id = thread[t].id
    BY DEF StillWaiting
  <1> QED BY <1>1 DEF AckInv, AckState

LEMMA OthersStill ==
  ASSUME IInv, NEW t \in Threads, NEW h, thread' = [thread EXCEPT ![t] = h], h.at # "await"
  PROVE  StillWaiting
  BY DEF IInv, StillWaiting, Unanswered

LEMMA MovedOn ==
  ASSUME IInv, NEW t \in Threads, Failed(t) \/ Succeeded(t) \/ Finish(t, FALSE)
  PROVE  StillWaiting
  <1>1. thread[t] \in Call /\ Idle.at # "await"
    BY CallFacts DEF GoodCall, Idle
  <1>2. \A ok \in BOOLEAN : Finish(t, ok) => StillWaiting
    BY <1>1, OthersStill DEF Finish
  <1>3. CASE Failed(t) /\ thread[t].tries > 1
    <2> DEFINE g == [thread[t] EXCEPT !.at = "send", !.tries = @ - 1, !.id = None,
                                      !.acked = FALSE, !.crossed = FALSE]
    <2>1. thread' = [thread EXCEPT ![t] = g]
      BY <1>3 DEF Failed, IInv
    <2>2. g.at # "await"
      BY <1>1 DEF Call
    <2> HIDE DEF g
    <2> QED BY <2>1, <2>2, OthersStill
  <1>4. CASE Succeeded(t) /\ Len(thread[t].plan) > 1
    <2> DEFINE g == [thread[t] EXCEPT !.at = "send", !.plan = Tail(@), !.tries = 2,
                                      !.id = None, !.acked = FALSE, !.crossed = FALSE]
    <2>1. thread' = [thread EXCEPT ![t] = g]
      BY <1>4 DEF Succeeded, IInv
    <2>2. g.at # "await"
      BY <1>1 DEF Call
    <2> HIDE DEF g
    <2> QED BY <2>1, <2>2, OthersStill
  <1>5. Failed(t) /\ ~(thread[t].tries > 1) => Finish(t, FALSE)
    BY DEF Failed
  <1>6. Succeeded(t) /\ ~(Len(thread[t].plan) > 1) => Finish(t, TRUE)
    BY DEF Succeeded
  <1> QED BY <1>2, <1>3, <1>4, <1>5, <1>6

\* Steps of the host that send nothing.
LEMMA HostAck ==
  ASSUME IInv, AckInv, NEW t \in Threads, CallStep(t), ~Send(t)
  PROVE  AckInv'
  <1>1. thread[t] \in Call
    BY CallFacts DEF GoodCall
  <1>2. StillWaiting
    <2>1. CASE SetDesired(t)
      <3> DEFINE g == [thread[t] EXCEPT !.at = "check"]
      <3>1. thread' = [thread EXCEPT ![t] = g] /\ g.at # "await"
        BY <1>1, <2>1 DEF SetDesired, IInv, Call
      <3> HIDE DEF g
      <3> QED BY <3>1, OthersStill
    <2>2. CASE SetSlotPins(t) \/ ClearWant(t) \/ CheckConnected(t)
      <3>1. StartIfConnected(t)
        BY <2>2 DEF SetSlotPins, ClearWant, CheckConnected
      <3>2. CASE io = "up"
        <4> DEFINE g == [thread[t] EXCEPT !.at = "send", !.plan = Plan(thread[t].op, TRUE),
                                          !.tries = TriesFor(thread[t].op)]
        <4>1. thread' = [thread EXCEPT ![t] = g] /\ g.at # "await"
          BY <1>1, <3>1, <3>2 DEF StartIfConnected, IInv, Call
        <4> HIDE DEF g
        <4> QED BY <4>1, OthersStill
      <3>3. CASE io # "up"
        BY <3>1, <3>3, MovedOn DEF StartIfConnected
      <3> QED BY <3>2, <3>3
    <2>3. CASE SendFails(t) \/ Wake(t) \/ Timeout(t)
      BY <2>3, MovedOn DEF SendFails, Wake, Timeout
    <2> QED BY <2>1, <2>2, <2>3 DEF CallStep
  <1>3. /\ cmd_status' \in {cmd_status, None} /\ pending' \in {pending, None}
        /\ toHost' = toHost
    BY DEF CallStep, SetDesired, SetSlotPins, ClearWant, CheckConnected, SendFails, Wake,
           Timeout, cmdVars, wireVars
  <1> QED BY <1>2, <1>3, NoAnswer, ControllerAssumption

\* A command is written: its id is on no answer, and everybody else is crossed.
LEMMA SendAck ==
  ASSUME IInv, AckInv, IdsLeft, NEW t \in Threads, Send(t)
  PROVE  AckInv'
  <1>1. FreshId \notin InUse
    BY DEF FreshId, IdsLeft
  <1>2. /\ cmd_status' = None /\ pending'.id = FreshId /\ toHost' = toHost
    BY DEF Send
  <1>3. \A u \in Threads : thread[u] \in Call
    BY DEF IInv, GoodCall
  <1>4. \A u \in Threads \ {t} : ~Unanswered(thread'[u])
    <2> TAKE u \in Threads \ {t}
    <2>1. thread'[u] = [thread[u] EXCEPT !.crossed = @ \/ thread[u].at = "await"]
      BY DEF Send
    <2>2. /\ thread'[u].crossed = (thread[u].crossed \/ thread[u].at = "await")
          /\ thread'[u].at = thread[u].at
      BY <1>3, <2>1 DEF Call
    <2> QED BY <2>2 DEF Unanswered
  <1>5. thread'[t].id = FreshId
    <2>1. thread'[t] = [thread[t] EXCEPT !.at = "await", !.id = FreshId,
                          !.crossed = \E v \in Threads \ {t} : thread[v].at = "await"]
      BY DEF Send
    <2> QED BY <1>3, <2>1 DEF Call
  <1>6. \A m \in ToSet(toHost) : m.id # FreshId
    BY <1>1 DEF InUse
  <1> QED BY <1>2, <1>4, <1>5, <1>6, ControllerAssumption DEF AckInv, AckState, Unanswered

\* An ACK is taken only for the pending command.
LEMMA IoAck ==
  ASSUME IInv, AckInv, IoStep
  PROVE  AckInv'
  <1>1. StillWaiting
    BY DEF StillWaiting, Unanswered, IoStep, Open, ProbeOk, ProbeFails, Disconnect, ReadFrame
  <1>2. toHost \in Seq(Answer)
    BY DEF IInv, TypeOK
  <1>3. CASE ~ReadFrame
    <2>1. ToSet(toHost') \subseteq ToSet(toHost)
      <3>1. toHost' = toHost \/ toHost' = <<>>
        BY <1>3 DEF IoStep, Open, ProbeOk, ProbeFails, Disconnect, wireVars
      <3> QED BY <3>1 DEF ToSet
    <2>2. cmd_status' \in {cmd_status, None} /\ pending' \in {pending, None}
      BY <1>3 DEF IoStep, Open, ProbeOk, ProbeFails, Disconnect, cmdVars
    <2> QED BY <1>1, <2>1, <2>2, NoAnswer, ControllerAssumption
  <1>4. CASE ReadFrame
    <2>1. Head(toHost) \in ToSet(toHost) /\ ToSet(toHost') \subseteq ToSet(toHost)
      BY <1>2, <1>4 DEF ReadFrame, ToSet
    <2>2. CASE Correlates(Head(toHost))
      <3> SUFFICES ASSUME NEW t \in Threads, Unanswered(thread'[t])
                   PROVE  /\ cmd_status' # "Ok"
                          /\ pending' # None => pending'.id = thread'[t].id
                          /\ \A m \in ToSet(toHost') : m.id = thread'[t].id => m.status # "Ok"
        BY DEF AckInv, AckState, Unanswered
      <3>1. Unanswered(thread[t]) /\ thread'[t].id = thread[t].id
        BY <1>1 DEF StillWaiting
      <3>2. Head(toHost).id = thread[t].id
        BY <2>2, <3>1 DEF Correlates, AckInv, AckState
      <3>3. cmd_status' = Head(toHost).status /\ pending' = None
        BY <1>4, <2>2 DEF ReadFrame
      <3> QED BY <2>1, <3>1, <3>2, <3>3 DEF AckInv, AckState
    <2>3. CASE ~Correlates(Head(toHost))
      BY <1>1, <1>4, <2>1, <2>3, NoAnswer, ControllerAssumption DEF ReadFrame, cmdVars
    <2> QED BY <2>2, <2>3
  <1> QED BY <1>3, <1>4

\* The board acknowledges a command: whoever waits for it is no longer unanswered.
LEMMA HandleAck ==
  ASSUME IInv, AckInv, NEW sent \in BOOLEAN, HandleCommand(sent)
  PROVE  AckInv'
  <1> DEFINE m == Head(toBoard)
             answer == [id |-> m.id, cmd |-> m.cmd, status |-> StatusOf(m)]
  <1>1. toBoard \in Seq(Request) /\ toBoard # <<>> /\ toHost \in Seq(Answer)
    BY DEF HandleCommand, IInv, TypeOK
  <1>2. m \in Request /\ answer \in Answer
    <2>1. m \in Request
      BY <1>1
    <2>2. StatusOf(m) \in Statuses
      BY DEF StatusOf, Statuses
    <2> HIDE DEF m
    <2> QED BY <2>1, <2>2 DEF Request, Answer
  <1>3. ToSet(toHost') \subseteq ToSet(toHost) \cup {answer} /\ UNCHANGED cmdVars
    <2>1. toHost' \in {toHost, Append(toHost, answer)} /\ UNCHANGED cmdVars
      BY DEF HandleCommand
    <2> HIDE DEF answer
    <2>2. ToSet(Append(toHost, answer)) = ToSet(toHost) \cup {answer}
      BY <1>1, <1>2, ToSetFacts
    <2> QED BY <2>1, <2>2, Zenon
  <1>4. \A t \in Threads :
          thread'[t] = IF thread[t].id = m.id /\ thread[t].at = "await" /\ StatusOf(m) = "Ok"
                         THEN [thread[t] EXCEPT !.acked = TRUE] ELSE thread[t]
    BY DEF HandleCommand
  <1>5. answer.id = m.id /\ answer.status = StatusOf(m)
    OBVIOUS
  <1> HIDE DEF m, answer
  <1> SUFFICES ASSUME NEW t \in Threads, Unanswered(thread'[t])
               PROVE  /\ cmd_status' # "Ok"
                      /\ pending' # None => pending'.id = thread'[t].id
                      /\ \A a \in ToSet(toHost') : a.id = thread'[t].id => a.status # "Ok"
    BY DEF AckInv, AckState, Unanswered
  <1>6. thread[t] \in Call
    BY DEF IInv, GoodCall
  <1>7. /\ thread'[t] = thread[t]
        /\ ~(thread[t].id = m.id /\ thread[t].at = "await" /\ StatusOf(m) = "Ok")
    <2>1. [thread[t] EXCEPT !.acked = TRUE].acked = TRUE
      BY <1>6 DEF Call
    <2> QED BY <1>4, <2>1 DEF Unanswered
  <1> QED BY <1>3, <1>5, <1>7 DEF AckInv, AckState, Unanswered, cmdVars

LEMMA OtherAck ==
  ASSUME IInv, AckInv,
         \/ \E t \in Callers : (\E c \in Configs : CallArm(t, c)) \/ CallStop(t) \/ CallTest(t)
         \/ ResyncWake \/ ResyncSnapshot \/ PollDtr \/ Unplug \/ Reset \/ UNCHANGED vars
  PROVE  AckInv'
  <1>1. cmd_status' = cmd_status /\ pending' = pending
    BY DEF CallArm, CallStop, CallTest, ResyncWake, ResyncSnapshot, PollDtr, Unplug, Reset,
           vars, cmdVars
  <1>2. ToSet(toHost') \subseteq ToSet(toHost)
    <2>1. toHost' = toHost \/ toHost' = <<>>
      BY DEF CallArm, CallStop, CallTest, ResyncWake, ResyncSnapshot, PollDtr, Unplug, Reset,
             vars, wireVars
    <2> QED BY <2>1 DEF ToSet
  <1>3. \A t \in Threads : \A op, at, cfg :
           Begin(t, op, at, cfg) /\ at # "await" => StillWaiting
    <2> SUFFICES ASSUME NEW t \in Threads, NEW op, NEW at, NEW cfg, Begin(t, op, at, cfg),
                        at # "await"
                 PROVE  StillWaiting
      OBVIOUS
    <2> DEFINE g == [Idle EXCEPT !.op = op, !.at = at, !.cfg = cfg]
    <2>1. thread' = [thread EXCEPT ![t] = g] /\ g.at # "await"
      BY DEF Begin, Idle
    <2> HIDE DEF g
    <2> QED BY <2>1, OthersStill
  <1>4. StillWaiting
    <2>1. ASSUME NEW t \in Callers,
                 (\E c \in Configs : CallArm(t, c)) \/ CallStop(t) \/ CallTest(t)
          PROVE  StillWaiting
      BY <1>3, <2>1 DEF CallArm, CallStop, CallTest, Threads
    <2>2. CASE ResyncWake
      BY <1>3, <2>2 DEF ResyncWake, Threads
    <2>3. CASE ResyncSnapshot
      <3> DEFINE g == IF desired = NoConfig \/ io # "up" THEN Idle
                      ELSE [thread[Resync] EXCEPT !.at = "send", !.cfg = desired, !.tries = 2,
                                                  !.plan = Plan("resync", want)]
      <3>1. Resync \in Threads
        BY DEF Threads
      <3>2. thread' = [thread EXCEPT ![Resync] = g]
        BY <2>3, <3>1 DEF ResyncSnapshot, IInv
      <3>3. g.at # "await"
        <4>1. thread[Resync] \in Call
          BY <3>1, CallFacts DEF GoodCall
        <4> QED BY <4>1 DEF Idle, Call
      <3> HIDE DEF g
      <3> QED BY <3>1, <3>2, <3>3, OthersStill
    <2>4. CASE PollDtr \/ Unplug \/ Reset \/ UNCHANGED vars
      BY <2>4 DEF PollDtr, Unplug, Reset, vars, StillWaiting, Unanswered
    <2> QED BY <2>1, <2>2, <2>3, <2>4
  <1> QED BY <1>1, <1>2, <1>4, NoAnswer, ControllerAssumption

LEMMA NextAck == IInv /\ AckInv /\ IdsLeft /\ [Next]_vars => AckInv'
  <1> SUFFICES ASSUME IInv, AckInv, IdsLeft, [Next]_vars PROVE AckInv'
    OBVIOUS
  <1>1. ASSUME NEW t \in Threads, CallStep(t)
        PROVE  AckInv'
    BY <1>1, HostAck, SendAck
  <1>2. CASE IoStep
    BY <1>2, IoAck
  <1>3. CASE BoardStep \/ HandleCommand(FALSE)
    BY <1>3, HandleAck, OtherAck DEF BoardStep
  <1>4. Rest => UNCHANGED vars
    BY DEF Rest
  <1> QED BY <1>1, <1>2, <1>3, <1>4, OtherAck DEF Next

\* Without an Ok a call that waits keeps its plan, or is over.
LEMMA PlanStays ==
  ASSUME IInv, CallsShaped, [Next]_vars, NEW t \in Threads, thread[t].at = "await",
         cmd_status # "Ok"
  PROVE  thread'[t].plan = thread[t].plan \/ thread'[t].op = "idle"
  <1> USE DEF IInv
  <1>1. \A u \in Threads : thread[u] \in Call
    BY DEF GoodCall
  <1>2. \A u \in Threads : OthersSame(u) /\ u # t => thread'[t].plan = thread[t].plan
    BY DEF OthersSame, Same
  <1>3. ASSUME NEW u \in Callers,
               (\E c \in Configs : CallArm(u, c)) \/ CallStop(u) \/ CallTest(u)
        PROVE  thread'[t].plan = thread[t].plan
    <2>1. thread[u].op = "idle" /\ u \in Threads /\ \E op, at, c : Begin(u, op, at, c)
      BY <1>3 DEF CallArm, CallStop, CallTest, MayCall, Threads
    <2>2. u # t
      BY <2>1 DEF CallsShaped, Shape
    <2> QED BY <2>1, <2>2 DEF Begin
  <1>4. ASSUME NEW u \in Threads, CallStep(u)
        PROVE  thread'[t].plan = thread[t].plan \/ thread'[t].op = "idle"
    <2>1. CASE SetDesired(u)
      BY <1>4, <2>1 DEF SetDesired
    <2>2. CASE SetSlotPins(u) \/ ClearWant(u) \/ CheckConnected(u)
      <3>1. StartIfConnected(u) /\ u # t
        BY <2>2 DEF SetSlotPins, ClearWant, CheckConnected
      <3> QED BY <1>2, <3>1, StartMoves
    <2>3. CASE SendFails(u) \/ Timeout(u) \/ Wake(u)
      <3>1. CASE Failed(u)
        BY <1>2, <3>1, FailedMoves DEF Again, Over, Idle
      <3>2. CASE ~Failed(u)
        BY <2>3, <3>2 DEF SendFails, Timeout, Wake
      <3> QED BY <3>1, <3>2
    <2>4. CASE Send(u)
      <3>1. \A v \in Threads : \/ \E id, x : thread'[v] = [thread[v] EXCEPT !.at = "await",
                                                         !.id = id, !.crossed = x]
                              \/ \E x : thread'[v] = [thread[v] EXCEPT !.crossed = x]
        BY <2>4 DEF Send
      <3> QED BY <1>1, <3>1 DEF Call
    <2> QED BY <1>4, <2>1, <2>2, <2>3, <2>4 DEF CallStep
  <1>5. CASE ResyncWake \/ ResyncSnapshot
    <2>1. Resync \in Threads /\ Resync # t
      BY <1>5 DEF ResyncWake, ResyncSnapshot, Threads, CallsShaped, Shape
    <2> QED BY <1>5, <2>1 DEF ResyncWake, ResyncSnapshot, Begin
  <1>6. CASE IoStep \/ PollDtr \/ Unplug \/ Reset \/ Rest \/ UNCHANGED vars
    <2>1. thread' = thread
      BY <1>6 DEF IoStep, Open, ProbeOk, ProbeFails, Disconnect, ReadFrame, PollDtr, Unplug,
                  Reset, Rest, vars
    <2> QED BY <2>1
  <1>7. ASSUME NEW sent \in BOOLEAN, HandleCommand(sent)
        PROVE  thread'[t].plan = thread[t].plan
    <2>1. thread'[t] \in {thread[t], [thread[t] EXCEPT !.acked = TRUE]}
      BY <1>7 DEF HandleCommand
    <2> QED BY <1>1, <2>1 DEF Call
  <1> QED BY <1>3, <1>4, <1>5, <1>6, <1>7 DEF Next, BoardStep

\* A step in which a call reports success.
LEMMA ReportsOnlyAcked ==
  ASSUME IInv, CallsShaped, AckInv, [Next]_vars
  PROVE  [AckedIfOk]_vars
  <1> SUFFICES ASSUME NEW t \in Threads, ReportsOk(t), ~thread[t].acked, ~thread[t].crossed
               PROVE  FALSE
    BY DEF AckedIfOk
  <1>1. thread[t].at = "await" /\ cmd_status # "Ok"
    BY DEF ReportsOk, AckInv, AckState, Unanswered
  <1>2. thread'[t].plan = Tail(thread[t].plan) /\ thread'[t].op # "idle"
    BY <1>1 DEF ReportsOk
  <1>3. thread'[t].plan # thread[t].plan
    <2>1. thread[t].plan \in Seq(Commands) /\ thread[t].plan # <<>>
      BY <1>1, CallFacts
    <2>2. Len(Tail(thread[t].plan)) # Len(thread[t].plan)
      BY <2>1
    <2> QED BY <1>2, <2>2
  <1> QED BY <1>1, <1>2, <1>3, PlanStays

LEMMA InitAck == Init => AckInv
  BY ControllerAssumption DEF Init, AckInv, AckState, Unanswered, Idle

\* A call reports success only if the board acknowledged its command, or another
\* thread's command took the one pending slot: as long as the counter of request ids
\* does not come round to one still in use.
THEOREM OnlyAckedIsOk == Spec /\ []IdsLeft => OkMeansAcked
  <1>1. Init => AckInv
    BY InitAck
  <1>2. IInv /\ AckInv /\ IdsLeft /\ [Next]_vars => AckInv'
    BY NextAck
  <1>3. IInv /\ SInv /\ AckInv /\ [Next]_vars => [AckedIfOk]_vars
    BY ReportsOnlyAcked DEF SInv
  <1> QED BY <1>1, <1>2, <1>3, ControllerInductive, ControllerOnCourse, PTL
          DEF Spec, OkMeansAcked
=============================================================================
