--------------------------- MODULE MeasurementBus ---------------------------
(***************************************************************************)
(* The multi-subscriber bus of IMU samples, tag poses, odometry and        *)
(* chassis speeds (src/core/measurement_bus.hpp): every subscriber gets    *)
(* every value through a bounded queue that drops its oldest.  A value is  *)
(* named by its position in the order of publication.  A step is one       *)
(* critical section of mu_, or a notify_all() outside it.                  *)
(***************************************************************************)
EXTENDS Naturals, Sequences, FiniteSets

CONSTANTS
    Publishers,   \* threads that publish
    Subscribers,  \* single-use handles, each with one consuming thread
    Capacity,     \* Subscriber::capacity
    MaxPublish    \* bound on the values published

\* What the properties need of the constants; Streams assumes it.
BusAssumption ==
    /\ Capacity \in [Subscribers -> Nat \ {0}]
    /\ Publishers \cap Subscribers = {}
    /\ MaxPublish \in Nat

VARIABLES
    published,  \* values published so far
    subs,       \* subs_
    queue,      \* Subscriber::queue
    dropped,    \* Subscriber::dropped
    attached,   \* Subscriber::attached
    notifying,  \* threads past their critical section, before notify_all()
    consumer,   \* consuming thread: "none", "running", "asleep", "woken", "exit"
    since,      \* history: values published before subscribe()
    popped,     \* history: values the consumer popped
    last        \* history: the last value it popped

vars == <<published, subs, queue, dropped, attached, notifying, consumer, since,
          popped, last>>

Init ==
    /\ published = 0
    /\ subs = {}
    /\ queue = [s \in Subscribers |-> <<>>]
    /\ dropped = [s \in Subscribers |-> 0]
    /\ attached = [s \in Subscribers |-> TRUE]
    /\ notifying = {}
    /\ consumer = [s \in Subscribers |-> "none"]
    /\ since = [s \in Subscribers |-> 0]
    /\ popped = [s \in Subscribers |-> 0]
    /\ last = [s \in Subscribers |-> 0]

\* subscribe(), and the start of the thread that consumes
Subscribe(s) ==
    /\ consumer[s] = "none"
    /\ subs' = subs \cup {s}
    /\ since' = [since EXCEPT ![s] = published]
    /\ consumer' = [consumer EXCEPT ![s] = "running"]
    /\ UNCHANGED <<published, queue, dropped, attached, notifying, popped, last>>

Full(s) == Len(queue[s]) >= Capacity[s]

\* Mutant of Pushed: a full queue drops the new value.
PushedOrLost(s) == IF Full(s) THEN queue[s] ELSE Append(queue[s], published + 1)

\* publish(): the new value, after the oldest was dropped from a full queue
Pushed(s) == Append(IF Full(s) THEN Tail(queue[s]) ELSE queue[s], published + 1)

\* publish(): the critical section
Publish(p) ==
    /\ p \notin notifying
    /\ published < MaxPublish
    /\ published' = published + 1
    /\ queue' = [s \in Subscribers |-> IF s \in subs THEN Pushed(s) ELSE queue[s]]
    /\ dropped' = [s \in Subscribers |->
                     IF s \in subs /\ Full(s) THEN dropped[s] + 1 ELSE dropped[s]]
    /\ notifying' = notifying \cup {p}
    /\ UNCHANGED <<subs, attached, consumer, since, popped, last>>

\* unsubscribe(): the critical section, by the owner of the handle
Unsubscribe(s) ==
    /\ s \in subs
    /\ subs' = subs \ {s}
    /\ attached' = [attached EXCEPT ![s] = FALSE]
    /\ notifying' = notifying \cup {s}
    /\ UNCHANGED <<published, queue, dropped, consumer, since, popped, last>>

\* Mutant of NotifyAll: wakes the threads of the subscriber list only.
NotifySubscribed(n) ==
    /\ n \in notifying
    /\ notifying' = notifying \ {n}
    /\ consumer' = [s \in Subscribers |->
                      IF consumer[s] = "asleep" /\ s \in subs THEN "woken" ELSE consumer[s]]
    /\ UNCHANGED <<published, subs, queue, dropped, attached, since, popped, last>>

\* cv_.notify_all()
NotifyAll(n) ==
    /\ n \in notifying
    /\ notifying' = notifying \ {n}
    /\ consumer' = [s \in Subscribers |->
                      IF consumer[s] = "asleep" THEN "woken" ELSE consumer[s]]
    /\ UNCHANGED <<published, subs, queue, dropped, attached, since, popped, last>>

\* wait_pop(): tests its predicate, on entry or woken, and sleeps, leaves or pops.
WaitPop(s) ==
    /\ consumer[s] \in {"running", "woken"}
    /\ IF attached[s] /\ queue[s] # <<>>
         THEN /\ queue' = [queue EXCEPT ![s] = Tail(@)]
              /\ last' = [last EXCEPT ![s] = Head(queue[s])]
              /\ popped' = [popped EXCEPT ![s] = @ + 1]
              /\ consumer' = [consumer EXCEPT ![s] = "running"]
         ELSE /\ consumer' = [consumer EXCEPT ![s] = IF attached[s] THEN "asleep" ELSE "exit"]
              /\ UNCHANGED <<queue, last, popped>>
    /\ UNCHANGED <<published, subs, dropped, attached, notifying, since>>

\* try_pop(): also empties the queue of a handle already detached.
TryPop(s) ==
    /\ consumer[s] = "running"
    /\ queue[s] # <<>>
    /\ queue' = [queue EXCEPT ![s] = Tail(@)]
    /\ last' = [last EXCEPT ![s] = Head(queue[s])]
    /\ popped' = [popped EXCEPT ![s] = @ + 1]
    /\ UNCHANGED <<published, subs, dropped, attached, notifying, consumer, since>>

\* Nothing more is published; consumers may sleep for good.
Quiet == published = MaxPublish /\ notifying = {} /\ UNCHANGED vars

Next ==
    \/ \E p \in Publishers : Publish(p)
    \/ \E n \in Publishers \cup Subscribers : NotifyAll(n)
    \/ \E s \in Subscribers : Subscribe(s) \/ Unsubscribe(s) \/ WaitPop(s) \/ TryPop(s)
    \/ Quiet

Fairness ==
    /\ \A n \in Publishers \cup Subscribers : WF_vars(NotifyAll(n))
    /\ \A s \in Subscribers : WF_vars(WaitPop(s))

Spec == Init /\ [][Next]_vars
FairSpec == Spec /\ Fairness

-----------------------------------------------------------------------------
(* Properties.                                                              *)

TypeOK ==
    /\ published \in 0..MaxPublish
    /\ subs \subseteq Subscribers
    /\ \A s \in Subscribers : queue[s] \in Seq(1..MaxPublish) /\ Len(queue[s]) <= Capacity[s]
    /\ dropped \in [Subscribers -> 0..MaxPublish]
    /\ attached \in [Subscribers -> BOOLEAN]
    /\ notifying \subseteq Publishers \cup Subscribers
    /\ consumer \in [Subscribers -> {"none", "running", "asleep", "woken", "exit"}]
    /\ since \in [Subscribers -> 0..MaxPublish]
    /\ popped \in [Subscribers -> 0..MaxPublish]
    /\ last \in [Subscribers -> 0..MaxPublish]

\* Every value published since subscribe() was popped, is queued, or is counted in
\* dropped; what is queued is the newest values, in order and without a gap.
NothingLostUncounted ==
    \A s \in subs :
        /\ popped[s] + dropped[s] + Len(queue[s]) = published - since[s]
        /\ \A i \in 1..Len(queue[s]) : queue[s][i] = published - Len(queue[s]) + i

\* A subscriber pops values in the order they were published, whoever published
\* them, and each at most once.
PopsNext == \A s \in Subscribers : last'[s] # last[s] => last'[s] > last[s]
PopsInOrder == [][PopsNext]_vars

\* No wake-up is lost: a consumer asleep with a value queued or its handle
\* detached has a notify_all() on its way.
NoLostWakeup ==
    \A s \in Subscribers :
        consumer[s] = "asleep" /\ (queue[s] # <<>> \/ ~attached[s]) => notifying # {}

\* A blocked consumer returns once its handle is unsubscribed.
UnsubscribeWakes == \A s \in Subscribers : ~attached[s] ~> consumer[s] = "exit"
=============================================================================
