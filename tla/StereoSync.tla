----------------------------- MODULE StereoSync -----------------------------
(***************************************************************************)
(* The stereo pairer of the VIO pipeline and its lifecycle                 *)
(* (src/vio/stereo_sync_consumer.{hpp,cpp}): two feeder threads push the   *)
(* frames of the left and right camera, the runner pops pairs of equal     *)
(* stamps, the supervisor shuts the pairer down to stop the runner and     *)
(* resets it for the next one.  A step is one critical section of mu_, or  *)
(* the notify_all() of shutdown() outside it.                              *)
(*                                                                         *)
(* A frame is its pulse stamp and, as history, the number of resets before *)
(* its push.  Frames without a stamp are dropped before they get here.     *)
(***************************************************************************)
EXTENDS Naturals, Sequences, FiniteSets

CONSTANTS
    MaxPulse,    \* bound on the stamps
    SideCap,     \* kSideCap
    PairCap,     \* kPairCap
    MaxResets    \* bound on the runner rebuilds

\* What the properties need of the constants; Streams assumes it.
PairerAssumption ==
    /\ MaxPulse \in Nat /\ MaxResets \in Nat
    /\ SideCap \in Nat \ {0} /\ PairCap \in Nat \ {0}

Sides == {"left", "right"}
Other(d) == IF d = "left" THEN "right" ELSE "left"

VARIABLES
    sides,       \* sides_, each a sequence of [t, session]
    pairs,       \* pairs_, each [t, sessions]
    shut,        \* shutdown_
    seen,        \* the last pulse each camera has delivered or lost a frame of
    runner,      \* runner thread: "running", "asleep", "woken", "exit", "gone"
    super,       \* supervisor: "idle", "notify", "join", "reset", "start"
    resets,      \* runner rebuilds so far
    got,         \* history: the last pair the runner popped
    paired, unmatched, overflow,   \* counters_
    pushed,      \* history: frames taken by push()
    popped,      \* history: pairs popped
    cleared      \* history: frames and pairs discarded by reset()

counts == <<paired, unmatched, overflow, pushed, popped, cleared>>
vars == <<sides, pairs, shut, seen, runner, super, resets, got, counts>>

Init ==
    /\ sides = [d \in Sides |-> <<>>] /\ pairs = <<>>
    /\ shut = FALSE
    /\ seen = [d \in Sides |-> 0]
    /\ runner = "running" /\ super = "idle" /\ resets = 0
    /\ got = [t |-> 0, sessions |-> {}]
    /\ paired = 0 /\ unmatched = 0 /\ overflow = 0
    /\ pushed = 0 /\ popped = 0
    /\ cleared = [frames |-> 0, pairs |-> 0]

-----------------------------------------------------------------------------
(* push(), by the feeder of side d.                                         *)

Frame(t) == [t |-> t, session |-> resets]

\* Mutant of Partner: looks at the oldest buffered frame only.
PartnerFront(d, t) == {i \in 1..Len(sides[Other(d)]) : i = 1 /\ sides[Other(d)][i].t = t}

\* Frames of the other side with an equal stamp.
Partner(d, t) == {i \in 1..Len(sides[Other(d)]) : sides[Other(d)][i].t = t}

\* How many frames purge pops from the front: those at or before a matched stamp, up to
\* the first later one.
Leading(q, t) == CHOOSE n \in 0..Len(q) :
    /\ \A i \in 1..n : q[i].t <= t
    /\ n < Len(q) => q[n + 1].t > t

Purge(q, t) == SubSeq(q, Leading(q, t) + 1, Len(q))

\* What purge counts as dropped_unmatched.
Stale(q, t) == Cardinality({i \in 1..Leading(q, t) : q[i].t # t})

\* An equal stamp waits on the other side: form the pair, purge both sides, drop
\* the oldest pair of a full output queue, wake the runner.
Match(d, t, i) ==
    /\ sides' = [e \in Sides |-> Purge(sides[e], t)]
    /\ unmatched' = unmatched + Stale(sides[d], t) + Stale(sides[Other(d)], t)
    /\ LET full == Len(pairs) >= PairCap
           pair == [t |-> t, sessions |-> {resets, sides[Other(d)][i].session}] IN
         /\ pairs' = Append(IF full THEN Tail(pairs) ELSE pairs, pair)
         /\ overflow' = IF full THEN overflow + 1 ELSE overflow
    /\ paired' = paired + 1
    /\ runner' = IF runner = "asleep" THEN "woken" ELSE runner

\* No partner yet: buffer the frame, drop the oldest beyond kSideCap.
Buffer(d, t) ==
    /\ LET q == Append(sides[d], Frame(t)) IN
         IF Len(q) > SideCap
           THEN sides' = [sides EXCEPT ![d] = Tail(q)] /\ unmatched' = unmatched + 1
           ELSE sides' = [sides EXCEPT ![d] = q] /\ UNCHANGED unmatched
    /\ UNCHANGED <<pairs, overflow, paired, runner>>

Push(d, t) ==
    /\ t > seen[d]
    /\ seen' = [seen EXCEPT ![d] = t]
    /\ IF shut
         THEN UNCHANGED <<sides, pairs, overflow, paired, unmatched, runner, pushed>>
         ELSE /\ pushed' = pushed + 1
              /\ IF Partner(d, t) = {} THEN Buffer(d, t)
                 ELSE \E i \in Partner(d, t) : Match(d, t, i)
    /\ UNCHANGED <<shut, super, resets, got, popped, cleared>>

-----------------------------------------------------------------------------
(* The runner and the supervisor.                                           *)

\* Mutant of WaitPop: takes the newest pair.
WaitPopNewest ==
    /\ runner \in {"running", "woken"}
    /\ IF pairs # <<>>
         THEN /\ got' = pairs[Len(pairs)] /\ pairs' = SubSeq(pairs, 1, Len(pairs) - 1)
              /\ popped' = popped + 1
              /\ runner' = "running"
         ELSE /\ runner' = IF shut THEN "exit" ELSE "asleep"
              /\ UNCHANGED <<got, pairs, popped>>
    /\ UNCHANGED <<sides, shut, seen, super, resets, paired, unmatched, overflow, pushed,
                   cleared>>

\* wait_pop(): tests its predicate, on entry or woken; a shut pairer is drained
\* before the runner leaves.
WaitPop ==
    /\ runner \in {"running", "woken"}
    /\ IF pairs # <<>>
         THEN /\ got' = Head(pairs) /\ pairs' = Tail(pairs)
              /\ popped' = popped + 1
              /\ runner' = "running"
         ELSE /\ runner' = IF shut THEN "exit" ELSE "asleep"
              /\ UNCHANGED <<got, pairs, popped>>
    /\ UNCHANGED <<sides, shut, seen, super, resets, paired, unmatched, overflow, pushed,
                   cleared>>

\* ~OpenVinsRunner(): shutdown() sets the flag, then notifies.
Shutdown ==
    /\ super = "idle" /\ resets < MaxResets
    /\ shut' = TRUE
    /\ super' = "notify"
    /\ UNCHANGED <<sides, pairs, seen, runner, resets, got, counts>>

Notify ==
    /\ super = "notify"
    /\ runner' = IF runner = "asleep" THEN "woken" ELSE runner
    /\ super' = "join"
    /\ UNCHANGED <<sides, pairs, shut, seen, resets, got, counts>>

Join ==
    /\ super = "join" /\ runner = "exit"
    /\ runner' = "gone"
    /\ super' = "reset"
    /\ UNCHANGED <<sides, pairs, shut, seen, resets, got, counts>>

\* reset()
Reset ==
    /\ super = "reset"
    /\ sides' = [d \in Sides |-> <<>>] /\ pairs' = <<>>
    /\ shut' = FALSE
    /\ resets' = resets + 1
    /\ super' = "start"
    /\ cleared' = [frames |-> cleared.frames + Len(sides["left"]) + Len(sides["right"]),
                   pairs |-> cleared.pairs + Len(pairs)]
    /\ UNCHANGED <<seen, runner, got, paired, unmatched, overflow, pushed, popped>>

\* The replacement runner starts.
Start ==
    /\ super = "start"
    /\ runner' = "running" /\ super' = "idle"
    /\ UNCHANGED <<sides, pairs, shut, seen, resets, got, counts>>

SuperStep == Notify \/ Join \/ Reset \/ Start

\* No frame comes any more; the runner may sleep for good.
Quiet == runner = "asleep" /\ UNCHANGED vars

Next ==
    \/ \E d \in Sides, t \in 1..MaxPulse : Push(d, t)
    \/ WaitPop
    \/ Shutdown
    \/ SuperStep
    \/ Quiet

Fairness == WF_vars(WaitPop) /\ WF_vars(SuperStep)

Spec == Init /\ [][Next]_vars
FairSpec == Spec /\ Fairness

-----------------------------------------------------------------------------
(* Properties.                                                              *)

TypeOK ==
    /\ \A d \in Sides :
         /\ sides[d] \in Seq([t : 1..MaxPulse, session : 0..MaxResets])
         /\ Len(sides[d]) <= SideCap
    /\ pairs \in Seq([t : 1..MaxPulse, sessions : SUBSET (0..MaxResets)])
    /\ Len(pairs) <= PairCap
    /\ shut \in BOOLEAN
    /\ seen \in [Sides -> 0..MaxPulse]
    /\ runner \in {"running", "asleep", "woken", "exit", "gone"}
    /\ super \in {"idle", "notify", "join", "reset", "start"}
    /\ resets \in 0..MaxResets
    /\ \A n \in {paired, unmatched, overflow, pushed, popped} : n \in 0..2 * MaxPulse

\* Every frame taken is in a pair, counted as unmatched, buffered, or was cleared
\* by a reset; every pair was popped, counted as lost, queued, or cleared.
NothingLostUncounted ==
    /\ pushed = 2 * paired + unmatched + Len(sides["left"]) + Len(sides["right"])
                  + cleared.frames
    /\ paired = popped + overflow + Len(pairs) + cleared.pairs

\* No equal stamps wait on the two sides, and nothing older than a formed pair waits.
NoMatchWaiting ==
    \A i \in 1..Len(sides["left"]) : \A j \in 1..Len(sides["right"]) :
        sides["left"][i].t # sides["right"][j].t

NothingStaleWaiting ==
    pairs # <<>> => \A d \in Sides : \A i \in 1..Len(sides[d]) :
                       sides[d][i].t > pairs[Len(pairs)].t

\* A rebuilt runner never sees a frame of the session before the reset, whatever
\* the feeders push while the pairer is shut down and reset.
OnlyThisSession ==
    \A i \in 1..Len(pairs) : pairs[i].sessions = {resets}

\* The runner gets its pairs in the order of their stamps.
PopsNext == got' # got => got'.t > got.t
PopsInOrder == [][PopsNext]_vars

\* Destroying a runner ends: the shutdown wakes it, asleep or not.
ShutdownReturns == shut ~> super = "reset"
=============================================================================
