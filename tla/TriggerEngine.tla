---------------------------- MODULE TriggerEngine ---------------------------
(***************************************************************************)
(* The pulse generator of the firmware (src/firmware/src/trigger_engine.cpp)  *)
(* on its timer (timebase.cpp): a free-running counter of W bits, one compare  *)
(* register for the earliest deadline of all groups, the interrupt that fires  *)
(* on a match and runs up to MaxLatency ticks late, the ring of events it      *)
(* fills, and main.cpp's loop, which configures, arms, stops and empties it.   *)
(***************************************************************************)
EXTENDS Integers, Sequences, FiniteSets, SequencesExt

CONSTANTS
    Groups,      \* slots
    Config,      \* group -> [period, remainder, rate]: period_us, remainder, rate_millihz
    Width,       \* kPulseWidthUs
    Wrap,        \* 2^W
    Lead,        \* the least delay a compare is set for (2 in the engine, 5 in the timer)
    RingSize,    \* kQueueSize
    MaxLatency,  \* how late the interrupt may run
    MaxTime,     \* bound on time
    MaxCalls,    \* bound on commands
    None

VARIABLES
    time,        \* real time; the counter is time % Wrap
    configured,  \* the groups of the current configuration
    armed,       \* g_armed
    group,       \* per group: [high, start (next_start), stop (pulse_end), accum, index]
    compare,     \* the compare register, None when its channel is paused
    pending,     \* ticks since the match whose interrupt has not run, or None
    ring,        \* g_queue between g_tail and g_head: [slot, index]
    drops,       \* g_drops
    popped,      \* per group: events sent to the host (history)
    fired,       \* per group: pulses (history)
    steps,       \* per group: calls of advance() since it was armed (history)
    armedAt,     \* when it was armed (history)
    calls

vars == <<time, configured, armed, group, compare, pending, ring, drops, popped, fired, steps,
          armedAt, calls>>

Half == Wrap \div 2
Now == time % Wrap
Delta(a, b) == LET d == (a - b) % Wrap IN IF d >= Half THEN d - Wrap ELSE d
Due(deadline) == Delta(Now, deadline) >= 0
GroupStates == [high : BOOLEAN, start : Nat, stop : Nat, accum : Nat, index : Nat]
Reset == [high |-> FALSE, start |-> 0, stop |-> 0, accum |-> 0, index |-> 0]
Least(S) == CHOOSE n \in S : \A m \in S : n <= m

Init ==
    /\ time = 0 /\ configured = {} /\ armed = FALSE
    /\ group = [g \in Groups |-> Reset]
    /\ compare = None /\ pending = None
    /\ ring = <<>> /\ drops = 0
    /\ popped = [g \in Groups |-> 0]
    /\ fired = [g \in Groups |-> 0]
    /\ steps = [g \in Groups |-> 0] /\ armedAt = 0 /\ calls = 0

-----------------------------------------------------------------------------
\* schedule_next(), set_compare(): the earliest deadline, at least Lead ahead.
Compare(now, gs) ==
    LET deadline(g) == IF gs[g].high THEN gs[g].stop ELSE gs[g].start
        deltas == {LET d == Delta(deadline(g), now) IN IF d < Lead THEN Lead ELSE d :
                     g \in configured}
    IN (now + Least(deltas \cup {Half - 1})) % Wrap

\* Mutant of Advance: the carried fraction is dropped.
AdvanceDroppingFraction(s, g) ==
    LET carry == s.accum + Config[g].remainder >= Config[g].rate IN
    [s EXCEPT !.start = (@ + Config[g].period + (IF carry THEN 1 ELSE 0)) % Wrap,
              !.accum = IF carry THEN 0 ELSE @ + Config[g].remainder]

\* advance(): the fraction of the period accumulates.
Advance(s, g) ==
    LET carry == s.accum + Config[g].remainder >= Config[g].rate IN
    [s EXCEPT !.start = (@ + Config[g].period + (IF carry THEN 1 ELSE 0)) % Wrap,
              !.accum = @ + Config[g].remainder - (IF carry THEN Config[g].rate ELSE 0)]

\* do advance() while the next start is already due: the group, and how often it ran.
AdvanceWhileDue(s, g) ==
    LET walk[w \in [group : GroupStates, steps : Nat]] ==
            LET t == [group |-> Advance(w.group, g), steps |-> w.steps + 1] IN
            IF Due(t.group.start) THEN walk[t] ELSE t
    IN walk[[group |-> s, steps |-> 0]]

\* One group in trigger_timer_isr(): the pulse that is over ends, the one that is due
\* starts, and the next start is put after now.
Falls(s) == IF s.high /\ Due(s.stop) THEN [s EXCEPT !.high = FALSE] ELSE s
Starts(g) == g \in configured /\ LET s == Falls(group[g]) IN ~s.high /\ Due(s.start)
Pulse(g) == AdvanceWhileDue(
    [Falls(group[g]) EXCEPT !.high = TRUE, !.stop = (Now + Width) % Wrap, !.index = @ + 1], g)

\* enqueue(), in the order of the slots: a full ring drops the event.
Events == SetToSortSeq({g \in Groups : Starts(g)}, LAMBDA a, b : a < b)
Room == RingSize - 1 - Len(ring)

Tick ==
    /\ time < MaxTime /\ (pending # None => pending < MaxLatency)
    /\ time' = time + 1
    /\ pending' = IF pending # None THEN pending + 1
                  ELSE IF compare # None /\ (time + 1) % Wrap = compare THEN 0 ELSE None
    /\ UNCHANGED <<configured, armed, group, compare, ring, drops, popped, fired, steps, armedAt,
                   calls>>

Isr ==
    /\ pending # None /\ pending' = None
    /\ group' = [g \in Groups |-> IF Starts(g) THEN Pulse(g).group
                                  ELSE IF g \in configured THEN Falls(group[g]) ELSE group[g]]
    /\ steps' = [g \in Groups |-> steps[g] + (IF Starts(g) THEN Pulse(g).steps ELSE 0)]
    /\ fired' = [g \in Groups |-> IF Starts(g) THEN fired[g] + 1 ELSE fired[g]]
    /\ LET taken == SubSeq(Events, 1, Least({Room, Len(Events)})) IN
       /\ ring' = ring \o [k \in DOMAIN taken |->
                             [slot |-> taken[k], index |-> group[taken[k]].index]]
       /\ drops' = drops + Len(Events) - Len(taken)
    /\ compare' = IF armed THEN Compare(Now, group') ELSE None
    /\ UNCHANGED <<time, configured, armed, popped, armedAt, calls>>

-----------------------------------------------------------------------------
(* The loop.  Commands turn interrupts off for what they change.            *)

Command == calls < MaxCalls /\ calls' = calls + 1

\* trigger_set_config(): a valid one replaces the groups and disarms; another is refused.
SetConfig ==
    /\ Command /\ configured' \in SUBSET Groups
    /\ armed' = FALSE /\ compare' = None /\ pending' = None
    /\ group' = [g \in Groups |-> Reset]
    /\ UNCHANGED <<time, ring, drops, popped, fired, steps, armedAt>>

\* trigger_arm(): arming again keeps the phase and the indices; with no group, refused.
Arm ==
    /\ Command
    /\ IF armed \/ configured = {} THEN UNCHANGED <<armed, group, compare, steps, armedAt>>
       ELSE /\ armed' = TRUE /\ armedAt' = time
            /\ group' = [g \in Groups |-> IF g \notin configured THEN group[g] ELSE
                  [group[g] EXCEPT !.high = FALSE, !.accum = 0, !.index = 0,
                                   !.start = (Now + Config[g].period) % Wrap]]
            /\ compare' = Compare(Now, group')
            /\ steps' = [g \in Groups |-> 0]
    /\ UNCHANGED <<time, configured, pending, ring, drops, popped, fired>>

\* trigger_stop(), on STOP or when the host closes the port.
Stop ==
    /\ Command /\ armed' = FALSE /\ compare' = None /\ pending' = None
    /\ group' = [g \in Groups |-> [group[g] EXCEPT !.high = FALSE]]
    /\ UNCHANGED <<time, configured, ring, drops, popped, fired, steps, armedAt>>

\* trigger_pop(), once the event before it went out.
Pop ==
    /\ ring # <<>> /\ ring' = Tail(ring)
    /\ popped' = [popped EXCEPT ![Head(ring).slot] = @ + 1]
    /\ UNCHANGED <<time, configured, armed, group, compare, pending, drops, fired, steps,
                   armedAt, calls>>

Next == Tick \/ Isr \/ SetConfig \/ Arm \/ Stop \/ Pop

Spec == Init /\ [][Next]_vars

-----------------------------------------------------------------------------
TypeOK ==
    /\ configured \subseteq Groups /\ armed \in BOOLEAN
    /\ compare \in 0..(Wrap - 1) \cup {None} /\ Len(ring) < RingSize
    /\ \A g \in Groups : group[g].start \in 0..(Wrap - 1) /\ group[g].accum < Config[g].rate

\* However late interrupts ran and however often the counter wrapped, a group's next pulse
\* is on the grid of its rate, counted from the arming: the fraction carried in
\* remainder_accum loses nothing and skips nothing (advance()).
PulsesOnGrid == armed => \A g \in configured :
    LET n == steps[g]  c == Config[g] IN
    group[g].start = (armedAt + (n + 1) * c.period + (n * c.remainder) \div c.rate) % Wrap

\* While armed and no interrupt is due, the compare register is ahead and no later than the
\* first thing a group waits for: a pulse neither starts nor ends a wrap late.
NextDeadlineSet == armed /\ pending = None => \A g \in configured :
    LET deadline == IF group[g].high THEN group[g].stop ELSE group[g].start
        ahead == Delta(compare, Now) IN
    /\ compare # None /\ ahead > 0
    /\ ahead <= Least({n \in Lead..Half : n >= Delta(deadline, Now)})

\* An event is sent once or counted in the heartbeat's drops, and pulses only while armed.
EventsCounted ==
    /\ LET sum(f) == FoldFunction(+, 0, f) IN sum(fired) = sum(popped) + Len(ring) + drops
    /\ ~armed => \A g \in Groups : ~group[g].high
=============================================================================
