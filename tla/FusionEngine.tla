---------------------------- MODULE FusionEngine ----------------------------
(***************************************************************************)
(* src/src/fusion/fusion_engine.cpp: the single-threaded fusion core.  It   *)
(* keeps a chain of pose states, one smoother factor graph over them, and   *)
(* buffers of chassis speeds and VIO deltas that are turned into factors    *)
(* between states.  Poses, covariances and the gate are numbers outside the *)
(* model: whether a measurement passes, and whether the smoother throws or  *)
(* its estimate forces a reinit, is a choice.  Times are small integers.    *)
(***************************************************************************)
EXTENDS Integers, Sequences, FiniteSetsExt, SequencesExt

CONSTANTS
    MinStateDt,      \* p_.min_state_dt_ns
    Lag,             \* p_.lag_s, the smoother's horizon
    TrimMargin,      \* the 0.1 s by which states_ is trimmed tighter
    InitTags,        \* 5 in the code: tags the first pose is taken from
    InitSpan,        \* 1 s in the code: how far apart these may be
    VioCap,          \* 512 in the code
    CollisionWindow, \* p_.collision_window
    CalmPasses,      \* 10 in the code
    CollisionLimit,  \* 5 s in the code
    MaxTime,         \* bound: stamps are 1 .. MaxTime
    MaxEpochs,       \* bound: VIO epochs
    None

\* What the properties need of the constants; Safety assumes it.
EngineAssumption ==
    /\ {MinStateDt, Lag, InitTags, VioCap, CollisionWindow, CalmPasses,
        MaxTime, MaxEpochs} \subseteq Nat \ {0}
    /\ {InitSpan, CollisionLimit, TrimMargin} \subseteq Nat
    /\ TrimMargin < Lag

VARIABLES
    initialized, states, nextKey,          \* states_, next_key_
    initTags, vioDeltas, vioPrev, \* the buffers
    vioDone,                               \* vio_done_key_
    window, collision, passes, since,      \* the collision monitor
    out,                                   \* state_: what FusionSupervisor publishes
    held,                                  \* keys in the smoother's graph (GTSAM)
    factors,                               \* VIO between-factors of this graph, a set each flush
    stray,                                 \* has a factor named a key not in the graph
    lastVio                      \* stamp and epoch of the newest VIO output

chain   == <<initialized, states, nextKey, held>>
monitor == <<window, collision, passes, since>>
buffers == <<initTags, vioDeltas, vioPrev, vioDone>>
history == <<factors, stray>>
vars    == <<chain, monitor, buffers, history, lastVio, out>>

Times == 1 .. MaxTime
Newest(s) == s[Len(s)]
NoPose == [initialized |-> FALSE, t |-> 0, collision |-> FALSE]

-----------------------------------------------------------------------------
(* An engine is the record of the variables one call changes.               *)

Engine == [initialized |-> initialized, states |-> states, nextKey |-> nextKey,
           initTags |-> initTags, vioDeltas |-> vioDeltas,
           vioPrev |-> vioPrev, vioDone |-> vioDone, window |-> window,
           collision |-> collision, passes |-> passes, since |-> since, out |-> out,
           held |-> held, factors |-> factors, stray |-> stray]

Becomes(e) ==
    /\ initialized' = e.initialized /\ states' = e.states /\ nextKey' = e.nextKey
    /\ initTags' = e.initTags /\ vioDeltas' = e.vioDeltas
    /\ vioPrev' = e.vioPrev /\ vioDone' = e.vioDone /\ window' = e.window
    /\ collision' = e.collision /\ passes' = e.passes /\ since' = e.since
    /\ out' = e.out /\ held' = e.held /\ factors' = e.factors /\ stray' = e.stray

\* reinit(): the graph and every buffer go, the last published pose stays as a number.
Reinit(e) ==
    [e EXCEPT !.initialized = FALSE, !.states = <<>>, !.held = {},
              !.vioDeltas = <<>>, !.vioPrev = None, !.initTags = <<>>, !.window = <<>>,
              !.collision = FALSE, !.passes = 0, !.vioDone = 0, !.factors = <<>>,
              !.out = [@ EXCEPT !.initialized = FALSE, !.collision = FALSE]]

\* refresh_state() when the estimate is usable.
Refresh(e) ==
    [e EXCEPT !.out = [initialized |-> TRUE, t |-> Newest(e.states).t,
                       collision |-> e.collision]]

\* IncrementalFixedLagSmoother::update (GTSAM): keys older than the lag leave the graph.
Marginalised(keys) ==
    {k \in keys : \A l \in keys : k.t >= l.t - Lag}

\* update() with a factor on `on`: the engines it can leave.  A factor on a key that
\* the smoother has dropped makes it throw; it may also throw, or give an estimate
\* that is not finite or too uncertain, for reasons of the numbers.
Updated(e, on) ==
    IF on \subseteq e.held
    THEN {Reinit(e), Refresh([e EXCEPT !.held = Marginalised(@)])}
    ELSE {[Reinit(e) EXCEPT !.stray = TRUE]}

-----------------------------------------------------------------------------
(* VIO between-factors, emitted once a delta reaches past the interval.     *)

EndsIn(d, a, b) == a < d.end /\ d.end <= b

\* The intervals flush_vio_intervals() walks: covered and not handled yet.
Covered(e) ==
    {i \in 2 .. Len(e.states) :
        /\ e.states[i].key > e.vioDone
        /\ e.states[i].t <= Newest(e.vioDeltas).end}

FactorOver(e, i) ==
    [a |-> e.states[i - 1], b |-> e.states[i],
     deltas |-> {d \in ToSet(e.vioDeltas) : EndsIn(d, e.states[i - 1].t, e.states[i].t)}]

\* The factors one walk adds: an interval without a delta is left to odometry.
NewFactors(e) == {f \in {FactorOver(e, i) : i \in Covered(e)} : f.deltas # {}}
KeysOf(fs) == UNION {{f.a, f.b} : f \in fs}

\* Deltas up to the newest handled state are consumed, from the front.
Consumed(e) ==
    LET behind(d) == \E i \in 2 .. Len(e.states) :
                        e.states[i].key <= e.vioDone /\ d.end <= e.states[i].t
        kept == {n \in 1 .. Len(e.vioDeltas) : ~behind(e.vioDeltas[n])}
    IN [e EXCEPT !.vioDeltas = SubSeq(@, Min(kept \cup {Len(@) + 1}), Len(@))]

\* Mutant of Flushed: vio_done_key_ is not advanced.
FlushedAgain(e) ==
    LET new   == NewFactors(e)
        after == [e EXCEPT !.factors = Append(@, new)]
    IN CASE ~e.initialized \/ e.vioDeltas = <<>> -> {e}
         [] OTHER -> {Consumed(n) : n \in
                        IF new = {} THEN {e} ELSE Updated(after, KeysOf(new))}

\* flush_vio_intervals(): one update per interval that has deltas; an update that
\* reinitialises ends the walk.
Flushed(e) ==
    LET done  == [e EXCEPT !.vioDone = Max({@} \cup {e.states[i].key : i \in Covered(e)})]
        new   == NewFactors(e)
        after == [done EXCEPT !.factors = Append(@, new)]
    IN CASE ~e.initialized \/ e.vioDeltas = <<>> -> {e}
         [] OTHER -> {Consumed(n) : n \in
                        IF new = {} THEN {done} ELSE Updated(after, KeysOf(new))}

-----------------------------------------------------------------------------
(* States.                                                                  *)

\* Mutant of Trimmed: as loosely as the smoother, or more.
TrimmedLoosely(s) ==
    SubSeq(s, Min({i \in 1 .. Len(s) : s[i].t >= Newest(s).t - (Lag + TrimMargin)}), Len(s))

\* trim_states(): strictly inside the smoother's horizon, from the front; TrimMargin < Lag
\* keeps the newest.
Trimmed(s) ==
    SubSeq(s, Min({i \in 1 .. Len(s) : s[i].t >= Newest(s).t - (Lag - TrimMargin)}), Len(s))

\* create_state(): a key at t, chained to the newest by odometry or by a constant
\* velocity bridge.  integrate_odom() and its buffer decide only the numbers of that
\* factor, so the buffer of chassis speeds is left out.
Created(e, t) ==
    LET prev == Newest(e.states)
        new  == [t |-> t, key |-> e.nextKey]
        grown == [e EXCEPT !.nextKey = @ + 1,
                           !.held = @ \cup {new},
                           !.states = Trimmed(Append(@, new))]
    IN UNION {IF n.initialized THEN Flushed(n) ELSE {n} : n \in Updated(grown, {prev, new})}

-----------------------------------------------------------------------------
Init ==
    /\ initialized = FALSE /\ states = <<>> /\ nextKey = 0 /\ held = {}
    /\ initTags = <<>> /\ vioDeltas = <<>> /\ vioPrev = None
    /\ vioDone = 0
    /\ window = <<>> /\ collision = FALSE /\ passes = 0 /\ since = 0
    /\ out = NoPose
    /\ factors = <<>> /\ stray = FALSE
    /\ lastVio = [t |-> 0, epoch |-> 1]

\* Mutant of FeedOdom: a sample older than the newest state makes a state too.
FeedOdomLate ==
    \E t \in Times :
        /\ initialized /\ \E n \in Created(Engine, t) : Becomes(n)
        /\ UNCHANGED lastVio

\* feed_odom(): before init a sample only becomes the last twist.
FeedOdom ==
    \E t \in Times :
        /\ initialized /\ t >= Newest(states).t + MinStateDt
        /\ \E n \in Created(Engine, t) : Becomes(n)
        /\ UNCHANGED lastVio

\* Which stamps the next VIO output may carry: OpenVINS publishes in order, and not for
\* every pair of frames.
NextVio == lastVio.t + 1 .. MaxTime

\* feed_vio(): an output that is not initialized or not healthy breaks the chain of
\* deltas, and so does the first one of an epoch.
FeedVio ==
    \E t \in NextVio, epoch \in lastVio.epoch .. MaxEpochs, good \in BOOLEAN :
        LET sample == [t |-> t, epoch |-> epoch]
            delta  == [begin |-> vioPrev.t, end |-> t]
            primed == [Engine EXCEPT !.vioPrev = sample]
            e      == [primed EXCEPT !.vioDeltas =
                          LET d == Append(@, delta) IN
                          SubSeq(d, 1 + (IF Len(d) > VioCap THEN 1 ELSE 0), Len(d))]
        IN /\ lastVio' = sample
           /\ CASE ~good -> Becomes([Engine EXCEPT !.vioPrev = None])
                [] good /\ (vioPrev = None \/ ~initialized) -> Becomes(primed)
                [] good /\ vioPrev # None /\ initialized /\ vioPrev.epoch # epoch ->
                     Becomes(primed)
                [] OTHER ->
                     \E n \in IF t >= Newest(states).t + MinStateDt
                              THEN Created(e, t) ELSE Flushed(e) : Becomes(n)

-----------------------------------------------------------------------------
(* Tags.                                                                    *)

Rejections(w) == Len(SelectSeq(w, LAMBDA pass : ~pass))

\* note_gate_result(): collision mode opens when the gate keeps rejecting, closes when
\* tags agree again, and ends in a reinit when they do not for too long.  Only
\* passes >= CalmPasses is ever asked, so the count stops there.
Noted(e, pass, t) ==
    LET w  == LET a == Append(e.window, pass) IN
              SubSeq(a, 1 + (IF Len(a) > CollisionWindow THEN 1 ELSE 0), Len(a))
        n  == [e EXCEPT !.window = w, !.passes = IF pass THEN Min({@ + 1, CalmPasses}) ELSE 0]
        calm == n.passes >= CalmPasses \/ Rejections(w) * 5 < Len(w)
    IN CASE ~e.collision /\ Len(w) >= CollisionWindow \div 2
                         /\ Rejections(w) * 2 > Len(w) ->
              [n EXCEPT !.collision = TRUE, !.since = t]
         [] e.collision /\ calm -> [n EXCEPT !.collision = FALSE]
         [] e.collision /\ ~calm /\ t - e.since > CollisionLimit -> Reinit(n)
         [] OTHER -> n

\* attach_tag(): a prior on the key, if the gate or collision mode lets it through.
\* The query of a key the smoother has dropped counts as a stale tag.
Attached(e, key, t) ==
    IF key \notin e.held THEN {[e EXCEPT !.stray = TRUE]}
    ELSE UNION {LET n == Noted(e, pass, t) IN
                IF n.initialized /\ (pass \/ n.collision) THEN Updated(n, {key}) ELSE {n}
                : pass \in BOOLEAN}

Distance(a, b) == IF a > b THEN a - b ELSE b - a

\* The nearest state within the attach window; the later one of two equally near.
Nearest(t) ==
    LET near == {i \in 1 .. Len(states) : Distance(states[i].t, t) <= MinStateDt}
    IN IF near = {} THEN None
       ELSE states[CHOOSE i \in near : \A j \in near :
                      \/ Distance(states[i].t, t) < Distance(states[j].t, t)
                      \/ Distance(states[i].t, t) = Distance(states[j].t, t) /\ j <= i]

\* try_init(): the medoid of the last InitTags tags, any of them here, seeds the graph.
Tried(e) ==
    LET burst == SubSeq(e.initTags, Len(e.initTags) - InitTags + 1, Len(e.initTags)) IN
    IF Len(e.initTags) < InitTags THEN {e}
    ELSE IF burst[InitTags] - burst[1] > InitSpan
         THEN {[e EXCEPT !.initTags = Tail(burst)]}
         ELSE UNION {LET k == [t |-> t, key |-> 0]
                         n == [e EXCEPT !.initTags = burst, !.nextKey = 1, !.vioDone = 0,
                                        !.states = <<k>>, !.held = {k},
                                        !.initialized = TRUE]
                     IN {[u EXCEPT !.initTags = <<>>] : u \in Updated(n, {k})}
                     : t \in ToSet(burst)}

\* feed_tag() for a tag stamped by the sync controller; other tags are only counted.
\* Tags come from several detector threads, in any order of their stamps.
FeedTag ==
    \E t \in Times :
        /\ UNCHANGED lastVio
        /\ \E n \in
             IF ~initialized THEN Tried([Engine EXCEPT !.initTags = Append(@, t)])
             ELSE IF t >= Newest(states).t + MinStateDt
             THEN UNION {IF n.initialized THEN Attached(n, Newest(n.states), t) ELSE {n}
                         : n \in Created(Engine, t)}
             ELSE IF Nearest(t) = None THEN {Engine} ELSE Attached(Engine, Nearest(t), t) :
           Becomes(n)

\* FusionEngine::reset(), from POST /api/fusion/reset through the event queue.
Reset ==
    /\ Becomes(Reinit(Engine))
    /\ UNCHANGED lastVio

Next == FeedOdom \/ FeedVio \/ FeedTag \/ Reset

Spec == Init /\ [][Next]_vars

-----------------------------------------------------------------------------
(* Properties.                                                              *)

State == [t : Times, key : Nat]
Delta == [begin : Times, end : Times]

\* Every variable has its type, and the two buffers respect their caps.
TypeOK ==
    /\ initialized \in BOOLEAN /\ collision \in BOOLEAN /\ stray \in BOOLEAN
    /\ states \in Seq(State) /\ held \subseteq State
    /\ nextKey \in Nat /\ vioDone \in Nat /\ passes \in Nat /\ since \in Nat
    /\ initTags \in Seq(Times) /\ Len(initTags) < InitTags
    /\ vioDeltas \in Seq(Delta) /\ Len(vioDeltas) <= VioCap
    /\ vioPrev \in [t : Times, epoch : 1 .. MaxEpochs] \cup {None}
    /\ window \in Seq(BOOLEAN) /\ Len(window) <= CollisionWindow
    /\ out \in [initialized : BOOLEAN, t : 0 .. MaxTime, collision : BOOLEAN]
    /\ lastVio \in [t : 0 .. MaxTime, epoch : 1 .. MaxEpochs]

\* The header comment's promise: a factor is never attached to, nor a marginal asked of,
\* a key the smoother has dropped; states_ is trimmed before the graph is.
KeysInGraph ==
    /\ ~stray
    /\ ToSet(states) \subseteq held

\* VIO motion is counted once: no two between-factors of a graph share a stretch of the
\* chain, and no two deltas in them a stretch of time, whichever of tags, odometry and VIO
\* made the states, in whatever order the three streams arrived.
EachDeltaOnce ==
    \A m, n \in 1 .. Len(factors) : \A f \in factors[m], g \in factors[n] :
        /\ m # n \/ f # g => f.b.t <= g.a.t \/ g.b.t <= f.a.t
        /\ \A d \in f.deltas, e \in g.deltas :
              m # n \/ f # g \/ d # e => d.end <= e.begin \/ e.end <= d.begin

\* While the engine stays initialized the published pose never goes back in time,
\* although tags and VIO arrive late and in any order.
PoseForward == out.initialized /\ out'.initialized => out'.t >= out.t
PoseTimeAdvances == [][PoseForward]_vars
=============================================================================
