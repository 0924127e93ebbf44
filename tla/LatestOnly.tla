----------------------------- MODULE LatestOnly -----------------------------
(***************************************************************************)
(* What a FrameChannel promises its consumers, whatever its frames, counts *)
(* and wake-ups do (the contract in src/core/frame_channel.hpp): a         *)
(* register that holds the newest frame, from which every consumer takes   *)
(* ever newer frames, and never one older than the frame that was          *)
(* published when it asked.                                                *)
(***************************************************************************)
EXTENDS Naturals

CONSTANTS Consumers, MaxPublish

VARIABLES
    published,   \* sequence number of the newest frame, 0 before the first
    view,        \* sequence number of the last frame a consumer was given
    floor,       \* what was published when a consumer last asked
    state        \* "out", "busy", "waiting" in next_frame(), or "left"

vars == <<published, view, floor, state>>

Init ==
    /\ published = 0
    /\ view = [c \in Consumers |-> 0]
    /\ floor = [c \in Consumers |-> 0]
    /\ state = [c \in Consumers |-> "out"]

\* publish() replaces the frame in the register.
Publish ==
    /\ published < MaxPublish
    /\ published' = published + 1
    /\ UNCHANGED <<view, floor, state>>

\* subscribe() seeds the view with what is published, or with the frame before
\* it while a publish() is on its way.
Seed(c) ==
    /\ state[c] = "out"
    /\ \E n \in {published, published - 1} \cap Nat : view' = [view EXCEPT ![c] = n]
    /\ UNCHANGED <<published, floor, state>>

Enter(c) ==
    /\ state[c] = "out"
    /\ state' = [state EXCEPT ![c] = "busy"]
    /\ UNCHANGED <<published, view, floor>>

\* A consumer asks for the next frame.
Call(c) ==
    /\ state[c] = "busy"
    /\ floor' = [floor EXCEPT ![c] = published]
    /\ state' = [state EXCEPT ![c] = "waiting"]
    /\ UNCHANGED <<published, view>>

\* It is given one newer than any it had, and no older than when it asked.
Deliver(c) ==
    /\ state[c] = "waiting"
    /\ \E n \in (view[c] + 1)..published :
          n >= floor[c] /\ view' = [view EXCEPT ![c] = n]
    /\ state' = [state EXCEPT ![c] = "busy"]
    /\ UNCHANGED <<published, floor>>

\* unsubscribe() ends the consumer, in next_frame() or between two calls.
Leave(c) ==
    /\ state[c] \in {"busy", "waiting"}
    /\ state' = [state EXCEPT ![c] = "left"]
    /\ UNCHANGED <<published, view, floor>>

Next ==
    \/ Publish
    \/ \E c \in Consumers : Seed(c) \/ Enter(c) \/ Call(c) \/ Deliver(c) \/ Leave(c)

Spec == Init /\ [][Next]_vars
=============================================================================
