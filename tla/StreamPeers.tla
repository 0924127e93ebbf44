------------------------------ MODULE StreamPeers ------------------------------
(***************************************************************************)
(* src/src/server/stream_consumer.cpp, webrtc_peer.cpp, routes_stream.cpp    *)
(* and src/src/encoder/h264_encoder.cpp: an HTTP thread answers an offer and *)
(* adds the peer, the worker encodes frames while there are peers, the       *)
(* encoder's thread sends to each of them, and libdatachannel's threads      *)
(* report connections lost.  A peer is removed by the worker alone.          *)
(***************************************************************************)
EXTENDS Naturals, Sequences, FiniteSets

CONSTANTS
    Peers,        \* WebRtcPeer objects, one for each offer
    KeyInterval,  \* kVTCompressionPropertyKey_MaxKeyFrameInterval, in frames
    MaxEncoding   \* bound: frames inside the encoder

PeersAssumption == KeyInterval \in Nat \ {0} /\ MaxEncoding \in Nat

VARIABLES
    at,        \* where the request that made the peer is
    conn,      \* its connection
    cb,        \* peers whose close_cb is installed
    fired,     \* fired_close
    owed,      \* peers in the list when that was set: they must leave it
    calling,   \* peers whose close_cb is being called, cb_mu released
    pending, peers, purging,  \* closed_pending_, peers_ and to_purge
    worker,    \* where the worker is; "ended" once detach() has joined it
    running,
    wantKey,   \* keyframe_requested_
    encoding,  \* frames inside the encoder: is each a keyframe
    sinceKey,
    decoding,  \* peers that were sent a keyframe
    dangled    \* a close_cb ran after the consumer was destroyed

link    == <<conn, fired, owed, calling>>
lists   == <<pending, peers, purging>>
encoder == <<wantKey, encoding, sinceKey, decoding>>
thread  == <<worker, running>>
vars    == <<at, link, cb, lists, thread, encoder, dangled>>

Init ==
    /\ at = [p \in Peers |-> "none"] /\ conn = [p \in Peers |-> "new"]
    /\ cb = {} /\ fired = {} /\ owed = {} /\ calling = {}
    /\ pending = {} /\ peers = {} /\ purging = {}
    /\ worker = "wait" /\ running = TRUE
    /\ wantKey = FALSE /\ encoding = <<>> /\ sinceKey = 0 /\ decoding = {}
    /\ dangled = FALSE

Gone == worker = "gone"

-----------------------------------------------------------------------------
(* POST /api/cameras/<id>/stream/offer.                                     *)

\* The route finds the consumer of a slot that is online, and holds on to it.
Offer(p) ==
    /\ running /\ at[p] = "none"
    /\ at' = [at EXCEPT ![p] = "answer"]
    /\ UNCHANGED <<link, cb, lists, thread, encoder, dangled>>

\* create_answer() waits for ICE gathering, and throws when it takes too long.
Answer(p) ==
    /\ at[p] = "answer"
    /\ \E next \in {"install", "failed"} : at' = [at EXCEPT ![p] = next]
    /\ UNCHANGED <<link, cb, lists, thread, encoder, dangled>>

\* add_peer() installs close_cb ...
Install(p) ==
    /\ at[p] = "install"
    /\ at' = [at EXCEPT ![p] = "push"] /\ cb' = cb \cup {p}
    /\ UNCHANGED <<link, lists, thread, encoder, dangled>>

\* ... puts the peer into the list ...
AddPeer(p) ==
    /\ at[p] = "push"
    /\ at' = [at EXCEPT ![p] = "key"] /\ peers' = peers \cup {p}
    /\ UNCHANGED <<link, cb, pending, purging, thread, encoder, dangled>>

\* ... and asks for a keyframe; then the answer goes out.
RequestKeyframe(p) ==
    /\ at[p] = "key"
    /\ at' = [at EXCEPT ![p] = "done"] /\ wantKey' = TRUE
    /\ UNCHANGED <<link, cb, lists, thread, encoding, sinceKey, decoding, dangled>>

-----------------------------------------------------------------------------
(* libdatachannel.                                                          *)

\* The browser has the answer and connects: the track opens.
Opens(p) ==
    /\ at[p] = "done" /\ conn[p] = "new" /\ ~Gone
    /\ conn' = [conn EXCEPT ![p] = "open"]
    /\ UNCHANGED <<at, fired, owed, calling, cb, lists, thread, encoder, dangled>>

\* The connection is Disconnected, then Failed: onStateChange calls notify_closed(), which
\* does nothing before close_cb is installed and nothing the second time.
Loses(p) ==
    /\ at[p] \notin {"none", "failed"} /\ ~Gone
    /\ \/ conn[p] \in {"new", "open"} /\ conn' = [conn EXCEPT ![p] = "lost"]
       \/ conn[p] = "lost" /\ conn' = [conn EXCEPT ![p] = "closed"]
    /\ LET first == {p} \cap (cb \ fired) IN
       /\ fired' = fired \cup first /\ calling' = calling \cup first
       /\ owed' = owed \cup (first \cap peers)
    /\ UNCHANGED <<at, cb, lists, thread, encoder, dangled>>

\* The copy of close_cb is called with cb_mu released: the destructor does not wait for it.
CallClose(p) ==
    /\ p \in calling
    /\ calling' = calling \ {p}
    /\ pending' = IF Gone THEN pending ELSE pending \cup {p}
    /\ dangled' = (dangled \/ Gone)
    /\ UNCHANGED <<at, conn, fired, owed, cb, peers, purging, thread, encoder>>

-----------------------------------------------------------------------------
(* The worker.                                                              *)

\* next_frame() returns a frame, and the peers reported closed are taken ...
NextFrame ==
    /\ worker = "wait" /\ running
    /\ purging' = pending /\ pending' = {} /\ worker' = "erase"
    /\ UNCHANGED <<at, link, cb, peers, running, encoder, dangled>>

\* ... and erased, those that are in the list.
Purge ==
    /\ worker = "erase"
    /\ peers' = peers \ purging /\ purging' = {}
    /\ worker' = IF peers' = {} THEN "wait" ELSE "encode"
    /\ UNCHANGED <<at, link, cb, pending, running, encoder, dangled>>

\* A frame that comes too soon after the last one, or is not converted, is let go.
SkipFrame ==
    /\ worker = "encode" /\ worker' = "wait"
    /\ UNCHANGED <<at, link, cb, lists, running, encoder, dangled>>

\* encode() takes the request; the encoder makes a keyframe at least every KeyInterval.
Encode ==
    /\ worker = "encode" /\ Len(encoding) < MaxEncoding
    /\ LET key == wantKey \/ sinceKey + 1 >= KeyInterval IN
       /\ encoding' = Append(encoding, key)
       /\ sinceKey' = IF key THEN 0 ELSE sinceKey + 1
    /\ wantKey' = FALSE /\ worker' = "wait"
    /\ UNCHANGED <<at, link, cb, lists, running, decoding, dangled>>

\* on_encoded(): send_h264() drops what comes before the track is open, or after.
Output ==
    /\ encoding # <<>> /\ encoding' = Tail(encoding)
    /\ decoding' = IF Head(encoding) THEN decoding \cup {p \in peers : conn[p] = "open"}
                   ELSE decoding
    /\ UNCHANGED <<at, link, cb, lists, thread, wantKey, sinceKey, dangled>>

-----------------------------------------------------------------------------
\* The supervisor stops the slot: detach() wakes the worker and joins it.
Detach ==
    /\ running /\ running' = FALSE
    /\ UNCHANGED <<at, link, cb, lists, worker, encoder, dangled>>

WorkerEnds ==
    /\ ~running /\ worker = "wait" /\ worker' = "ended"
    /\ UNCHANGED <<at, link, cb, lists, running, encoder, dangled>>

\* The last owner lets the consumer go: the encoder finishes its frames, then the peers are
\* destroyed, with fired_close set so that no callback starts.
Destroyed ==
    /\ worker = "ended" /\ encoding = <<>>
    /\ \A p \in Peers : at[p] \in {"none", "failed", "done"}
    /\ worker' = "gone" /\ peers' = {} /\ pending' = {} /\ fired' = fired \cup cb
    /\ UNCHANGED <<at, conn, owed, calling, cb, purging, running, encoder, dangled>>

Route(p) == Answer(p) \/ Install(p) \/ AddPeer(p) \/ RequestKeyframe(p)

Next ==
    \/ \E p \in Peers : Offer(p) \/ Route(p) \/ Opens(p) \/ Loses(p) \/ CallClose(p)
    \/ NextFrame \/ Purge \/ SkipFrame \/ Encode \/ Output
    \/ Detach \/ WorkerEnds \/ Destroyed

-----------------------------------------------------------------------------
\* Every variable has its type.
TypeOK ==
    /\ at \in [Peers -> {"none", "answer", "install", "push", "key", "done", "failed"}]
    /\ conn \in [Peers -> {"new", "open", "lost", "closed"}]
    /\ {cb, fired, owed, calling, pending, peers, purging, decoding} \subseteq SUBSET Peers
    /\ worker \in {"wait", "erase", "encode", "ended", "gone"}
    /\ running \in BOOLEAN /\ wantKey \in BOOLEAN /\ dangled \in BOOLEAN
    /\ encoding \in Seq(BOOLEAN) /\ Len(encoding) <= MaxEncoding
    /\ sinceKey \in 0..KeyInterval

\* What waits for the worker: a peer whose connection was lost when it was in the list, and
\* one that is open and has no keyframe to start from.
Waiting(p) ==
    running /\ p \in peers /\ (p \in owed \/ (conn[p] = "open" /\ p \notin decoding))
=============================================================================
