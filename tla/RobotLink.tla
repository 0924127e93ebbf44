----------------------------- MODULE RobotLink ------------------------------
(***************************************************************************)
(* src/src/net/robot_link.cpp and PUT /api/robot/config: one UDP socket, its *)
(* receive thread, the threads that send poses on it, and the HTTP threads   *)
(* that replace it.  Packets, addresses and stamps are what the link tells   *)
(* apart of them; the kernel's descriptors and ports are external.           *)
(***************************************************************************)
EXTENDS Integers, FiniteSets

CONSTANTS
    Callers,     \* HTTP threads that may run a PUT /api/robot/config
    Senders,     \* threads in send_pose(): fusion's output, POST /api/robot/pose
    Fds,         \* descriptor numbers
    MaxPuts,     \* bound: PUTs
    MaxPackets,  \* bound: packets received
    MaxSends,    \* bound: calls of send_pose()
    None

VARIABLES
    row,         \* the row of net_config
    put,         \* what each HTTP thread is doing: the step, its config, its descriptor
    cfg, configured, learned,   \* cfg, configured_addr, learned_addr
    fd, flag,    \* impl_->fd and impl_->running
    rx,          \* rx_thread: "none", "running" or "ended" but not joined
    open,        \* kernel: descriptors that are the link's sockets
    sender,      \* each sender's copies of the descriptor and the destination
    counts,      \* the counters
    calls,       \* calls of send_pose() made
    crashed,     \* std::terminate(): a joinable thread was assigned
    puts

link  == <<cfg, configured, learned, fd, flag, rx, open, crashed>>
vars  == <<row, put, link, sender, counts, calls, puts>>

LinkAssumption == Fds \subseteq Nat /\ Fds # {} /\ IsFiniteSet(Senders)

Rows  == [enabled : BOOLEAN, ip : {"learn", "fixed", "malformed"}, port : {1, 2}]
Idle  == [at |-> "idle", cfg |-> None, fd |-> -1]
Ready == [fd |-> -1, dest |-> None]
At(c, step) == ~crashed /\ put[c].at = step
Goto(c, step) == put' = [put EXCEPT ![c].at = step]

Init ==
    /\ row = [enabled |-> FALSE, ip |-> "learn", port |-> 1]
    /\ put = [c \in Callers |-> Idle]
    /\ cfg = row /\ configured = None /\ learned = FALSE
    /\ fd = -1 /\ flag = FALSE /\ rx = "none" /\ open = {} /\ crashed = FALSE
    /\ sender = [s \in Senders |-> Ready]
    /\ counts = [rx |-> 0, rejected |-> 0, sent |-> 0, errors |-> 0, noDest |-> 0]
    /\ calls = 0 /\ puts = 0

-----------------------------------------------------------------------------
(* PUT /api/robot/config: the row is committed, then the link is stopped and *)
(* started with it.  Nothing serialises two of them.                         *)

Update(c) ==
    /\ At(c, "idle") /\ puts < MaxPuts
    /\ row' \in Rows \ {row}
    /\ put' = [put EXCEPT ![c] = [at |-> "flag", cfg |-> row', fd |-> -1]]
    /\ puts' = puts + 1
    /\ UNCHANGED <<link, sender, counts, calls>>

\* stop(): running is cleared ...
ClearFlag(c) ==
    /\ At(c, "flag") /\ flag' = FALSE
    /\ Goto(c, IF rx = "none" THEN "close" ELSE "join")
    /\ UNCHANGED <<row, cfg, configured, learned, fd, rx, open, crashed,
                   sender, counts, calls, puts>>

\* ... the receive thread is joined ...
Join(c) ==
    /\ At(c, "join") /\ rx # "running"
    /\ rx' = "none" /\ Goto(c, "close")
    /\ UNCHANGED <<row, cfg, configured, learned, fd, flag, open, crashed,
                   sender, counts, calls, puts>>

\* ... and the socket closed, all without mu_.
Close(c) ==
    /\ At(c, "close")
    /\ open' = open \ {fd} /\ fd' = -1
    /\ Goto(c, "configure")
    /\ UNCHANGED <<row, cfg, configured, learned, flag, rx, crashed,
                   sender, counts, calls, puts>>

\* Mutant of Configure: a link that stays down keeps its old configuration.
ConfigureIfUp(c) ==
    LET up == put[c].cfg.enabled /\ put[c].cfg.ip # "malformed" IN
    /\ At(c, "configure")
    /\ cfg' = IF up THEN put[c].cfg ELSE cfg
    /\ configured' = IF put[c].cfg.ip = "fixed" THEN put[c].cfg.port ELSE None
    /\ IF up THEN Goto(c, "bind") ELSE put' = [put EXCEPT ![c] = Idle]
    /\ UNCHANGED <<row, learned, fd, flag, rx, open, crashed, sender, counts, calls, puts>>

\* start(): under mu_ the configuration is replaced.  An address that does not parse
\* throws, and a disabled link stays down.
Configure(c) ==
    /\ At(c, "configure")
    /\ cfg' = put[c].cfg
    /\ configured' = IF put[c].cfg.ip = "fixed" THEN put[c].cfg.port ELSE None
    /\ IF put[c].cfg.enabled /\ put[c].cfg.ip # "malformed"
       THEN Goto(c, "bind") ELSE put' = [put EXCEPT ![c] = Idle]
    /\ UNCHANGED <<row, learned, fd, flag, rx, open, crashed, sender, counts, calls, puts>>

\* socket() and bind(): the lowest free descriptor, or a throw that leaves the link down.
Bind(c) ==
    /\ At(c, "bind")
    /\ \/ LET n == CHOOSE n \in Fds \ open : \A k \in Fds \ open : n <= k IN
          /\ open' = open \cup {n}
          /\ put' = [put EXCEPT ![c].at = "run", ![c].fd = n]
       \/ put' = [put EXCEPT ![c] = Idle] /\ UNCHANGED open
    /\ UNCHANGED <<row, cfg, configured, learned, fd, flag, rx, crashed,
                   sender, counts, calls, puts>>

\* The descriptor is published and the thread started, without mu_.  Assigning over a
\* joinable std::thread ends the process.
Run(c) ==
    /\ At(c, "run")
    /\ fd' = put[c].fd /\ flag' = TRUE
    /\ crashed' = (rx # "none") /\ rx' = "running"
    /\ put' = [put EXCEPT ![c] = Idle]
    /\ UNCHANGED <<row, cfg, configured, learned, open, sender, counts, calls, puts>>

-----------------------------------------------------------------------------
(* The receive thread.                                                      *)

\* handle_packet(): a packet that does not decode is counted, any other teaches the
\* link where the robot is and goes to the odometry bus.
Receive ==
    /\ ~crashed /\ rx = "running" /\ fd \in open
    /\ counts.rx + counts.rejected < MaxPackets
    /\ \/ counts' = [counts EXCEPT !.rejected = @ + 1] /\ UNCHANGED learned
       \/ counts' = [counts EXCEPT !.rx = @ + 1] /\ learned' = TRUE
    /\ UNCHANGED <<row, put, cfg, configured, fd, flag, rx, open, crashed,
                   sender, calls, puts>>

\* run() polls for 200 ms at most, so it sees the flag cleared.
RxEnds ==
    /\ ~crashed /\ rx = "running" /\ ~flag
    /\ rx' = "ended"
    /\ UNCHANGED <<row, put, cfg, configured, learned, fd, flag, open, crashed,
                   sender, counts, calls, puts>>

-----------------------------------------------------------------------------
(* send_pose().                                                             *)

Destination == CASE configured # None -> configured
                 [] configured = None /\ learned -> cfg.port
                 [] OTHER -> None

\* Under mu_ the descriptor and the destination are copied, or the call fails.
BeginSend(s) ==
    /\ ~crashed /\ sender[s] = Ready /\ calls < MaxSends
    /\ calls' = calls + 1
    /\ \/ fd = -1 /\ counts' = [counts EXCEPT !.errors = @ + 1] /\ UNCHANGED sender
       \/ /\ fd # -1 /\ Destination = None
          /\ counts' = [counts EXCEPT !.noDest = @ + 1] /\ UNCHANGED sender
       \/ /\ fd # -1 /\ Destination # None
          /\ sender' = [sender EXCEPT ![s] = [fd |-> fd, dest |-> Destination]]
          /\ UNCHANGED counts
    /\ UNCHANGED <<row, put, link, puts>>

\* sendto() after mu_ is released; it fails on a descriptor closed meanwhile.
EndSend(s) ==
    /\ ~crashed /\ sender[s] # Ready
    /\ \/ sender[s].fd \in open /\ counts' = [counts EXCEPT !.sent = @ + 1]
       \/ counts' = [counts EXCEPT !.errors = @ + 1]
    /\ sender' = [sender EXCEPT ![s] = Ready]
    /\ UNCHANGED <<row, put, link, calls, puts>>

Reconfigure(c) == \/ Update(c) \/ ClearFlag(c) \/ Join(c) \/ Close(c)
                  \/ Configure(c) \/ Bind(c) \/ Run(c)

Next == \/ \E c \in Callers : Reconfigure(c)
        \/ Receive \/ RxEnds
        \/ \E s \in Senders : BeginSend(s) \/ EndSend(s)

Spec == Init /\ [][Next]_vars

-----------------------------------------------------------------------------
(* Properties.                                                              *)

\* Every variable has its type, and no PUT ends the process.
TypeOK ==
    /\ row \in Rows /\ cfg \in Rows /\ ~crashed
    /\ configured \in {1, 2, None} /\ learned \in BOOLEAN /\ flag \in BOOLEAN
    /\ fd \in Fds \cup {-1} /\ open \subseteq Fds /\ rx \in {"none", "running", "ended"}
    /\ \A s \in Senders : sender[s].fd \in Fds \cup {-1}

\* poll() and recvfrom() run on impl_->fd without a lock: while the thread may be in
\* them the descriptor is open and is the link's own, because stop() joins before it
\* closes.  And a link whose PUT is over holds at most one socket.
RxSocketOpen ==
    /\ rx = "running" => fd \in open
    /\ (\A c \in Callers : put[c] = Idle) => open = {fd} \ {-1}

\* Each call of send_pose() is counted once, as sent or with the reason it was not,
\* although the two halves of the call are two critical sections.
SendsCounted ==
    calls = counts.sent + counts.errors + counts.noDest
            + Cardinality({s \in Senders : sender[s] # Ready})

\* The row is the source of truth: once no PUT is under way the link runs with the
\* configuration of the row, or is down.
LinkMatchesRow ==
    (\A c \in Callers : put[c] = Idle) => cfg = row /\ (fd # -1 => row.enabled)
=============================================================================
