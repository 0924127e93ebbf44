--------------------------- MODULE SyncController ---------------------------
(***************************************************************************)
(* The trigger controller and its host: HTTP callers that arm, stop and    *)
(* test the outputs, the resync thread that pushes the desired             *)
(* configuration after a failure or a reconnect, the I/O thread that owns  *)
(* the serial port (src/server/sync_controller_manager.cpp and the routes  *)
(* of routes_hardware_sync.cpp), and the firmware main loop with its       *)
(* trigger engine (firmware/src/).                                         *)
(*                                                                         *)
(* A step of the host is what it does between two points where another     *)
(* thread can take cmd_mu or cfg_mu: send_command_once() releases cmd_mu   *)
(* while it waits for its ACK.  The wire keeps order and loses bytes only  *)
(* when the cable is pulled; the firmware drops an ACK it cannot write.    *)
(***************************************************************************)
EXTENDS Naturals, Sequences, FiniteSets, SequencesExt

CONSTANTS
    Callers,     \* threads of the HTTP server
    Resync,      \* the resync thread
    Configs,     \* non-empty lists of trigger groups
    NoConfig,    \* the empty list
    None,        \* no value
    Ids,         \* request ids in flight (the code has 2^16 - 1)
    MaxCalls,    \* bound on the calls of the HTTP API
    MaxFaults,   \* bound on unplugs, resets, lost ACKs and early timeouts
    MaxEvents    \* bound on calls and faults together

ASSUME ControllerAssumption ==
    /\ IsFiniteSet(Callers) /\ Resync \notin Callers
    /\ Ids # {}
    /\ NoConfig \notin Configs /\ None # "Ok"
    /\ MaxCalls \in Nat /\ MaxFaults \in Nat /\ MaxEvents \in Nat

VARIABLES
    intent,         \* the database: TriggerGroupRepository::armed()
    desired,        \* desired_cfg
    want,           \* want_armed
    slot_pins,      \* the configuration slot_pins was filled from
    resync_needed,
    io,             \* the I/O thread: "down", "probing" or "up" (fd >= 0)
    broken,         \* the device behind the open port is gone
    pending,        \* [id, cmd] while cmd_pending, else None
    cmd_status,     \* AckStatus or None
    thread,         \* each thread: the call it executes
    toBoard,        \* frames written and not yet handled, [id, cmd, cfg]
    toHost,         \* frames sent and not yet read, [id, cmd, status]
    dtr,            \* the host has the port open
    usb_seen,       \* g_was_usb_connected
    groups,         \* g_groups
    armed,          \* g_armed
    edges,          \* history: pulses made by TEST_OUTPUT
    tests,          \* history: calls of test_output()
    raced,          \* history: calls overlapped since an arm that began alone
    calls,          \* API calls so far
    faults          \* faults so far

hostVars == <<desired, want, slot_pins>>
cmdVars == <<pending, cmd_status>>
wireVars == <<toBoard, toHost>>
boardVars == <<usb_seen, groups, armed, edges>>
history == <<tests, raced, calls>>
vars == <<intent, hostVars, resync_needed, io, broken, cmdVars, thread, wireVars,
          dtr, boardVars, history, faults>>

Threads == Callers \cup {Resync}

\* plan: the commands still to be acknowledged; tries: sends left for the first;
\* id: its request id; acked: the board has acknowledged it with Ok; crossed:
\* another command was sent while this one waited.
Idle == [op |-> "idle", at |-> "idle", cfg |-> NoConfig, plan |-> <<>>, tries |-> 0,
         id |-> None, acked |-> FALSE, crossed |-> FALSE]

Init ==
    /\ \/ intent = FALSE /\ desired = NoConfig       \* nothing armed in the database
       \/ intent = TRUE /\ desired \in Configs       \* boot auto-arm
    /\ want = intent
    /\ slot_pins = desired
    /\ resync_needed = intent
    /\ io = "down" /\ broken = FALSE
    /\ pending = None /\ cmd_status = None
    /\ thread = [t \in Threads |-> Idle]
    /\ toBoard = <<>> /\ toHost = <<>>
    /\ dtr = FALSE /\ usb_seen = FALSE
    /\ groups \in Configs \cup {NoConfig}            \* the board may have been running
    /\ armed = FALSE
    /\ edges = 0 /\ tests = 0 /\ calls = 0 /\ faults = 0 /\ raced = FALSE

Fault == faults < MaxFaults /\ calls + faults < MaxEvents /\ faults' = faults + 1

-----------------------------------------------------------------------------
(* Calls: arm, stop and test-output, and the resync thread.                 *)

Alone == \A t \in Threads : thread[t].op = "idle"

Begin(t, op, at, cfg) ==
    thread' = [thread EXCEPT ![t] = [Idle EXCEPT !.op = op, !.at = at, !.cfg = cfg]]

\* The next request finds thread t free.
MayCall(t) == thread[t].op = "idle" /\ calls < MaxCalls /\ calls + faults < MaxEvents

\* POST .../arm: repo.set_armed(true)
CallArm(t, c) ==
    /\ MayCall(t)
    /\ calls' = calls + 1
    /\ raced' = ~Alone
    /\ intent' = TRUE
    /\ Begin(t, "arm", "desire", c)
    /\ UNCHANGED <<hostVars, resync_needed, io, broken, cmdVars, wireVars, dtr,
                   boardVars, tests, faults>>

\* POST .../stop: repo.set_armed(false)
CallStop(t) ==
    /\ MayCall(t)
    /\ calls' = calls + 1
    /\ raced' = (raced \/ ~Alone)
    /\ intent' = FALSE
    /\ Begin(t, "stop", "desire", NoConfig)
    /\ UNCHANGED <<hostVars, resync_needed, io, broken, cmdVars, wireVars, dtr,
                   boardVars, tests, faults>>

\* POST .../test-output goes straight to test_output().
CallTest(t) ==
    /\ MayCall(t)
    /\ calls' = calls + 1
    /\ tests' = tests + 1
    /\ raced' = (raced \/ ~Alone)
    /\ Begin(t, "test", "check", NoConfig)
    /\ UNCHANGED <<intent, hostVars, resync_needed, io, broken, cmdVars, wireVars,
                   dtr, boardVars, faults>>

Plan(op, arm) == CASE op = "test" -> <<"TestOutput">>
                   [] op = "stop" -> <<"Stop">>
                   [] OTHER -> IF arm THEN <<"SetConfig", "Arm">> ELSE <<"SetConfig">>

\* Mutant of TriesFor: TEST_OUTPUT is retried like the other commands.
TriesAlwaysTwo(op) == 2

\* send_command() sends a command at most twice, test_output() once.
TriesFor(op) == IF op = "test" THEN 1 ELSE 2

\* The call of t is over; push_config() and run_resync() ask for a resync if it failed.
Finish(t, ok) ==
    /\ thread' = [thread EXCEPT ![t] = Idle]
    /\ resync_needed' = (resync_needed \/ (~ok /\ thread[t].op \in {"arm", "resync"}))

\* "if (!connected) ..." ends the call; connected.load() commutes with the step before.
StartIfConnected(t) ==
    IF io = "up"
      THEN /\ thread' = [thread EXCEPT ![t].at = "send",
                                       ![t].plan = Plan(thread[t].op, TRUE),
                                       ![t].tries = TriesFor(thread[t].op)]
           /\ UNCHANGED resync_needed
      ELSE Finish(t, FALSE)

\* push_config(): the block under cfg_mu
SetDesired(t) ==
    /\ thread[t].at = "desire" /\ thread[t].op = "arm"
    /\ desired' = thread[t].cfg /\ want' = TRUE
    /\ thread' = [thread EXCEPT ![t].at = "check"]
    /\ UNCHANGED <<intent, slot_pins, resync_needed, io, broken, cmdVars, wireVars,
                   dtr, boardVars, history, faults>>

\* push_config(): set_slot_pins(), then the connection check
SetSlotPins(t) ==
    /\ thread[t].at = "check" /\ thread[t].op = "arm"
    /\ slot_pins' = thread[t].cfg
    /\ StartIfConnected(t)
    /\ UNCHANGED <<intent, desired, want, io, broken, cmdVars, wireVars, dtr, boardVars,
                   history, faults>>

\* stop_outputs(): the block under cfg_mu, then the connection check
ClearWant(t) ==
    /\ thread[t].at = "desire" /\ thread[t].op = "stop"
    /\ want' = FALSE
    /\ StartIfConnected(t)
    /\ UNCHANGED <<intent, desired, slot_pins, io, broken, cmdVars, wireVars, dtr,
                   boardVars, history, faults>>

\* test_output(): the connection check
CheckConnected(t) ==
    /\ thread[t].at = "check" /\ thread[t].op = "test"
    /\ StartIfConnected(t)
    /\ UNCHANGED <<intent, hostVars, io, broken, cmdVars, wireVars, dtr, boardVars,
                   history, faults>>

\* run_resync(): takes the flag, then a snapshot of the desired state.
ResyncWake ==
    /\ thread[Resync].op = "idle" /\ resync_needed
    /\ resync_needed' = FALSE
    /\ raced' = (raced \/ ~Alone)
    /\ Begin(Resync, "resync", "snapshot", NoConfig)
    /\ UNCHANGED <<intent, hostVars, io, broken, cmdVars, wireVars, dtr, boardVars,
                   tests, calls, faults>>

ResyncSnapshot ==
    /\ thread[Resync].at = "snapshot"
    /\ thread' = [thread EXCEPT ![Resync] =
                    IF desired = NoConfig \/ io # "up" THEN Idle
                    ELSE [@ EXCEPT !.at = "send", !.cfg = desired, !.tries = 2,
                                   !.plan = Plan("resync", want)]]
    /\ UNCHANGED <<intent, hostVars, resync_needed, io, broken, cmdVars, wireVars,
                   dtr, boardVars, history, faults>>

-----------------------------------------------------------------------------
(* send_command() and send_command_once().                                  *)

InUse == {thread[t].id : t \in Threads}
           \cup {m.id : m \in ToSet(toBoard) \cup ToSet(toHost)}
\* The counter wraps: with all ids in flight the next one is in use.
FreshId == CHOOSE i \in Ids : Ids \subseteq InUse \/ i \notin InUse

\* One attempt failed: send_command() retries once, then the call fails.
Failed(t) ==
    IF thread[t].tries > 1
      THEN /\ thread' = [thread EXCEPT ![t].at = "send", ![t].tries = @ - 1, ![t].id = None,
                                       ![t].acked = FALSE, ![t].crossed = FALSE]
           /\ UNCHANGED resync_needed
      ELSE Finish(t, FALSE)

\* One command is acknowledged: go on with the next of the plan.
Succeeded(t) ==
    IF Len(thread[t].plan) > 1
      THEN /\ thread' = [thread EXCEPT ![t].at = "send", ![t].plan = Tail(@), ![t].tries = 2,
                                       ![t].id = None, ![t].acked = FALSE, ![t].crossed = FALSE]
           /\ UNCHANGED resync_needed
      ELSE Finish(t, TRUE)

\* No port, or write_all() fails because the device is gone.
SendFails(t) ==
    /\ thread[t].at = "send"
    /\ io # "up" \/ broken
    /\ IF io = "up"
         THEN pending' = None /\ cmd_status' = None
         ELSE UNCHANGED cmdVars
    /\ Failed(t)
    /\ UNCHANGED <<intent, hostVars, io, broken, wireVars, dtr, boardVars, history,
                   faults>>

\* Only SET_CONFIG carries the trigger groups.
Payload(t) == IF Head(thread[t].plan) = "SetConfig" THEN thread[t].cfg ELSE NoConfig

\* Claims the one pending slot, whoever waits in it, and writes the frame.
Send(t) ==
    /\ thread[t].at = "send"
    /\ io = "up" /\ ~broken
    /\ pending' = [id |-> FreshId, cmd |-> Head(thread[t].plan)]
    /\ cmd_status' = None
    /\ toBoard' = Append(toBoard, [id |-> FreshId, cmd |-> Head(thread[t].plan),
                                   cfg |-> Payload(t)])
    /\ thread' = [u \in Threads |->
                    IF u = t
                      THEN [thread[t] EXCEPT !.at = "await", !.id = FreshId,
                              !.crossed = \E v \in Threads \ {t} : thread[v].at = "await"]
                      ELSE [thread[u] EXCEPT !.crossed = @ \/ thread[u].at = "await"]]
    /\ UNCHANGED <<intent, hostVars, resync_needed, io, broken, toHost, dtr, boardVars,
                   history, faults>>

\* The wait ends because nothing is pending: somebody's ACK, or close_fd().
Wake(t) ==
    /\ thread[t].at = "await" /\ pending = None
    /\ IF cmd_status = "Ok" THEN Succeeded(t) ELSE Failed(t)
    /\ UNCHANGED <<intent, hostVars, io, broken, cmdVars, wireVars, dtr, boardVars,
                   history, faults>>

\* The ACK of thread t's command can still arrive.
AckOnItsWay(t) ==
    /\ ~broken
    /\ \E m \in ToSet(toBoard) \cup ToSet(toHost) : m.id = thread[t].id

\* Mutant of Timeout: the attempt counts as acknowledged.
TimeoutAsSuccess(t) ==
    /\ thread[t].at = "await"
    /\ IF pending = None \/ AckOnItsWay(t) THEN Fault ELSE UNCHANGED faults
    /\ pending' = None
    /\ Succeeded(t)
    /\ UNCHANGED <<intent, hostVars, io, broken, cmd_status, wireVars, dtr,
                   boardVars, history>>

\* The deadline passes.  It is a fault while the ACK is still on its way or the
\* thread has already been woken.
Timeout(t) ==
    /\ thread[t].at = "await"
    /\ IF pending = None \/ AckOnItsWay(t) THEN Fault ELSE UNCHANGED faults
    /\ pending' = None
    /\ Failed(t)
    /\ UNCHANGED <<intent, hostVars, io, broken, cmd_status, wireVars, dtr,
                   boardVars, history>>

CallStep(t) ==
    \/ SetDesired(t) \/ SetSlotPins(t) \/ ClearWant(t) \/ CheckConnected(t)
    \/ SendFails(t) \/ Send(t) \/ Wake(t) \/ Timeout(t)

-----------------------------------------------------------------------------
(* The I/O thread.                                                          *)

\* open_serial() and the HELLO of probe_controller()
Open ==
    /\ io = "down"
    /\ io' = "probing" /\ dtr' = TRUE /\ broken' = FALSE
    /\ toBoard' = Append(toBoard, [id |-> None, cmd |-> "Hello", cfg |-> NoConfig])
    /\ UNCHANGED <<intent, hostVars, resync_needed, cmdVars, thread, toHost, boardVars,
                   history, faults>>

\* Mutant of ProbeOk: a new connection asks for no resync.
ProbeOkQuietly ==
    /\ io = "probing"
    /\ \E m \in ToSet(toHost) : m.cmd = "Hello"
    /\ io' = "up"
    /\ toHost' = <<>>
    /\ UNCHANGED <<intent, hostVars, resync_needed, broken, cmdVars, thread, toBoard, dtr,
                   boardVars, history, faults>>

\* try_connect() succeeds and run() requests a resync.
ProbeOk ==
    /\ io = "probing"
    /\ \E m \in ToSet(toHost) : m.cmd = "Hello"
    /\ io' = "up"
    /\ resync_needed' = TRUE
    /\ toHost' = <<>>
    /\ UNCHANGED <<intent, hostVars, broken, cmdVars, thread, toBoard, dtr, boardVars,
                   history, faults>>

\* The probe times out: HELLO or its answer is lost.
ProbeFails ==
    /\ io = "probing"
    /\ broken \/ ~\E m \in ToSet(toBoard) \cup ToSet(toHost) : m.cmd = "Hello"
    /\ io' = "down" /\ dtr' = FALSE /\ toHost' = <<>>
    /\ UNCHANGED <<intent, hostVars, resync_needed, broken, cmdVars, thread, toBoard,
                   boardVars, history, faults>>

\* close_fd(), when poll() or read() notices
Disconnect ==
    /\ io = "up" /\ broken
    /\ io' = "down" /\ dtr' = FALSE
    /\ pending' = None
    /\ UNCHANGED <<intent, hostVars, resync_needed, broken, cmd_status, thread,
                   wireVars, boardVars, history, faults>>

\* on_ack: the test on request id and command
Correlates(m) == pending # None /\ m.id = pending.id /\ m.cmd = pending.cmd

ReadFrame ==
    /\ io = "up" /\ toHost # <<>>
    /\ toHost' = Tail(toHost)
    /\ IF Correlates(Head(toHost))
         THEN pending' = None /\ cmd_status' = Head(toHost).status
         ELSE UNCHANGED cmdVars
    /\ UNCHANGED <<intent, hostVars, resync_needed, io, broken, thread, toBoard,
                   dtr, boardVars, history, faults>>

IoStep == Open \/ ProbeOk \/ ProbeFails \/ Disconnect \/ ReadFrame
-----------------------------------------------------------------------------
(* The firmware.  A loop() polls DTR, then handles the frames it has; any   *)
(* sequence of these two actions is a run of loop().                        *)

PollDtr ==
    /\ usb_seen # dtr
    /\ usb_seen' = dtr
    /\ armed' = (armed /\ dtr)
    /\ UNCHANGED <<intent, hostVars, resync_needed, io, broken, cmdVars, thread, wireVars,
                   dtr, groups, edges, history, faults>>

\* Mutant of Execute: SET_CONFIG while armed leaves the groups alone.
ExecuteKeepGroups(m) ==
    CASE m.cmd = "SetConfig" -> /\ groups' = IF armed THEN groups ELSE m.cfg
                                /\ armed' = FALSE /\ UNCHANGED edges
      [] m.cmd = "Arm"       -> armed' = (groups # NoConfig) /\ UNCHANGED <<groups, edges>>
      [] m.cmd = "Stop"      -> armed' = FALSE /\ UNCHANGED <<groups, edges>>
      [] OTHER -> UNCHANGED <<groups, armed, edges>>

\* handle_command(): what a command does to the trigger engine, and its status
Execute(m) ==
    CASE m.cmd = "SetConfig" -> /\ groups' = m.cfg /\ armed' = FALSE
                                /\ UNCHANGED edges
      [] m.cmd = "Arm"       -> /\ armed' = (groups # NoConfig)
                                /\ UNCHANGED <<groups, edges>>
      [] m.cmd = "Stop"      -> /\ armed' = FALSE
                                /\ UNCHANGED <<groups, edges>>
      [] m.cmd = "TestOutput" -> /\ edges' = IF armed THEN edges ELSE edges + 1
                                 /\ UNCHANGED <<groups, armed>>
      [] OTHER -> UNCHANGED <<groups, armed, edges>>

StatusOf(m) == IF m.cmd = "Arm" /\ groups = NoConfig THEN "NoConfig"
               ELSE IF m.cmd = "TestOutput" /\ armed THEN "Busy" ELSE "Ok"

\* consume_rx() handles the next frame; usb_send() drops the answer without DTR
\* or when the transmit buffer is full.
HandleCommand(sent) ==
    /\ toBoard # <<>>
    /\ toBoard' = Tail(toBoard)
    /\ LET m == Head(toBoard) IN
         /\ Execute(m)
         /\ thread' = [t \in Threads |->
                         IF thread[t].id = m.id /\ thread[t].at = "await" /\ StatusOf(m) = "Ok"
                           THEN [thread[t] EXCEPT !.acked = TRUE] ELSE thread[t]]
         /\ IF sent
              THEN /\ dtr
                   /\ toHost' = Append(toHost, [id |-> m.id, cmd |-> m.cmd,
                                                status |-> StatusOf(m)])
                   /\ UNCHANGED faults
              ELSE /\ IF dtr THEN Fault ELSE UNCHANGED faults
                   /\ UNCHANGED toHost
    /\ UNCHANGED <<intent, hostVars, resync_needed, io, broken, cmdVars, dtr, usb_seen,
                   history>>

BoardStep == PollDtr \/ HandleCommand(TRUE) \/ (~dtr /\ HandleCommand(FALSE))

-----------------------------------------------------------------------------
(* Faults.                                                                  *)

\* The cable is pulled: frames not yet in the board's buffer are lost.
Unplug ==
    /\ io # "down" /\ ~broken
    /\ Fault
    /\ broken' = TRUE /\ dtr' = FALSE
    /\ toHost' = <<>>
    /\ \E n \in 0..Len(toBoard) : toBoard' = SubSeq(toBoard, 1, n)
    /\ UNCHANGED <<intent, hostVars, resync_needed, io, cmdVars, thread, boardVars, history>>

\* The board resets and leaves the bus.
Reset ==
    /\ Fault
    /\ broken' = (io # "down") /\ dtr' = FALSE /\ usb_seen' = FALSE
    /\ groups' = NoConfig /\ armed' = FALSE
    /\ toHost' = <<>> /\ toBoard' = <<>>
    /\ UNCHANGED <<intent, hostVars, resync_needed, io, cmdVars, thread, edges, history>>

\* Everything asked for has been done.
Settled ==
    /\ Alone /\ io = "up" /\ ~broken /\ ~resync_needed
    /\ toBoard = <<>> /\ toHost = <<>> /\ usb_seen = dtr

Rest == Settled /\ UNCHANGED vars

Next ==
    \/ \E t \in Callers : (\E c \in Configs : CallArm(t, c)) \/ CallStop(t) \/ CallTest(t)
    \/ \E t \in Threads : CallStep(t)
    \/ ResyncWake \/ ResyncSnapshot
    \/ IoStep
    \/ BoardStep
    \/ HandleCommand(FALSE)
    \/ Unplug \/ Reset
    \/ Rest

\* The board takes the next command; with the host gone it may find none of its ACKs taken.
BoardReads == HandleCommand(TRUE) \/ (~dtr /\ HandleCommand(FALSE))

Fairness ==
    /\ \A t \in Threads : WF_vars(CallStep(t))
    /\ WF_vars(ResyncWake \/ ResyncSnapshot)
    /\ WF_vars(IoStep)
    /\ WF_vars(PollDtr) /\ WF_vars(BoardReads)

Spec == Init /\ [][Next]_vars
FairSpec == Spec /\ Fairness

-----------------------------------------------------------------------------
(* Properties.                                                              *)

Commands == {"SetConfig", "Arm", "Stop", "TestOutput"}
Statuses == {"Ok", "Busy", "NoConfig"}
AllConfigs == Configs \cup {NoConfig}

Call == [op : {"idle", "arm", "stop", "test", "resync"},
         at : {"idle", "desire", "check", "snapshot", "send", "await"},
         cfg : AllConfigs, plan : Seq(Commands), tries : 0..2,
         id : Ids \cup {None}, acked : BOOLEAN, crossed : BOOLEAN]
Request == [id : Ids \cup {None}, cmd : Commands \cup {"Hello"}, cfg : AllConfigs]
Answer == [id : Ids \cup {None}, cmd : Commands \cup {"Hello"}, status : Statuses]

TypeOK ==
    /\ intent \in BOOLEAN /\ want \in BOOLEAN
    /\ desired \in AllConfigs /\ slot_pins \in AllConfigs
    /\ resync_needed \in BOOLEAN
    /\ io \in {"down", "probing", "up"} /\ broken \in BOOLEAN
    /\ pending \in {None} \cup [id : Ids, cmd : Commands]
    /\ cmd_status \in {None} \cup Statuses
    /\ thread \in [Threads -> Call]
    /\ toBoard \in Seq(Request) /\ toHost \in Seq(Answer)
    /\ dtr \in BOOLEAN /\ usb_seen \in BOOLEAN
    /\ groups \in AllConfigs /\ armed \in BOOLEAN
    /\ edges \in 0..MaxCalls /\ tests \in 0..MaxCalls
    /\ raced \in BOOLEAN /\ calls \in 0..MaxCalls /\ faults \in 0..MaxFaults

\* The board does what the operator last asked for, and the host attributes its
\* trigger events to the outputs that make them.
InSync ==
    /\ armed = intent
    /\ armed => groups = desired /\ slot_pins = desired

\* Lost ACKs, early timeouts, unplugs and resets at any point leave the board as
\* the operator asked once the retries have settled, if no two calls overlapped.
SettledInSync == Settled /\ ~raced => InSync

\* A retried command never makes a camera take two pictures: TEST_OUTPUT makes at
\* most one pulse per call, whatever is lost or late.
TestPulsesOnce == edges <= tests

\* A call that reports success was acknowledged by the board, or another thread's
\* command took the single pending slot while it waited.
ReportsOk(t) ==
    thread[t].at = "await" /\ thread'[t] # thread[t]
      /\ \/ thread'[t].plan = Tail(thread[t].plan) /\ thread'[t].op # "idle"
         \/ thread'[t].op = "idle" /\ cmd_status = "Ok" /\ pending = None

AckedIfOk == \A t \in Threads : ReportsOk(t) => thread[t].acked \/ thread[t].crossed
OkMeansAcked == [][AckedIfOk]_vars

\* Resync and reconnect converge: with finitely many calls and faults the system
\* settles, and on what the operator asked for if no two calls overlapped.
Converges == <>[](Settled /\ (raced \/ InSync))

\* The protocol's recovery rules, as its document states them.
\* "explicit stop ... leaves M1-M6 LOW and unarmed"
StopLeavesUnarmed == Settled /\ ~intent => ~armed

\* "loss of the USB host leaves M1-M6 LOW and unarmed"
HostLossDisarms == ~dtr /\ ~usb_seen => ~armed
=============================================================================
