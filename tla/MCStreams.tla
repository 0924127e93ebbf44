----------------------------- MODULE MCStreams ------------------------------
(***************************************************************************)
(* Streams on a small instance, with the fairness its threads give.        *)
(***************************************************************************)
EXTENDS Streams, TLC

CONSTANTS b1, b2, t1, t2, p1, p2, s1, s2, h1, cfg1

\* Two buffers, two threads that release frames.
MCSlots == {b1, b2}
MCReleasers == {t1, t2}

\* A subscriber with the smallest queue and one that holds everything.
MCPublishers == {p1, p2}
MCSubscribers == {s1, s2}
MCCapacity == (s1 :> 1) @@ (s2 :> 3)

\* One caller with one configuration: one call or one fault (SyncController.cfg has more).
MCCallers == {h1}
MCConfigs == {cfg1}
MCIds == 1..8

-----------------------------------------------------------------------------
\* The threads of each component, numbered: a behaviour has one component, so one fairness
\* condition for each number is one for each of its threads.
PoolThread(k) ==
    \/ k = 1 /\ Pool!CaptureStep
    \/ k \in {2, 3} /\ Pool!ReturnStep(<<t1, t2>>[k - 1])
BusThread(k) ==
    \/ k \in 1..4 /\ Bus!NotifyAll(<<p1, p2, s1, s2>>[k])
    \/ k \in {5, 6} /\ Bus!WaitPop(<<s1, s2>>[k - 4])
PairerThread(k) ==
    \/ k = 1 /\ Pairer!WaitPop
    \/ k = 2 /\ Pairer!SuperStep
RecorderThread(k) ==
    \/ k \in {1, 2} /\ Recorder!PullStep(k)
    \/ k = 3 /\ Recorder!ImuStep
    \/ k = 4 /\ Recorder!WriterStep
    \/ k = 5 /\ Recorder!StopStep
ControllerThread(k) ==
    \/ k \in {1, 2} /\ Controller!CallStep(<<h1, Resync>>[k])
    \/ k = 3 /\ (Controller!ResyncWake \/ Controller!ResyncSnapshot)
    \/ k = 4 /\ Controller!IoStep
    \/ k = 5 /\ Controller!PollDtr
    \/ k = 6 /\ Controller!BoardReads

Thread(k) ==
    /\ UNCHANGED part
    /\ \/ part = "Pool" /\ PoolThread(k)
       \/ part = "Bus" /\ BusThread(k)
       \/ part = "Pairer" /\ PairerThread(k)
       \/ part = "Recorder" /\ RecorderThread(k)
       \/ part = "Controller" /\ ControllerThread(k)

\* The variables that move.
active == CASE part = "Pool" -> poolVars [] part = "Bus" -> busVars
            [] part = "Pairer" -> pairerVars [] part = "Recorder" -> recorderVars
            [] part = "Controller" -> controllerVars

Fairness == \A k \in 1..6 : WF_active(Thread(k))

FairSpec == Spec /\ Fairness

-----------------------------------------------------------------------------
(* Liveness.                                                                *)

\* Resync, reconnect and retries end, with the board doing what the operator asked.
Converges ==
    <>[](part = "Controller" => Controller!Settled /\ (raced \/ Controller!InSync))

\* A dropped buffer gets back to the camera; whoever waits in wait_pop() gets out when its
\* handle is detached or the pairer shut down; a recording told to stop closes its file.
Waits ==
    CASE part = "Pool" -> \E s \in {b1, b2} :
                            refcount[s] = 0 /\ cap.slot # s /\ s \notin queued
      [] part = "Bus" -> \E s \in {s1, s2} : ~attached[s] /\ consumer[s] # "exit"
      [] part = "Pairer" -> shut /\ super # "reset"
      [] part = "Recorder" -> phase \notin {"on", "closed"}
      [] part = "Controller" -> FALSE

EverybodyReturns == Waits ~> ~Waits
=============================================================================
