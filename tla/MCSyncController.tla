-------------------------- MODULE MCSyncController --------------------------
(* Model-checking instances of SyncController.                              *)
EXTENDS SyncController, TLC

\* The HTTP threads are interchangeable, and so are the configurations.
Symmetry == Permutations(Callers) \cup Permutations(Configs)

\* States that differ only in values nobody reads again are one state: the status
\* of a command nobody waits for, the configuration of a call that has already
\* set it, and how many tests there were (only pulses beyond them matter).
View ==
    LET Seen(h) == IF h.at = "send" \/ h.at = "await"
                     THEN [h EXCEPT !.cfg = IF Head(h.plan) = "SetConfig" THEN @ ELSE NoConfig]
                     ELSE h
    IN  <<intent, hostVars, resync_needed, io, broken, pending, wireVars, dtr, usb_seen,
          groups, armed, tests - edges, raced, calls, faults,
          [t \in Threads |-> Seen(thread[t])],
          IF \E t \in Threads : thread[t].at = "await" THEN cmd_status ELSE None>>
=============================================================================
