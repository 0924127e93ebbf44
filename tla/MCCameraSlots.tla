---------------------------- MODULE MCCameraSlots ---------------------------
EXTENDS CameraSlots
CONSTANTS client, client2, job
Body(f, v) == [g \in {"cfg", "gain", "orient", "stamp"} |-> IF g = f THEN v ELSE None]
MCPatches == [c \in Callers |->
    IF c = job THEN {Body("stamp", 2)}
    ELSE {Body("cfg", 2), Body("orient", 180), Body("orient", 0), Body("stamp", 3), Body("gain", 3),
     [Body("gain", 2) EXCEPT !["cfg"] = 2]}]
=============================================================================
