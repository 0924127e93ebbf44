----------------------------- MODULE ConfigStore ----------------------------
(***************************************************************************)
(* The tables a robot's configuration lives in and the requests that write    *)
(* them: src/src/server/camera_repository.cpp, trigger_group_repository.cpp,   *)
(* config_snapshot.cpp and the routes that call them.  A snapshot is exported  *)
(* and imported later, over rows that have changed since, one row at a time;   *)
(* then the services are told (routes_config.cpp).  Every repository call is   *)
(* one transaction under the database's mutex, a request is several.          *)
(* Cameras go by serial, which is also what an import matches on; the fields   *)
(* that a constraint is about are kept.  Field layouts are in TagLayouts.     *)
(***************************************************************************)
EXTENDS Integers, FiniteSets

CONSTANTS
    Serials, Names,   \* cameras, and the names they may have
    Pins, NoPin,      \* trigger outputs, and none
    Roles, NoRole,    \* the exclusive roles (vio_left, vio_right), and none
    Groups,           \* names of trigger groups
    Clients,          \* HTTP threads
    MaxCalls,         \* bound: requests
    None

VARIABLES
    cams,        \* cameras: serial -> row, or None
    groups,      \* trigger_groups: name -> output pins, {} when there is no row
    conf,        \* a single-row table (imu, vio, net or fusion config)
    slot,        \* what the camera supervisor was last told of a camera
    service,     \* what the service of conf last read
    snap,        \* an exported snapshot, or None
    req,         \* what each HTTP thread is doing
    clash,       \* an import was refused a pin that a camera of the snapshot holds
    calls

vars == <<cams, groups, conf, slot, service, snap, req, clash, calls>>

StoreAssumption == IsFiniteSet(Clients)

Row   == [name : Names, pin : Pins \cup {NoPin}, role : Roles \cup {NoRole}]
Idle  == [at |-> "idle"]
At(c, step) == req[c].at = step
Done(c) == req' = [req EXCEPT ![c] = Idle]
InSnap == {s \in Serials : snap.cams[s] # None}

\* The UNIQUE columns of cameras: may serial s have this row?
NameFree(s, name) == \A t \in Serials \ {s} : cams[t] # None => cams[t].name # name
PinFree(s, pin) == pin = NoPin \/ \A t \in Serials \ {s} : cams[t] # None => cams[t].pin # pin
\* Mutant of Overlaps: only a group of the same pins overlaps.
OverlapsSame(g, pins) == \E h \in Groups \ {g} : groups[h] = pins

\* check_no_pin_overlap(), in the transaction that writes
Overlaps(g, pins) == \E h \in Groups \ {g} : groups[h] \cap pins # {}

\* Tables the constraints allow, before roles are given.
Tables == {f \in [Serials -> {None} \cup {r \in Row : r.role = NoRole}] :
    \A s, t \in Serials : s # t /\ f[s] # None /\ f[t] # None =>
        f[s].name # f[t].name /\ (f[s].pin = NoPin \/ f[s].pin # f[t].pin)}

\* The robot may have been set up already, and a file exported from it or another.
Init ==
    /\ cams \in Tables
    /\ groups = [g \in Groups |-> {}] /\ conf = 0
    /\ slot = cams /\ service = conf
    /\ \/ snap = None
       \/ \E f \in Tables, h \in Groups, p \in Pins :
            snap = [cams |-> f, groups |-> [g \in Groups |-> IF g = h THEN {p} ELSE {}],
                    conf |-> 1]
    /\ clash = FALSE
    /\ req = [c \in Clients |-> Idle] /\ calls = 0

Begin(c, r) ==
    /\ req[c] = Idle /\ calls < MaxCalls
    /\ req' = [req EXCEPT ![c] = r] /\ calls' = calls + 1

-----------------------------------------------------------------------------
(* Cameras.                                                                 *)

\* POST and PUT: an exclusive role another camera has is refused, in a transaction of
\* its own ...
CheckRole(c) ==
    \E s \in Serials, r \in Row :
      /\ \/ r.role = NoRole
         \/ \A t \in Serials \ {s} : cams[t] # None => cams[t].role # r.role
      /\ Begin(c, [at |-> "write", serial |-> s, row |-> r, had |-> cams[s] # None])
      /\ UNCHANGED <<cams, groups, conf, slot, service, snap, clash>>

\* ... then create() or update(), which the UNIQUE columns may refuse.
WriteCamera(c) ==
    LET s == req[c].serial  r == req[c].row IN
    /\ At(c, "write")
    /\ IF NameFree(s, r.name) /\ PinFree(s, r.pin) /\ (cams[s] # None) = req[c].had
       THEN /\ cams' = [cams EXCEPT ![s] = r]
            /\ req' = [req EXCEPT ![c] = [at |-> "tell", serial |-> s]]
       ELSE Done(c) /\ UNCHANGED cams
    /\ UNCHANGED <<groups, conf, slot, service, snap, clash, calls>>

\* on_camera_added(), on_camera_updated(): the supervisor reads the row again.
Tell(c) ==
    /\ At(c, "tell") /\ Done(c)
    /\ slot' = [slot EXCEPT ![req[c].serial] = cams[req[c].serial]]
    /\ UNCHANGED <<cams, groups, conf, service, snap, clash, calls>>

\* DELETE: the slot, then the row.
RemoveCamera(c) ==
    \/ /\ \E s \in Serials :
            /\ cams[s] # None /\ Begin(c, [at |-> "remove", serial |-> s])
            /\ slot' = [slot EXCEPT ![s] = None]
       /\ UNCHANGED <<cams, groups, conf, service, snap, clash>>
    \/ /\ At(c, "remove") /\ Done(c)
       /\ cams' = [cams EXCEPT ![req[c].serial] = None]
       /\ UNCHANGED <<groups, conf, slot, service, snap, clash, calls>>

-----------------------------------------------------------------------------
(* Trigger groups and single-row configurations.                            *)

\* POST and PUT of a group; pins that overlap another group's are refused.
WriteGroup(c) ==
    /\ \E g \in Groups, pins \in SUBSET Pins \ {{}} :
         groups' = IF Overlaps(g, pins) THEN groups ELSE [groups EXCEPT ![g] = pins]
    /\ Begin(c, Idle)
    /\ UNCHANGED <<cams, conf, slot, service, snap, clash>>

RemoveGroup(c) ==
    /\ \E g \in Groups : groups[g] # {} /\ groups' = [groups EXCEPT ![g] = {}]
    /\ Begin(c, Idle)
    /\ UNCHANGED <<cams, conf, slot, service, snap, clash>>

\* PUT of a single-row configuration, then the service's reload().
WriteConf(c) ==
    \/ /\ Begin(c, [at |-> "reload"]) /\ conf' = 1 - conf
       /\ UNCHANGED <<cams, groups, slot, service, snap, clash>>
    \/ /\ At(c, "reload") /\ Done(c) /\ service' = conf
       /\ UNCHANGED <<cams, groups, conf, slot, snap, clash, calls>>

-----------------------------------------------------------------------------
(* Snapshots.                                                               *)

\* export_snapshot()
Export(c) ==
    /\ snap = None /\ Begin(c, Idle)
    /\ snap' = [cams |-> cams, groups |-> groups, conf |-> conf]
    /\ UNCHANGED <<cams, groups, conf, slot, service, clash>>

\* Mutant of Import: no pin is cleared first.
ImportClearingNothing(c) ==
    /\ snap # None
    /\ Begin(c, [at |-> "import", clear |-> {}, todo |-> InSnap, told |-> {}, failed |-> {}])
    /\ UNCHANGED <<cams, groups, conf, slot, service, snap, clash>>

\* import_cameras(): list_all() decides which cameras must let go of a pin: those of
\* the snapshot that hold one another camera of it is to have.
Import(c) ==
    /\ snap # None
    /\ Begin(c, [at |-> "import", clear |->
                   {s \in InSnap : /\ cams[s] # None /\ cams[s].pin # NoPin
                                   /\ \E t \in InSnap \ {s} : snap.cams[t].pin = cams[s].pin},
                 todo |-> InSnap, told |-> {}, failed |-> {}])
    /\ UNCHANGED <<cams, groups, conf, slot, service, snap, clash>>

ClearPin(c) ==
    /\ At(c, "import")
    /\ \E s \in req[c].clear :
         /\ req' = [req EXCEPT ![c].clear = @ \ {s}]
         /\ cams' = IF cams[s] = None THEN cams ELSE [cams EXCEPT ![s].pin = NoPin]
    /\ UNCHANGED <<groups, conf, slot, service, snap, clash, calls>>

\* One entry: the row is created under its name if it is not there, then updated; a
\* refusal of either is reported and the next entry taken.
ImportCamera(c) ==
    /\ At(c, "import") /\ req[c].clear = {}
    /\ \E s \in req[c].todo :
         LET r == snap.cams[s]
             found == cams[s] # None
             ok == NameFree(s, r.name) /\ PinFree(s, r.pin) IN
         /\ cams' = IF ok THEN [cams EXCEPT ![s] = r]
                    ELSE IF ~found /\ NameFree(s, r.name)
                    THEN [cams EXCEPT ![s] = [name |-> r.name, pin |-> NoPin, role |-> NoRole]]
                    ELSE cams
         /\ clash' = (clash \/ \E t \in InSnap \ {s} :
                         cams[t] # None /\ r.pin # NoPin /\ cams[t].pin = r.pin)
         /\ req' = [req EXCEPT ![c].todo = @ \ {s},
                               ![c].told = IF ok THEN @ \cup {s} ELSE @,
                               ![c].failed = IF ok THEN @ ELSE @ \cup {s}]
    /\ UNCHANGED <<groups, conf, slot, service, snap, calls>>

\* import_trigger_groups(): the groups of the same names are removed ...
ImportGroups(c) ==
    LET named == {g \in Groups : snap.groups[g] # {}} IN
    /\ At(c, "import") /\ req[c].clear \cup req[c].todo = {}
    /\ groups' = [g \in Groups |-> IF g \in named THEN {} ELSE groups[g]]
    /\ req' = [req EXCEPT ![c] = [at |-> "groups", todo |-> named, told |-> @.told,
                                  failed |-> @.failed]]
    /\ UNCHANGED <<cams, conf, slot, service, snap, clash, calls>>

\* Mutant of ImportGroup: a refused group is not reported.
ImportGroupQuietly(c) ==
    /\ At(c, "groups")
    /\ \E g \in req[c].todo :
         /\ groups' = IF groups[g] = {} /\ ~Overlaps(g, snap.groups[g])
                      THEN [groups EXCEPT ![g] = snap.groups[g]] ELSE groups
         /\ req' = [req EXCEPT ![c].todo = @ \ {g}]
    /\ UNCHANGED <<cams, conf, slot, service, snap, clash, calls>>

\* ... and created again, unless a group the snapshot does not name has one of the pins.
ImportGroup(c) ==
    /\ At(c, "groups")
    /\ \E g \in req[c].todo :
         LET ok == groups[g] = {} /\ ~Overlaps(g, snap.groups[g]) IN
         /\ groups' = IF ok THEN [groups EXCEPT ![g] = snap.groups[g]] ELSE groups
         /\ req' = [req EXCEPT ![c].todo = @ \ {g},
                               ![c].failed = IF ok THEN @ ELSE @ \cup {g}]
    /\ UNCHANGED <<cams, conf, slot, service, snap, clash, calls>>

\* The single-row sections, after which the route tells the camera supervisor about the
\* cameras that were imported, and the services to reload.
ImportConf(c) ==
    /\ At(c, "groups") /\ req[c].todo = {}
    /\ conf' = snap.conf
    /\ req' = [req EXCEPT ![c] = [at |-> "propagate", told |-> @.told, failed |-> @.failed]]
    /\ UNCHANGED <<cams, groups, slot, service, snap, clash, calls>>

Propagate(c) ==
    /\ At(c, "propagate")
    /\ IF req[c].told # {}
       THEN /\ \E s \in req[c].told :
                 /\ slot' = [slot EXCEPT ![s] = cams[s]]
                 /\ req' = [req EXCEPT ![c].told = @ \ {s}]
            /\ UNCHANGED service
       ELSE /\ service' = conf /\ UNCHANGED slot
            /\ req' = [req EXCEPT ![c] = [at |-> "reported", failed |-> @.failed]]
    /\ UNCHANGED <<cams, groups, conf, snap, clash, calls>>

\* The response, with its report.
Respond(c) ==
    /\ At(c, "reported") /\ Done(c)
    /\ UNCHANGED <<cams, groups, conf, slot, service, snap, clash, calls>>

Next == \E c \in Clients :
    \/ CheckRole(c) \/ WriteCamera(c) \/ Tell(c) \/ RemoveCamera(c)
    \/ WriteGroup(c) \/ RemoveGroup(c) \/ WriteConf(c)
    \/ Export(c) \/ Import(c) \/ ClearPin(c) \/ ImportCamera(c)
    \/ ImportGroups(c) \/ ImportGroup(c) \/ ImportConf(c) \/ Propagate(c) \/ Respond(c)

Spec == Init /\ [][Next]_vars

-----------------------------------------------------------------------------
TypeOK ==
    /\ cams \in [Serials -> Row \cup {None}] /\ slot \in [Serials -> Row \cup {None}]
    /\ groups \in [Groups -> SUBSET Pins]
    /\ {conf, service} \subseteq {0, 1} /\ clash \in BOOLEAN

\* What no column constraint says: two groups never share an output, whatever is written,
\* removed and imported (check_no_pin_overlap()), and while nothing is imported and one
\* client writes, an exclusive role has one camera (the check in the routes).
TableRules ==
    /\ \A g, h \in Groups : g # h => groups[g] \cap groups[h] = {}
    /\ snap = None /\ Cardinality(Clients) = 1 => \A s, t \in Serials :
         s # t /\ cams[s] # None /\ cams[t] # None /\ cams[s].role # NoRole
            => cams[s].role # cams[t].role

\* config_snapshot.cpp:187: cameras of a snapshot that swap their pins, or pass them round,
\* never refuse each other theirs (the pre-clear pass).
PinSwapsImport == ~clash

\* An import that reports no failure has restored every row of the snapshot, and the
\* supervisor and the services know (import_snapshot(), the propagation of the route).
ImportRestores == \A c \in Clients : At(c, "reported") /\ req[c].failed = {} =>
    /\ \A s \in InSnap : cams[s] = snap.cams[s] /\ slot[s] = cams[s]
    /\ \A g \in Groups : snap.groups[g] # {} => groups[g] = snap.groups[g]
    /\ conf = snap.conf /\ service = conf

\* routes_config.cpp:69: "repository writes alone don't take effect": once a request is
\* over, the supervisor knows every row it wrote.
EveryRowTold == (\A c \in Clients : req[c] = Idle) => slot = cams
=============================================================================
