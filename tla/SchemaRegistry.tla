--------------------------- MODULE SchemaRegistry ---------------------------
(***************************************************************************)
(* What the Loader and the Updater of properties.c promise about the       *)
(* schemas of the data items, with the keys, the events and the storage    *)
(* faults left out.  The device file is a function from group to its       *)
(* sensor id and schema; memory maps each sensor id to the schema          *)
(* registered under it, or Absent.  Loading registers the schema of a      *)
(* group under an id not yet registered.  An update request changes the    *)
(* schema of a registered id in memory and, in the one group that stores   *)
(* the id, either replaces the schema (the call succeeded) or leaves each  *)
(* schema key with its old or its new value and records the id as out of  *)
(* step (the call returned an error).  No update ever changes the sensor   *)
(* id of a group.                                                          *)
(***************************************************************************)
CONSTANTS
    Groups,       \* the data-item groups of the device file
    SensorIds,    \* the sensor ids
    FileSchemas,  \* the schemas a group of the file may hold
    Requests,     \* the update requests: [sid, schema]
    Absent        \* no sensor id, no registered schema

VARIABLES
    file,      \* group -> [sid, schema]
    mem,       \* sensor id -> schema or Absent
    phase,     \* "load", "run", "failed"
    toLoad,    \* the groups not yet loaded
    unsynced   \* the ids an update has left out of step since the load

vars == <<file, mem, phase, toLoad, unsynced>>

FileRecs == [sid : SensorIds \cup {Absent}, schema : FileSchemas]

(* The schemas a partly applied update may leave: each key has its old or  *)
(* its new value.                                                          *)
Mixed(old, new) ==
    {[k \in DOMAIN old |-> IF k \in K THEN new[k] ELSE old[k]] : K \in SUBSET DOMAIN old}

(* An update changes the schema of a registered id only.                   *)
SetSchema(s, sch) == IF mem[s] = Absent THEN mem ELSE [mem EXCEPT ![s] = sch]

Init ==
    /\ file \in [Groups -> FileRecs]
    /\ mem = [s \in SensorIds |-> Absent]
    /\ phase = "load"
    /\ toLoad = Groups
    /\ unsynced = {}

Load(g) ==
    /\ phase = "load"
    /\ g \in toLoad
    /\ file[g].sid \in SensorIds
    /\ mem[file[g].sid] = Absent
    /\ mem' = [mem EXCEPT ![file[g].sid] = file[g].schema]
    /\ toLoad' = toLoad \ {g}
    /\ UNCHANGED <<file, phase, unsynced>>

LoadFails ==
    /\ phase = "load"
    /\ toLoad # {}
    /\ phase' = "failed"
    /\ UNCHANGED <<file, mem, toLoad, unsynced>>

LoadDone ==
    /\ phase = "load"
    /\ toLoad = {}
    /\ phase' = "run"
    /\ UNCHANGED <<file, mem, toLoad, unsynced>>

Restart ==
    /\ phase \in {"run", "failed"}
    /\ phase' = "load"
    /\ toLoad' = Groups
    /\ mem' = [s \in SensorIds |-> Absent]
    /\ unsynced' = {}
    /\ UNCHANGED file

(* A request for an id no group stores changes memory only.                *)
UpdateMemOnly(q) ==
    /\ phase = "run"
    /\ \A g \in Groups : file[g].sid # q.sid
    /\ mem' = SetSchema(q.sid, q.schema)
    /\ UNCHANGED <<file, phase, toLoad, unsynced>>

UpdateSynced(q, g) ==
    /\ phase = "run"
    /\ file[g].sid = q.sid
    /\ mem' = SetSchema(q.sid, q.schema)
    /\ file' = [file EXCEPT ![g].schema = q.schema]
    /\ UNCHANGED <<phase, toLoad, unsynced>>

UpdateFailed(q, g) ==
    /\ phase = "run"
    /\ file[g].sid = q.sid
    /\ mem' = SetSchema(q.sid, q.schema)
    /\ \E m \in Mixed(file[g].schema, q.schema) : file' = [file EXCEPT ![g].schema = m]
    /\ unsynced' = unsynced \cup {q.sid}
    /\ UNCHANGED <<phase, toLoad>>

Next ==
    \/ \E g \in Groups : Load(g)
    \/ LoadFails
    \/ LoadDone
    \/ Restart
    \/ \E q \in Requests :
          \/ UpdateMemOnly(q)
          \/ \E g \in Groups : UpdateSynced(q, g) \/ UpdateFailed(q, g)

Spec == Init /\ [][Next]_vars
=============================================================================
