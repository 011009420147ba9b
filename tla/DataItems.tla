----------------------------- MODULE DataItems -----------------------------
(***************************************************************************)
(* The data-item part of properties.c: the Loader loop set_data_items,     *)
(* which builds the in-memory registry from the data-item groups of the    *)
(* device configuration file, and the Updater properties_update_data_item, *)
(* which applies a decoded configuration command to the registry and to    *)
(* the file.  The file is a function from group to a record of keys, each  *)
(* key holding a value or Absent.  A storage write may fail (at most       *)
(* MaxFailures times in a behaviour); the process may be restarted, which  *)
(* loses the registry and loads the file again.                            *)
(***************************************************************************)
EXTENDS Integers, FiniteSets, KnotRules

CONSTANTS
    Groups,        \* the data-item groups of the device file
    SensorIds,     \* the sensor ids a group or a command may carry
    Names,         \* the schema names a group or a command may carry
    BadNames,      \* the names set_schema refuses (empty or too long)
    TypeIds,       \* schema type ids
    Units,         \* schema units
    ValidSchemas,  \* knot_schema_is_valid: the accepted <<type_id, value_type, unit>>
    InitGroups,    \* the group contents the device file may hold at start
    Commands,      \* the decoded configuration commands the cloud may send
    MaxFailures,   \* bound on the storage operations that fail in a behaviour
    Absent         \* a key missing from its group, a sensor id not registered

Schemas == [name : Names, vt : ValueTypes, unit : Units, tid : TypeIds]
Events  == [flags : SUBSET EventFlags, lower : Int, upper : Int, time : Int]
Items   == [schema : Schemas, event : Events]
Opt(S)  == S \cup {Absent}

(* The keys of a data-item group that this model keeps: SCHEMA_SENSOR_ID, *)
(* the four schema keys, the four event keys, and the addressing keys     *)
(* abstracted to addr ("ok", "bad": negative or too long) and bits        *)
(* (DATA_VALUE_TYPE_SIZE).                                                 *)
GroupRecs ==
    [sid : Opt(SensorIds), name : Opt(Names), vt : Opt(ValueTypes),
     unit : Opt(Units), tid : Opt(TypeIds), time : Opt(Int),
     change : Opt({1}), lower : Opt(Int), upper : Opt(Int),
     addr : Opt({"ok", "bad"}), bits : Opt(Int)]

CmdRecs ==
    [sid : SensorIds, schema : Schemas,
     event : [flags : SUBSET CmdFlags, lower : Int, upper : Int, time : Int]]

ASSUME ConstantsAssumption ==
    /\ Absent \notin Int /\ Absent \notin Names /\ Absent \notin Items
    /\ Absent \notin Schemas
    /\ SensorIds \subseteq Int /\ TypeIds \subseteq Int /\ Units \subseteq Int
    /\ BadNames \subseteq Names
    /\ ValidSchemas \subseteq TypeIds \X ValueTypes \X Units
    /\ InitGroups \subseteq GroupRecs
    /\ Commands \subseteq CmdRecs
    /\ MaxFailures \in Nat

VARIABLES
    store,     \* the device file: group -> record of keys
    reg,       \* the in-memory registry: sensor id -> item or Absent
    phase,     \* "load" (set_data_items running), "run", "failed"
    toLoad,    \* the groups set_data_items has not yet visited
    failures,  \* storage operations that have failed so far
    unsynced,  \* sensors for which an Updater call returned an error since load
    lastRc     \* what the last Updater call returned (0 before any call)

vars == <<store, reg, phase, toLoad, failures, unsynced, lastRc>>

-----------------------------------------------------------------------------
(* The Loader: one iteration of the loop of set_data_items per group, in   *)
(* the unspecified order get_data_item_groups returns them.                *)

(* The event keys and the flag each one sets when read.                   *)
EventKeys == <<"time", "change", "lower", "upper">>
KeyFlag == [time |-> "TIME", change |-> "CHANGE",
            lower |-> "LOWER", upper |-> "UPPER"]
Thresholds == {"lower", "upper"}

(* set_event reads a key when it is present; get_lower_limit and           *)
(* get_upper_limit return -EINVAL, so no flag, for a RAW value type.       *)
KeyRead(r, k) == r[k] # Absent /\ (k \in Thresholds => r.vt \in LimitTypes)

(* Mutant: set_event without the memset, so a threshold or period whose   *)
(* key was not read is left as whatever the group record holds.           *)
LoadedEventNoDefault(r) ==
    [flags |-> {KeyFlag[k] : k \in {k \in DOMAIN KeyFlag : KeyRead(r, k)}},
     lower |-> r.lower, upper |-> r.upper, time |-> r.time]

(* set_event: the event built from memset 0 and the keys that were read.   *)
LoadedEvent(r) ==
    [flags |-> {KeyFlag[k] : k \in {k \in DOMAIN KeyFlag : KeyRead(r, k)}},
     lower |-> IF KeyRead(r, "lower") THEN r.lower ELSE 0,
     upper |-> IF KeyRead(r, "upper") THEN r.upper ELSE 0,
     time  |-> IF KeyRead(r, "time")  THEN r.time  ELSE 0]

StoredSchema(r) == [name |-> r.name, vt |-> r.vt, unit |-> r.unit, tid |-> r.tid]

(* Mutant: set_sensor_id without the device_data_item_lookup check.       *)
SensorIdOkNoLookup(r) == r.sid # Absent

(* set_sensor_id: the key is present and device_data_item_lookup finds no *)
(* item registered under that id.                                          *)
SensorIdOk(r) == r.sid # Absent /\ reg[r.sid] = Absent

(* set_schema: a non-empty name under the length bound, the three integer  *)
(* keys present, and knot_schema_is_valid.                                 *)
SchemaOk(r) ==
    /\ r.name \notin BadNames \cup {Absent}
    /\ r.vt # Absent /\ r.unit # Absent /\ r.tid # Absent
    /\ <<r.tid, r.vt, r.unit>> \in ValidSchemas

(* set_event: knot_event_is_valid on the event read.                       *)
EventOk(r) == EventIsValid(LoadedEvent(r), r.vt)

(* set_data_properties ignores the result of storage_read_key_int: a       *)
(* missing integer key leaves its variable uninitialized, so the check     *)
(* that follows may go either way.                                         *)
AddrOutcomes(r) == IF r.addr = Absent THEN BOOLEAN ELSE {r.addr = "ok"}
BitsOutcomes(r) == IF r.bits = Absent THEN BOOLEAN
                   ELSE {ValidBitSize(r.bits, r.vt)}
DataOutcomes(r) == {a /\ b : a \in AddrOutcomes(r), b \in BitsOutcomes(r)}

GroupChecksOk(r) == SensorIdOk(r) /\ SchemaOk(r) /\ EventOk(r)

(* device_set_new_data_item: the item the loop registers.                  *)
NewItem(r) == [schema |-> StoredSchema(r), event |-> LoadedEvent(r)]

LoadGroupOk(g) ==
    /\ phase = "load"
    /\ g \in toLoad
    /\ GroupChecksOk(store[g])
    /\ TRUE \in DataOutcomes(store[g])
    /\ reg' = [reg EXCEPT ![store[g].sid] = NewItem(store[g])]
    /\ toLoad' = toLoad \ {g}
    /\ UNCHANGED <<store, phase, failures, unsynced, lastRc>>

(* Any failed check jumps to error: the load fails; the items registered   *)
(* before it stay in the registry.                                         *)
LoadGroupFails(g) ==
    /\ phase = "load"
    /\ g \in toLoad
    /\ \/ ~GroupChecksOk(store[g])
       \/ FALSE \in DataOutcomes(store[g])
    /\ phase' = "failed"
    /\ UNCHANGED <<store, reg, toLoad, failures, unsynced, lastRc>>

LoadDone ==
    /\ phase = "load"
    /\ toLoad = {}
    /\ phase' = "run"
    /\ UNCHANGED <<store, reg, toLoad, failures, unsynced, lastRc>>

(* The process exits or is killed and is started again: the registry is    *)
(* lost, the file is kept and set_data_items runs from the first group.    *)
Restart ==
    /\ phase \in {"run", "failed"}
    /\ phase' = "load"
    /\ toLoad' = Groups
    /\ reg' = [s \in SensorIds |-> Absent]
    /\ unsynced' = {}
    /\ lastRc' = 0
    /\ UNCHANGED <<store, failures>>

-----------------------------------------------------------------------------
(* The Updater, properties_update_data_item.                               *)

SchemaKeys == <<"tid", "unit", "vt", "name">>

(* Mutant: the loop over the schema keys stops one write early.          *)
WriteSchemaDropsLast(r, sch, n) ==
    [k \in DOMAIN r |-> IF \E i \in 1..(n - 1) : SchemaKeys[i] = k THEN sch[k] ELSE r[k]]

(* update_schema_data_item: the writes run in SchemaKeys order and the     *)
(* first failing one returns; n is the number of writes that succeeded.    *)
WriteSchema(r, sch, n) ==
    [k \in DOMAIN r |-> IF \E i \in 1..n : SchemaKeys[i] = k THEN sch[k] ELSE r[k]]

(* update_event_data_item: a write of key k fails when the fault is        *)
(* injected there (inj = k) or when set_limit refuses the value type.      *)
EventWriteErr(k, vt, ev, inj) ==
    /\ KeyFlag[k] \in ev.flags
    /\ inj = k \/ (k \in Thresholds /\ vt \notin LimitTypes)

(* The index of the key whose write returns early, 5 when none does.       *)
EventStop(vt, ev, inj) ==
    IF \E i \in 1..4 : EventWriteErr(EventKeys[i], vt, ev, inj)
    THEN CHOOSE i \in 1..4 :
            /\ EventWriteErr(EventKeys[i], vt, ev, inj)
            /\ \A j \in 1..(i - 1) : ~EventWriteErr(EventKeys[j], vt, ev, inj)
    ELSE 5

(* Mutant: the upper-threshold write passes event->lower_limit.            *)
EventValueSwapped(k, ev) ==
    IF k = "change" THEN 1 ELSE IF k = "upper" THEN ev.lower ELSE ev[k]

(* The value written for a set flag: EVENT_CHANGE_TRUE for CHANGE.         *)
EventValue(k, ev) == IF k = "change" THEN 1 ELSE ev[k]

(* storage_has_unit: the key is present in the group.                      *)
HasUnit(r, k) == r[k] # Absent

(* A flag the command leaves unset: `else if (!storage_has_unit(...))      *)
(* storage_remove_key(...)` removes the key only when it is absent.        *)
UnsetKey(r, k) == IF ~HasUnit(r, k) THEN Absent ELSE r[k]

WriteEvent(r, vt, ev, inj) ==
    LET n == EventStop(vt, ev, inj) - 1 IN
    [k \in DOMAIN r |->
        IF \E i \in 1..n : EventKeys[i] = k
        THEN IF KeyFlag[k] \in ev.flags THEN EventValue(k, ev) ELSE UnsetKey(r, k)
        ELSE r[k]]

(* device_update_config_data_item: the registered item takes the schema,   *)
(* and the event unless the command carries KNOT_EVT_FLAG_UNREGISTERED.    *)
UpdateRegistry(c) ==
    IF reg[c.sid] = Absent THEN reg
    ELSE [reg EXCEPT ![c.sid] =
            [schema |-> c.schema,
             event |-> IF "UNREG" \in c.event.flags THEN reg[c.sid].event
                       ELSE c.event]]

(* Mutant: a failed update_schema_data_item does not set has_err.         *)
UpdateHasErrEventOnly(schemaFail, eventErr) == eventErr

(* has_err: a schema write failed, or the event was written and failed.    *)
UpdateHasErr(schemaFail, eventErr) == schemaFail # 0 \/ eventErr

(* storage_open fails: the command is dropped before anything changes and *)
(* the call returns storage_open's negative errno.                         *)
OpenErr == -5
UpdateOpenFails ==
    /\ phase = "run"
    /\ failures < MaxFailures
    /\ failures' = failures + 1
    /\ lastRc' = OpenErr
    /\ UNCHANGED <<store, reg, phase, toLoad, unsynced>>

(* No group stores the command's sensor id: only the registry is updated,  *)
(* and the call returns 0.                                                 *)
UpdateNotFound(c) ==
    /\ phase = "run"
    /\ \A g \in Groups : store[g].sid # c.sid
    /\ reg' = UpdateRegistry(c)
    /\ lastRc' = 0
    /\ UNCHANGED <<store, phase, toLoad, failures, unsynced>>

(* Group g stores the command's sensor id (equal_sensor_id).  schemaFail   *)
(* is the schema write that fails (0: none), inj the event key whose write *)
(* fails (Absent: none).                                                   *)
UpdateFound(c, g) ==
    /\ phase = "run"
    /\ store[g].sid = c.sid
    /\ LET unreg == "UNREG" \in c.event.flags
           vt == c.schema.vt
       IN \E schemaFail \in 0..4,
             inj \in IF unreg THEN {Absent}
                     ELSE {Absent} \cup {k \in DOMAIN KeyFlag : KeyFlag[k] \in c.event.flags} :
            LET r1 == WriteSchema(store[g], c.schema,
                                  IF schemaFail = 0 THEN 4 ELSE schemaFail - 1)
                stop == EventStop(vt, c.event, inj)
                injHit == inj # Absent /\ stop < 5 /\ EventKeys[stop] = inj
                r2 == IF unreg THEN r1 ELSE WriteEvent(r1, vt, c.event, inj)
                nFail == (IF schemaFail # 0 THEN 1 ELSE 0) + (IF injHit THEN 1 ELSE 0)
            IN /\ inj = Absent \/ injHit
               /\ failures + nFail <= MaxFailures
               /\ store' = [store EXCEPT ![g] = r2]
               /\ failures' = failures + nFail
               /\ reg' = UpdateRegistry(c)
               /\ unsynced' = IF UpdateHasErr(schemaFail, ~unreg /\ stop < 5)
                              THEN unsynced \cup {c.sid} ELSE unsynced
               /\ lastRc' = IF UpdateHasErr(schemaFail, ~unreg /\ stop < 5)
                            THEN -1 ELSE 0
               /\ UNCHANGED <<phase, toLoad>>

-----------------------------------------------------------------------------
Init ==
    /\ store \in [Groups -> InitGroups]
    /\ reg = [s \in SensorIds |-> Absent]
    /\ phase = "load"
    /\ toLoad = Groups
    /\ failures = 0
    /\ unsynced = {}
    /\ lastRc = 0

Next ==
    \/ \E g \in Groups : LoadGroupOk(g) \/ LoadGroupFails(g)
    \/ LoadDone
    \/ Restart
    \/ UpdateOpenFails
    \/ \E c \in Commands :
          \/ UpdateNotFound(c)
          \/ \E g \in Groups : UpdateFound(c, g)

Spec == Init /\ [][Next]_vars

-----------------------------------------------------------------------------
(* Type invariant.                                                         *)
TypeOK ==
    /\ store \in [Groups -> GroupRecs]
    /\ reg \in [SensorIds -> Items \cup {Absent}]
    /\ phase \in {"load", "run", "failed"}
    /\ toLoad \subseteq Groups
    /\ failures \in 0..MaxFailures
    /\ unsynced \subseteq SensorIds
    /\ lastRc \in {0, -1, OpenErr}

(* The ids in the file: the group each sensor id of the registry came      *)
(* from.                                                                   *)
StoredIds == {store[g].sid : g \in Groups}
RegisteredIds == {s \in SensorIds : reg[s] # Absent}

(* Once set_data_items has returned 0, the registry holds exactly one item *)
(* per group of the file and no two groups share a sensor id: a duplicate  *)
(* id in the file, in whatever order the groups are visited, fails the     *)
(* whole load (set_sensor_id's device_data_item_lookup).                   *)
RegistryMatchesStore ==
    phase = "run" =>
        /\ \A g1, g2 \in Groups : g1 # g2 => store[g1].sid # store[g2].sid
        /\ RegisteredIds = StoredIds

(* The Updater writes the registry first and the file afterwards, one key  *)
(* at a time: whenever the schema in memory and the schema in the file     *)
(* differ, an Updater call on that sensor has returned an error since the  *)
(* load (has_err is set by every failed schema write).                     *)
SchemaSynced ==
    phase = "run" =>
        \A g \in Groups :
            store[g].sid \notin unsynced =>
                StoredSchema(store[g]) = reg[store[g].sid].schema

(* Every event flag the registry holds for a sensor whose updates all      *)
(* succeeded is backed by its key in the file, with the value in memory:   *)
(* update_event_data_item writes each set flag or reports failure.         *)
EventKeysWritten ==
    phase = "run" =>
        \A g \in Groups :
            LET s == store[g].sid IN
            s \notin unsynced =>
                \A k \in DOMAIN KeyFlag :
                    KeyFlag[k] \in reg[s].event.flags =>
                        store[g][k] = IF k = "change" THEN 1 ELSE reg[s].event[k]

(* Every group of the file passes set_data_items (for some outcome of the  *)
(* unchecked reads) and no two share a sensor id: a restart would load.    *)
GroupMayLoad(r) ==
    /\ r.sid # Absent
    /\ SchemaOk(r)
    /\ EventOk(r)
    /\ TRUE \in DataOutcomes(r)
StoreMayLoad ==
    /\ \A g \in Groups : GroupMayLoad(store[g])
    /\ \A g1, g2 \in Groups : g1 # g2 => store[g1].sid # store[g2].sid

(* Spec 1 and 4.4: applying updates leaves memory and the file consistent. *)
(* After a load and any number of Updater calls that all returned 0, the   *)
(* file still loads on the next start.                                     *)
RestartLoadsAfterCleanUpdates ==
    phase = "run" /\ unsynced = {} => StoreMayLoad

(* Spec 1: updates never leave the file in a state the Loader rejects,     *)
(* whatever storage writes fail.                                           *)
StoreStaysLoadable == phase = "run" => StoreMayLoad

-----------------------------------------------------------------------------
(* The refinement mapping onto SchemaRegistry: a group of the file is its  *)
(* sensor id and its four schema keys, an item of the registry its schema. *)
FileSchemaRecs ==
    [name : Opt(Names), vt : Opt(ValueTypes), unit : Opt(Units), tid : Opt(TypeIds)]
fileBar == [g \in Groups |-> [sid |-> store[g].sid, schema |-> StoredSchema(store[g])]]
memBar == [s \in SensorIds |-> IF reg[s] = Absent THEN Absent ELSE reg[s].schema]

SR == INSTANCE SchemaRegistry
        WITH file <- fileBar, mem <- memBar, FileSchemas <- FileSchemaRecs,
             Requests <- {[sid |-> c.sid, schema |-> c.schema] : c \in Commands}

(* The Loader registers the schema a group stores, under an id not yet     *)
(* registered; the Updater changes only the registered schema of the       *)
(* command's sensor, never a group's sensor id, replaces the schema of the *)
(* one matching group when properties_update_data_item returns 0, and      *)
(* otherwise leaves each schema key old or new with has_err set.           *)
SchemaRegistrySpec == SR!Spec

=============================================================================
