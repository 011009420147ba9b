---------------------------- MODULE LegacyDevice ----------------------------
(***************************************************************************)
(* The legacy start path of src/src/device.c: device_start calls           *)
(* device_set_properties, which runs set_thing_name, set_rabbit_mq_url,    *)
(* set_modbus_slave_properties and set_data_items in turn.  Every helper   *)
(* opens its configuration file itself; an open may fail (at most          *)
(* MaxFailures times).  The data-item array thing.data_item has one slot   *)
(* per group; a write to any other index is recorded in oob.               *)
(***************************************************************************)
EXTENDS Integers, FiniteSets, KnotRules

CONSTANTS
    Groups,        \* the data-item groups of the device file
    SensorIds,     \* the values a SCHEMA_SENSOR_ID key may hold
    Names,         \* strings a name or url key may hold
    BadNames,      \* the names set_thing_name and set_schema refuse
    TypeIds,       \* schema type ids
    Units,         \* schema units
    ValidSchemas,  \* knot_schema_is_valid: the accepted <<type_id, value_type, unit>>
    SlaveIds,      \* the values a THING_MODBUS_SLAVE_ID key may hold
    ValidSlaveIds, \* MODBUS_MIN_SLAVE_ID .. MODBUS_MAX_SLAVE_ID
    RegValues,     \* the values a MODBUS_REG_ADDRESS or MODBUS_BIT_OFFSET key may hold
    InitDevs,      \* the contents the configuration files may have
    MaxFailures,   \* bound on the storage_open calls that fail
    Absent         \* a key missing from the file, a field not yet set

Opt(S) == S \cup {Absent}

GroupRecs ==
    [sid : Opt(SensorIds), name : Opt(Names), vt : Opt(ValueTypes),
     unit : Opt(Units), tid : Opt(TypeIds), reg : Opt(RegValues), bit : Opt(RegValues)]

(* The device file and the rabbit file: the thing's keys and the groups.   *)
DevRecs ==
    [name : Opt(Names), slaveId : Opt(SlaveIds), modbusUrl : Opt(Names),
     rabbitUrl : Opt(Names), groups : [Groups -> GroupRecs]]

ASSUME LegacyAssumption ==
    /\ Absent \notin Int /\ Absent \notin Names /\ Absent \notin SlaveIds \X Names
    /\ Groups # {} /\ IsFiniteSet(Groups)
    /\ SensorIds \subseteq Int /\ SlaveIds \subseteq Int /\ RegValues \subseteq Int
    /\ TypeIds \subseteq Int /\ Units \subseteq Int
    /\ BadNames \subseteq Names /\ "" \in BadNames
    /\ ValidSlaveIds \subseteq SlaveIds
    /\ InitDevs \subseteq DevRecs
    /\ MaxFailures \in Nat

EINVAL  == -22
OpenErr == -2   \* what storage_open returns for a file it cannot open

(* n_of_data_items: get_number_of_data_items, one per group.              *)
NItems == Cardinality(Groups)
Slots  == 0..(NItems - 1)

Items == [sid : Opt(Int), schema : Opt([name : Names, vt : ValueTypes,
                                        unit : Units, tid : TypeIds]),
          config : Opt({TRUE}), source : Opt(RegValues \X RegValues)]
EmptyItem == [sid |-> Absent, schema |-> Absent, config |-> Absent, source |-> Absent]

VARIABLES
    dev,       \* the configuration files (never written on this path)
    pc,        \* the helper device_start is in, "done" when it has returned
    thing,     \* the global thing: [name, url, slave]
    items,     \* thing.data_item: slot -> item
    oob,       \* indices written outside thing.data_item
    toVisit,   \* the groups the set_data_items loop has not yet visited
    cur,       \* the group of the current iteration
    sid,       \* the sensor id of the current iteration
    fds,       \* descriptors opened and never closed
    failures,  \* storage_open calls that have failed
    rc         \* what device_start returned

vars == <<dev, pc, thing, items, oob, toVisit, cur, sid, fds, failures, rc>>

-----------------------------------------------------------------------------
(* Storage.                                                                *)

(* storage_open fails, within the bound.                                   *)
OpenFails == failures < MaxFailures /\ failures' = failures + 1

(* Mutant: the `if (!rc)` test after the read dropped.                    *)
IntReadNoCheck(v) == [ok |-> TRUE, val |-> v]

(* storage_read_key_int on a key holding v, as `if (!rc) return -EINVAL`   *)
(* sees it: storage reports whether the key was found (spec 6).            *)
IntRead(v) == [ok |-> v # Absent, val |-> v]

(* storage_read_key_string followed by `== NULL || !strcmp(..., "")`.      *)
StrOk(s) == s # Absent /\ s # ""

(* A write to thing.data_item[i].f.                                        *)
WriteSlot(i, f, v) ==
    IF i \in Slots THEN items' = [items EXCEPT ![i][f] = v] /\ oob' = oob
    ELSE items' = items /\ oob' = oob \cup {i}

-----------------------------------------------------------------------------
(* device_set_properties.                                                  *)

(* Mutant: one of the checks of device_set_properties dropped.             *)
StopsNever(r) == FALSE

(* `if (rc == -EINVAL) return rc;`: only -EINVAL stops the start.          *)
Stops(r) == r = EINVAL

(* After a helper returned r: stop, with device_start returning -EINVAL,   *)
(* or go on to the next helper; after the last one device_start returns 0. *)
Proceed(r, next) ==
    IF Stops(r) THEN pc' = "done" /\ rc' = EINVAL
    ELSE pc' = next /\ rc' = IF next = "done" THEN 0 ELSE rc

(* A helper opened its file and returned -EINVAL without storage_close.   *)
Leak == fds' = fds + 1

SetThingName ==
    /\ pc = "name"
    /\ \/ OpenFails /\ Proceed(OpenErr, "rabbit") /\ UNCHANGED <<thing, fds>>
       \/ /\ failures' = failures
          /\ IF StrOk(dev.name) /\ dev.name \notin BadNames
             THEN thing' = [thing EXCEPT !.name = dev.name] /\ Proceed(0, "rabbit")
                  /\ UNCHANGED fds
             ELSE Leak /\ Proceed(EINVAL, "rabbit") /\ UNCHANGED thing
    /\ UNCHANGED <<dev, items, oob, toVisit, cur, sid>>

SetRabbitMqUrl ==
    /\ pc = "rabbit"
    /\ \/ OpenFails /\ Proceed(OpenErr, "slave") /\ UNCHANGED <<thing, fds>>
       \/ /\ failures' = failures
          /\ IF StrOk(dev.rabbitUrl)
             THEN thing' = [thing EXCEPT !.url = dev.rabbitUrl] /\ Proceed(0, "slave")
                  /\ UNCHANGED fds
             ELSE Leak /\ Proceed(EINVAL, "slave") /\ UNCHANGED thing
    /\ UNCHANGED <<dev, items, oob, toVisit, cur, sid>>

SetModbusSlaveProperties ==
    /\ pc = "slave"
    /\ \/ OpenFails /\ Proceed(OpenErr, "items") /\ UNCHANGED <<thing, fds>>
       \/ /\ failures' = failures
          /\ LET r == IntRead(dev.slaveId) IN
                IF r.ok /\ r.val \in ValidSlaveIds /\ StrOk(dev.modbusUrl)
                THEN thing' = [thing EXCEPT !.slave = <<r.val, dev.modbusUrl>>]
                     /\ Proceed(0, "items") /\ UNCHANGED fds
                ELSE Leak /\ Proceed(EINVAL, "items") /\ UNCHANGED thing
    /\ UNCHANGED <<dev, items, oob, toVisit, cur, sid>>

-----------------------------------------------------------------------------
(* set_data_items.                                                         *)

(* The loop's exit through `goto error`: set_data_items returns -EINVAL.   *)
ItemsError == Proceed(EINVAL, "done")

(* storage_open's result is not checked.  On success the file is closed    *)
(* once the count and the group list are read.  On failure the count and  *)
(* the list come from storage on a negative descriptor: malloc of the     *)
(* count fails (-EINVAL), or the NULL list is dereferenced ("crashed").   *)
SetDataItemsOpen ==
    /\ pc = "items"
    /\ \/ /\ failures' = failures
          /\ toVisit' = Groups
          /\ pc' = "next"
          /\ UNCHANGED rc
       \/ /\ OpenFails
          /\ UNCHANGED toVisit
          /\ \/ ItemsError
             \/ pc' = "crashed" /\ UNCHANGED rc
    /\ UNCHANGED <<dev, thing, items, oob, cur, sid, fds>>

(* The loop moves past group g.                                            *)
Visit(S, g) == S \ {g}

(* The next iteration of the loop, over the groups in the order            *)
(* get_data_item_groups lists them; at the NULL entry the loop ends and    *)
(* set_data_items returns 0.                                               *)
NextGroup ==
    /\ pc = "next"
    /\ \/ /\ toVisit = {}
          /\ Proceed(0, "done")
          /\ UNCHANGED <<toVisit, cur>>
       \/ \E g \in toVisit :
             /\ cur' = g
             /\ toVisit' = Visit(toVisit, g)
             /\ pc' = "sensor"
             /\ UNCHANGED rc
    /\ UNCHANGED <<dev, thing, items, oob, sid, fds, failures>>

(* Mutant: valid_sensor_id compares with > instead of >=.                  *)
ValidSensorIdOffByOne(s, n) == s <= n

(* valid_sensor_id: only ids at or past the count are refused.             *)
ValidSensorId(s, n) == s < n

(* get_sensor_id after a successful open: the value read, or -EINVAL     *)
(* after `if (!rc)`, which returns with the file left open.                *)
SensorIdResult(g) ==
    LET r == IntRead(dev.groups[g].sid) IN
    IF r.ok THEN [id |-> r.val, leak |-> FALSE] ELSE [id |-> EINVAL, leak |-> TRUE]

(* The loop body after get_sensor_id returned s: valid_sensor_id, then     *)
(* thing.data_item[sensor_id].sensor_id = sensor_id.                       *)
CheckSensorId(s) ==
    IF ValidSensorId(s, NItems)
    THEN WriteSlot(s, "sid", s) /\ sid' = s /\ pc' = "schema" /\ UNCHANGED rc
    ELSE ItemsError /\ UNCHANGED <<items, oob, sid>>

(* get_sensor_id returns storage_open's errno as the sensor id.            *)
GetSensorId ==
    /\ pc = "sensor"
    /\ \/ OpenFails /\ UNCHANGED fds /\ CheckSensorId(OpenErr)
       \/ /\ failures' = failures
          /\ LET res == SensorIdResult(cur) IN
                /\ fds' = IF res.leak THEN fds + 1 ELSE fds
                /\ CheckSensorId(res.id)
    /\ UNCHANGED <<dev, thing, toVisit, cur>>

(* set_schema: the name, then value type, unit and type id, each read      *)
(* checked with `if (!rc)`, then knot_schema_is_valid; every refusal       *)
(* returns -EINVAL with the file left open.                                *)
SetSchema ==
    /\ pc = "schema"
    /\ LET g == dev.groups[cur] IN
       \/ OpenFails /\ ItemsError /\ UNCHANGED <<items, oob, fds>>
       \/ /\ failures' = failures
          /\ LET vt == IntRead(g.vt)
                 u == IntRead(g.unit)
                 t == IntRead(g.tid) IN
                IF /\ StrOk(g.name) /\ g.name \notin BadNames
                   /\ vt.ok /\ u.ok /\ t.ok
                   /\ <<t.val, vt.val, u.val>> \in ValidSchemas
                THEN /\ WriteSlot(sid, "schema",
                                  [name |-> g.name, vt |-> vt.val, unit |-> u.val, tid |-> t.val])
                     /\ pc' = "config" /\ UNCHANGED <<rc, fds>>
                ELSE Leak /\ ItemsError /\ UNCHANGED <<items, oob>>
    /\ UNCHANGED <<dev, thing, toVisit, cur, sid>>

(* set_config: the event keys are read with `rc > 0` tests and cannot      *)
(* fail; only the open can.  The config itself is abstracted to "set".     *)
SetConfig ==
    /\ pc = "config"
    /\ \/ OpenFails /\ ItemsError /\ UNCHANGED <<items, oob>>
       \/ failures' = failures /\ WriteSlot(sid, "config", TRUE)
          /\ pc' = "source" /\ UNCHANGED rc
    /\ UNCHANGED <<dev, thing, toVisit, cur, sid, fds>>

(* set_modbus_source_properties: register address and bit offset, each     *)
(* checked with `if (!rc)`, which returns with the file left open.         *)
SetModbusSourceProperties ==
    /\ pc = "source"
    /\ LET g == dev.groups[cur] IN
       \/ OpenFails /\ ItemsError /\ UNCHANGED <<items, oob, fds>>
       \/ /\ failures' = failures
          /\ LET a == IntRead(g.reg)
                 b == IntRead(g.bit) IN
                IF a.ok /\ b.ok
                THEN WriteSlot(sid, "source", <<a.val, b.val>>)
                     /\ pc' = "next" /\ UNCHANGED <<rc, fds>>
                ELSE Leak /\ ItemsError /\ UNCHANGED <<items, oob>>
    /\ UNCHANGED <<dev, thing, toVisit, cur, sid>>

-----------------------------------------------------------------------------
(* device_start, on a process whose globals are zero.                      *)
Init ==
    /\ dev \in InitDevs
    /\ pc = "name"
    /\ thing = [name |-> Absent, url |-> Absent, slave |-> Absent]
    /\ items = [i \in Slots |-> EmptyItem]
    /\ oob = {}
    /\ toVisit = {}
    /\ cur = Absent
    /\ sid = Absent
    /\ fds = 0
    /\ failures = 0
    /\ rc = Absent

Next ==
    \/ SetThingName
    \/ SetRabbitMqUrl
    \/ SetModbusSlaveProperties
    \/ SetDataItemsOpen
    \/ NextGroup
    \/ GetSensorId
    \/ SetSchema
    \/ SetConfig
    \/ SetModbusSourceProperties

Spec == Init /\ [][Next]_vars

-----------------------------------------------------------------------------
(* Type invariant.                                                         *)
TypeOK ==
    /\ dev \in DevRecs
    /\ pc \in {"name", "rabbit", "slave", "items", "next", "sensor",
               "schema", "config", "source", "done", "crashed"}
    /\ thing \in [name : Opt(Names), url : Opt(Names),
                  slave : Opt(SlaveIds \X Names)]
    /\ items \in [Slots -> Items]
    /\ oob \subseteq Int
    /\ toVisit \subseteq Groups
    /\ cur \in Opt(Groups)
    /\ sid \in Opt(Int)
    /\ fds \in Nat
    /\ failures \in 0..MaxFailures
    /\ rc \in {Absent, 0, EINVAL}

(* The item set_data_items builds from group g.                            *)
LoadedItem(g) ==
    [sid |-> g.sid, schema |-> [name |-> g.name, vt |-> g.vt, unit |-> g.unit, tid |-> g.tid],
     config |-> TRUE, source |-> <<g.reg, g.bit>>]

(* Spec 3 and 4.3: device_start returns 0 only when the thing holds its    *)
(* name, cloud url and slave, and every group's item sits, complete, in    *)
(* the slot of its sensor id.                                              *)
StartOkMeansLoaded ==
    pc = "done" /\ rc = 0 =>
        /\ thing.name # Absent /\ thing.url # Absent /\ thing.slave # Absent
        /\ \A g \in Groups :
              dev.groups[g].sid \in Slots
              /\ items[dev.groups[g].sid] = LoadedItem(dev.groups[g])

(* Spec 3: sensor ids are small non-negative integers below the count: no  *)
(* write of the loader lands outside thing.data_item.                      *)
WritesInBounds == oob = {}

(* valid_sensor_id's bound holds for every id the loop gets, even when a  *)
(* storage_open fails under it: a write outside thing.data_item only ever *)
(* lands below slot 0 (an errno returned as a sensor id), never past the  *)
(* last slot.                                                              *)
OobBelowZero == \A i \in oob : i < 0
=============================================================================
