------------------------ MODULE LegacyDeviceProofs ------------------------
(***************************************************************************)
(* Proofs about the legacy start path of src/src/device.c, for every value *)
(* of the constants: the type invariant, and that valid_sensor_id's upper  *)
(* bound keeps every write of set_data_items below the item count, so the  *)
(* only writes outside thing.data_item are at negative indices.            *)
(***************************************************************************)
EXTENDS LegacyDevice, FiniteSetTheorems, TLAPS

(* The steps of one data item read the current group and, after           *)
(* valid_sensor_id, write the slot of the sensor id: the model needs to    *)
(* know that cur is a group from get_sensor_id on, and that sid passed the *)
(* upper bound from set_schema on.                                         *)
LoopInv ==
    /\ pc \in {"sensor", "schema", "config", "source"} => cur \in Groups
    /\ pc \in {"schema", "config", "source"} => sid \in Int /\ sid < NItems

IInv == TypeOK /\ LoopInv /\ OobBelowZero

LEMMA NItemsType == NItems \in Nat
BY LegacyAssumption, FS_CardinalityType DEF NItems

(* A write to thing.data_item[i].f with a value that fits field f keeps    *)
(* the array well typed, and records an out-of-range index in oob.         *)
LEMMA WriteSlotType ==
    ASSUME NEW i \in Int, NEW f, NEW v,
           items \in [Slots -> Items], oob \subseteq Int,
           \A j \in Slots : [items[j] EXCEPT ![f] = v] \in Items,
           WriteSlot(i, f, v)
    PROVE  items' \in [Slots -> Items] /\ oob' \subseteq Int
BY DEF WriteSlot

(* An index that passed valid_sensor_id and is not a slot is negative.     *)
LEMMA WriteSlotBelowZero ==
    ASSUME NEW i \in Int, NEW f, NEW v, i < NItems, OobBelowZero,
           WriteSlot(i, f, v)
    PROVE  OobBelowZero'
<1>1. i \notin Slots => i < 0
  BY NItemsType DEF Slots
<1>2. QED
  BY <1>1 DEF WriteSlot, OobBelowZero

(* The integer-valued keys of the files, from LegacyAssumption.           *)
LEMMA IntKeys ==
    /\ SensorIds \subseteq Int /\ SlaveIds \subseteq Int /\ RegValues \subseteq Int
    /\ TypeIds \subseteq Int /\ Units \subseteq Int /\ ValidSlaveIds \subseteq SlaveIds
    /\ Absent \notin Int /\ Absent \notin Names
BY LegacyAssumption

(* The counters of a state satisfying IInv.                               *)
LEMMA Counters ==
    ASSUME IInv PROVE failures \in 0..MaxFailures /\ fds \in Nat /\ MaxFailures \in Nat
BY LegacyAssumption DEF IInv, TypeOK

(* What a proceed step leaves in pc and rc.                                *)
LEMMA ProceedType ==
    ASSUME NEW r, NEW next \in {"rabbit", "slave", "items", "done"},
           rc \in {Absent, 0, EINVAL}, Proceed(r, next)
    PROVE  /\ pc' \in {next, "done"}
           /\ rc' \in {Absent, 0, EINVAL}
BY DEF Proceed

-----------------------------------------------------------------------------
(* The thing record as TypeOK states it.                                   *)
ThingRecs == [name : Opt(Names), url : Opt(Names), slave : Opt(SlaveIds \X Names)]

(* The three helpers before set_data_items touch only thing, fds, pc, rc   *)
(* and failures.                                                           *)
LEMMA NameStep ==
    ASSUME IInv, SetThingName PROVE IInv'
<1>1. UNCHANGED <<dev, items, oob, toVisit, cur, sid>>
  BY DEF SetThingName
<1>2. failures' \in 0..MaxFailures /\ fds' \in Nat
  <2>1. (OpenFails /\ fds' = fds) \/ (failures' = failures /\ (Leak \/ fds' = fds))
    BY Zenon DEF SetThingName
  <2>2. QED
    BY <2>1, Counters DEF OpenFails, Leak
<1>3. thing' \in ThingRecs
  <2>1. dev.name \in Opt(Names) /\ thing \in ThingRecs
    BY DEF IInv, TypeOK, DevRecs, ThingRecs
  <2>2. QED
    BY <2>1 DEF SetThingName, StrOk, Opt, ThingRecs
<1>4. pc' \in {"rabbit", "done"} /\ rc' \in {Absent, 0, EINVAL}
  BY ProceedType DEF SetThingName, IInv, TypeOK
<1>5. QED
  BY <1>1, <1>2, <1>3, <1>4 DEF IInv, TypeOK, LoopInv, OobBelowZero, ThingRecs

LEMMA RabbitStep ==
    ASSUME IInv, SetRabbitMqUrl PROVE IInv'
<1>1. UNCHANGED <<dev, items, oob, toVisit, cur, sid>>
  BY DEF SetRabbitMqUrl
<1>2. failures' \in 0..MaxFailures /\ fds' \in Nat
  <2>1. (OpenFails /\ fds' = fds) \/ (failures' = failures /\ (Leak \/ fds' = fds))
    BY Zenon DEF SetRabbitMqUrl
  <2>2. QED
    BY <2>1, Counters DEF OpenFails, Leak
<1>3. thing' \in ThingRecs
  <2>1. dev.rabbitUrl \in Opt(Names) /\ thing \in ThingRecs
    BY DEF IInv, TypeOK, DevRecs, ThingRecs
  <2>2. QED
    BY <2>1 DEF SetRabbitMqUrl, StrOk, Opt, ThingRecs
<1>4. pc' \in {"slave", "done"} /\ rc' \in {Absent, 0, EINVAL}
  BY ProceedType DEF SetRabbitMqUrl, IInv, TypeOK
<1>5. QED
  BY <1>1, <1>2, <1>3, <1>4 DEF IInv, TypeOK, LoopInv, OobBelowZero, ThingRecs

LEMMA SlaveStep ==
    ASSUME IInv, SetModbusSlaveProperties PROVE IInv'
<1> DEFINE r == IntRead(dev.slaveId)
<1>1. UNCHANGED <<dev, items, oob, toVisit, cur, sid>>
  BY DEF SetModbusSlaveProperties
<1>2. /\ pc = "slave"
      /\ \/ OpenFails /\ Proceed(OpenErr, "items") /\ UNCHANGED <<thing, fds>>
         \/ /\ failures' = failures
            /\ IF r.ok /\ r.val \in ValidSlaveIds /\ StrOk(dev.modbusUrl)
               THEN thing' = [thing EXCEPT !.slave = <<r.val, dev.modbusUrl>>]
                    /\ Proceed(0, "items") /\ UNCHANGED fds
               ELSE Leak /\ Proceed(EINVAL, "items") /\ UNCHANGED thing
  BY DEF SetModbusSlaveProperties
<1>3. dev.modbusUrl \in Opt(Names) /\ thing \in ThingRecs /\ rc \in {Absent, 0, EINVAL}
      /\ failures \in 0..MaxFailures /\ fds \in Nat
  BY DEF IInv, TypeOK, DevRecs, ThingRecs
<1>4. CASE OpenFails /\ Proceed(OpenErr, "items") /\ UNCHANGED <<thing, fds>>
  <2>1. failures' \in 0..MaxFailures
    BY <1>4, Counters DEF OpenFails
  <2>2. pc' \in {"items", "done"} /\ rc' \in {Absent, 0, EINVAL}
    BY <1>3, <1>4, ProceedType
  <2>3. QED
    BY <1>1, <1>3, <1>4, <2>1, <2>2 DEF IInv, TypeOK, LoopInv, OobBelowZero, ThingRecs
<1>5. CASE r.ok /\ r.val \in ValidSlaveIds /\ StrOk(dev.modbusUrl) /\ failures' = failures
      /\ thing' = [thing EXCEPT !.slave = <<r.val, dev.modbusUrl>>]
      /\ Proceed(0, "items") /\ UNCHANGED fds
  <2>1. thing' \in ThingRecs
    BY <1>3, <1>5, LegacyAssumption DEF StrOk, Opt, ThingRecs
  <2>2. pc' \in {"items", "done"} /\ rc' \in {Absent, 0, EINVAL}
    BY <1>3, <1>5, ProceedType
  <2>3. QED
    BY <1>1, <1>3, <1>5, <2>1, <2>2 DEF IInv, TypeOK, LoopInv, OobBelowZero, ThingRecs
<1>6. CASE ~(r.ok /\ r.val \in ValidSlaveIds /\ StrOk(dev.modbusUrl)) /\ failures' = failures
      /\ Leak /\ Proceed(EINVAL, "items") /\ UNCHANGED thing
  <2>1. fds' \in Nat
    BY <1>3, <1>6 DEF Leak
  <2>2. pc' \in {"items", "done"} /\ rc' \in {Absent, 0, EINVAL}
    BY <1>3, <1>6, ProceedType
  <2>3. QED
    BY <1>1, <1>3, <1>6, <2>1, <2>2 DEF IInv, TypeOK, LoopInv, OobBelowZero, ThingRecs
<1>7. QED
  BY <1>2, <1>4, <1>5, <1>6

(* set_data_items opens the file and starts the loop, or fails.            *)
LEMMA OpenStep ==
    ASSUME IInv, SetDataItemsOpen PROVE IInv'
<1>1. UNCHANGED <<dev, thing, items, oob, cur, sid, fds>>
  BY DEF SetDataItemsOpen
<1>2. pc' \in {"next", "done", "crashed"} /\ rc' \in {Absent, 0, EINVAL}
  <2>1. \/ pc' = "next" /\ rc' = rc
        \/ ItemsError
        \/ pc' = "crashed" /\ rc' = rc
    BY Zenon DEF SetDataItemsOpen
  <2>2. ItemsError => pc' = "done" /\ rc' = EINVAL
    BY DEF ItemsError, Proceed, Stops
  <2>3. QED
    BY <2>1, <2>2 DEF IInv, TypeOK
<1>3. failures' \in 0..MaxFailures
  <2>1. OpenFails \/ failures' = failures
    BY Zenon DEF SetDataItemsOpen
  <2>2. QED
    BY <2>1, Counters DEF OpenFails
<1>4. toVisit' \subseteq Groups
  BY DEF SetDataItemsOpen, IInv, TypeOK
<1>5. QED
  BY <1>1, <1>2, <1>3, <1>4 DEF IInv, TypeOK, LoopInv, OobBelowZero

(* The loop moves to the next group, or ends.                              *)
LEMMA NextGroupStep ==
    ASSUME IInv, NextGroup PROVE IInv'
<1>1. UNCHANGED <<dev, thing, items, oob, sid, fds, failures>>
  BY DEF NextGroup
<1>2. CASE toVisit = {} /\ Proceed(0, "done") /\ UNCHANGED <<toVisit, cur>>
  <2>1. pc' = "done" /\ rc' = 0
    BY <1>2 DEF Proceed, Stops, EINVAL
  <2>2. QED
    BY <1>1, <1>2, <2>1 DEF IInv, TypeOK, LoopInv, OobBelowZero
<1>3. ASSUME NEW g \in toVisit, cur' = g, toVisit' = Visit(toVisit, g),
             pc' = "sensor", UNCHANGED rc
      PROVE IInv'
  <2>1. g \in Groups /\ toVisit' \subseteq Groups
    BY <1>3 DEF Visit, IInv, TypeOK
  <2>2. QED
    BY <1>1, <1>3, <2>1 DEF IInv, TypeOK, LoopInv, OobBelowZero, Opt
<1>4. QED
  BY <1>2, <1>3 DEF NextGroup

(* The loop body after get_sensor_id: valid_sensor_id and the write of    *)
(* the sensor id, for any integer get_sensor_id returned.                  *)
LEMMA CheckStep ==
    ASSUME IInv, NEW s \in Int, CheckSensorId(s)
    PROVE  /\ items' \in [Slots -> Items] /\ oob' \subseteq Int /\ OobBelowZero'
           /\ sid' \in Opt(Int) /\ pc' \in {"schema", "done"}
           /\ rc' \in {Absent, 0, EINVAL}
           /\ pc' = "schema" => sid' \in Int /\ sid' < NItems
<1>1. items \in [Slots -> Items] /\ oob \subseteq Int /\ OobBelowZero
      /\ sid \in Opt(Int) /\ rc \in {Absent, 0, EINVAL}
  BY DEF IInv, TypeOK
<1>2. CASE ValidSensorId(s, NItems)
  <2>1. WriteSlot(s, "sid", s) /\ sid' = s /\ pc' = "schema" /\ rc' = rc
    BY <1>2 DEF CheckSensorId
  <2>2. \A j \in Slots : [items[j] EXCEPT !["sid"] = s] \in Items
    BY <1>1 DEF Items, Opt
  <2>3. items' \in [Slots -> Items] /\ oob' \subseteq Int
    BY <1>1, <2>1, <2>2, WriteSlotType
  <2>4. OobBelowZero'
    BY <1>1, <1>2, <2>1, WriteSlotBelowZero DEF ValidSensorId
  <2>5. QED
    BY <1>1, <1>2, <2>1, <2>3, <2>4 DEF Opt, ValidSensorId
<1>3. CASE ~ValidSensorId(s, NItems)
  <2>1. ItemsError /\ UNCHANGED <<items, oob, sid>>
    BY <1>3 DEF CheckSensorId
  <2>2. pc' = "done" /\ rc' = EINVAL
    BY <2>1 DEF ItemsError, Proceed, Stops
  <2>3. QED
    BY <1>1, <2>1, <2>2 DEF OobBelowZero
<1>4. QED
  BY <1>2, <1>3

(* get_sensor_id: an open failure, or the read of the group's id.          *)
LEMMA SensorStep ==
    ASSUME IInv, GetSensorId PROVE IInv'
<1>1. UNCHANGED <<dev, thing, toVisit, cur>> /\ pc = "sensor"
  BY DEF GetSensorId
<1>2. cur \in Groups /\ dev \in DevRecs
  BY <1>1 DEF IInv, LoopInv, TypeOK
<1>3. SensorIdResult(cur).id \in Int
  <2>1. dev.groups[cur].sid \in Opt(SensorIds)
    BY <1>2 DEF DevRecs, GroupRecs
  <2> DEFINE v == dev.groups[cur].sid
  <2>2. v # Absent => SensorIdResult(cur).id = v
    BY DEF SensorIdResult, IntRead
  <2>3. v = Absent => SensorIdResult(cur).id = EINVAL
    BY DEF SensorIdResult, IntRead
  <2>4. EINVAL \in Int
    BY DEF EINVAL
  <2>5. v # Absent => v \in Int
    BY <2>1, IntKeys DEF Opt
  <2>6. QED
    BY <2>2, <2>3, <2>4, <2>5
<1>4. \/ OpenFails /\ fds' = fds /\ CheckSensorId(OpenErr)
      \/ /\ failures' = failures
         /\ fds' \in {fds, fds + 1}
         /\ CheckSensorId(SensorIdResult(cur).id)
  BY Zenon DEF GetSensorId
<1>5. failures' \in 0..MaxFailures /\ fds' \in Nat
  BY <1>4, Counters DEF OpenFails
<1>6. CASE OpenFails /\ fds' = fds /\ CheckSensorId(OpenErr)
  <2>1. OpenErr \in Int
    BY DEF OpenErr
  <2>2. QED
    BY <1>1, <1>2, <1>5, <1>6, <2>1, CheckStep DEF IInv, TypeOK, LoopInv, Opt
<1>7. CASE CheckSensorId(SensorIdResult(cur).id)
  BY <1>1, <1>2, <1>3, <1>5, <1>7, CheckStep DEF IInv, TypeOK, LoopInv, Opt
<1>8. QED
  BY <1>4, <1>6, <1>7

(* A write to the current slot: sid passed valid_sensor_id.               *)
LEMMA SlotWrite ==
    ASSUME IInv, sid \in Int, sid < NItems, NEW f, NEW v,
           \A j \in Slots : [items[j] EXCEPT ![f] = v] \in Items,
           WriteSlot(sid, f, v)
    PROVE  items' \in [Slots -> Items] /\ oob' \subseteq Int /\ OobBelowZero'
<1>1. items \in [Slots -> Items] /\ oob \subseteq Int /\ OobBelowZero
  BY DEF IInv, TypeOK
<1>2. QED
  BY <1>1, WriteSlotType, WriteSlotBelowZero

(* The `goto error` exit of the loop.                                      *)
LEMMA ErrorExit ==
    ASSUME ItemsError PROVE pc' = "done" /\ rc' = EINVAL
BY DEF ItemsError, Proceed, Stops

(* What the loop-body steps can rely on in the state before them.         *)
LEMMA BodyFacts ==
    ASSUME IInv, pc \in {"schema", "config", "source"}
    PROVE  /\ cur \in Groups /\ sid \in Int /\ sid < NItems
           /\ dev.groups[cur] \in GroupRecs
           /\ items \in [Slots -> Items]
<1>1. cur \in Groups /\ sid \in Int /\ sid < NItems /\ dev \in DevRecs
  BY DEF IInv, LoopInv, TypeOK
<1>2. QED
  BY <1>1 DEF DevRecs, IInv, TypeOK

(* set_schema: an open failure, a refused schema, or the write of it.      *)
LEMMA SchemaStep ==
    ASSUME IInv, SetSchema PROVE IInv'
<1> DEFINE g  == dev.groups[cur]
           vt == IntRead(g.vt)
           u  == IntRead(g.unit)
           t  == IntRead(g.tid)
           ok == /\ StrOk(g.name) /\ g.name \notin BadNames
                 /\ vt.ok /\ u.ok /\ t.ok
                 /\ <<t.val, vt.val, u.val>> \in ValidSchemas
           rec == [name |-> g.name, vt |-> vt.val, unit |-> u.val, tid |-> t.val]
<1>1. UNCHANGED <<dev, thing, toVisit, cur, sid>> /\ pc = "schema"
  BY DEF SetSchema
<1>2. cur \in Groups /\ sid \in Int /\ sid < NItems /\ g \in GroupRecs
  BY <1>1, BodyFacts
<1>3. \/ OpenFails /\ ItemsError /\ UNCHANGED <<items, oob, fds>>
      \/ failures' = failures /\ ok /\ WriteSlot(sid, "schema", rec)
         /\ pc' = "config" /\ UNCHANGED <<rc, fds>>
      \/ failures' = failures /\ Leak /\ ItemsError /\ UNCHANGED <<items, oob>>
  BY Zenon DEF SetSchema
<1>4. failures' \in 0..MaxFailures /\ fds' \in Nat
  BY <1>3, Counters DEF OpenFails, Leak
<1>5. CASE OpenFails /\ ItemsError /\ UNCHANGED <<items, oob, fds>>
  BY <1>1, <1>4, <1>5, ErrorExit DEF IInv, TypeOK, LoopInv, OobBelowZero
<1>6. CASE failures' = failures /\ ok /\ WriteSlot(sid, "schema", rec)
           /\ pc' = "config" /\ UNCHANGED <<rc, fds>>
  <2>1. rec \in [name : Names, vt : ValueTypes, unit : Units, tid : TypeIds]
    <3>1. g.name \in Opt(Names) /\ g.vt \in Opt(ValueTypes)
          /\ g.unit \in Opt(Units) /\ g.tid \in Opt(TypeIds)
      BY <1>2 DEF GroupRecs
    <3>2. g.name # Absent /\ g.vt # Absent /\ g.unit # Absent /\ g.tid # Absent
      BY <1>6 DEF StrOk, IntRead
    <3>3. vt.val = g.vt /\ u.val = g.unit /\ t.val = g.tid
      BY DEF IntRead
    <3>4. QED
      BY <3>1, <3>2, <3>3 DEF Opt
  <2>2. \A j \in Slots : [items[j] EXCEPT !["schema"] = rec] \in Items
    BY <1>1, <1>2, <2>1, BodyFacts DEF Items, Opt
  <2>3. items' \in [Slots -> Items] /\ oob' \subseteq Int /\ OobBelowZero'
    BY <1>2, <1>6, <2>2, SlotWrite
  <2>4. QED
    BY <1>1, <1>2, <1>4, <1>6, <2>3 DEF IInv, TypeOK, LoopInv
<1>7. CASE failures' = failures /\ Leak /\ ItemsError /\ UNCHANGED <<items, oob>>
  BY <1>1, <1>4, <1>7, ErrorExit DEF IInv, TypeOK, LoopInv, OobBelowZero
<1>8. QED
  BY <1>3, <1>5, <1>6, <1>7

(* set_config: an open failure, or the config marked as set.             *)
LEMMA ConfigStep ==
    ASSUME IInv, SetConfig PROVE IInv'
<1>1. UNCHANGED <<dev, thing, toVisit, cur, sid, fds>> /\ pc = "config"
  BY DEF SetConfig
<1>2. cur \in Groups /\ sid \in Int /\ sid < NItems /\ items \in [Slots -> Items]
  BY <1>1, BodyFacts
<1>3. \/ OpenFails /\ ItemsError /\ UNCHANGED <<items, oob>>
      \/ failures' = failures /\ WriteSlot(sid, "config", TRUE)
         /\ pc' = "source" /\ UNCHANGED rc
  BY Zenon DEF SetConfig
<1>4. failures' \in 0..MaxFailures
  <2>1. OpenFails \/ failures' = failures
    BY <1>3
  <2>2. QED
    BY <2>1, Counters DEF OpenFails
<1>5. CASE OpenFails /\ ItemsError /\ UNCHANGED <<items, oob>>
  BY <1>1, <1>4, <1>5, ErrorExit DEF IInv, TypeOK, LoopInv, OobBelowZero
<1>6. CASE failures' = failures /\ WriteSlot(sid, "config", TRUE)
           /\ pc' = "source" /\ UNCHANGED rc
  <2>1. \A j \in Slots : [items[j] EXCEPT !["config"] = TRUE] \in Items
    BY <1>2 DEF Items, Opt
  <2>2. items' \in [Slots -> Items] /\ oob' \subseteq Int /\ OobBelowZero'
    BY <1>2, <1>6, <2>1, SlotWrite
  <2>3. QED
    BY <1>1, <1>2, <1>4, <1>6, <2>2 DEF IInv, TypeOK, LoopInv
<1>7. QED
  BY <1>3, <1>5, <1>6

(* set_modbus_source_properties: an open failure, a missing key, or the    *)
(* write of the register and bit offset.                                   *)
LEMMA SourceStep ==
    ASSUME IInv, SetModbusSourceProperties PROVE IInv'
<1> DEFINE g == dev.groups[cur]
           a == IntRead(g.reg)
           b == IntRead(g.bit)
<1>1. UNCHANGED <<dev, thing, toVisit, cur, sid>> /\ pc = "source"
  BY DEF SetModbusSourceProperties
<1>2. cur \in Groups /\ sid \in Int /\ sid < NItems /\ g \in GroupRecs
      /\ items \in [Slots -> Items]
  BY <1>1, BodyFacts
<1>3. \/ OpenFails /\ ItemsError /\ UNCHANGED <<items, oob, fds>>
      \/ failures' = failures /\ a.ok /\ b.ok /\ WriteSlot(sid, "source", <<a.val, b.val>>)
         /\ pc' = "next" /\ UNCHANGED <<rc, fds>>
      \/ failures' = failures /\ Leak /\ ItemsError /\ UNCHANGED <<items, oob>>
  BY Zenon DEF SetModbusSourceProperties
<1>4. failures' \in 0..MaxFailures /\ fds' \in Nat
  BY <1>3, Counters DEF OpenFails, Leak
<1>5. CASE OpenFails /\ ItemsError /\ UNCHANGED <<items, oob, fds>>
  BY <1>1, <1>4, <1>5, ErrorExit DEF IInv, TypeOK, LoopInv, OobBelowZero
<1>6. CASE failures' = failures /\ a.ok /\ b.ok /\ WriteSlot(sid, "source", <<a.val, b.val>>)
           /\ pc' = "next" /\ UNCHANGED <<rc, fds>>
  <2>1. <<a.val, b.val>> \in RegValues \X RegValues
    <3>1. g.reg \in Opt(RegValues) /\ g.bit \in Opt(RegValues)
      BY <1>2 DEF GroupRecs
    <3>2. g.reg # Absent /\ g.bit # Absent /\ a.val = g.reg /\ b.val = g.bit
      BY <1>6 DEF IntRead
    <3>3. QED
      BY <3>1, <3>2 DEF Opt
  <2>2. \A j \in Slots : [items[j] EXCEPT !["source"] = <<a.val, b.val>>] \in Items
    BY <1>2, <2>1 DEF Items, Opt
  <2>3. items' \in [Slots -> Items] /\ oob' \subseteq Int /\ OobBelowZero'
    BY <1>2, <1>6, <2>2, SlotWrite
  <2>4. QED
    BY <1>1, <1>2, <1>4, <1>6, <2>3 DEF IInv, TypeOK, LoopInv, Opt
<1>7. CASE failures' = failures /\ Leak /\ ItemsError /\ UNCHANGED <<items, oob>>
  BY <1>1, <1>4, <1>7, ErrorExit DEF IInv, TypeOK, LoopInv, OobBelowZero
<1>8. QED
  BY <1>3, <1>5, <1>6, <1>7

-----------------------------------------------------------------------------
(* Every step, a stutter included, keeps IInv.                             *)
LEMMA IInvStep == IInv /\ [Next]_vars => IInv'
<1> SUFFICES ASSUME IInv, [Next]_vars PROVE IInv'
  OBVIOUS
<1>1. CASE UNCHANGED vars
  BY <1>1 DEF vars, IInv, TypeOK, LoopInv, OobBelowZero
<1>2. QED
  BY <1>1, NameStep, RabbitStep, SlaveStep, OpenStep, NextGroupStep,
     SensorStep, SchemaStep, ConfigStep, SourceStep DEF Next

(* device_start starts from IInv.                                          *)
LEMMA InitIInv == Init => IInv
<1> SUFFICES ASSUME Init PROVE IInv
  OBVIOUS
<1>1. dev \in DevRecs /\ MaxFailures \in Nat
  BY LegacyAssumption DEF Init
<1>2. [i \in Slots |-> EmptyItem] \in [Slots -> Items]
  BY DEF EmptyItem, Items, Opt
<1>3. [name |-> Absent, url |-> Absent, slave |-> Absent] \in ThingRecs
  BY DEF ThingRecs, Opt
<1>4. QED
  BY <1>1, <1>2, <1>3 DEF Init, IInv, TypeOK, LoopInv, OobBelowZero, ThingRecs, Opt

(* Every reachable state of the legacy start path is well typed, for every *)
(* value of the constants.                                                 *)
THEOREM TypeCorrect == Spec => []TypeOK
<1>1. IInv => TypeOK
  BY DEF IInv
<1>2. QED
  BY InitIInv, IInvStep, <1>1, PTL DEF Spec

(* valid_sensor_id's upper bound holds for every device file and every     *)
(* pattern of failing storage_open calls: set_data_items never writes past *)
(* the last slot of thing.data_item; only negative ids escape it.          *)
THEOREM WritesNeverPastEnd == Spec => []OobBelowZero
<1>1. IInv => OobBelowZero
  BY DEF IInv
<1>2. QED
  BY InitIInv, IInvStep, <1>1, PTL DEF Spec

-----------------------------------------------------------------------------
(* The files and the storage under which set_data_items writes only inside *)
(* thing.data_item: no storage_open fails (an errno would come back as the *)
(* sensor id) and every group holds a non-negative SCHEMA_SENSOR_ID (a    *)
(* missing one comes back as -EINVAL, a negative one passes the check).    *)
StorageNeverFails == MaxFailures = 0
IdsNatural == \A d \in InitDevs : \A g \in Groups : d.groups[g].sid \in Nat

(* The strengthening of WritesInBounds: the files are the ones the start   *)
(* read, and from valid_sensor_id on the id of the iteration is a natural. *)
BoundInv ==
    /\ dev \in InitDevs
    /\ oob = {}
    /\ pc \in {"schema", "config", "source"} => sid \in Nat

(* A write to a slot of thing.data_item leaves oob as it was.              *)
LEMMA WriteSlotInside ==
    ASSUME NEW i \in Slots, NEW f, NEW v, WriteSlot(i, f, v)
    PROVE  oob' = oob
BY DEF WriteSlot

(* The configuration files are never written on the start path.           *)
LEMMA DevConstant ==
    ASSUME [Next]_vars PROVE dev' = dev
BY DEF Next, vars, SetThingName, SetRabbitMqUrl, SetModbusSlaveProperties,
       SetDataItemsOpen, NextGroup, GetSensorId, SetSchema, SetConfig,
       SetModbusSourceProperties

(* get_sensor_id on a group holding a natural SCHEMA_SENSOR_ID returns it. *)
LEMMA SensorIdRead ==
    ASSUME IdsNatural, dev \in InitDevs, cur \in Groups
    PROVE  /\ SensorIdResult(cur).id = dev.groups[cur].sid
           /\ dev.groups[cur].sid \in Nat
<1>1. dev.groups[cur].sid \in Nat
  BY DEF IdsNatural
<1>2. dev.groups[cur].sid # Absent
  BY <1>1, IntKeys
<1>3. dev.groups[cur].sid # Absent => SensorIdResult(cur).id = dev.groups[cur].sid
  BY DEF SensorIdResult, IntRead
<1>4. QED
  BY <1>1, <1>2, <1>3

(* With no failing open, every step keeps BoundInv.                        *)
LEMMA BoundStep ==
    ASSUME StorageNeverFails, IdsNatural, IInv, BoundInv, [Next]_vars
    PROVE  BoundInv'
<1>1. ~OpenFails
  BY Counters DEF StorageNeverFails, OpenFails
<1>2. dev' \in InitDevs
  BY DevConstant DEF BoundInv
<1>3. CASE GetSensorId
  <2>1. cur \in Groups /\ dev \in InitDevs
    BY <1>3 DEF GetSensorId, IInv, LoopInv, BoundInv
  <2>2. SensorIdResult(cur).id \in Nat
    BY <2>1, SensorIdRead
  <2>3. CheckSensorId(SensorIdResult(cur).id)
    BY <1>1, <1>3 DEF GetSensorId
  <2> DEFINE s == SensorIdResult(cur).id
  <2>4. CASE ValidSensorId(s, NItems)
    <3>1. s \in Slots
      BY <2>2, <2>4, NItemsType DEF ValidSensorId, Slots
    <3>2. WriteSlot(s, "sid", s) /\ sid' = s
      BY <2>3, <2>4 DEF CheckSensorId
    <3>3. QED
      BY <1>2, <2>2, <3>1, <3>2, WriteSlotInside DEF BoundInv
  <2>5. CASE ~ValidSensorId(s, NItems)
    <3>1. ItemsError /\ UNCHANGED oob
      BY <2>3, <2>5 DEF CheckSensorId
    <3>2. QED
      BY <1>2, <3>1, ErrorExit DEF BoundInv
  <2>6. QED
    BY <2>4, <2>5
<1>4. ASSUME pc \in {"schema", "config", "source"},
             SetSchema \/ SetConfig \/ SetModbusSourceProperties
      PROVE  BoundInv'
  <2>1. sid \in Slots
    <3>1. sid \in Int /\ sid < NItems /\ sid \in Nat
      BY <1>4, BodyFacts DEF BoundInv
    <3>2. QED
      BY <3>1, NItemsType DEF Slots
  <2>2. sid' = sid
    BY <1>4 DEF SetSchema, SetConfig, SetModbusSourceProperties
  <2>3. oob' = oob
    <3>1. (\E f, v : WriteSlot(sid, f, v)) \/ oob' = oob
      BY <1>1, <1>4 DEF SetSchema, SetConfig, SetModbusSourceProperties
    <3>2. QED
      BY <2>1, <3>1, WriteSlotInside
  <2>4. QED
    BY <1>2, <2>2, <2>3, <1>4 DEF BoundInv
<1>5. CASE SetSchema \/ SetConfig \/ SetModbusSourceProperties
  BY <1>4, <1>5 DEF SetSchema, SetConfig, SetModbusSourceProperties
<1>6. CASE \/ SetThingName \/ SetRabbitMqUrl \/ SetModbusSlaveProperties
           \/ SetDataItemsOpen \/ NextGroup \/ UNCHANGED vars
  <2>1. oob' = oob /\ (pc' \in {"schema", "config", "source"} => pc = pc' /\ sid' = sid)
    BY <1>6 DEF SetThingName, SetRabbitMqUrl, SetModbusSlaveProperties,
                SetDataItemsOpen, NextGroup, vars, Proceed, ItemsError
  <2>2. QED
    BY <1>2, <2>1 DEF BoundInv
<1>7. QED
  BY <1>3, <1>5, <1>6 DEF Next

(* valid_sensor_id lets no write of set_data_items out of thing.data_item  *)
(* when the files give every group a non-negative SCHEMA_SENSOR_ID and no  *)
(* storage_open fails: the two ways the legacy loader turns an error code  *)
(* into an index (runs legacy_missing_sensor_id and legacy_faults) are the *)
(* only ones.                                                              *)
THEOREM WritesInBoundsWhenWellFormed ==
    ASSUME StorageNeverFails, IdsNatural
    PROVE  Spec => []WritesInBounds
<1>1. Init => IInv /\ BoundInv
  BY InitIInv DEF Init, BoundInv
<1>2. IInv /\ BoundInv /\ [Next]_vars => IInv' /\ BoundInv'
  BY IInvStep, BoundStep
<1>3. BoundInv => WritesInBounds
  BY DEF BoundInv, WritesInBounds
<1>4. QED
  BY <1>1, <1>2, <1>3, PTL DEF Spec

-----------------------------------------------------------------------------
(* No two groups of a file share a SCHEMA_SENSOR_ID: the legacy loop has   *)
(* no lookup, so a later group would overwrite an earlier one's slot.      *)
IdsDistinct ==
    \A d \in InitDevs : \A g1, g2 \in Groups :
        g1 # g2 => d.groups[g1].sid # d.groups[g2].sid

(* The loop states in which an iteration is under way on group cur.        *)
Body == {"sensor", "schema", "config", "source"}

(* set_data_items is in its loop, or has left it returning 0.             *)
InLoop == pc \in {"next"} \cup Body \/ (pc = "done" /\ rc = 0)

(* The groups whose iteration has run to its end.                          *)
Finished == (Groups \ toVisit) \ (IF pc \in Body THEN {cur} ELSE {})

(* The strengthening of StartOkMeansLoaded: each helper that returned      *)
(* without -EINVAL has set its part of the thing, each finished group's    *)
(* item is complete in its slot, the current slot holds what the steps of  *)
(* the iteration have written so far, and the loop has visited every group *)
(* when set_data_items returns 0.                                          *)
LoadInv ==
    /\ rc = EINVAL => pc = "done"
    /\ pc \notin {"name"} /\ rc # EINVAL => thing.name # Absent
    /\ pc \notin {"name", "rabbit"} /\ rc # EINVAL => thing.url # Absent
    /\ pc \notin {"name", "rabbit", "slave"} /\ rc # EINVAL => thing.slave # Absent
    /\ pc = "done" /\ rc = 0 => toVisit = {}
    /\ pc \in Body => cur \notin toVisit
    /\ InLoop => \A g \in Finished :
             /\ dev.groups[g].sid \in Slots
             /\ items[dev.groups[g].sid] = LoadedItem(dev.groups[g])
    /\ pc \in {"schema", "config", "source"} =>
          /\ sid = dev.groups[cur].sid
          /\ items[sid].sid = sid
    /\ pc \in {"config", "source"} =>
          items[sid].schema = LoadedItem(dev.groups[cur]).schema
    /\ pc = "source" => items[sid].config = TRUE

AllInv == IInv /\ BoundInv /\ LoadInv

(* A helper or the loop returned -EINVAL: device_start has returned it.    *)
LEMMA ErrorStop ==
    ASSUME pc' = "done", rc' = EINVAL PROVE LoadInv'
BY DEF LoadInv, InLoop, Body, EINVAL

(* What the first three helpers leave, with no failing open: their part of *)
(* the thing set and the next helper, or device_start returning -EINVAL.  *)
LEMMA LoadNameStep ==
    ASSUME StorageNeverFails, AllInv, SetThingName PROVE LoadInv'
<1>1. ~OpenFails /\ thing \in ThingRecs /\ rc # EINVAL
  BY Counters DEF StorageNeverFails, OpenFails, AllInv, IInv, TypeOK, ThingRecs,
                  SetThingName, LoadInv
<1>2. CASE StrOk(dev.name) /\ dev.name \notin BadNames
  <2>1. thing' = [thing EXCEPT !.name = dev.name] /\ Proceed(0, "rabbit")
    BY <1>1, <1>2, Zenon DEF SetThingName
  <2>2. pc' = "rabbit" /\ rc' = rc
    BY <2>1 DEF Proceed, Stops, EINVAL
  <2>3. thing'.name # Absent
    BY <1>1, <1>2, <2>1 DEF StrOk, ThingRecs
  <2>4. QED
    BY <1>1, <2>2, <2>3 DEF LoadInv, InLoop, Body
<1>3. CASE ~(StrOk(dev.name) /\ dev.name \notin BadNames)
  <2>1. pc' = "done" /\ rc' = EINVAL
    BY <1>1, <1>3 DEF SetThingName, Proceed, Stops
  <2>2. QED
    BY <2>1, ErrorStop
<1>4. QED
  BY <1>2, <1>3

LEMMA LoadRabbitStep ==
    ASSUME StorageNeverFails, AllInv, SetRabbitMqUrl PROVE LoadInv'
<1>1. ~OpenFails /\ thing \in ThingRecs /\ rc # EINVAL /\ thing.name # Absent
  BY Counters DEF StorageNeverFails, OpenFails, AllInv, IInv, TypeOK, ThingRecs,
                  SetRabbitMqUrl, LoadInv
<1>2. CASE StrOk(dev.rabbitUrl)
  <2>1. thing' = [thing EXCEPT !.url = dev.rabbitUrl] /\ Proceed(0, "slave")
    BY <1>1, <1>2, Zenon DEF SetRabbitMqUrl
  <2>2. pc' = "slave" /\ rc' = rc
    BY <2>1 DEF Proceed, Stops, EINVAL
  <2>3. thing'.url # Absent /\ thing'.name = thing.name
    BY <1>1, <1>2, <2>1 DEF StrOk, ThingRecs
  <2>4. QED
    BY <1>1, <2>2, <2>3 DEF LoadInv, InLoop, Body
<1>3. CASE ~StrOk(dev.rabbitUrl)
  <2>1. pc' = "done" /\ rc' = EINVAL
    BY <1>1, <1>3 DEF SetRabbitMqUrl, Proceed, Stops
  <2>2. QED
    BY <2>1, ErrorStop
<1>4. QED
  BY <1>2, <1>3

LEMMA LoadSlaveStep ==
    ASSUME StorageNeverFails, AllInv, SetModbusSlaveProperties PROVE LoadInv'
<1> DEFINE r == IntRead(dev.slaveId)
<1>1. /\ ~OpenFails /\ thing \in ThingRecs /\ rc # EINVAL
      /\ thing.name # Absent /\ thing.url # Absent
  BY Counters DEF StorageNeverFails, OpenFails, AllInv, IInv, TypeOK, ThingRecs,
                  SetModbusSlaveProperties, LoadInv
<1>2. CASE r.ok /\ r.val \in ValidSlaveIds /\ StrOk(dev.modbusUrl)
  <2>1. /\ thing' = [thing EXCEPT !.slave = <<r.val, dev.modbusUrl>>]
        /\ pc' = "items" /\ rc' = rc
    <3>1. thing' = [thing EXCEPT !.slave = <<r.val, dev.modbusUrl>>]
          /\ Proceed(0, "items")
      BY <1>1, <1>2, Zenon DEF SetModbusSlaveProperties
    <3>2. QED
      BY <3>1 DEF Proceed, Stops, EINVAL
  <2>2. <<r.val, dev.modbusUrl>> # Absent
    <3>1. dev.modbusUrl \in Opt(Names)
      BY DEF AllInv, IInv, TypeOK, DevRecs
    <3>2. <<r.val, dev.modbusUrl>> \in SlaveIds \X Names
      BY <1>2, <3>1, IntKeys DEF StrOk, Opt
    <3>3. QED
      BY <3>2, LegacyAssumption
  <2>3. thing'.slave # Absent /\ thing'.name = thing.name /\ thing'.url = thing.url
    BY <1>1, <2>1, <2>2 DEF ThingRecs
  <2>4. QED
    BY <1>1, <2>1, <2>3 DEF LoadInv, InLoop, Body
<1>3. CASE ~(r.ok /\ r.val \in ValidSlaveIds /\ StrOk(dev.modbusUrl))
  <2>1. pc' = "done" /\ rc' = EINVAL
    BY <1>1, <1>3 DEF SetModbusSlaveProperties, Proceed, Stops
  <2>2. QED
    BY <2>1, ErrorStop
<1>4. QED
  BY <1>2, <1>3

(* set_data_items starts its loop with no group finished.                  *)
LEMMA LoadOpenStep ==
    ASSUME StorageNeverFails, AllInv, SetDataItemsOpen PROVE LoadInv'
<1>1. ~OpenFails
  BY Counters DEF StorageNeverFails, OpenFails, AllInv
<1>2. /\ pc = "items" /\ pc' = "next" /\ toVisit' = Groups /\ rc' = rc
      /\ UNCHANGED thing
  BY <1>1 DEF SetDataItemsOpen
<1>3. Finished' = {}
  BY <1>2 DEF Finished, Body
<1>4. QED
  BY <1>2, <1>3 DEF LoadInv, InLoop, Body, AllInv

(* The loop takes the next group, or returns 0 having visited them all.    *)
LEMMA LoadNextStep ==
    ASSUME AllInv, NextGroup PROVE LoadInv'
<1>1. /\ pc = "next" /\ rc # EINVAL /\ InLoop
      /\ UNCHANGED <<dev, thing, items, sid>>
  BY DEF NextGroup, AllInv, LoadInv, InLoop, Body
<1>2. CASE toVisit = {} /\ Proceed(0, "done") /\ UNCHANGED <<toVisit, cur>>
  <2>1. pc' = "done" /\ rc' = 0
    BY <1>2 DEF Proceed, Stops, EINVAL
  <2>2. Finished' = Finished /\ InLoop'
    BY <1>1, <1>2, <2>1 DEF Finished, Body, InLoop
  <2>3. QED
    BY <1>1, <1>2, <2>1, <2>2 DEF LoadInv, Body, AllInv, EINVAL
<1>3. ASSUME NEW g \in toVisit, cur' = g, toVisit' = Visit(toVisit, g),
             pc' = "sensor", UNCHANGED rc
      PROVE LoadInv'
  <2>1. Finished' = Finished /\ InLoop' /\ cur' \notin toVisit'
    BY <1>1, <1>3 DEF Finished, Body, InLoop, Visit
  <2>2. QED
    BY <1>1, <1>3, <2>1 DEF LoadInv, Body, AllInv
<1>4. QED
  BY <1>2, <1>3 DEF NextGroup

(* A write to the slot of the current group's id leaves every finished     *)
(* group's item alone: no finished group shares that id.                   *)
LEMMA KeepFinished ==
    ASSUME IdsDistinct, AllInv, pc \in Body, NEW i, i = dev.groups[cur].sid,
           NEW f, NEW v, items' = [items EXCEPT ![i][f] = v]
    PROVE  \A g \in Finished :
              /\ dev.groups[g].sid \in Slots
              /\ items'[dev.groups[g].sid] = LoadedItem(dev.groups[g])
<1> SUFFICES ASSUME NEW g \in Finished
             PROVE  /\ dev.groups[g].sid \in Slots
                    /\ items'[dev.groups[g].sid] = LoadedItem(dev.groups[g])
  OBVIOUS
<1>1. g \in Groups /\ g # cur /\ cur \in Groups /\ dev \in InitDevs
  BY DEF Finished, AllInv, IInv, LoopInv, Body, BoundInv
<1>2. dev.groups[g].sid # i
  BY <1>1 DEF IdsDistinct
<1>3. dev.groups[g].sid \in Slots /\ items[dev.groups[g].sid] = LoadedItem(dev.groups[g])
  BY DEF AllInv, LoadInv, InLoop, Body
<1>4. QED
  BY <1>2, <1>3 DEF AllInv, IInv, TypeOK

(* get_sensor_id and valid_sensor_id: the slot of the group's id gets the  *)
(* id, or the loop exits with -EINVAL.                                     *)
LEMMA LoadSensorStep ==
    ASSUME StorageNeverFails, IdsNatural, IdsDistinct, AllInv, GetSensorId
    PROVE  LoadInv'
<1> DEFINE s == dev.groups[cur].sid
<1>1. /\ ~OpenFails /\ pc = "sensor" /\ cur \in Groups /\ dev \in InitDevs
      /\ UNCHANGED <<dev, thing, toVisit, cur>>
  BY Counters DEF StorageNeverFails, OpenFails, AllInv, IInv, LoopInv, BoundInv,
                  GetSensorId
<1>2. CheckSensorId(s) /\ s \in Nat
  <2>1. CheckSensorId(SensorIdResult(cur).id)
    BY <1>1, Zenon DEF GetSensorId
  <2>2. QED
    BY <1>1, <2>1, SensorIdRead
<1>3. CASE ValidSensorId(s, NItems)
  <2>1. WriteSlot(s, "sid", s) /\ sid' = s /\ pc' = "schema" /\ rc' = rc
    BY <1>2, <1>3 DEF CheckSensorId
  <2>2. s \in Slots
    BY <1>2, <1>3, NItemsType DEF ValidSensorId, Slots
  <2>3. items' = [items EXCEPT ![s]["sid"] = s]
    BY <2>1, <2>2 DEF WriteSlot
  <2>4. items'[s].sid = s
    BY <2>2, <2>3 DEF AllInv, IInv, TypeOK, Items
  <2>5. Finished' = Finished
    BY <1>1, <2>1 DEF Finished, Body
  <2>6. \A g \in Finished : /\ dev.groups[g].sid \in Slots
                            /\ items'[dev.groups[g].sid] = LoadedItem(dev.groups[g])
    BY <1>1, <2>3, KeepFinished DEF Body
  <2>7. QED
    BY <1>1, <2>1, <2>4, <2>5, <2>6 DEF AllInv, LoadInv, InLoop, Body
<1>4. CASE ~ValidSensorId(s, NItems)
  <2>1. ItemsError
    BY <1>2, <1>4 DEF CheckSensorId
  <2>2. QED
    BY <2>1, ErrorExit, ErrorStop
<1>5. QED
  BY <1>3, <1>4

(* What the steps after valid_sensor_id may rely on.                       *)
LEMMA LoadBodyFacts ==
    ASSUME AllInv, pc \in {"schema", "config", "source"}
    PROVE  /\ cur \in Groups /\ dev \in InitDevs /\ cur \notin toVisit
           /\ sid \in Slots /\ sid = dev.groups[cur].sid
           /\ items[sid] \in Items /\ items[sid].sid = sid
           /\ dev.groups[cur] \in GroupRecs
<1>1. cur \in Groups /\ sid \in Int /\ sid < NItems /\ items \in [Slots -> Items]
      /\ dev.groups[cur] \in GroupRecs
  BY BodyFacts DEF AllInv
<1>2. sid \in Slots
  BY <1>1, NItemsType DEF AllInv, BoundInv, Slots
<1>3. QED
  BY <1>1, <1>2 DEF AllInv, BoundInv, LoadInv, Body

(* set_schema writes the group's schema into the slot, or the loop exits.  *)
LEMMA LoadSchemaStep ==
    ASSUME StorageNeverFails, IdsDistinct, AllInv, SetSchema PROVE LoadInv'
<1> DEFINE g  == dev.groups[cur]
           vt == IntRead(g.vt)
           u  == IntRead(g.unit)
           t  == IntRead(g.tid)
           ok == /\ StrOk(g.name) /\ g.name \notin BadNames
                 /\ vt.ok /\ u.ok /\ t.ok
                 /\ <<t.val, vt.val, u.val>> \in ValidSchemas
           rec == [name |-> g.name, vt |-> vt.val, unit |-> u.val, tid |-> t.val]
<1>1. /\ ~OpenFails /\ pc = "schema"
      /\ UNCHANGED <<dev, thing, toVisit, cur, sid>>
  BY Counters DEF StorageNeverFails, OpenFails, AllInv, SetSchema
<1>2. \/ ok /\ WriteSlot(sid, "schema", rec) /\ pc' = "config" /\ UNCHANGED rc
      \/ ItemsError
  BY <1>1, Zenon DEF SetSchema
<1>3. CASE ok /\ WriteSlot(sid, "schema", rec) /\ pc' = "config" /\ UNCHANGED rc
  <2>1. sid \in Slots /\ sid = g.sid /\ items[sid] \in Items /\ items[sid].sid = sid
    BY <1>1, LoadBodyFacts
  <2>2. items' = [items EXCEPT ![sid]["schema"] = rec]
    BY <1>3, <2>1 DEF WriteSlot
  <2>3. rec = LoadedItem(g).schema
    BY DEF IntRead, LoadedItem
  <2>4. items'[sid].sid = sid /\ items'[sid].schema = LoadedItem(g).schema
    BY <2>1, <2>2, <2>3 DEF AllInv, IInv, TypeOK, Items
  <2>5. \A h \in Finished : /\ dev.groups[h].sid \in Slots
                            /\ items'[dev.groups[h].sid] = LoadedItem(dev.groups[h])
    BY <1>1, <2>1, <2>2, KeepFinished DEF Body
  <2>6. Finished' = Finished
    BY <1>1, <1>3 DEF Finished, Body
  <2>7. QED
    BY <1>1, <1>3, <2>4, <2>5, <2>6 DEF AllInv, LoadInv, InLoop, Body
<1>4. CASE ItemsError
  BY <1>4, ErrorExit, ErrorStop
<1>5. QED
  BY <1>2, <1>3, <1>4

(* set_config marks the slot's config as set.                              *)
LEMMA LoadConfigStep ==
    ASSUME StorageNeverFails, IdsDistinct, AllInv, SetConfig PROVE LoadInv'
<1>1. /\ ~OpenFails /\ pc = "config"
      /\ UNCHANGED <<dev, thing, toVisit, cur, sid>>
  BY Counters DEF StorageNeverFails, OpenFails, AllInv, SetConfig
<1>2. WriteSlot(sid, "config", TRUE) /\ pc' = "source" /\ UNCHANGED rc
  BY <1>1, Zenon DEF SetConfig
<1>3. sid \in Slots /\ sid = dev.groups[cur].sid /\ items[sid] \in Items
      /\ items[sid].sid = sid
  BY <1>1, LoadBodyFacts
<1>4. items' = [items EXCEPT ![sid]["config"] = TRUE]
  BY <1>2, <1>3 DEF WriteSlot
<1>5. /\ items'[sid].sid = sid /\ items'[sid].config = TRUE
      /\ items'[sid].schema = items[sid].schema
  BY <1>3, <1>4 DEF AllInv, IInv, TypeOK, Items
<1>6. \A h \in Finished : /\ dev.groups[h].sid \in Slots
                          /\ items'[dev.groups[h].sid] = LoadedItem(dev.groups[h])
  BY <1>1, <1>3, <1>4, KeepFinished DEF Body
<1>7. Finished' = Finished
  BY <1>1, <1>2 DEF Finished, Body
<1>8. QED
  BY <1>1, <1>2, <1>5, <1>6, <1>7 DEF AllInv, LoadInv, InLoop, Body

(* set_modbus_source_properties completes the slot: the current group is  *)
(* finished, its item whole in the slot of its id.                         *)
LEMMA LoadSourceStep ==
    ASSUME StorageNeverFails, IdsDistinct, AllInv, SetModbusSourceProperties
    PROVE  LoadInv'
<1> DEFINE g == dev.groups[cur]
           a == IntRead(g.reg)
           b == IntRead(g.bit)
<1>1. /\ ~OpenFails /\ pc = "source"
      /\ UNCHANGED <<dev, thing, toVisit, cur, sid>>
  BY Counters DEF StorageNeverFails, OpenFails, AllInv, SetModbusSourceProperties
<1>2. \/ a.ok /\ b.ok /\ WriteSlot(sid, "source", <<a.val, b.val>>)
         /\ pc' = "next" /\ UNCHANGED rc
      \/ ItemsError
  BY <1>1, Zenon DEF SetModbusSourceProperties
<1>3. CASE a.ok /\ b.ok /\ WriteSlot(sid, "source", <<a.val, b.val>>)
           /\ pc' = "next" /\ UNCHANGED rc
  <2>1. /\ cur \in Groups /\ cur \notin toVisit
        /\ sid \in Slots /\ sid = g.sid /\ items[sid] \in Items /\ items[sid].sid = sid
    BY <1>1, LoadBodyFacts
  <2>2. items[sid].schema = LoadedItem(g).schema /\ items[sid].config = TRUE
    BY <1>1 DEF AllInv, LoadInv
  <2>3. items' = [items EXCEPT ![sid]["source"] = <<a.val, b.val>>]
    BY <1>3, <2>1 DEF WriteSlot
  <2>4. <<a.val, b.val>> = LoadedItem(g).source
    BY DEF IntRead, LoadedItem
  <2>5. items'[sid] = LoadedItem(g)
    BY <2>1, <2>2, <2>3, <2>4 DEF AllInv, IInv, TypeOK, Items, LoadedItem
  <2>6. \A h \in Finished : /\ dev.groups[h].sid \in Slots
                            /\ items'[dev.groups[h].sid] = LoadedItem(dev.groups[h])
    BY <1>1, <2>1, <2>3, KeepFinished DEF Body
  <2>7. Finished' = Finished \cup {cur}
    BY <1>1, <1>3, <2>1 DEF Finished, Body
  <2>8. \A h \in Finished' : /\ dev.groups[h].sid \in Slots
                             /\ items'[dev.groups[h].sid] = LoadedItem(dev.groups[h])
    BY <2>1, <2>5, <2>6, <2>7
  <2>9. QED
    BY <1>1, <1>3, <2>8 DEF AllInv, LoadInv, InLoop, Body
<1>4. CASE ItemsError
  BY <1>4, ErrorExit, ErrorStop
<1>5. QED
  BY <1>2, <1>3, <1>4

(* With well-formed files and no failing open, every step keeps LoadInv.   *)
LEMMA LoadStep ==
    ASSUME StorageNeverFails, IdsNatural, IdsDistinct, AllInv, [Next]_vars
    PROVE  LoadInv'
<1>1. CASE UNCHANGED vars
  BY <1>1 DEF vars, AllInv, LoadInv, InLoop, Finished, Body
<1>2. QED
  BY <1>1, LoadNameStep, LoadRabbitStep, LoadSlaveStep, LoadOpenStep, LoadNextStep,
     LoadSensorStep, LoadSchemaStep, LoadConfigStep, LoadSourceStep DEF Next

(* device_start returning 0 means a fully loaded thing (spec 3 and 4.3)   *)
(* when no storage_open fails and the file gives every group its own       *)
(* non-negative SCHEMA_SENSOR_ID: the failures that break it (runs         *)
(* legacy_open_ignored and legacy_missing_sensor_id, and a duplicated id)  *)
(* are the only ways to.                                                   *)
THEOREM StartOkWhenWellFormed ==
    ASSUME StorageNeverFails, IdsNatural, IdsDistinct
    PROVE  Spec => []StartOkMeansLoaded
<1>1. Init => AllInv
  <2>1. Init => LoadInv
    BY IntKeys DEF Init, LoadInv, InLoop, Body, EINVAL
  <2>2. QED
    BY <2>1, InitIInv DEF Init, AllInv, BoundInv
<1>2. AllInv /\ [Next]_vars => AllInv'
  <2> SUFFICES ASSUME AllInv, [Next]_vars PROVE AllInv'
    OBVIOUS
  <2>1. IInv' /\ BoundInv'
    BY IInvStep, BoundStep DEF AllInv
  <2>2. LoadInv'
    BY LoadStep
  <2>3. QED
    BY <2>1, <2>2 DEF AllInv
<1>3. AllInv => StartOkMeansLoaded
  BY DEF AllInv, LoadInv, InLoop, Finished, Body, StartOkMeansLoaded, EINVAL
<1>4. QED
  BY <1>1, <1>2, <1>3, PTL DEF Spec

=============================================================================
