-------------------------- MODULE DataItemsProofs --------------------------
(***************************************************************************)
(* Proofs about the Loader and the Updater of properties.c, for every      *)
(* value of the constants: the type invariant, that once set_data_items    *)
(* has returned 0 the registry holds exactly the file's sensor ids with no *)
(* two groups sharing one, and that memory and file agree on the schema of *)
(* every sensor whose updates all succeeded.                               *)
(***************************************************************************)
EXTENDS DataItems, TLAPS

(* update_schema_data_item writes schema keys only: the group stays a      *)
(* group record and keeps its sensor id.                                   *)
LEMMA WriteSchemaType ==
    ASSUME NEW r \in GroupRecs, NEW sch \in Schemas, NEW n \in 0..4
    PROVE  /\ WriteSchema(r, sch, n) \in GroupRecs
           /\ WriteSchema(r, sch, n).sid = r.sid
BY DEF WriteSchema, GroupRecs, Schemas, SchemaKeys, Opt

(* The events a command carries.                                          *)
CmdEvents == [flags : SUBSET CmdFlags, lower : Int, upper : Int, time : Int]

(* The writes of update_event_data_item up to the n-th event key.         *)
EventWrites(r, ev, n) ==
    [k \in DOMAIN r |->
        IF \E i \in 1..n : EventKeys[i] = k
        THEN IF KeyFlag[k] \in ev.flags THEN EventValue(k, ev) ELSE UnsetKey(r, k)
        ELSE r[k]]

LEMMA WriteEventIsEventWrites ==
    ASSUME NEW r, NEW vt, NEW ev, NEW inj
    PROVE  WriteEvent(r, vt, ev, inj) = EventWrites(r, ev, EventStop(vt, ev, inj) - 1)
BY Zenon DEF WriteEvent, EventWrites

(* The key whose write returns early is the first failing one among the   *)
(* four; when none fails the loop runs to its end.                         *)
LEMMA EventStopRange ==
    ASSUME NEW vt, NEW ev, NEW inj
    PROVE  EventStop(vt, ev, inj) \in 1..5
<1> DEFINE P(i) == EventWriteErr(EventKeys[i], vt, ev, inj)
           First(i) == P(i) /\ \A j \in 1..(i - 1) : ~P(j)
<1>1. CASE \E i \in 1..4 : P(i)
  <2>1. \E i \in 1..4 : First(i)
    <3>1. CASE P(1)
      BY <3>1
    <3>2. CASE ~P(1) /\ P(2)
      <4>1. First(2)
        BY <3>2
      <4>2. QED
        BY <4>1
    <3>3. CASE ~P(1) /\ ~P(2) /\ P(3)
      <4>1. \A j \in 1..2 : ~P(j)
        BY <3>3
      <4>2. First(3)
        BY <3>3, <4>1
      <4>3. QED
        BY <4>2
    <3>4. CASE ~P(1) /\ ~P(2) /\ ~P(3)
      <4>1. P(4)
        BY <3>4, <1>1
      <4>2. \A j \in 1..3 : ~P(j)
        BY <3>4
      <4>3. First(4)
        BY <4>1, <4>2
      <4>4. QED
        BY <4>3
    <3>5. QED
      BY <3>1, <3>2, <3>3, <3>4
  <2>2. EventStop(vt, ev, inj) = CHOOSE i \in 1..4 : First(i)
    BY <1>1 DEF EventStop
  <2>3. QED
    BY <2>1, <2>2
<1>2. CASE ~\E i \in 1..4 : P(i)
  BY <1>2 DEF EventStop
<1>3. QED
  BY <1>1, <1>2

(* update_event_data_item writes event keys only, wherever it stops: the   *)
(* group stays a group record and keeps its sensor id and schema keys.     *)
LEMMA EventWritesType ==
    ASSUME NEW r \in GroupRecs, NEW ev \in CmdEvents, NEW n \in 0..4
    PROVE  /\ EventWrites(r, ev, n) \in GroupRecs
           /\ EventWrites(r, ev, n).sid = r.sid
           /\ StoredSchema(EventWrites(r, ev, n)) = StoredSchema(r)
<1> DEFINE W(k) == IF \E i \in 1..n : EventKeys[i] = k
                   THEN IF KeyFlag[k] \in ev.flags THEN EventValue(k, ev) ELSE UnsetKey(r, k)
                   ELSE r[k]
<1>1. \A k \in {"sid", "name", "vt", "unit", "tid", "addr", "bits"} : W(k) = r[k]
  BY DEF EventKeys
<1>2. /\ W("time") \in Opt(Int) /\ W("change") \in Opt({1})
      /\ W("lower") \in Opt(Int) /\ W("upper") \in Opt(Int)
  BY DEF GroupRecs, CmdEvents, EventValue, UnsetKey, HasUnit, Opt, KeyFlag
<1>3. EventWrites(r, ev, n) = [k \in DOMAIN r |-> W(k)]
  BY DEF EventWrites
<1>4. QED
  BY <1>1, <1>2, <1>3 DEF GroupRecs, StoredSchema

-----------------------------------------------------------------------------
(* UpdateFound once its two choices are made: schemaFail, the schema write *)
(* that fails, and inj, the event key whose write fails.                   *)
FoundStep(c, g, schemaFail, inj) ==
    LET unreg == "UNREG" \in c.event.flags
        vt == c.schema.vt
        r1 == WriteSchema(store[g], c.schema,
                          IF schemaFail = 0 THEN 4 ELSE schemaFail - 1)
        stop == EventStop(vt, c.event, inj)
        injHit == inj # Absent /\ stop < 5 /\ EventKeys[stop] = inj
        r2 == IF unreg THEN r1 ELSE WriteEvent(r1, vt, c.event, inj)
        nFail == (IF schemaFail # 0 THEN 1 ELSE 0) + (IF injHit THEN 1 ELSE 0)
    IN /\ inj = Absent \/ injHit
       /\ failures + nFail <= MaxFailures
       /\ store' = [store EXCEPT ![g] = r2]
       /\ failures' = failures + nFail
       /\ reg' = UpdateRegistry(c)
       /\ unsynced' = IF UpdateHasErr(schemaFail, ~unreg /\ stop < 5)
                      THEN unsynced \cup {c.sid} ELSE unsynced
       /\ lastRc' = IF UpdateHasErr(schemaFail, ~unreg /\ stop < 5)
                    THEN -1 ELSE 0
       /\ UNCHANGED <<phase, toLoad>>

LEMMA FoundPick ==
    ASSUME NEW c, NEW g, UpdateFound(c, g)
    PROVE  /\ phase = "run" /\ store[g].sid = c.sid
           /\ \E schemaFail \in 0..4 : \E inj : FoundStep(c, g, schemaFail, inj)
BY DEF UpdateFound, FoundStep

(* The group a successful or failing Updater call leaves in the file.      *)
LEMMA FoundGroup ==
    ASSUME TypeOK, NEW c \in CmdRecs, NEW g \in Groups, NEW schemaFail \in 0..4,
           NEW inj, FoundStep(c, g, schemaFail, inj)
    PROVE  /\ store'[g] \in GroupRecs
           /\ store'[g].sid = store[g].sid
           /\ \A h \in Groups \ {g} : store'[h] = store[h]
           /\ store' \in [Groups -> GroupRecs]
<1> DEFINE unreg == "UNREG" \in c.event.flags
           r1 == WriteSchema(store[g], c.schema,
                             IF schemaFail = 0 THEN 4 ELSE schemaFail - 1)
           stop == EventStop(c.schema.vt, c.event, inj)
           r2 == IF unreg THEN r1 ELSE WriteEvent(r1, c.schema.vt, c.event, inj)
<1>1. store' = [store EXCEPT ![g] = r2]
  BY DEF FoundStep
<1>2. r1 \in GroupRecs /\ r1.sid = store[g].sid
  <2>1. store[g] \in GroupRecs /\ c.schema \in Schemas
    BY DEF TypeOK, CmdRecs
  <2>2. (IF schemaFail = 0 THEN 4 ELSE schemaFail - 1) \in 0..4
    OBVIOUS
  <2>3. QED
    BY <2>1, <2>2, WriteSchemaType
<1>3. stop - 1 \in 0..4
  BY EventStopRange
<1>4. c.event \in CmdEvents
  BY DEF CmdRecs, CmdEvents
<1>5. r2 \in GroupRecs /\ r2.sid = store[g].sid
  BY <1>2, <1>3, <1>4, EventWritesType, WriteEventIsEventWrites
<1>6. QED
  BY <1>1, <1>5 DEF TypeOK

(* The counters and results an Updater call leaves.                       *)
LEMMA FoundRest ==
    ASSUME TypeOK, NEW c \in CmdRecs, NEW g \in Groups, NEW schemaFail \in 0..4,
           NEW inj, FoundStep(c, g, schemaFail, inj)
    PROVE  /\ failures' \in 0..MaxFailures
           /\ unsynced' \subseteq SensorIds
           /\ lastRc' \in {0, -1, OpenErr}
           /\ reg' = UpdateRegistry(c)
           /\ UNCHANGED <<phase, toLoad>>
<1> DEFINE stop == EventStop(c.schema.vt, c.event, inj)
           injHit == inj # Absent /\ stop < 5 /\ EventKeys[stop] = inj
           nFail == (IF schemaFail # 0 THEN 1 ELSE 0) + (IF injHit THEN 1 ELSE 0)
<1>1. failures' = failures + nFail /\ failures + nFail <= MaxFailures
  BY DEF FoundStep
<1>2. nFail \in 0..2
  OBVIOUS
<1>3. failures' \in 0..MaxFailures
  BY <1>1, <1>2, ConstantsAssumption DEF TypeOK
<1>4. c.sid \in SensorIds
  BY DEF CmdRecs
<1>5. QED
  BY <1>3, <1>4 DEF FoundStep, TypeOK

(* device_update_config_data_item keeps the registry well typed: a command *)
(* without KNOT_EVT_FLAG_UNREGISTERED carries only event flags.            *)
LEMMA UpdateRegistryType ==
    ASSUME TypeOK, NEW c \in CmdRecs
    PROVE  UpdateRegistry(c) \in [SensorIds -> Items \cup {Absent}]
<1>1. c.sid \in SensorIds /\ c.schema \in Schemas
  BY DEF CmdRecs
<1>2. "UNREG" \notin c.event.flags => c.event \in Events
  BY DEF CmdRecs, Events, CmdFlags
<1>3. reg[c.sid] # Absent => reg[c.sid].event \in Events
  BY <1>1 DEF TypeOK, Items
<1>4. QED
  BY <1>1, <1>2, <1>3 DEF UpdateRegistry, TypeOK, Items

(* device_set_new_data_item registers a well-typed item for a group that *)
(* passed set_sensor_id and set_schema.                                    *)
LEMMA NewItemType ==
    ASSUME TypeOK, NEW g \in Groups, LoadGroupOk(g)
    PROVE  NewItem(store[g]) \in Items
<1>1. store[g] \in GroupRecs
  BY DEF TypeOK
<1>2. StoredSchema(store[g]) \in Schemas
  BY <1>1 DEF LoadGroupOk, GroupChecksOk, SchemaOk, StoredSchema,
              Schemas, GroupRecs, Opt
<1>3. LoadedEvent(store[g]) \in Events
  BY <1>1 DEF LoadedEvent, KeyRead, KeyFlag, Events, EventFlags,
              ThresholdFlags, GroupRecs, Opt
<1>4. QED
  BY <1>2, <1>3 DEF NewItem, Items

-----------------------------------------------------------------------------
(* Every step, a stutter included, keeps the types.                        *)
LEMMA TypeStep == TypeOK /\ [Next]_vars => TypeOK'
<1> SUFFICES ASSUME TypeOK, [Next]_vars PROVE TypeOK'
  OBVIOUS
<1>1. ASSUME NEW g \in Groups, LoadGroupOk(g) PROVE TypeOK'
  <2>1. store[g] \in GroupRecs /\ store[g].sid \in SensorIds
    BY <1>1 DEF LoadGroupOk, GroupChecksOk, SensorIdOk, TypeOK, GroupRecs, Opt
  <2>2. NewItem(store[g]) \in Items
    BY <1>1, NewItemType
  <2>3. QED
    BY <1>1, <2>1, <2>2 DEF LoadGroupOk, TypeOK
<1>2. ASSUME NEW g \in Groups, LoadGroupFails(g) PROVE TypeOK'
  BY <1>2 DEF LoadGroupFails, TypeOK
<1>3. CASE LoadDone
  BY <1>3 DEF LoadDone, TypeOK
<1>4. CASE Restart
  BY <1>4 DEF Restart, TypeOK
<1>5. CASE UpdateOpenFails
  BY <1>5, ConstantsAssumption DEF UpdateOpenFails, TypeOK
<1>6. ASSUME NEW c \in Commands, UpdateNotFound(c) PROVE TypeOK'
  <2>1. c \in CmdRecs
    BY ConstantsAssumption
  <2>2. QED
    BY <1>6, <2>1, UpdateRegistryType DEF UpdateNotFound, TypeOK
<1>7. ASSUME NEW c \in Commands, NEW g \in Groups, UpdateFound(c, g) PROVE TypeOK'
  <2>1. c \in CmdRecs
    BY ConstantsAssumption
  <2>2. PICK schemaFail \in 0..4 : \E inj : FoundStep(c, g, schemaFail, inj)
    BY <1>7, FoundPick
  <2>3. PICK inj : FoundStep(c, g, schemaFail, inj)
    BY <2>2
  <2>4. store' \in [Groups -> GroupRecs]
    BY <2>1, <2>3, FoundGroup
  <2>5. QED
    BY <2>1, <2>3, <2>4, FoundRest, UpdateRegistryType DEF TypeOK
<1>8. CASE UNCHANGED vars
  BY <1>8 DEF vars, TypeOK
<1>9. QED
  BY <1>1, <1>2, <1>3, <1>4, <1>5, <1>6, <1>7, <1>8 DEF Next

(* Every reachable state of the Loader and the Updater is well typed, for  *)
(* every value of the constants.                                           *)
THEOREM TypeCorrect == Spec => []TypeOK
<1>1. Init => TypeOK
  BY ConstantsAssumption DEF Init, TypeOK
<1>2. QED
  BY <1>1, TypeStep, PTL DEF Spec

-----------------------------------------------------------------------------
(* The strengthening of RegistryMatchesStore.  While set_data_items runs   *)
(* and after it returned 0, the registry holds exactly the sensor ids of   *)
(* the groups the loop has visited, none of them Absent and no two equal;  *)
(* the run phase starts only when every group has been visited.            *)
LoadedGroups == Groups \ toLoad

RegInv ==
    phase \in {"load", "run"} =>
        /\ phase = "run" => toLoad = {}
        /\ \A g \in LoadedGroups : store[g].sid # Absent
        /\ \A g1, g2 \in LoadedGroups : g1 # g2 => store[g1].sid # store[g2].sid
        /\ RegisteredIds = {store[g].sid : g \in LoadedGroups}

(* device_update_config_data_item gives a registered sensor a well-typed *)
(* item.                                                                   *)
LEMMA UpdateRegistryItem ==
    ASSUME TypeOK, NEW c \in CmdRecs, reg[c.sid] # Absent
    PROVE  UpdateRegistry(c)[c.sid] \in Items
<1> DEFINE ev == IF "UNREG" \in c.event.flags THEN reg[c.sid].event ELSE c.event
<1>1. UpdateRegistry(c)[c.sid] = [schema |-> c.schema, event |-> ev]
  BY DEF UpdateRegistry, CmdRecs, TypeOK
<1>2. reg[c.sid] \in Items
  BY DEF CmdRecs, TypeOK
<1>3. "UNREG" \notin c.event.flags => c.event \in Events
  BY DEF CmdRecs, Events, CmdFlags
<1>4. ev \in Events
  BY <1>2, <1>3 DEF Items
<1>5. QED
  BY <1>1, <1>4 DEF CmdRecs, Items

(* device_update_config_data_item neither registers a new sensor id nor   *)
(* removes one: it only replaces an item that lookup found.                *)
LEMMA UpdateRegistryIds ==
    ASSUME TypeOK, NEW c \in CmdRecs
    PROVE  {s \in SensorIds : UpdateRegistry(c)[s] # Absent} = RegisteredIds
<1>1. CASE reg[c.sid] = Absent
  BY <1>1 DEF UpdateRegistry, RegisteredIds
<1>2. CASE reg[c.sid] # Absent
  <2>1. UpdateRegistry(c) \in [SensorIds -> Items \cup {Absent}]
    BY UpdateRegistryType
  <2>2. UpdateRegistry(c)[c.sid] \in Items
    BY <1>2, UpdateRegistryItem
  <2>3. \A s \in SensorIds \ {c.sid} : UpdateRegistry(c)[s] = reg[s]
    BY DEF UpdateRegistry, TypeOK
  <2>4. QED
    BY <1>2, <2>2, <2>3, ConstantsAssumption DEF RegisteredIds, CmdRecs
<1>3. QED
  BY <1>1, <1>2

IInv == TypeOK /\ RegInv

(* A fresh start, before set_data_items has visited a group, satisfies the  *)
(* registry invariant.                                                     *)
LEMMA InitIInv == Init => IInv
<1>1. Init => TypeOK
  BY ConstantsAssumption DEF Init, TypeOK
<1>2. Init => RegInv
  BY DEF Init, RegInv, LoadedGroups, RegisteredIds
<1>3. QED
  BY <1>1, <1>2 DEF IInv

(* Each step of the Loader and the Updater keeps the registry in step with *)
(* the groups the loop has visited.                                        *)
LEMMA RegStep == IInv /\ [Next]_vars => RegInv'
<1> SUFFICES ASSUME TypeOK, RegInv, [Next]_vars PROVE RegInv'
  BY DEF IInv
<1>1. ASSUME NEW g \in Groups, LoadGroupOk(g) PROVE RegInv'
  <2> DEFINE s == store[g].sid
  <2>1. /\ phase = "load" /\ phase' = "load" /\ store' = store
        /\ g \in toLoad /\ toLoad' = toLoad \ {g}
        /\ s # Absent /\ reg[s] = Absent
        /\ reg' = [reg EXCEPT ![s] = NewItem(store[g])]
    BY <1>1 DEF LoadGroupOk, GroupChecksOk, SensorIdOk
  <2>2. s \in SensorIds
    BY <2>1 DEF TypeOK, GroupRecs, Opt
  <2>3. NewItem(store[g]) # Absent
    BY <1>1, NewItemType, ConstantsAssumption
  <2>4. RegisteredIds' = RegisteredIds \cup {s}
    BY <2>1, <2>2, <2>3 DEF RegisteredIds, TypeOK
  <2>5. LoadedGroups' = LoadedGroups \cup {g} /\ g \notin LoadedGroups
    BY <2>1 DEF LoadedGroups
  <2>6. s \notin {store[h].sid : h \in LoadedGroups}
    BY <2>1, <2>2 DEF RegInv, RegisteredIds
  <2>7. \A h \in LoadedGroups : store[h].sid # s
    BY <2>6
  <2>8. QED
    BY <2>1, <2>4, <2>5, <2>7 DEF RegInv
<1>2. ASSUME NEW g \in Groups, LoadGroupFails(g) PROVE RegInv'
  BY <1>2 DEF LoadGroupFails, RegInv
<1>3. CASE LoadDone
  BY <1>3 DEF LoadDone, RegInv, LoadedGroups, RegisteredIds
<1>4. CASE Restart
  <2>1. LoadedGroups' = {} /\ phase' = "load"
    BY <1>4 DEF Restart, LoadedGroups
  <2>2. RegisteredIds' = {}
    BY <1>4 DEF Restart, RegisteredIds
  <2>3. QED
    BY <2>1, <2>2 DEF RegInv
<1>5. CASE UpdateOpenFails
  BY <1>5 DEF UpdateOpenFails, RegInv, LoadedGroups, RegisteredIds
<1>6. ASSUME NEW c \in Commands, UpdateNotFound(c) PROVE RegInv'
  <2>1. c \in CmdRecs
    BY ConstantsAssumption
  <2>2. RegisteredIds' = RegisteredIds
    BY <1>6, <2>1, UpdateRegistryIds DEF UpdateNotFound, RegisteredIds
  <2>3. QED
    BY <1>6, <2>2 DEF UpdateNotFound, RegInv, LoadedGroups
<1>7. ASSUME NEW c \in Commands, NEW g \in Groups, UpdateFound(c, g) PROVE RegInv'
  <2>1. c \in CmdRecs
    BY ConstantsAssumption
  <2>2. PICK schemaFail \in 0..4 : \E inj : FoundStep(c, g, schemaFail, inj)
    BY <1>7, FoundPick
  <2>3. PICK inj : FoundStep(c, g, schemaFail, inj)
    BY <2>2
  <2>4. \A h \in Groups : store'[h].sid = store[h].sid
    BY <2>1, <2>3, FoundGroup
  <2>5. RegisteredIds' = RegisteredIds /\ UNCHANGED <<phase, toLoad>>
    BY <2>1, <2>3, FoundRest, UpdateRegistryIds DEF RegisteredIds
  <2>6. QED
    BY <2>4, <2>5 DEF RegInv, LoadedGroups
<1>8. CASE UNCHANGED vars
  BY <1>8 DEF vars, RegInv, LoadedGroups, RegisteredIds
<1>9. QED
  BY <1>1, <1>2, <1>3, <1>4, <1>5, <1>6, <1>7, <1>8 DEF Next

(* After set_data_items has returned 0 and through every Updater call, the *)
(* registry holds one item per group of the file and no two groups share a *)
(* sensor id, for every file contents, command set and failure bound.      *)
THEOREM RegistryCorrect == Spec => []RegistryMatchesStore
<1>1. Init => IInv
  BY InitIInv
<1>2. IInv /\ [Next]_vars => IInv'
  <2> SUFFICES ASSUME IInv, [Next]_vars PROVE IInv'
    OBVIOUS
  <2>1. TypeOK'
    BY TypeStep DEF IInv
  <2>2. RegInv'
    BY RegStep
  <2>3. QED
    BY <2>1, <2>2 DEF IInv
<1>3. IInv => RegistryMatchesStore
  BY DEF IInv, RegInv, RegistryMatchesStore, LoadedGroups, StoredIds
<1>4. QED
  BY <1>1, <1>2, <1>3, PTL DEF Spec

-----------------------------------------------------------------------------
(* The strengthening of SchemaSynced: from the moment set_data_items has   *)
(* registered a group, the schema in the file and the schema in memory are *)
(* equal unless an Updater call on its sensor returned an error.           *)
SyncInv ==
    phase \in {"load", "run"} =>
        \A g \in LoadedGroups :
            store[g].sid \notin unsynced =>
                StoredSchema(store[g]) = reg[store[g].sid].schema

(* update_schema_data_item with no failing write stores the whole schema.  *)
LEMMA WriteSchemaAll ==
    ASSUME NEW r \in GroupRecs, NEW sch \in Schemas
    PROVE  StoredSchema(WriteSchema(r, sch, 4)) = sch
BY DEF WriteSchema, StoredSchema, SchemaKeys, GroupRecs, Schemas

(* An Updater call whose schema writes all succeeded leaves the command's  *)
(* schema in the file, whatever the event writes do.                       *)
LEMMA FoundSchema ==
    ASSUME TypeOK, NEW c \in CmdRecs, NEW g \in Groups, NEW inj,
           FoundStep(c, g, 0, inj)
    PROVE  StoredSchema(store'[g]) = c.schema
<1> DEFINE r1 == WriteSchema(store[g], c.schema, 4)
           stop == EventStop(c.schema.vt, c.event, inj)
<1>1. store' = [store EXCEPT ![g] = IF "UNREG" \in c.event.flags THEN r1
                                    ELSE WriteEvent(r1, c.schema.vt, c.event, inj)]
  BY DEF FoundStep
<1>2. store[g] \in GroupRecs /\ c.schema \in Schemas /\ c.event \in CmdEvents
  BY DEF TypeOK, CmdRecs, CmdEvents
<1>3. r1 \in GroupRecs /\ StoredSchema(r1) = c.schema
  <2>1. 4 \in 0..4
    OBVIOUS
  <2>2. r1 \in GroupRecs
    BY <1>2, <2>1, WriteSchemaType
  <2>3. StoredSchema(r1) = c.schema
    BY <1>2, WriteSchemaAll
  <2>4. QED
    BY <2>2, <2>3
<1>4. StoredSchema(WriteEvent(r1, c.schema.vt, c.event, inj)) = c.schema
  <2>1. stop - 1 \in 0..4
    BY EventStopRange
  <2>2. QED
    BY <1>2, <1>3, <2>1, EventWritesType, WriteEventIsEventWrites
<1>5. QED
  BY <1>1, <1>3, <1>4 DEF TypeOK

(* has_err covers every failed schema write, and unsynced only grows.      *)
LEMMA FoundUnsynced ==
    ASSUME NEW c, NEW g, NEW schemaFail, NEW inj, FoundStep(c, g, schemaFail, inj)
    PROVE  /\ unsynced \subseteq unsynced'
           /\ schemaFail # 0 => c.sid \in unsynced'
BY DEF FoundStep, UpdateHasErr

(* device_update_config_data_item touches only the command's sensor, and   *)
(* gives a registered one the command's schema.                            *)
LEMMA UpdateRegistryAt ==
    ASSUME TypeOK, NEW c \in CmdRecs
    PROVE  /\ \A s \in SensorIds \ {c.sid} : UpdateRegistry(c)[s] = reg[s]
           /\ reg[c.sid] # Absent => UpdateRegistry(c)[c.sid].schema = c.schema
BY DEF UpdateRegistry, TypeOK, CmdRecs

SyncIInv == IInv /\ SyncInv

(* Each step keeps the schema in the file and in memory equal for every    *)
(* registered sensor that no failed Updater call has touched.              *)
LEMMA SyncStep == SyncIInv /\ [Next]_vars => SyncInv'
<1> SUFFICES ASSUME TypeOK, RegInv, SyncInv, [Next]_vars PROVE SyncInv'
  BY DEF SyncIInv, IInv
<1>1. ASSUME NEW g \in Groups, LoadGroupOk(g) PROVE SyncInv'
  <2> DEFINE s == store[g].sid
  <2>1. /\ phase = "load" /\ phase' = "load" /\ store' = store
        /\ g \in toLoad /\ toLoad' = toLoad \ {g} /\ unsynced' = unsynced
        /\ reg[s] = Absent
        /\ reg' = [reg EXCEPT ![s] = NewItem(store[g])]
    BY <1>1 DEF LoadGroupOk, GroupChecksOk, SensorIdOk
  <2>2. s \in SensorIds
    BY <1>1 DEF LoadGroupOk, GroupChecksOk, SensorIdOk, TypeOK, GroupRecs, Opt
  <2>3. reg'[s].schema = StoredSchema(store[g])
    BY <2>1, <2>2 DEF TypeOK, NewItem
  <2>4. \A h \in LoadedGroups : store[h].sid # s
    BY <2>1, <2>2 DEF RegInv, RegisteredIds
  <2>5. \A h \in LoadedGroups : reg'[store[h].sid] = reg[store[h].sid]
    BY <2>1, <2>4 DEF TypeOK
  <2>6. LoadedGroups' = LoadedGroups \cup {g}
    BY <2>1 DEF LoadedGroups
  <2>7. QED
    BY <2>1, <2>3, <2>5, <2>6 DEF SyncInv
<1>2. ASSUME NEW g \in Groups, LoadGroupFails(g) PROVE SyncInv'
  BY <1>2 DEF LoadGroupFails, SyncInv
<1>3. CASE LoadDone
  BY <1>3 DEF LoadDone, SyncInv, LoadedGroups
<1>4. CASE Restart
  BY <1>4 DEF Restart, SyncInv, LoadedGroups
<1>5. CASE UpdateOpenFails
  BY <1>5 DEF UpdateOpenFails, SyncInv, LoadedGroups
<1>6. ASSUME NEW c \in Commands, UpdateNotFound(c) PROVE SyncInv'
  <2>1. c \in CmdRecs
    BY ConstantsAssumption
  <2>2. /\ phase = "run" /\ reg' = UpdateRegistry(c)
        /\ UNCHANGED <<store, phase, toLoad, unsynced>>
        /\ \A g \in Groups : store[g].sid # c.sid
    BY <1>6 DEF UpdateNotFound
  <2>3. \A g \in LoadedGroups : store[g].sid \in SensorIds
    BY <2>2 DEF RegInv, TypeOK, GroupRecs, Opt, LoadedGroups
  <2>4. \A g \in LoadedGroups : reg'[store[g].sid] = reg[store[g].sid]
    BY <2>1, <2>2, <2>3, UpdateRegistryAt DEF LoadedGroups
  <2>5. QED
    BY <2>2, <2>4 DEF SyncInv, LoadedGroups
<1>7. ASSUME NEW c \in Commands, NEW g \in Groups, UpdateFound(c, g) PROVE SyncInv'
  <2>1. c \in CmdRecs
    BY ConstantsAssumption
  <2>2. phase = "run" /\ store[g].sid = c.sid
    BY <1>7, FoundPick
  <2>3. PICK schemaFail \in 0..4 : \E inj : FoundStep(c, g, schemaFail, inj)
    BY <1>7, FoundPick
  <2>4. PICK inj : FoundStep(c, g, schemaFail, inj)
    BY <2>3
  <2>5. /\ \A h \in Groups \ {g} : store'[h] = store[h]
        /\ reg' = UpdateRegistry(c)
        /\ UNCHANGED <<phase, toLoad>>
    BY <2>1, <2>4, FoundGroup, FoundRest
  <2>6. LoadedGroups = Groups /\ LoadedGroups' = Groups
    BY <2>2, <2>5 DEF RegInv, LoadedGroups
  <2>7. \A h \in Groups : store[h].sid \in SensorIds
    BY <2>2, <2>6 DEF RegInv, TypeOK, GroupRecs, Opt
  <2>8. \A h \in Groups \ {g} : store[h].sid # c.sid
    BY <2>2, <2>6 DEF RegInv
  <2>9. unsynced \subseteq unsynced' /\ (schemaFail # 0 => c.sid \in unsynced')
    BY <2>4, FoundUnsynced
  <2>10. ASSUME NEW h \in Groups \ {g}, store'[h].sid \notin unsynced'
         PROVE StoredSchema(store'[h]) = reg'[store'[h].sid].schema
    <3>1. reg'[store[h].sid] = reg[store[h].sid]
      BY <2>1, <2>5, <2>7, <2>8, UpdateRegistryAt
    <3>2. QED
      BY <2>2, <2>5, <2>6, <2>9, <2>10, <3>1 DEF SyncInv
  <2>11. ASSUME store'[g].sid \notin unsynced'
         PROVE StoredSchema(store'[g]) = reg'[store'[g].sid].schema
    <3>1. store'[g].sid = c.sid
      BY <2>1, <2>2, <2>4, FoundGroup
    <3>2. schemaFail = 0
      BY <2>9, <2>11, <3>1
    <3>3. StoredSchema(store'[g]) = c.schema
      BY <2>1, <2>4, <3>2, FoundSchema
    <3>4. reg[c.sid] # Absent
      <4>1. c.sid \in StoredIds
        BY <2>2 DEF StoredIds
      <4>2. c.sid \in RegisteredIds
        BY <2>2, <2>6, <4>1 DEF RegInv, StoredIds
      <4>3. QED
        BY <4>2 DEF RegisteredIds
    <3>5. QED
      BY <2>1, <2>5, <3>1, <3>3, <3>4, UpdateRegistryAt
  <2>12. QED
    BY <2>5, <2>6, <2>10, <2>11 DEF SyncInv
<1>8. CASE UNCHANGED vars
  BY <1>8 DEF vars, SyncInv, LoadedGroups
<1>9. QED
  BY <1>1, <1>2, <1>3, <1>4, <1>5, <1>6, <1>7, <1>8 DEF Next

(* Whenever the schema set_data_items or an Updater call left in memory    *)
(* differs from the one in the file, some Updater call on that sensor has  *)
(* returned an error since the load, for every file and command set.       *)
THEOREM SchemaSyncedCorrect == Spec => []SchemaSynced
<1>1. Init => SyncIInv
  <2>1. Init => IInv
    BY InitIInv
  <2>2. Init => SyncInv
    BY DEF Init, SyncInv, LoadedGroups
  <2>3. QED
    BY <2>1, <2>2 DEF SyncIInv
<1>2. SyncIInv /\ [Next]_vars => SyncIInv'
  <2> SUFFICES ASSUME SyncIInv, [Next]_vars PROVE SyncIInv'
    OBVIOUS
  <2>1. TypeOK' /\ RegInv'
    BY TypeStep, RegStep DEF SyncIInv, IInv
  <2>2. SyncInv'
    BY SyncStep
  <2>3. QED
    BY <2>1, <2>2 DEF SyncIInv, IInv
<1>3. SyncIInv => SchemaSynced
  BY DEF SyncIInv, IInv, RegInv, SyncInv, SchemaSynced, LoadedGroups
<1>4. QED
  BY <1>1, <1>2, <1>3, PTL DEF Spec

-----------------------------------------------------------------------------
(* Every event flag of ev is backed in group r by its key, holding the     *)
(* value update_event_data_item writes for it.                             *)
EventsBacked(r, ev) ==
    \A k \in DOMAIN KeyFlag : KeyFlag[k] \in ev.flags => r[k] = EventValue(k, ev)

(* The strengthening of EventKeysWritten: from the moment set_data_items   *)
(* has registered a group, each event flag in memory is backed in the file *)
(* unless an Updater call on its sensor returned an error.                 *)
EventInv ==
    phase \in {"load", "run"} =>
        \A g \in LoadedGroups :
            store[g].sid \notin unsynced =>
                EventsBacked(store[g], reg[store[g].sid].event)

(* set_event: the event set_data_items registers is backed by the keys it *)
(* was read from; a stored CHANGE key holds EVENT_CHANGE_TRUE.             *)
LEMMA LoadedEventBacked ==
    ASSUME NEW r \in GroupRecs
    PROVE  EventsBacked(r, LoadedEvent(r))
<1> SUFFICES ASSUME NEW k \in DOMAIN KeyFlag, KeyFlag[k] \in LoadedEvent(r).flags
             PROVE  r[k] = EventValue(k, LoadedEvent(r))
  BY DEF EventsBacked
<1>1. KeyRead(r, k)
  BY DEF LoadedEvent, KeyFlag
<1>2. r[k] # Absent
  BY <1>1 DEF KeyRead
<1>3. QED
  BY <1>1, <1>2 DEF LoadedEvent, EventValue, KeyFlag, GroupRecs, Opt

(* update_schema_data_item writes only schema keys: the event keys keep    *)
(* backing what they backed.                                               *)
LEMMA WriteSchemaBacked ==
    ASSUME NEW r \in GroupRecs, NEW sch, NEW n \in 0..4, NEW ev,
           EventsBacked(r, ev)
    PROVE  EventsBacked(WriteSchema(r, sch, n), ev)
<1>1. \A k \in DOMAIN KeyFlag : WriteSchema(r, sch, n)[k] = r[k]
  BY DEF WriteSchema, SchemaKeys, KeyFlag, GroupRecs
<1>2. QED
  BY <1>1 DEF EventsBacked

(* update_event_data_item with no failing write backs every flag of the    *)
(* command's event.                                                        *)
LEMMA EventWritesAll ==
    ASSUME NEW r \in GroupRecs, NEW ev
    PROVE  EventsBacked(EventWrites(r, ev, 4), ev)
BY DEF EventsBacked, EventWrites, EventKeys, KeyFlag, GroupRecs

(* An Updater call that returned 0 on a registered sensor leaves every     *)
(* flag of the item's new event backed in the file: with                   *)
(* KNOT_EVT_FLAG_UNREGISTERED the event keys are not touched and the event *)
(* in memory is kept; without it every write of update_event_data_item     *)
(* succeeded.                                                              *)
LEMMA FoundEvents ==
    ASSUME TypeOK, NEW c \in CmdRecs, NEW g \in Groups, NEW schemaFail \in 0..4,
           NEW inj, FoundStep(c, g, schemaFail, inj),
           c.sid \notin unsynced', reg[c.sid] # Absent,
           EventsBacked(store[g], reg[c.sid].event)
    PROVE  EventsBacked(store'[g], reg'[c.sid].event)
<1> DEFINE unreg == "UNREG" \in c.event.flags
           r1 == WriteSchema(store[g], c.schema,
                             IF schemaFail = 0 THEN 4 ELSE schemaFail - 1)
           stop == EventStop(c.schema.vt, c.event, inj)
<1>1. schemaFail = 0 /\ (~unreg => stop = 5)
  <2>1. ~UpdateHasErr(schemaFail, ~unreg /\ stop < 5)
    BY DEF FoundStep
  <2>2. stop \in 1..5
    BY EventStopRange
  <2>3. QED
    BY <2>1, <2>2 DEF UpdateHasErr
<1>2. store'[g] = IF unreg THEN r1 ELSE WriteEvent(r1, c.schema.vt, c.event, inj)
  BY DEF FoundStep, TypeOK
<1>3. reg'[c.sid].event = IF unreg THEN reg[c.sid].event ELSE c.event
  BY DEF FoundStep, UpdateRegistry, TypeOK, CmdRecs
<1>4. r1 = WriteSchema(store[g], c.schema, 4) /\ store[g] \in GroupRecs
  BY <1>1 DEF TypeOK
<1>5. CASE unreg
  <2>1. 4 \in 0..4
    OBVIOUS
  <2>2. QED
    BY <1>2, <1>3, <1>4, <1>5, <2>1, WriteSchemaBacked
<1>6. CASE ~unreg
  <2>1. r1 \in GroupRecs
    <3>1. 4 \in 0..4 /\ c.schema \in Schemas
      BY DEF CmdRecs
    <3>2. QED
      BY <1>4, <3>1, WriteSchemaType
  <2>2. WriteEvent(r1, c.schema.vt, c.event, inj) = EventWrites(r1, c.event, 4)
    BY <1>1, <1>6, WriteEventIsEventWrites
  <2>3. QED
    BY <1>2, <1>3, <1>6, <2>1, <2>2, EventWritesAll
<1>7. QED
  BY <1>5, <1>6

EventIInv == IInv /\ EventInv

(* Each step keeps every event flag in memory backed in the file for every *)
(* registered sensor that no failed Updater call has touched.              *)
LEMMA EventStep == EventIInv /\ [Next]_vars => EventInv'
<1> SUFFICES ASSUME TypeOK, RegInv, EventInv, [Next]_vars PROVE EventInv'
  BY DEF EventIInv, IInv
<1>1. ASSUME NEW g \in Groups, LoadGroupOk(g) PROVE EventInv'
  <2> DEFINE s == store[g].sid
  <2>1. /\ phase = "load" /\ phase' = "load" /\ store' = store
        /\ g \in toLoad /\ toLoad' = toLoad \ {g} /\ unsynced' = unsynced
        /\ reg[s] = Absent
        /\ reg' = [reg EXCEPT ![s] = NewItem(store[g])]
    BY <1>1 DEF LoadGroupOk, GroupChecksOk, SensorIdOk
  <2>2. s \in SensorIds /\ store[g] \in GroupRecs
    BY <1>1 DEF LoadGroupOk, GroupChecksOk, SensorIdOk, TypeOK, GroupRecs, Opt
  <2>3. EventsBacked(store'[g], reg'[s].event)
    <3>1. reg'[s].event = LoadedEvent(store[g])
      BY <2>1, <2>2 DEF TypeOK, NewItem
    <3>2. QED
      BY <2>1, <2>2, <3>1, LoadedEventBacked
  <2>4. \A h \in LoadedGroups : store[h].sid # s
    BY <2>1, <2>2 DEF RegInv, RegisteredIds
  <2>5. \A h \in LoadedGroups : reg'[store[h].sid] = reg[store[h].sid]
    BY <2>1, <2>4 DEF TypeOK
  <2>6. LoadedGroups' = LoadedGroups \cup {g}
    BY <2>1 DEF LoadedGroups
  <2>7. QED
    BY <2>1, <2>3, <2>5, <2>6 DEF EventInv
<1>2. ASSUME NEW g \in Groups, LoadGroupFails(g) PROVE EventInv'
  BY <1>2 DEF LoadGroupFails, EventInv
<1>3. CASE LoadDone
  BY <1>3 DEF LoadDone, EventInv, LoadedGroups
<1>4. CASE Restart
  BY <1>4 DEF Restart, EventInv, LoadedGroups
<1>5. CASE UpdateOpenFails
  BY <1>5 DEF UpdateOpenFails, EventInv, LoadedGroups
<1>6. ASSUME NEW c \in Commands, UpdateNotFound(c) PROVE EventInv'
  <2>1. c \in CmdRecs
    BY ConstantsAssumption
  <2>2. /\ phase = "run" /\ reg' = UpdateRegistry(c)
        /\ UNCHANGED <<store, phase, toLoad, unsynced>>
        /\ \A g \in Groups : store[g].sid # c.sid
    BY <1>6 DEF UpdateNotFound
  <2>3. \A g \in LoadedGroups : store[g].sid \in SensorIds
    BY <2>2 DEF RegInv, TypeOK, GroupRecs, Opt, LoadedGroups
  <2>4. \A g \in LoadedGroups : reg'[store[g].sid] = reg[store[g].sid]
    BY <2>1, <2>2, <2>3, UpdateRegistryAt DEF LoadedGroups
  <2>5. QED
    BY <2>2, <2>4 DEF EventInv, LoadedGroups
<1>7. ASSUME NEW c \in Commands, NEW g \in Groups, UpdateFound(c, g) PROVE EventInv'
  <2>1. c \in CmdRecs
    BY ConstantsAssumption
  <2>2. phase = "run" /\ store[g].sid = c.sid
    BY <1>7, FoundPick
  <2>3. PICK schemaFail \in 0..4 : \E inj : FoundStep(c, g, schemaFail, inj)
    BY <1>7, FoundPick
  <2>4. PICK inj : FoundStep(c, g, schemaFail, inj)
    BY <2>3
  <2>5. /\ \A h \in Groups \ {g} : store'[h] = store[h]
        /\ reg' = UpdateRegistry(c)
        /\ UNCHANGED <<phase, toLoad>>
    BY <2>1, <2>4, FoundGroup, FoundRest
  <2>6. LoadedGroups = Groups /\ LoadedGroups' = Groups
    BY <2>2, <2>5 DEF RegInv, LoadedGroups
  <2>7. \A h \in Groups : store[h].sid \in SensorIds
    BY <2>2, <2>6 DEF RegInv, TypeOK, GroupRecs, Opt
  <2>8. \A h \in Groups \ {g} : store[h].sid # c.sid
    BY <2>2, <2>6 DEF RegInv
  <2>9. unsynced \subseteq unsynced'
    BY <2>4, FoundUnsynced
  <2>10. ASSUME NEW h \in Groups \ {g}, store'[h].sid \notin unsynced'
         PROVE EventsBacked(store'[h], reg'[store'[h].sid].event)
    <3>1. reg'[store[h].sid] = reg[store[h].sid]
      BY <2>1, <2>5, <2>7, <2>8, UpdateRegistryAt
    <3>2. QED
      BY <2>2, <2>5, <2>6, <2>9, <2>10, <3>1 DEF EventInv
  <2>11. ASSUME store'[g].sid \notin unsynced'
         PROVE EventsBacked(store'[g], reg'[store'[g].sid].event)
    <3>1. store'[g].sid = c.sid
      BY <2>1, <2>2, <2>4, FoundGroup
    <3>2. reg[c.sid] # Absent
      <4>1. c.sid \in RegisteredIds
        BY <2>2, <2>6 DEF RegInv
      <4>2. QED
        BY <4>1 DEF RegisteredIds
    <3>3. EventsBacked(store[g], reg[c.sid].event)
      BY <2>2, <2>6, <2>9, <2>11, <3>1 DEF EventInv
    <3>4. QED
      BY <2>1, <2>4, <2>11, <3>1, <3>2, <3>3, FoundEvents
  <2>12. QED
    BY <2>5, <2>6, <2>10, <2>11 DEF EventInv
<1>8. CASE UNCHANGED vars
  BY <1>8 DEF vars, EventInv, LoadedGroups
<1>9. QED
  BY <1>1, <1>2, <1>3, <1>4, <1>5, <1>6, <1>7, <1>8 DEF Next

(* Every event flag the registry holds for a sensor whose Updater calls    *)
(* all returned 0 is backed by its key in the file, holding the value in   *)
(* memory, for every file and command set and every failure bound.        *)
THEOREM EventKeysWrittenCorrect == Spec => []EventKeysWritten
<1>1. Init => EventIInv
  <2>1. Init => EventInv
    BY DEF Init, EventInv, LoadedGroups
  <2>2. QED
    BY <2>1, InitIInv DEF EventIInv
<1>2. EventIInv /\ [Next]_vars => EventIInv'
  <2> SUFFICES ASSUME EventIInv, [Next]_vars PROVE EventIInv'
    OBVIOUS
  <2>1. TypeOK' /\ RegInv'
    BY TypeStep, RegStep DEF EventIInv, IInv
  <2>2. EventInv'
    BY EventStep
  <2>3. QED
    BY <2>1, <2>2 DEF EventIInv, IInv
<1>3. EventIInv => EventKeysWritten
  BY DEF EventIInv, IInv, RegInv, EventInv, EventsBacked, EventValue,
         EventKeysWritten, LoadedGroups
<1>4. QED
  BY <1>1, <1>2, <1>3, PTL DEF Spec

=============================================================================
