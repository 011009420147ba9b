------------------------ MODULE DataItemsRefinement ------------------------
(***************************************************************************)
(* The Loader and the Updater of properties.c implement SchemaRegistry     *)
(* under the mapping fileBar, memBar of DataItems.  Every step of the      *)
(* model maps to a step of the abstract specification or to a stutter      *)
(* (a storage_open failure changes neither the file nor the registry).     *)
(* Only the type invariant is needed: the sensor id of a group is never    *)
(* written, and the outcome of an Updater call (has_err) decides whether   *)
(* the step is an abstract UpdateSynced or UpdateFailed.                   *)
(***************************************************************************)
EXTENDS DataItemsProofs

(* The update request an Updater command carries.                          *)
Req(c) == [sid |-> c.sid, schema |-> c.schema]

(* update_schema_data_item writes a prefix of the schema keys: every key   *)
(* of the stored schema keeps its old value or takes the new one.          *)
LEMMA WriteSchemaMixed ==
    ASSUME NEW r \in GroupRecs, NEW sch \in Schemas, NEW n \in 0..4
    PROVE  StoredSchema(WriteSchema(r, sch, n)) \in SR!Mixed(StoredSchema(r), sch)
<1> DEFINE K == {SchemaKeys[i] : i \in 1..n}
<1>1. DOMAIN StoredSchema(r) = {"name", "vt", "unit", "tid"}
  BY DEF StoredSchema
<1>2. StoredSchema(WriteSchema(r, sch, n))
        = [k \in DOMAIN StoredSchema(r) |->
             IF k \in K THEN sch[k] ELSE StoredSchema(r)[k]]
  BY <1>1 DEF StoredSchema, WriteSchema, SchemaKeys, GroupRecs
<1>3. K \in SUBSET DOMAIN StoredSchema(r)
  BY <1>1 DEF SchemaKeys
<1>4. QED
  BY <1>2, <1>3 DEF SR!Mixed

(* Whatever writes of an Updater call fail, the schema it leaves in the    *)
(* group is a mix of the old one and the command's.                        *)
LEMMA FoundMixed ==
    ASSUME TypeOK, NEW c \in CmdRecs, NEW g \in Groups, NEW schemaFail \in 0..4,
           NEW inj, FoundStep(c, g, schemaFail, inj)
    PROVE  StoredSchema(store'[g]) \in SR!Mixed(StoredSchema(store[g]), c.schema)
<1> DEFINE n == IF schemaFail = 0 THEN 4 ELSE schemaFail - 1
           r1 == WriteSchema(store[g], c.schema, n)
           stop == EventStop(c.schema.vt, c.event, inj)
<1>1. store' = [store EXCEPT ![g] = IF "UNREG" \in c.event.flags THEN r1
                                    ELSE WriteEvent(r1, c.schema.vt, c.event, inj)]
  BY DEF FoundStep
<1>2. store[g] \in GroupRecs /\ c.schema \in Schemas /\ c.event \in CmdEvents
  BY DEF TypeOK, CmdRecs, CmdEvents
<1>3. n \in 0..4
  OBVIOUS
<1>4. r1 \in GroupRecs
  BY <1>2, <1>3, WriteSchemaType
<1>5. StoredSchema(r1) \in SR!Mixed(StoredSchema(store[g]), c.schema)
  BY <1>2, <1>3, WriteSchemaMixed
<1>6. StoredSchema(WriteEvent(r1, c.schema.vt, c.event, inj)) = StoredSchema(r1)
  <2>1. stop - 1 \in 0..4
    BY EventStopRange
  <2>2. QED
    BY <1>2, <1>4, <2>1, EventWritesType, WriteEventIsEventWrites
<1>7. QED
  BY <1>1, <1>5, <1>6 DEF TypeOK

(* device_update_config_data_item, seen through memBar, is SetSchema.      *)
LEMMA UpdateRegistryMem ==
    ASSUME TypeOK, NEW c \in CmdRecs, reg' = UpdateRegistry(c)
    PROVE  memBar' = SR!SetSchema(c.sid, c.schema)
<1>1. c.sid \in SensorIds /\ c.schema \in Schemas
  BY DEF CmdRecs
<1>2. CASE reg[c.sid] = Absent
  <2>1. reg' = reg
    BY <1>2 DEF UpdateRegistry
  <2>2. memBar[c.sid] = Absent
    BY <1>1, <1>2 DEF memBar
  <2>3. QED
    BY <2>1, <2>2 DEF memBar, SR!SetSchema
<1>3. CASE reg[c.sid] # Absent
  <2>1. reg[c.sid].schema \in Schemas
    BY <1>1, <1>3 DEF TypeOK, Items
  <2>2. memBar[c.sid] # Absent
    BY <1>1, <1>3, <2>1, ConstantsAssumption DEF memBar
  <2>3. reg'[c.sid] # Absent /\ reg'[c.sid].schema = c.schema
    <3>1. reg'[c.sid].schema = c.schema
      BY <1>1, <1>3 DEF UpdateRegistry, TypeOK
    <3>2. reg'[c.sid] \in Items
      BY <1>1, <1>3, UpdateRegistryItem
    <3>3. reg'[c.sid] # Absent
      BY <3>2, ConstantsAssumption
    <3>4. QED
      BY <3>1, <3>3
  <2>4. \A s \in SensorIds \ {c.sid} : reg'[s] = reg[s]
    BY UpdateRegistryAt
  <2>5. memBar' = [memBar EXCEPT ![c.sid] = c.schema]
    BY <1>1, <2>3, <2>4 DEF memBar
  <2>6. QED
    BY <2>2, <2>5 DEF SR!SetSchema
<1>4. QED
  BY <1>2, <1>3
(* The initial states of the model are initial states of SchemaRegistry:   *)
(* every group of the file holds a sensor id or none and a schema whose    *)
(* keys may be missing, and the registry starts empty.                    *)
LEMMA InitRefines == Init => SR!Init
<1> SUFFICES ASSUME Init PROVE SR!Init
  OBVIOUS
<1>1. \A g \in Groups : store[g] \in GroupRecs
  BY ConstantsAssumption DEF Init
<1>2. fileBar \in [Groups -> SR!FileRecs]
  BY <1>1 DEF fileBar, SR!FileRecs, FileSchemaRecs, StoredSchema, GroupRecs, Opt
<1>3. memBar = [s \in SensorIds |-> Absent]
  BY DEF Init, memBar
<1>4. QED
  BY <1>2, <1>3 DEF Init, SR!Init

(* An Updater call on a group that stores the command's sensor id changes  *)
(* the file in that group's schema only.                                   *)
LEMMA FoundFile ==
    ASSUME TypeOK, NEW c \in CmdRecs, NEW g \in Groups, NEW schemaFail \in 0..4,
           NEW inj, FoundStep(c, g, schemaFail, inj)
    PROVE  fileBar' = [fileBar EXCEPT ![g].schema = StoredSchema(store'[g])]
<1>1. /\ store'[g].sid = store[g].sid
      /\ \A h \in Groups \ {g} : store'[h] = store[h]
      /\ store' \in [Groups -> GroupRecs]
  BY FoundGroup
<1>2. QED
  BY <1>1 DEF fileBar

(* set_data_items registering group g is an abstract Load(g).              *)
LEMMA LoadOkRefines ==
    ASSUME TypeOK, NEW g \in Groups, LoadGroupOk(g)
    PROVE  SR!Load(g)
<1> DEFINE s == store[g].sid
<1>1. /\ phase = "load" /\ g \in toLoad /\ toLoad' = toLoad \ {g}
      /\ reg[s] = Absent /\ reg' = [reg EXCEPT ![s] = NewItem(store[g])]
      /\ UNCHANGED <<store, phase, unsynced>>
  BY DEF LoadGroupOk, GroupChecksOk, SensorIdOk
<1>2. s \in SensorIds
  BY DEF LoadGroupOk, GroupChecksOk, SensorIdOk, TypeOK, GroupRecs, Opt
<1>3. NewItem(store[g]) \in Items /\ NewItem(store[g]).schema = StoredSchema(store[g])
  BY NewItemType DEF NewItem
<1>4. NewItem(store[g]) # Absent
  BY <1>3, ConstantsAssumption
<1>5. fileBar' = fileBar /\ fileBar[g].sid = s /\ fileBar[g].schema = StoredSchema(store[g])
  BY <1>1 DEF fileBar
<1>6. memBar[s] = Absent
  BY <1>1, <1>2 DEF memBar
<1>7. memBar' = [memBar EXCEPT ![s] = StoredSchema(store[g])]
  BY <1>1, <1>2, <1>3, <1>4 DEF memBar, TypeOK
<1>8. QED
  BY <1>1, <1>2, <1>5, <1>6, <1>7 DEF SR!Load

(* An Updater call on the group that stores the command's sensor id is an  *)
(* abstract UpdateSynced when it returns 0 and UpdateFailed when has_err   *)
(* is set.                                                                 *)
LEMMA FoundRefines ==
    ASSUME TypeOK, NEW c \in CmdRecs, NEW g \in Groups, UpdateFound(c, g)
    PROVE  SR!UpdateSynced(Req(c), g) \/ SR!UpdateFailed(Req(c), g)
<1>1. PICK schemaFail \in 0..4 : \E inj : FoundStep(c, g, schemaFail, inj)
  BY FoundPick
<1>2. PICK inj : FoundStep(c, g, schemaFail, inj)
  BY <1>1
<1> DEFINE unreg == "UNREG" \in c.event.flags
           stop == EventStop(c.schema.vt, c.event, inj)
           err == UpdateHasErr(schemaFail, ~unreg /\ stop < 5)
<1>3. /\ phase = "run" /\ store[g].sid = c.sid
      /\ UNCHANGED <<phase, toLoad>>
  BY <1>2, FoundPick, FoundRest
<1>4. memBar' = SR!SetSchema(c.sid, c.schema)
  BY <1>2, FoundRest, UpdateRegistryMem
<1>5. fileBar' = [fileBar EXCEPT ![g].schema = StoredSchema(store'[g])]
  BY <1>2, FoundFile
<1>6. fileBar[g].sid = c.sid /\ fileBar[g].schema = StoredSchema(store[g])
  BY <1>3 DEF fileBar
<1>7. unsynced' = IF err THEN unsynced \cup {c.sid} ELSE unsynced
  BY <1>2 DEF FoundStep
<1>8. CASE err
  <2>1. StoredSchema(store'[g]) \in SR!Mixed(fileBar[g].schema, c.schema)
    BY <1>2, <1>6, FoundMixed
  <2>2. SR!UpdateFailed(Req(c), g)
    BY <1>3, <1>4, <1>5, <1>6, <1>7, <1>8, <2>1 DEF SR!UpdateFailed, Req
  <2>3. QED
    BY <2>2
<1>9. CASE ~err
  <2>1. schemaFail = 0
    BY <1>9 DEF UpdateHasErr
  <2>2. StoredSchema(store'[g]) = c.schema
    BY <1>2, <2>1, FoundSchema
  <2>3. SR!UpdateSynced(Req(c), g)
    BY <1>3, <1>4, <1>5, <1>6, <1>7, <1>9, <2>2 DEF SR!UpdateSynced, Req
  <2>4. QED
    BY <2>3
<1>10. QED
  BY <1>8, <1>9

(* Every step of the Loader, the Updater or a restart is a step of          *)
(* SchemaRegistry or leaves the file and the registry as they were.        *)
LEMMA StepRefines == TypeOK /\ [Next]_vars => [SR!Next]_SR!vars
<1> SUFFICES ASSUME TypeOK, [Next]_vars PROVE [SR!Next]_SR!vars
  OBVIOUS
<1>1. ASSUME NEW g \in Groups, LoadGroupOk(g) PROVE SR!Next
  BY <1>1, LoadOkRefines DEF SR!Next
<1>2. ASSUME NEW g \in Groups, LoadGroupFails(g) PROVE SR!Next
  <2>1. SR!LoadFails
    BY <1>2 DEF LoadGroupFails, SR!LoadFails, fileBar, memBar
  <2>2. QED
    BY <2>1 DEF SR!Next
<1>3. CASE LoadDone
  <2>1. SR!LoadDone
    BY <1>3 DEF LoadDone, SR!LoadDone, fileBar, memBar
  <2>2. QED
    BY <2>1 DEF SR!Next
<1>4. CASE Restart
  <2>1. SR!Restart
    BY <1>4 DEF Restart, SR!Restart, fileBar, memBar
  <2>2. QED
    BY <2>1 DEF SR!Next
<1>5. CASE UpdateOpenFails
  BY <1>5 DEF UpdateOpenFails, SR!vars, fileBar, memBar
<1>6. ASSUME NEW c \in Commands, UpdateNotFound(c) PROVE SR!Next
  <2>1. c \in CmdRecs /\ Req(c) \in {[sid |-> d.sid, schema |-> d.schema] : d \in Commands}
    BY ConstantsAssumption DEF Req
  <2>2. memBar' = SR!SetSchema(c.sid, c.schema)
    BY <1>6, <2>1, UpdateRegistryMem DEF UpdateNotFound
  <2>3. SR!UpdateMemOnly(Req(c))
    BY <1>6, <2>2 DEF UpdateNotFound, SR!UpdateMemOnly, Req, fileBar
  <2>4. QED
    BY <2>1, <2>3 DEF SR!Next
<1>7. ASSUME NEW c \in Commands, NEW g \in Groups, UpdateFound(c, g) PROVE SR!Next
  <2>1. c \in CmdRecs /\ Req(c) \in {[sid |-> d.sid, schema |-> d.schema] : d \in Commands}
    BY ConstantsAssumption DEF Req
  <2>2. SR!UpdateSynced(Req(c), g) \/ SR!UpdateFailed(Req(c), g)
    BY <1>7, <2>1, FoundRefines
  <2>3. QED
    BY <2>1, <2>2 DEF SR!Next
<1>8. CASE UNCHANGED vars
  BY <1>8 DEF vars, SR!vars, fileBar, memBar
<1>9. QED
  BY <1>1, <1>2, <1>3, <1>4, <1>5, <1>6, <1>7, <1>8 DEF Next

(* The Loader and the Updater of properties.c, with any storage writes     *)
(* failing and restarts at any time, implement SchemaRegistry under the    *)
(* mapping fileBar, memBar.                                                *)
THEOREM RefinesSchemaRegistry == Spec => SchemaRegistrySpec
<1>1. Init => SR!Init
  BY InitRefines
<1>2. TypeOK /\ [Next]_vars => [SR!Next]_SR!vars
  BY StepRefines
<1>3. QED
  BY <1>1, <1>2, TypeCorrect, PTL DEF Spec, SchemaRegistrySpec, SR!Spec

=============================================================================
