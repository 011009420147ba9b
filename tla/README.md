# Formal models of knot-virtualthing's configuration and credential handling

This directory holds TLA+ models of the persistent-state logic of knot-virtualthing:
- `src/unnamed/part_000` is `properties.c`.
- `src/src/device.c` is the legacy device loader.

TLC model-checks the models on small instances. TLAPS proves theorems about the Loader and Updater, the credential manager and the legacy loader for every value of the constants.

## The system and its parts

| Part | Code | What it does | Model |
|---|---|---|---|
| Validation rules | `valid_bit_size`, `set_limit`, `get_*_limit`; the library's `knot_event_is_valid` and `knot_schema_is_valid` | decide whether a data item read from the file is acceptable | `KnotRules` |
| Loader | `set_data_items` with `set_sensor_id`, `set_schema`, `set_event`, `set_data_properties`; called from `set_thing_properties` at start | builds the in-memory registry of data items from the groups of the device file | `DataItems`, `DataItemsProofs`, `SchemaRegistry`, `DataItemsRefinement` |
| Updater | `properties_update_data_item` with `update_schema_data_item`, `update_event_data_item`, `equal_sensor_id` | applies a configuration command from the cloud, first to memory and then to the file | `DataItems`, `DataItemsProofs`, `SchemaRegistry`, `DataItemsRefinement` |
| Registry | `device_update_config_data_item`, `device_set_new_data_item`, `device_data_item_lookup` (thing `device.c`, not in `src/`) | sensor id to item | `DataItems`, `DataItemsProofs`, modelled from spec §8 |
| Credential manager | `properties_store_credentials`, `properties_clear_credentials`, `erase_thing_*`, `set_thing_credentials` | keeps the thing id and token in a file and in memory | `Credentials`, `CredentialsProofs` |
| Thing, driver and cloud properties | `set_thing_name`, `set_driver_*`, `set_cloud_properties` | one-shot reads of strings and integers at start | not modelled |
| Legacy loader | `device_start`, `device_set_properties`, `set_thing_name`, `set_rabbit_mq_url`, `set_modbus_slave_properties`, `set_data_items` with `get_sensor_id`, `valid_sensor_id`, `set_schema`, `set_config`, `set_modbus_source_properties` (`src/src/device.c`) | an older start path that reads the thing, the cloud URL, the Modbus slave and one data item per group into the global `thing` | `LegacyDevice`, `LegacyDeviceProofs` |

The parts interact through two files:
- **The device file.** The Loader reads it at every start. The Updater rewrites it one key at a time while the device runs.
- **The credentials file.** Store and clear write it. `set_thing_credentials` reads it at the next start.
- **The legacy loader** only reads its files. Each helper opens the file itself, and every error path but one returns without closing it.

The hard behaviours are:
- a storage write or open that fails partway through a multi-key update;
- the in-memory registry being changed before the file;
- a restart that reloads whatever the file then holds;
- reads whose result is ignored (uninitialized values).

## Modules

- **`KnotRules`.** Pure operators:
  - `BitSizeTable` and `ValidBitSize` are the switch of `valid_bit_size`.
  - `LimitTypes` is the set of value types for which `set_limit`/`get_*_limit` do not return `-EINVAL`.
  - `EventIsValid` is `knot_event_is_valid`. It is in the KNoT library and is modelled from spec §4.1.
- **`DataItems`.**
  - State:
    - `store`: the device file, a group maps to a record of keys, each a value or `Absent`;
    - `reg`: the registry;
    - `phase`: load, run or failed;
    - `toLoad`: groups the Loader has not yet visited;
    - `failures`: storage failures so far;
    - `unsynced`: sensors for which an Updater call returned an error since the last load;
    - `lastRc`: the Updater's last return value.
  - Actions:
    - `LoadGroupOk(g)` and `LoadGroupFails(g)` are one iteration of the `set_data_items` loop, in any group order.
    - `LoadDone` is the loop's exit.
    - `Restart` is a new start: the registry is lost.
    - `UpdateOpenFails` is `storage_open` failing.
    - `UpdateNotFound(c)` handles the case where no group carries the command's sensor id.
    - `UpdateFound(c, g)` is the whole Updater call. It covers the in-memory update, the schema writes with any one of them failing, and the event writes with an injected failure or `set_limit`'s refusal of RAW. It also covers the inverted `storage_has_unit` test of the unset flags and `has_err`.
  - Nondeterminism from the code:
    - The reads in `set_data_properties` whose result is ignored become nondeterministic outcomes (`DataOutcomes`).
    - The group order of `get_data_item_groups` is left unspecified.
  - The refinement mapping: `fileBar` maps each group to its sensor id and its four schema keys, and `memBar` maps each sensor id to the schema of its registered item, or `Absent`. `SR` is `SchemaRegistry` instantiated with them, and `SchemaRegistrySpec == SR!Spec`.
- **`SchemaRegistry`.** The abstract specification of what the Loader and the Updater promise about schemas, with no keys, events or storage faults.
  - State: `file` (group to sensor id and schema), `mem` (sensor id to schema or `Absent`), and `phase`, `toLoad`, `unsynced` as in `DataItems`.
  - `Load(g)` registers a group's schema under an id not yet registered.
  - `LoadFails`, `LoadDone` and `Restart` are the loop's failure and exit, and a new start.
  - An update request `q` changes the schema of a registered id in memory (`SetSchema`). It then does one of three things:
    - `UpdateMemOnly(q)`: no group stores the id, and the file is untouched;
    - `UpdateSynced(q, g)`: the one group that stores it gets the new schema;
    - `UpdateFailed(q, g)`: every schema key of that group is left old or new (`Mixed`), and the id goes into `unsynced`.
  - No action writes a group's sensor id.
- **`DataItemsRefinement`.** The TLAPS proof that `DataItems` implements `SchemaRegistry`.
- **`Credentials`.**
  - State:
    - `cred`: the file;
    - `mem`: the thing's copy;
    - `phase`;
    - `failures`;
    - `lastRc`;
    - `lastClear`: whether the last clear opened the file and which erases it tried.
  - Actions:
    - `StoreTokenTooLong` and `StoreCredentials` cover the five outcomes of the store call: success, and failure of the open, of the token write, of the id write, or of the id write and the rollback.
    - `ClearCredentials` covers success, open failure, token erase failure and id erase failure.
    - `StoreCrashes` is the process dying between the token write and the id write of the store call (at most `MaxCrashes` times). The file keeps the new token; the phase becomes `"down"`.
    - `Restart` is `set_thing_credentials`, or a failure to open the file. It is the only way out of `"down"`.
- **`LegacyDevice`.**
  - State:
    - `dev`: the device and rabbit files, which this path never writes;
    - `pc`: the helper `device_start` is in; `"done"` once it returned, `"crashed"` if the process died;
    - `thing`: the global thing's name, cloud URL and slave;
    - `items`: `thing.data_item`, one slot per group;
    - `oob`: the indices written outside `thing.data_item`;
    - `toVisit`, `cur`, `sid`: the `set_data_items` loop: groups not yet visited, the current group, its sensor id;
    - `fds`: descriptors opened and never closed;
    - `failures`: failed `storage_open` calls;
    - `rc`: what `device_start` returned.
  - Actions: one per helper (`SetThingName`, `SetRabbitMqUrl`, `SetModbusSlaveProperties`), the loop's open (`SetDataItemsOpen`), iteration (`NextGroup`), and the four calls of the loop body (`GetSensorId`, `SetSchema`, `SetConfig`, `SetModbusSourceProperties`). Each one includes the `if (rc == -EINVAL) return rc;` test of `device_set_properties` that follows it (`Proceed`).
  - What is modelled from the code:
    - Every `if (!rc) return -EINVAL;` after a read is a branch, and every early return that skips `storage_close` increments `fds` (`Leak`).
    - `get_sensor_id` returns `storage_open`'s error code as the sensor id.
    - `set_data_items` does not check its `storage_open`. What storage then returns for the count and the group list is not in this repository. The model lets `malloc` fail (`-EINVAL`) or the NULL list be dereferenced (`"crashed"`).
    - A write `thing.data_item[i]` with `i` outside the slots goes to `oob` instead of memory.
- **`DataItemsProofs`.** The TLAPS proofs for the Loader and the Updater.
- **`LegacyDeviceProofs`.** The TLAPS proofs for the legacy loader.
- **`CredentialsProofs`.** The TLAPS proofs.
- **`MC_DataItems`, `MC_Credentials` and `MC_LegacyDevice`.** The model values and the small sets the `.cfg` files substitute.

`PROJECT.json`'s `map` names the source lines each definition translates.

## Runs

| Run (cfg) | Expect | Checks | Shows |
|---|---|---|---|
| `DataItems.cfg` | pass | `TypeOK`, `RegistryMatchesStore`, `SchemaSynced`, `EventKeysWritten`, `SchemaRegistrySpec` | see below |
| `StaleEventKey.cfg` | violation | `RestartLoadsAfterCleanUpdates` | see below |
| `ValueTypeChange.cfg` | violation | `RestartLoadsAfterCleanUpdates` | see below |
| `PartialSchemaWrite.cfg` | violation | `StoreStaysLoadable` | see below |
| `Credentials.cfg` | pass | `TypeOK`, `CredPairConsistentUnderOneFault`, `MemoryFollowsFile` | see below |
| `RollbackFails.cfg` | violation | `CredPairConsistent` | see below |
| `ClearStopsEarly.cfg` | violation | `ClearAttemptsBoth` | see below |
| `CrashMidStore.cfg` | violation | `CredPairConsistent` | see below |
| `LegacyDevice.cfg` | pass | `TypeOK`, `WritesInBounds`, `StartOkMeansLoaded` | see below |
| `LegacyFaults.cfg` | pass | `OobBelowZero` | see below |
| `LegacyNoSensorId.cfg` | violation | `WritesInBounds` | see below |
| `LegacyOpenIgnored.cfg` | violation | `StartOkMeansLoaded` | see below |

What each run shows:
- **`DataItems.cfg`.**
  - After every load, the registry holds exactly the file's sensor ids, with no duplicates, whatever the group order.
  - Memory and file agree on schema and event keys for every sensor whose updates all returned 0.
  - Every behaviour is a behaviour of `SchemaRegistry` under `fileBar`/`memBar` (`SchemaRegistrySpec`, checked as a temporal property).
- **`StaleEventKey.cfg`.** A command that sets only the upper threshold returns 0. The stale lower threshold stays in the file, and the next start refuses the group. This is the inverted `storage_has_unit` test (`part_000:796`).
- **`ValueTypeChange.cfg`.** INT→FLOAT on a 16-bit register returns 0, and the next start refuses the group in `valid_bit_size`.
- **`PartialSchemaWrite.cfg`.** One failed schema write leaves a mixed schema that `knot_schema_is_valid` refuses.
- **`Credentials.cfg`.**
  - While at most one storage operation has failed, the file never holds a token without its id.
  - Memory only ever changes to what the file holds.
- **`RollbackFails.cfg`.** The rollback at `part_000:942` is unchecked. When it fails too, a token is left with the old id.
- **`ClearStopsEarly.cfg`.** A failed token erase skips the id erase, contrary to spec §4.5.
- **`CrashMidStore.cfg`.** No storage operation fails, but the process dies once between the two writes of the store call. The next start loads the new token with the old id. The storage has no multi-key transactions (spec §1), and the rollback only covers a failed id write.
- **`LegacyDevice.cfg`.** Nine device files, no failing open: the start path is well typed, every write lands inside `thing.data_item`, and a return of 0 means the thing and every group's item are loaded into the slot of its sensor id.
- **`LegacyFaults.cfg`.** One `storage_open` may fail anywhere, and one group's id equals the item count.
  - No write goes past the last slot: `valid_sensor_id`'s `>=` test holds. The writes that do escape are at negative indices, the error codes `get_sensor_id` returns as ids (`OobBelowZero`).
- **`LegacyNoSensorId.cfg`.** A group without a sensor-id key: `get_sensor_id` returns `-EINVAL`, `valid_sensor_id` accepts it, and `thing.data_item[-22]` is written (`device.c:139`).
- **`LegacyOpenIgnored.cfg`.** A failed open makes a helper return `storage_open`'s negative error code, not `-EINVAL`, and `device_set_properties` only tests for `-EINVAL` (`device.c:364`). `device_start` returns 0 with the thing half loaded.

Each property of a passing run has a mutant in `PROJECT.json`: a plausible bug in the mapped code that TLC then catches.
- A dropped duplicate-id lookup.
- `has_err` not set on a failed schema write.
- The lower limit written as the upper threshold.
- The rollback dropped.
- Memory cleared when an erase write fails.
- `set_event` without its `memset`, so an unread threshold or period is not zeroed (type invariant).
- The `if (!rc)` test after an integer read dropped (legacy).
- `valid_sensor_id` comparing with `>` instead of `>=`.
- The `rc == -EINVAL` test of `device_set_properties` dropped.

### Bounds

**DataItems runs.**
- Instance:
  - two groups;
  - sensor ids {0, 1, 2};
  - two names plus the empty (bad) name;
  - two type ids and two units;
  - three valid schemas, one of them RAW.
- Initial group contents:
  - two loadable groups;
  - a group with a schema the library refuses;
  - a group with lower > upper;
  - a group with no bit-size key, which is uninitialized;
  - a group with an empty name.
- With two groups drawn from these, both duplicate ids and every Loader error path are reached.
- Five commands cover:
  - dropping a threshold;
  - a schema-only change (UNREG);
  - switching to RAW with a threshold, which `set_limit` refuses;
  - TIME with CHANGE;
  - an unknown sensor.
- `MaxFailures = 1` lets every single write fail. A second failure adds no new interleaving of the one-call Updater.

**Credentials runs.**
- Two issued pairs, one of them with an over-long token.
- `MaxFailures = 2`, so that the double failure inside one store call is reachable.
- `MaxCrashes = 1` in the passing run and in `CrashMidStore.cfg`: one crash is all it takes, and the crash always happens inside one call.

**Legacy runs.**
- Two groups, sensor ids {0, 1, 2}, so that an id equal to the count (2) is reachable.
- The device files are built in `MC_LegacyDevice` one per error path: a good file, swapped ids, a bad name, no rabbit URL, a bad slave id, an id too big, a refused schema, no name, no register key, and (in `LegacyNoSensorId.cfg`) no sensor id.
- `MaxFailures = 1` in the fault runs. Every open of the path is one call, so one failure reaches every open failure in turn.

### Fairness

`DataItems` and `Credentials` assume none: their runs check safety only.

`LegacyDevice` assumes none either. Its loop runs over a finite set of groups that shrinks at every iteration (`i++` at `device.c:308`), so termination would hold by the shape of the loop and is not stated as a property.

## Proofs (TLAPS)

### `CredentialsProofs`

All three theorems hold for every `Ids`, `Tokens`, `LongTokens`, `Issued` and `MaxFailures` satisfying `CredAssumption`:
- `Empty` is not an id or a token.
- `Issued ⊆ Ids × Tokens`.
- `MaxFailures ∈ Nat` and `MaxCrashes ∈ Nat`.

The theorems are:
- **`TypeCorrect`: `Spec => []TypeOK`.** The step lemma `TypeStep` has one step per action. Small lemmas (`EraseKeyType`, `SetTokenType`, `InitCredsType`, `StoreResultsType`) give the types of the records each action writes.
- **`PairConsistentUnderOneFault`: `Spec => []CredPairConsistentUnderOneFault`.** The property alone is not inductive, because it says nothing about a state with more failures. The inductive invariant is `IInv == TypeOK /\ CredPairConsistentUnderOneFault`. It works because `failures` and `crashes` never decrease: at most one failure and no crash after a step means the same before it, one failure is not enough for the double-failure disjunct, and a crash step makes the property vacuous. For every action, the proof shows the new file is one of the following:
  - the issued pair;
  - the old file;
  - a record whose token is `Empty`.
- **`MemoryFollows`: `Spec => MemoryFollowsFile`.** The lemma `MemStepHolds` shows that every step satisfies the step predicate, given `TypeOK`. The theorem combines it with `TypeCorrect` by PTL.

### `DataItemsProofs`

All four theorems hold for every file contents, command set and failure bound satisfying `ConstantsAssumption`:
- `Absent` is not an integer, a name, an item or a schema. The registry's "no item" is a NULL pointer, never a record.
- The ids, type ids and units are integers, and `ValidSchemas ⊆ TypeIds × ValueTypes × Units`.
- `InitGroups` and `Commands` are well-formed records, and `MaxFailures ∈ Nat`.

The theorems are:
- **`TypeCorrect`: `Spec => []TypeOK`.** The step lemma `TypeStep` has one step per action.
  - `UpdateFound` is named once its two choices are made: `FoundStep(c, g, schemaFail, inj)`, with the lemma `FoundPick` extracting them.
  - `EventStop` picks the first failing event write with `CHOOSE`. The lemma `EventStopRange` shows it lies in `1..5`. `WriteEvent` is then restated as `EventWrites(r, ev, n)` with `n ∈ 0..4` (`WriteEventIsEventWrites`).
  - Lemmas give the results of the write operators: `WriteSchemaType` and `EventWritesType` (both keep `sid` and the record type; the event writes keep the schema), `FoundGroup`, `FoundRest`, `UpdateRegistryType` and `NewItemType`.
- **`RegistryCorrect`: `Spec => []RegistryMatchesStore`.** The property speaks only of the run phase, so it says nothing about the loop that leads there. The strengthening `RegInv` holds during the load too:
  - the registered ids are exactly the sensor ids of the groups the loop has visited (`LoadedGroups`);
  - none of those ids is `Absent`, and no two are equal;
  - the run phase starts only with every group visited.

  Why each step keeps it:
  - `LoadGroupOk` adds a new id, because `set_sensor_id`'s lookup found it unregistered.
  - `Restart` empties both sides.
  - The Updater neither adds nor removes an id (`UpdateRegistryIds`) and never changes a group's `sid` (`FoundGroup`).
- **`SchemaSyncedCorrect`: `Spec => []SchemaSynced`.** The strengthening `SyncInv` states the property for the visited groups during the load too. It relies on `RegInv`'s distinct ids: an Updater call on one sensor leaves every other sensor's registry entry and group unchanged (`UpdateRegistryAt`). For the sensor it touches:
  - either `has_err` put it in `unsynced` (`FoundUnsynced`);
  - or no schema write failed, and the whole schema is in the file (`WriteSchemaAll`) and in memory, whatever the event writes did (`FoundSchema`).
- **`EventKeysWrittenCorrect`: `Spec => []EventKeysWritten`.** The strengthening `EventInv` states, for visited groups, that every flag of the item's event is backed by its key (`EventsBacked`). Why each step keeps it:
  - At load, `set_event` read every flag it sets from its key, and a stored CHANGE key holds 1 (`LoadedEventBacked`).
  - An Updater call that returned 0 either carries `KNOT_EVT_FLAG_UNREGISTERED`: the schema writes leave the event keys alone (`WriteSchemaBacked`) and memory keeps its event.
  - Or it wrote every event key without failing (`EventWritesAll`) (`FoundEvents`).

The proofs use `RegInv` as the common base: `IInv == TypeOK /\ RegInv`, `SyncIInv == IInv /\ SyncInv`, `EventIInv == IInv /\ EventInv`.

### `DataItemsRefinement`

- **`RefinesSchemaRegistry`: `Spec => SchemaRegistrySpec`.** It holds under the same `ConstantsAssumption`. It follows the standard refinement argument:
  - `InitRefines`: the initial states map to initial states of `SchemaRegistry`.
  - `StepRefines`: given `TypeOK`, every step maps to a `SchemaRegistry` step or to a stutter. The QED step combines the two with `TypeCorrect` by PTL.
- No invariant beyond `TypeOK` is needed:
  - The abstract `Load` asks for an unregistered id, which `set_sensor_id`'s lookup already checked.
  - The abstract updates name the group by its id, which the concrete guard `store[g].sid = c.sid` gives.
- Each action maps as follows:
  - `LoadGroupOk(g)` is `Load(g)` (`LoadOkRefines`).
  - `LoadGroupFails`, `LoadDone` and `Restart` map one to one.
  - `UpdateOpenFails` is a stutter: only `failures` and `lastRc` change, and the abstraction hides both.
  - `UpdateNotFound(c)` is `UpdateMemOnly`.
  - `UpdateFound(c, g)` is `UpdateSynced` when `has_err` stays false and `UpdateFailed` otherwise (`FoundRefines`).
- The lemmas behind `FoundRefines`:
  - `UpdateRegistryMem`: `device_update_config_data_item`, seen through `memBar`, is `SetSchema`.
  - `FoundFile`: the call changes only the matching group's schema.
  - `FoundSchema`: with no failed schema write, the file holds the command's schema.
  - `WriteSchemaMixed` and `FoundMixed`: a prefix of the schema writes, followed by any event writes, leaves each schema key old or new.

### `LegacyDeviceProofs`

All four theorems hold for every set of groups, keys and values satisfying `LegacyAssumption`:
- `Groups` is finite and non-empty;
- the integer keys are integers;
- `Absent` is neither an integer, a name nor a slave pair;
- `MaxFailures ∈ Nat`.

The theorems are:
- **`TypeCorrect`: `Spec => []TypeOK`.**
- **`WritesNeverPastEnd`: `Spec => []OobBelowZero`.**
- **`WritesInBoundsWhenWellFormed`.** Under `StorageNeverFails` (no `storage_open` fails) and `IdsNatural` (every group of every possible file holds a non-negative `SCHEMA_SENSOR_ID`), `Spec => []WritesInBounds`.
- **`StartOkWhenWellFormed`.** Under those two and `IdsDistinct` (no two groups of a file share an id), `Spec => []StartOkMeansLoaded`.

The hypotheses of the last two are exactly the conditions that the violation runs and the model show are needed:
- An open failure returns an errno as a sensor id (`legacy_faults` shows it lands below slot 0), or is ignored by `device_set_properties` (`legacy_open_error_ignored`).
- A missing id is read as `-EINVAL` (`legacy_missing_sensor_id`).
- A duplicated id lets the later group overwrite the earlier one's slot.

`legacy_main`'s instance satisfies all three. The theorems say the loader is correct on every other input, for any number of groups.

`TypeCorrect` and `WritesNeverPastEnd` rest on one inductive invariant, `IInv == TypeOK /\ LoopInv /\ OobBelowZero`.
- `TypeOK` alone is not inductive: `set_schema` reads `dev.groups[cur]` and writes slot `sid`, and `TypeOK` allows `cur = Absent`.
- `LoopInv` says that from `get_sensor_id` on, `cur` is a group, and from `set_schema` on, `sid` is an integer below the item count. `valid_sensor_id` established that.
- With `LoopInv`, a write to slot `sid` is either inside the array or at an index `i < NItems` that is not in `0..NItems-1`, so `i < 0`.
- There is one lemma per action (`NameStep` … `SourceStep`). Each splits the action into its branches (open failure, refusal, success). Small lemmas (`WriteSlotType`, `WriteSlotBelowZero`, `SlotWrite`, `CheckStep`) cover the slot write.

The conditional theorems add two strengthenings.
- **`BoundInv`.** The files are one of `InitDevs` (`DevConstant`: nothing writes them), `oob` is empty, and from `set_schema` on, `sid` is a natural number.
- **`LoadInv`**, the loop invariant of `device_start`:
  - `rc = -EINVAL` only once `device_start` has returned;
  - each helper that got past `-EINVAL` has set its part of `thing`;
  - every group whose iteration has ended (`Finished`) has its complete `LoadedItem` in the slot of its id;
  - the current slot holds the fields the iteration has written so far (sensor id, then schema, then config);
  - returning 0 means no group is left to visit.

  `KeepFinished` shows that a write to the current group's slot leaves every finished group's slot alone, because the ids are distinct. `LoadSourceStep` shows that the fourth write makes the current item equal to `LoadedItem` and moves its group to `Finished`.

### What stays with TLC only

- The DataItems properties that TLC shows violated (`RestartLoadsAfterCleanUpdates`, `StoreStaysLoadable`). The six that hold are proved, the refinement included.
- The legacy properties on the inputs where TLC shows them violated. They are proved under the hypotheses that exclude those inputs.
- Liveness: none is stated. Had one been, TLAPS could not prove it under fairness here.
- Anything about recursive definitions.

## Not modelled, and plan

- **The thing, driver and cloud reads at start.** They share no state with the other operations beyond "the start fails".
- **Two legacy defects without a run.**
  - Every early return of a helper leaves its descriptor open (`fds` counts them, e.g. an empty thing name at `device.c:349`).
  - Two groups with one sensor id make the second overwrite the first's slot while `device_start` returns 0.

  Both are in the model, but no run's property states them. `StartOkWhenWellFormed` needs `IdsDistinct` for the second reason.
- **In the legacy loader**, `assign_limit` and the threshold values of `set_config` are abstracted to "config set": `set_config` cannot fail except at its open. `device_destroy` only frees memory. The string length checks against the protocol limits are left out; the names are model values.
- **A crash inside the clear call.** The token erase comes first, so a crash after it leaves an id without a token, which `PairConsistent` allows; it is not modelled.
- **Planned next:**
  - an abstract specification of the event keys next to `SchemaRegistry`, for the flags left unset (the `storage_has_unit` defect); it would refine only on the commands that set every flag;
  - action properties of the legacy loader (a finished group's slot is never written again).
- **Out of scope.** The storage engine, the KNoT library and the transports are not in this repository. They enter the models only through the results the code checks.
