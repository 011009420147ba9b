\* The Loader and the Updater with one storage failure: registry, schema and
\* event keys stay consistent with the device file.
CONSTANTS
    g1 = g1
    g2 = g2
    Absent = Absent
    Groups <- MCGroups
    SensorIds = {0, 1, 2}
    Names = {"n1", "n2", ""}
    BadNames = {""}
    TypeIds = {1, 2}
    Units = {1, 2}
    ValidSchemas <- MCValidSchemas
    InitGroups <- MCInitGroups
    Commands <- MCCommands
    MaxFailures = 1
SPECIFICATION Spec
INVARIANTS
    TypeOK
    RegistryMatchesStore
    SchemaSynced
    EventKeysWritten
PROPERTIES
    SchemaRegistrySpec
