\* device_start over good and refused files, storage never failing: it returns
\* 0 only on a fully loaded thing, and writes only inside thing.data_item.
\* device_start returns, so a state where nothing is enabled is its end.
CONSTANTS
    lg1 = lg1
    lg2 = lg2
    Absent = Absent
    Groups <- MCGroups
    SensorIds = {0, 1, 2}
    Names = {"n", "u", ""}
    BadNames = {""}
    TypeIds = {1, 2}
    Units = {1}
    ValidSchemas <- MCValidSchemasL
    SlaveIds = {0, 1}
    ValidSlaveIds = {1}
    RegValues = {0, 7}
    InitDevs <- MCDevs
    MaxFailures = 0
SPECIFICATION Spec
CHECK_DEADLOCK FALSE
INVARIANTS
    TypeOK
    WritesInBounds
    StartOkMeansLoaded
