\* device_start with one failing storage_open anywhere: no write goes past the last slot.
CONSTANTS
    lg1 = lg1
    lg2 = lg2
    Absent = Absent
    Groups <- MCGroups
    SensorIds = {0, 1, 2}
    Names = {"n", "u", ""}
    BadNames = {""}
    TypeIds = {1, 2}
    Units = {1}
    ValidSchemas <- MCValidSchemasL
    SlaveIds = {0, 1}
    ValidSlaveIds = {1}
    RegValues = {0, 7}
    InitDevs <- MCDevsFaults
    MaxFailures = 1
SPECIFICATION Spec
CHECK_DEADLOCK FALSE
INVARIANTS
    OobBelowZero
