\* A successful schema change from INT to FLOAT keeps the 16-bit register size.
CONSTANTS
    g1 = g1
    g2 = g2
    Absent = Absent
    Groups <- MCGroups
    SensorIds = {0, 1, 2}
    Names = {"n1", "n2", ""}
    BadNames = {""}
    TypeIds = {1, 2}
    Units = {1, 2}
    ValidSchemas <- MCValidFloat
    InitGroups <- MCInitGood
    Commands <- MCToFloat
    MaxFailures = 0
SPECIFICATION Spec
INVARIANT RestartLoadsAfterCleanUpdates
