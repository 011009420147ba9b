\* A successful command that drops the lower threshold leaves its key in the file.
CONSTANTS
    g1 = g1
    g2 = g2
    Absent = Absent
    Groups <- MCGroups
    SensorIds = {0, 1, 2}
    Names = {"n1", "n2", ""}
    BadNames = {""}
    TypeIds = {1, 2}
    Units = {1, 2}
    ValidSchemas <- MCValidSchemas
    InitGroups <- MCInitGood
    Commands <- MCDropLower
    MaxFailures = 0
SPECIFICATION Spec
INVARIANT RestartLoadsAfterCleanUpdates
