\* One failed schema write leaves a mixed schema in the file.
CONSTANTS
    g1 = g1
    g2 = g2
    Absent = Absent
    Groups <- MCGroups
    SensorIds = {0, 1, 2}
    Names = {"n1", "n2", ""}
    BadNames = {""}
    TypeIds = {1, 2}
    Units = {1, 2}
    ValidSchemas <- MCValidIntSchemas
    InitGroups <- MCInitGood
    Commands <- MCSchemaOnly
    MaxFailures = 1
SPECIFICATION Spec
INVARIANT StoreStaysLoadable
