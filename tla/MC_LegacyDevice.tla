--------------------------- MODULE MC_LegacyDevice ---------------------------
(***************************************************************************)
(* Model-checking instances of LegacyDevice: two data-item groups and the  *)
(* configuration files device_start may find.                              *)
(***************************************************************************)
EXTENDS LegacyDevice, TLC

CONSTANTS lg1, lg2

MCGroups == {lg1, lg2}
MCValidSchemasL == {<<1, "INT", 1>>}

(* A data-item group as the device file stores it.                         *)
LGrp(id, name, tid, reg) ==
    [sid |-> id, name |-> name, vt |-> "INT", unit |-> 1, tid |-> tid,
     reg |-> reg, bit |-> 0]

(* The configuration files: thing name, slave id, modbus url, rabbit url   *)
(* and the two groups.                                                     *)
LDev(name, slave, rabbit, a, b) ==
    [name |-> name, slaveId |-> slave, modbusUrl |-> "u", rabbitUrl |-> rabbit,
     groups |-> (lg1 :> a @@ lg2 :> b)]

Item0 == LGrp(0, "n", 1, 7)
Item1 == LGrp(1, "n", 1, 7)

DevGood      == LDev("n", 1, "u", Item0, Item1)
DevSwapped   == LDev("n", 1, "u", Item1, Item0)
DevBadName   == LDev("", 1, "u", Item0, Item1)
DevNoRabbit  == LDev("n", 1, Absent, Item0, Item1)
DevBadSlave  == LDev("n", 0, "u", Item0, Item1)
DevIdTooBig  == LDev("n", 1, "u", Item0, LGrp(2, "n", 1, 7))
DevBadSchema == LDev("n", 1, "u", Item0, LGrp(1, "n", 2, 7))
DevNoName    == LDev("n", 1, "u", Item0, LGrp(1, Absent, 1, 7))
DevNoReg     == LDev("n", 1, "u", Item0, LGrp(1, "n", 1, Absent))

(* Files every one of whose refusals the code handles as spec 4.3 says.    *)
MCDevs == {DevGood, DevSwapped, DevBadName, DevNoRabbit, DevBadSlave,
           DevIdTooBig, DevBadSchema, DevNoName, DevNoReg}
(* A well-formed file, one lacking a register address, and one whose id   *)
(* equals the item count.                                                   *)
MCDevsFaults == {DevGood, DevNoReg, DevIdTooBig}
(* A group without its SCHEMA_SENSOR_ID key.                               *)
MCDevsNoSid == {LDev("n", 1, "u", Item0, LGrp(Absent, "n", 1, 7))}
(* The well-formed file alone.                                             *)
MCDevsGood == {DevGood}
=============================================================================
