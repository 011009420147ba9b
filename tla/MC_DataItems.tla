---------------------------- MODULE MC_DataItems ----------------------------
(***************************************************************************)
(* Model-checking instances of DataItems: the group contents a device      *)
(* file may start with, and the configuration commands the cloud sends.    *)
(***************************************************************************)
EXTENDS DataItems

CONSTANTS g1, g2

MCGroups == {g1, g2}

(* A group as the file stores it.                                          *)
Grp(sid, name, vt, unit, tid, time, change, lower, upper, addr, bits) ==
    [sid |-> sid, name |-> name, vt |-> vt, unit |-> unit, tid |-> tid,
     time |-> time, change |-> change, lower |-> lower, upper |-> upper,
     addr |-> addr, bits |-> bits]

(* Loadable groups: an INT item with a lower threshold, and one with an    *)
(* upper threshold, a period and the change flag.                          *)
Good0 == Grp(0, "n1", "INT", 1, 1, Absent, Absent, 1, Absent, "ok", 16)
Good1 == Grp(1, "n1", "INT", 1, 1, 5, 1, Absent, 3, "ok", 16)
(* Groups the Loader must refuse, or may refuse.                           *)
BadSchema1 == Grp(1, "n1", "INT", 1, 2, Absent, Absent, Absent, Absent, "ok", 16)
BadEvent1  == Grp(1, "n1", "INT", 1, 1, Absent, Absent, 3, 1, "ok", 16)
NoBits1    == Grp(1, "n2", "INT", 1, 1, Absent, Absent, Absent, Absent, "ok", Absent)
BadName1   == Grp(1, "", "INT", 1, 1, Absent, Absent, Absent, Absent, "ok", 16)

MCInitGroups == {Good0, Good1, BadSchema1, BadEvent1, NoBits1, BadName1}
(* Only loadable, distinct groups: every start loads.                      *)
MCInitGood == {Good0, Good1}

Sch(name, vt, unit, tid) == [name |-> name, vt |-> vt, unit |-> unit, tid |-> tid]
Ev(flags, lower, upper, time) ==
    [flags |-> flags, lower |-> lower, upper |-> upper, time |-> time]
Cmd(sid, sch, ev) == [sid |-> sid, schema |-> sch, event |-> ev]

MCValidSchemas == {<<1, "INT", 1>>, <<2, "INT", 2>>, <<2, "RAW", 2>>}
(* Schemas that keep the value type INT.                                   *)
MCValidIntSchemas == {<<1, "INT", 1>>, <<2, "INT", 2>>}

(* The commands of the main run: a new upper threshold that drops the      *)
(* lower one, a schema-only change, a switch to RAW with a threshold       *)
(* (set_limit refuses it), a period and change flag, an unknown sensor.    *)
MCCommands ==
    { Cmd(0, Sch("n2", "INT", 1, 1), Ev({"UPPER"}, 0, 2, 0)),
      Cmd(1, Sch("n1", "INT", 2, 2), Ev({"UNREG"}, 0, 0, 0)),
      Cmd(0, Sch("n1", "RAW", 2, 2), Ev({"LOWER"}, 0, 0, 0)),
      Cmd(1, Sch("n1", "INT", 1, 1), Ev({"TIME", "CHANGE"}, 0, 0, 5)),
      Cmd(2, Sch("n1", "INT", 1, 1), Ev({"CHANGE"}, 0, 0, 0)) }

(* A command that moves the upper threshold below the stored lower one and *)
(* drops the lower one.                                                    *)
MCDropLower == { Cmd(0, Sch("n1", "INT", 1, 1), Ev({"UPPER"}, 0, 0, 0)) }

(* A command that changes the value type from INT to FLOAT, schema only.   *)
MCToFloat == { Cmd(0, Sch("n1", "FLOAT", 1, 1), Ev({"UNREG"}, 0, 0, 0)) }
MCValidFloat == {<<1, "INT", 1>>, <<1, "FLOAT", 1>>}

(* Schema-only commands that move a sensor between two valid schemas.      *)
MCSchemaOnly ==
    { Cmd(0, Sch("n1", "INT", 2, 2), Ev({"UNREG"}, 0, 0, 0)),
      Cmd(1, Sch("n1", "INT", 2, 2), Ev({"UNREG"}, 0, 0, 0)) }
=============================================================================
