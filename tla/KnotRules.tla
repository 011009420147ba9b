----------------------------- MODULE KnotRules -----------------------------
(***************************************************************************)
(* The validation rules shared by the Loader and the Updater of            *)
(* properties.c: the value types of a schema, the bit-size table of        *)
(* valid_bit_size and the event-validity rule of the KNoT library          *)
(* (knot_event_is_valid, which is not in this repository and is modelled   *)
(* from spec section 4.1).  Numbers are the stored integers; the value     *)
(* types are the names of the KNOT_VALUE_TYPE_* enumerators.               *)
(***************************************************************************)
EXTENDS Integers

ValueTypes == {"INT", "FLOAT", "BOOL", "RAW", "INT64", "UINT", "UINT64"}

(* The value types storage can read a threshold as: get_lower_limit and    *)
(* get_upper_limit return -EINVAL for RAW, set_limit refuses to write it.  *)
LimitTypes == ValueTypes \ {"RAW"}

(* The event flags of knot_event.event_flags.                              *)
ThresholdFlags == {"LOWER", "UPPER"}
EventFlags == ThresholdFlags \cup {"TIME", "CHANGE"}
CmdFlags == EventFlags \cup {"UNREG"}

(* valid_bit_size: the value types each register width may carry; any     *)
(* other bit size is refused by the switch's default branch.               *)
BitSizeTable ==
    [b \in {1, 8, 16, 32, 64} |->
        CASE b = 1  -> {"BOOL"}
          [] b = 8  -> {"BOOL", "INT", "UINT"}
          [] b = 16 -> {"INT", "UINT"}
          [] b = 32 -> {"INT", "UINT", "FLOAT"}
          [] b = 64 -> {"INT64", "UINT64", "FLOAT"}]

ValidBitSize(bitSize, valueType) ==
    /\ bitSize \in DOMAIN BitSizeTable
    /\ valueType \in BitSizeTable[bitSize]

(* knot_event_is_valid: no threshold on a RAW value, a positive period     *)
(* with the TIME flag, and lower < upper when both thresholds are set.     *)
(* ev is a record [flags, lower, upper, time].                             *)
EventIsValid(ev, valueType) ==
    /\ valueType = "RAW" => ev.flags \cap ThresholdFlags = {}
    /\ "TIME" \in ev.flags => ev.time > 0
    /\ ThresholdFlags \subseteq ev.flags => ev.lower < ev.upper
=============================================================================
