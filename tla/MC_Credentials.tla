--------------------------- MODULE MC_Credentials ---------------------------
(***************************************************************************)
(* Model-checking instance of Credentials: two issued pairs and one pair   *)
(* whose token is too long to store.                                       *)
(***************************************************************************)
EXTENDS Credentials

MCIds == {"i1", "i2"}
MCTokens == {"t1", "t2", "tlong"}
MCLongTokens == {"tlong"}
MCIssued == {<<"i1", "t1">>, <<"i2", "t2">>, <<"i2", "tlong">>}
=============================================================================
