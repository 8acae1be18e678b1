------------------------- MODULE MCSettingsPackage -------------------------
(* One host that is told apart from the others only by what it is given:   *)
(* the packages of the other hosts are the ones it exported itself with    *)
(* other settings, by a clock that is right or one revision ahead.         *)
EXTENDS SettingsPackage

MCOffsets == {0, 1}
=============================================================================
