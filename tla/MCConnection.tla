---------------------------- MODULE MCConnection ----------------------------
(***************************************************************************)
(* Instances of Connection for TLC.                                        *)
(***************************************************************************)
EXTENDS Connection

CONSTANTS d, o

Both == {d, o}
OnlyDefault == {d}
TwoSockets == 1..2
OneLoop == {1}
=============================================================================
