----------------------------- MODULE MCSetting -----------------------------
(***************************************************************************)
(* Setting for TLC: integers of two to four bits, so that values and texts *)
(* reach beyond every range.                                               *)
(***************************************************************************)
EXTENDS Setting

MCBits == [t \in IntTypes |-> CASE t \in {"uint8", "uint8_hex"} -> 2
                                [] t \in {"uint32", "int32"}    -> 3
                                [] t = "uint64"                 -> 4]
MCNumbers == -8..7
MCTyped   == -9..17
MCOptions == {0, 1, 3}
=============================================================================
