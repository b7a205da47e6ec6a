--------------------------- MODULE MCClientSession ---------------------------
(***************************************************************************)
(* ClientSession for TLC: two measurement threads, so that Start can be    *)
(* pressed while an earlier one runs.                                      *)
(***************************************************************************)
EXTENDS ClientSession

CONSTANTS w1, w2
=============================================================================
