----------------------------- MODULE MCTimeSync -----------------------------
(***************************************************************************)
(* TimeFit, and the TimeBuffer below it, for TLC: up to five echoes, so    *)
(* that the buffer grows twice, of timestamps that follow one another      *)
(* closely or late, with delays that may be longer than what is between    *)
(* two timestamps, and clock readings on both sides of the first integers  *)
(* that are no floats.                                                     *)
(***************************************************************************)
EXTENDS TimeFit
=============================================================================
