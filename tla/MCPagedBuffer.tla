---------------------------- MODULE MCPagedBuffer ----------------------------
(***************************************************************************)
(* PagedBuffer for TLC.  Two values tell the floats apart; the page and    *)
(* row sizes come from the .cfg file so that rows both fit and straddle    *)
(* page borders, and the page limit is reached in the middle of a row.     *)
(* (LivePlot's instance, whose rows always fit, reaches it between two.)   *)
(***************************************************************************)
EXTENDS PagedBuffer
=============================================================================
