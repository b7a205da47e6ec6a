----------------------------- MODULE MCAutosave -----------------------------
(***************************************************************************)
(* Autosave for TLC: pages of four floats and rows of three, so that rows  *)
(* straddle pages and several pages fill within the bound.                 *)
(***************************************************************************)
EXTENDS Autosave
=============================================================================
