------------------------------ MODULE MCLivePlot ------------------------------
(***************************************************************************)
(* LivePlot for TLC: two channels and the time in pages of two rows, so    *)
(* that the table fills up between two rows.  20.01 and -30 lie outside of *)
(* the default range of 20; of the typed ranges one is lost in the         *)
(* rounding and one is empty.                                              *)
(***************************************************************************)
EXTENDS LivePlot

MCValue == {0, 2001, -3000}
MCSamples == {<<0, 0, 0>>, <<2001, 0, 0>>, <<0, -3000, 0>>}
MCTypedRanges == {[min |-> 20010, max |-> 20040], [min |-> 500, max |-> 500]}
=============================================================================
