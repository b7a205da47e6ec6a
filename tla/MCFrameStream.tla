--------------------------- MODULE MCFrameStream ---------------------------
(***************************************************************************)
(* FrameStream for TLC: payloads of two bytes.                             *)
(***************************************************************************)
EXTENDS FrameStream
=============================================================================
