--------------------------- MODULE MCSensorClient ---------------------------
(* Instances of SensorClient: blocks of two samples, a queue of three.      *)
EXTENDS SensorClient

MCBUFFERSIZE == 2
MCDATAQUEUE_SIZE == 3
=============================================================================
