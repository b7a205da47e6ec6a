---------------------------- MODULE MCRegistration ----------------------------
(***************************************************************************)
(* Registration for TLC: a host with a hotspot beside a VirtualBox         *)
(* network.  On Windows it announces itself to the hotspot; on Linux it    *)
(* takes the first private network for it, and the clients hear nothing.   *)
(***************************************************************************)
EXTENDS Registration

CONSTANTS c1, c2

MCClientNet == <<192, 168, 137>>

Hotspot == [up |-> TRUE, wireless |-> TRUE, addresses |-> <<<<192, 168, 137, 1>>>>]
Virtual == [up |-> TRUE, wireless |-> FALSE, addresses |-> <<<<192, 168, 56, 1>>>>]

MCMachines == [os : {"windows", "linux"}, adapters : {<<Virtual, Hotspot>>}]
=============================================================================
