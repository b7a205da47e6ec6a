--------------------------- MODULE PackageChannel ---------------------------
(***************************************************************************)
(* What a client and the host promise each other of their connection: the  *)
(* packages of one side reach the other whole and in order, each once.     *)
(* The promise can be broken, without anyone being told; from then on      *)
(* anything may be taken for a package.                                    *)
(***************************************************************************)
EXTENDS Sequences, SequencesExt

CONSTANT Package

VARIABLES
  sent,        \* packages, in the order they were begun
  delivered,   \* packages read
  intact       \* the promise holds

Init == sent = <<>> /\ delivered = <<>> /\ intact = TRUE

Send ==
  /\ \E package \in Package : sent' = Append(sent, package)
  /\ intact' \in {intact, FALSE}
  /\ UNCHANGED delivered

Deliver ==
  /\ intact
  /\ Len(delivered) < Len(sent)
  /\ delivered' = Append(delivered, sent[Len(delivered) + 1])
  /\ UNCHANGED <<sent, intact>>

Break == intact' = FALSE /\ UNCHANGED <<sent, delivered>>

DeliverAnything ==
  /\ ~intact
  /\ delivered' = Append(delivered, Last(delivered'))
  /\ UNCHANGED <<sent, intact>>

Next == Send \/ Deliver \/ Break \/ DeliverAnything

Spec == Init /\ [][Next]_<<sent, delivered, intact>>
=============================================================================
