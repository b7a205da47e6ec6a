------------------------------- MODULE RowLog -------------------------------
(***************************************************************************)
(* What the measurement buffer of one client promises its readers (the     *)
(* plot, the autosave, the CSV export): the recorded rows are an           *)
(* append-only log.  A row, once visible, never changes and never goes     *)
(* away, and rows become visible one at a time.                            *)
(***************************************************************************)
EXTENDS Sequences

CONSTANT Row       \* the values one row (one sample of every channel) can take

VARIABLE log       \* the rows visible to the readers, oldest first

Init == log = <<>>

Record(r) == log' = Append(log, r)

Next == \E r \in Row : Record(r)

Spec == Init /\ [][Next]_log
=============================================================================
