--------------------------- MODULE AutosaveProofs ---------------------------
(***************************************************************************)
(* Proofs about Autosave for every page size, row size, number of rows and *)
(* of echoed timestamps.                                                   *)
(***************************************************************************)
EXTENDS Autosave, SequenceTheorems, TLAPS

-----------------------------------------------------------------------------
(* Pages and rows.                                                         *)

\* The number of full pages, and of rows in some pages, are numbers.
LEMMA Counts ==
  /\ \A w \in Nat : w * FloatNumber \in Nat
                    /\ (w * FloatNumber) \div FloatsPerPage \in Nat
  /\ \A p \in Nat : RowsIn(p) \in Nat
  BY AutosaveAssumption DEF RowsIn

\* More rows fill no fewer pages.
LEMMA PagesGrow ==
  ASSUME NEW w \in Nat, NEW n \in Nat
  PROVE  (w * FloatNumber) \div FloatsPerPage
           <= ((w + n) * FloatNumber) \div FloatsPerPage
  <1>1. (w + n) * FloatNumber = w * FloatNumber + n * FloatNumber
        /\ w * FloatNumber \in Nat /\ n * FloatNumber \in Nat
    BY AutosaveAssumption
  <1>2. \A a, b \in Nat : a \div FloatsPerPage <= (a + b) \div FloatsPerPage
    BY AutosaveAssumption
  <1> QED BY <1>1, <1>2

\* Rows that lie in full pages were recorded.
LEMMA RowsInFullPages ==
  ASSUME NEW w \in Nat, NEW p \in Nat, p <= (w * FloatNumber) \div FloatsPerPage
  PROVE  RowsIn(p) <= w
  <1>1. FloatsPerPage \in Nat \ {0} /\ FloatNumber \in Nat \ {0}
    BY AutosaveAssumption
  <1> DEFINE floats == w * FloatNumber
             full == floats \div FloatsPerPage
  <1>2. floats \in Nat /\ full \in Nat /\ full * FloatsPerPage <= floats
    BY <1>1
  <1>3. p * FloatsPerPage <= full * FloatsPerPage
    <2> HIDE DEF full
    <2> DEFINE d == full - p
    <2>1. d \in Nat /\ full = p + d
      BY <1>2 DEF full
    <2> HIDE DEF d
    <2>2. full * FloatsPerPage = p * FloatsPerPage + d * FloatsPerPage
          /\ d * FloatsPerPage \in Nat /\ p * FloatsPerPage \in Nat
      BY <1>1, <2>1
    <2> QED BY <2>2
  <1>4. p * FloatsPerPage \in Nat /\ p * FloatsPerPage <= w * FloatNumber
    BY <1>1, <1>2, <1>3
  <1>5. \A x \in Nat : x <= w * FloatNumber => x \div FloatNumber <= w
    BY <1>1
  <1> QED BY <1>4, <1>5 DEF RowsIn

\* Appending the rows from a on to the rows before a gives the rows before b.
LEMMA AppendedRows ==
  ASSUME NEW a \in Nat, NEW b \in Nat, a <= b
  PROVE  /\ Rows(a) \o [i \in 1..(b - a) |-> a + i - 1] = Rows(b)
         /\ Rows(b) \in Seq(Nat)
         /\ Len(Rows(b)) = b
  <1> DEFINE new == [i \in 1..(b - a) |-> a + i - 1]
  <1>1. Rows(a) \in Seq(Nat) /\ Len(Rows(a)) = a
    BY DEF Rows
  <1>2. Rows(b) \in Seq(Nat) /\ Len(Rows(b)) = b
    BY DEF Rows
  <1>3. new \in Seq(Nat) /\ Len(new) = b - a
    <2>1. b - a \in Nat
      OBVIOUS
    <2> QED BY <2>1
  <1>4. \A i \in 1..b : (Rows(a) \o new)[i] = Rows(b)[i]
    <2> SUFFICES ASSUME NEW i \in 1..b
                 PROVE  (Rows(a) \o new)[i] = i - 1
      BY DEF Rows
    <2>1. CASE i <= a
      <3>1. (Rows(a) \o new)[i] = Rows(a)[i]
        BY <1>1, <1>3, <2>1, ConcatProperties
      <3> QED BY <3>1, <2>1 DEF Rows
    <2>2. CASE ~(i <= a)
      <3>1. (Rows(a) \o new)[i] = new[i - a]
        BY <1>1, <1>3, <2>2, ConcatProperties
      <3>2. i - a \in 1..(b - a) /\ a + (i - a) - 1 = i - 1
        BY <2>2
      <3>3. new[i - a] = a + (i - a) - 1
        BY <3>2
      <3> HIDE DEF new
      <3> QED BY <3>1, <3>2, <3>3
    <2> QED BY <2>1, <2>2
  <1> HIDE DEF new
  <1>5. Rows(a) \o new \in Seq(Nat) /\ Len(Rows(a) \o new) = b
    <2>1. \A s, t \in Seq(Nat) : s \o t \in Seq(Nat) /\ Len(s \o t) = Len(s) + Len(t)
      BY ConcatProperties
    <2>2. Len(Rows(a) \o new) = a + (b - a)
      BY <1>1, <1>3, <2>1
    <2> QED BY <1>1, <1>3, <2>1, <2>2
  <1>6. Rows(a) \o new = Rows(b)
    BY <1>2, <1>4, <1>5, SeqEqual
  <1> QED BY <1>2, <1>6 DEF new

-----------------------------------------------------------------------------
LEMMA InitEstablishes == Init => IInv
  <1> SUFFICES ASSUME Init PROVE IInv
    OBVIOUS
  <1>1. Rows(0) = <<>> /\ Len(<<>>) = 0 /\ <<>> \in Seq(Nat)
    BY DEF Rows
  <1>2. full_pages \in Nat
    BY Counts DEF Init, full_pages
  <1>3. TypeOK
    BY <1>1 DEF Init, TypeOK
  <1>4. FileIsPrefix
    BY <1>1 DEF Init, FileIsPrefix
  <1>5. HandedPagesFull
    BY <1>2 DEF Init, HandedPagesFull
  <1>6. PendingHasCallback
    BY DEF Init, PendingHasCallback
  <1> QED BY <1>3, <1>4, <1>5, <1>6 DEF Init, IInv

\* Rows only get more: what was a recorded prefix stays one.
LEMMA StoreStep ==
  ASSUME IInv, NEW n \in 0..MaxRows, StoreRows(n)
  PROVE  IInv'
  <1>1. n \in Nat /\ write_index \in Nat /\ write_index' = write_index + n
    BY AutosaveAssumption DEF IInv, TypeOK, StoreRows
  <1>2. full_pages <= full_pages' /\ full_pages \in Nat /\ full_pages' \in Nat
    <2>1. \A w, k \in Nat : (w * FloatNumber) \div FloatsPerPage
                               <= ((w + k) * FloatNumber) \div FloatsPerPage
      BY PagesGrow
    <2>2. full_pages' = ((write_index + n) * FloatNumber) \div FloatsPerPage
      BY <1>1 DEF full_pages
    <2>3. write_index + n \in Nat
      BY <1>1
    <2>4. full_pages \in Nat
      BY <1>1, Counts DEF full_pages
    <2>5. full_pages' \in Nat
      BY <2>2, <2>3, Counts
    <2>6. full_pages <= full_pages'
      BY <1>1, <2>1, <2>2 DEF full_pages
    <2> QED BY <2>4, <2>5, <2>6
  <1>3. TypeOK'
    <2>1. redraws' \in Nat
      BY DEF IInv, TypeOK, StoreRows
    <2> QED BY <1>1, <2>1 DEF IInv, TypeOK, StoreRows, handoff, saved, rest
  <1>4. HandedPagesFull'
    BY <1>2 DEF IInv, TypeOK, HandedPagesFull, StoreRows, handoff
  <1>5. FileIsPrefix' /\ PendingHasCallback'
    BY <1>1 DEF IInv, TypeOK, FileIsPrefix, PendingHasCallback, StoreRows,
                handoff, saved, rest
  <1> QED BY <1>3, <1>4, <1>5 DEF IInv, StoreRows, handoff, saved, rest

\* The handoff: pages before flag, flag only when nothing is pending.
LEMMA HandoffStep ==
  ASSUME IInv, \/ StoreEcho \/ Redraw \/ CheckPages \/ SetPages \/ QueueCallback \/ ThreadEnds
               \/ Disconnect \/ ExportPressed \/ ExportCancelled \/ RemoveJoined
               \/ UNCHANGED vars
  PROVE  IInv'
  <1>1. full_pages \in Nat
    BY Counts DEF IInv, TypeOK, full_pages
  <1>2. write_index' = write_index /\ full_pages' = full_pages
        /\ UNCHANGED saved
    BY DEF StoreEcho, Redraw, CheckPages, SetPages, QueueCallback, ThreadEnds, Disconnect,
           ExportPressed, ExportCancelled, RemoveJoined, vars, recorded, full_pages
  <1>3. FileIsPrefix'
    BY <1>2 DEF IInv, FileIsPrefix, saved
  <1>4. (~autosave_initialized => autosave_last_written_row = 0)'
    BY <1>2 DEF IInv, saved
  <1>5. CASE StoreEcho
    BY <1>2, <1>3, <1>4, <1>5 DEF IInv, TypeOK, HandedPagesFull, PendingHasCallback,
       StoreEcho, handoff, saved, rest
  <1>6. CASE CheckPages
    BY <1>2, <1>3, <1>4, <1>6 DEF IInv, TypeOK, HandedPagesFull, PendingHasCallback,
       CheckPages, recorded, handoff, saved, rest
  <1>7. CASE SetPages
    BY <1>1, <1>2, <1>3, <1>4, <1>7 DEF IInv, TypeOK, HandedPagesFull,
       PendingHasCallback, SetPages, recorded, handoff, saved, rest
  <1>8. CASE QueueCallback
    BY <1>1, <1>2, <1>3, <1>4, <1>8 DEF IInv, TypeOK, HandedPagesFull,
       PendingHasCallback, QueueCallback, recorded, handoff, saved, rest
  <1>9. CASE ThreadEnds
    BY <1>2, <1>3, <1>4, <1>9 DEF IInv, TypeOK, HandedPagesFull, PendingHasCallback,
       ThreadEnds, recorded, handoff, saved, rest
  <1>10. CASE Disconnect \/ ExportPressed \/ ExportCancelled \/ RemoveJoined
    <2>1. UNCHANGED <<worker, handoff>>
      BY <1>10 DEF Disconnect, ExportPressed, ExportCancelled, RemoveJoined
    <2>2. TypeOK'
      <3>1. CASE Disconnect
        BY <3>1 DEF IInv, TypeOK, Disconnect, recorded, worker, handoff, saved
      <3>2. CASE ExportPressed
        BY <3>2 DEF IInv, TypeOK, ExportPressed, recorded, worker, handoff, saved
      <3>3. CASE ExportCancelled
        BY <3>3 DEF IInv, TypeOK, ExportCancelled, recorded, worker, handoff, saved
      <3>4. CASE RemoveJoined
        BY <3>4 DEF IInv, TypeOK, RemoveJoined, recorded, worker, handoff, saved
      <3> QED BY <1>10, <3>1, <3>2, <3>3, <3>4
    <2>3. HandedPagesFull'
      BY <1>2, <2>1 DEF IInv, HandedPagesFull, handoff
    <2>4. tab' = "live" => tab = "live"
      BY <1>10 DEF Disconnect, ExportPressed, ExportCancelled, RemoveJoined
    <2>5. PendingHasCallback'
      BY <2>1, <2>4 DEF IInv, PendingHasCallback, handoff
    <2> QED BY <1>3, <1>4, <2>1, <2>2, <2>3, <2>4, <2>5 DEF IInv, worker, handoff
  <1>11. CASE UNCHANGED vars
    BY <1>2, <1>3, <1>4, <1>11 DEF IInv, TypeOK, HandedPagesFull, PendingHasCallback,
       vars, recorded, worker, handoff, saved, rest
  <1>12. CASE Redraw
    BY <1>2, <1>3, <1>4, <1>12 DEF IInv, TypeOK, HandedPagesFull, PendingHasCallback,
       Redraw, worker, handoff, saved, rest
  <1> QED BY <1>5, <1>6, <1>7, <1>8, <1>9, <1>10, <1>11, <1>12

\* The callback appends exactly the rows that are missing.
LEMMA AppendStep ==
  ASSUME IInv, AppendRows
  PROVE  IInv'
  <1> DEFINE total == RowsIn(autosave_pages_to_write - 1)
             last == autosave_last_written_row
  <1>1. autosave_pages_to_write - 1 \in Nat
        /\ autosave_pages_to_write - 1 <= (write_index * FloatNumber) \div FloatsPerPage
    <2>1. autosave_pages_to_write \in Nat /\ write_index \in Nat
      BY DEF IInv, TypeOK
    <2>2. autosave_pages_to_write /= 0
      BY DEF AppendRows
    <2>3. autosave_pages_to_write <= full_pages
      BY DEF IInv, HandedPagesFull
    <2>4. full_pages \in Nat
      BY <2>1, Counts DEF full_pages
    <2>5. autosave_pages_to_write - 1 \in Nat /\ autosave_pages_to_write - 1 <= full_pages
      BY <2>1, <2>2, <2>3, <2>4
    <2> QED BY <2>5 DEF full_pages
  <1>2. total \in Nat /\ total <= write_index
    <2>1. write_index \in Nat
      BY DEF IInv, TypeOK
    <2>2. \A w, p \in Nat : p <= (w * FloatNumber) \div FloatsPerPage => RowsIn(p) <= w
      BY RowsInFullPages
    <2> QED BY <1>1, <2>1, <2>2, Counts
  <1>3. last \in Nat /\ last < total
    BY <1>2 DEF IInv, TypeOK, AppendRows
  <1>4. (IF autosave_initialized THEN file ELSE <<>>) = Rows(last)
    <2>1. Rows(0) = <<>>
      BY DEF Rows
    <2> QED BY <2>1 DEF IInv, FileIsPrefix
  <1>5. file' = Rows(total)
    <2>1. file' = Rows(last) \o [i \in 1..(total - last) |-> last + i - 1]
      BY <1>4 DEF AppendRows
    <2>2. last \in Nat /\ total \in Nat /\ last <= total
      BY <1>2, <1>3
    <2> HIDE DEF total, last
    <2>3. Rows(last) \o [i \in 1..(total - last) |-> last + i - 1] = Rows(total)
      BY <2>2, AppendedRows
    <2> QED BY <2>1, <2>3
  <1>6. Rows(total) \in Seq(Nat) /\ Len(Rows(total)) = total
    BY <1>2, AppendedRows
  <1>7. autosave_last_written_row' = total /\ autosave_initialized' = TRUE
    BY DEF AppendRows
  <1> HIDE DEF total
  <1>8. FileIsPrefix'
    BY <1>2, <1>5, <1>6, <1>7 DEF FileIsPrefix, AppendRows, recorded
  <1>9. TypeOK'
    <2>1. idle' \in Nat
      BY DEF IInv, TypeOK, AppendRows
    <2>2. file' \in Seq(Nat) /\ autosave_last_written_row' \in Nat
      BY <1>2, <1>5, <1>6, <1>7
    <2>3. saving' \in BOOLEAN /\ autosave_initialized' \in BOOLEAN
      BY DEF AppendRows
    <2> QED BY <2>1, <2>2, <2>3 DEF IInv, TypeOK, AppendRows, recorded, worker, rest
  <1>10. HandedPagesFull' /\ PendingHasCallback'
    BY DEF IInv, TypeOK, HandedPagesFull, PendingHasCallback, full_pages, AppendRows,
           GuiFree, recorded, worker, rest
  <1> QED BY <1>7, <1>8, <1>9, <1>10 DEF IInv, AppendRows, worker, rest

\* The other steps of the GUI thread.
LEMMA GuiStep ==
  ASSUME IInv, SkipRows \/ ClearPending \/ ExportWritten \/ RemovePressed
  PROVE  IInv'
  <1>1. full_pages \in Nat /\ full_pages' = full_pages /\ write_index' = write_index
    BY Counts DEF IInv, TypeOK, full_pages, SkipRows, ClearPending, ExportWritten,
                  RemovePressed, recorded
  <1>2. CASE SkipRows
    BY <1>1, <1>2 DEF IInv, TypeOK, FileIsPrefix, HandedPagesFull, PendingHasCallback,
       GuiFree, SkipRows, recorded, worker, saved, rest
  <1>3. CASE ClearPending
    BY <1>1, <1>3 DEF IInv, TypeOK, FileIsPrefix, HandedPagesFull, PendingHasCallback,
       ClearPending, recorded, worker, saved, rest
  <1>4. CASE ExportWritten
    <2>1. /\ <<>> = Rows(0) /\ Len(<<>>) = 0 /\ <<>> \in Seq(Nat)
          /\ Rows(write_index) \in Seq(Nat)
      BY AppendedRows DEF IInv, TypeOK, Rows
    <2>2. TypeOK'
      <3>1. csv' \in Seq(Nat)
        BY <1>4, <2>1 DEF ExportWritten
      <3>2. /\ file' \in Seq(Nat) /\ autosave_initialized' \in BOOLEAN
            /\ autosave_last_written_row' \in Nat
            /\ autosave_pages_to_write' \in Nat
        <4>1. CASE autosave_initialized
          <5>1. file' \in {<<>>, file} /\ autosave_initialized' = FALSE
                /\ autosave_last_written_row' = 0 /\ autosave_pages_to_write' = 0
            BY <1>4, <4>1 DEF ExportWritten
          <5>2. file \in Seq(Nat)
            BY DEF IInv, TypeOK
          <5> QED BY <5>1, <5>2, <2>1
        <4>2. CASE ~autosave_initialized
          BY <1>4, <4>2 DEF ExportWritten, IInv, TypeOK, saved
        <4> QED BY <4>1, <4>2
      <3> QED BY <1>4, <3>1, <3>2 DEF IInv, TypeOK, ExportWritten, recorded, worker
    <2>3. FileIsPrefix'
      <3>1. file' \in {<<>>, file}
            /\ (autosave_initialized' =>
                  autosave_initialized /\ UNCHANGED saved)
        BY <1>4 DEF ExportWritten, saved
      <3>2. write_index \in Nat /\ FileIsPrefix
        BY DEF IInv, TypeOK
      <3>3. CASE autosave_initialized'
        BY <1>1, <3>1, <3>2, <3>3, <1>4 DEF FileIsPrefix, ExportWritten, saved
      <3>4. CASE ~autosave_initialized'
        <4>1. write_index' \in Nat /\ write_index' = write_index
          BY <1>1, <3>2
        <4>2. CASE file' = <<>>
          <5>1. Len(file') = 0 /\ Rows(Len(file')) = <<>>
            BY <2>1, <4>2
          <5> QED BY <3>4, <4>1, <4>2, <5>1 DEF FileIsPrefix
        <4>3. CASE file' = file
          BY <3>2, <3>4, <4>1, <4>3 DEF FileIsPrefix
        <4> QED BY <3>1, <4>2, <4>3
      <3> QED BY <3>3, <3>4
    <2>4. HandedPagesFull' /\ PendingHasCallback'
      BY <1>1, <1>4 DEF IInv, HandedPagesFull, PendingHasCallback, ExportWritten, worker
    <2> QED BY <1>4, <2>2, <2>3, <2>4 DEF IInv, ExportWritten, worker, saved
  <1>5. CASE RemovePressed
    <2>1. TypeOK'
      BY <1>5 DEF IInv, TypeOK, RemovePressed, recorded, worker
    <2>2. FileIsPrefix'
      BY <1>1, <1>5 DEF IInv, FileIsPrefix, RemovePressed
    <2>3. HandedPagesFull'
      BY <1>1, <1>5 DEF HandedPagesFull, RemovePressed
    <2>4. PendingHasCallback'
      BY <1>5 DEF PendingHasCallback, RemovePressed
    <2> QED BY <1>5, <2>1, <2>2, <2>3, <2>4 DEF IInv, RemovePressed
  <1> QED BY <1>2, <1>3, <1>4, <1>5

LEMMA Inductive == IInv /\ [Next]_vars => IInv'
  BY StoreStep, HandoffStep, AppendStep, GuiStep DEF Next, WorkerStep, Callback

-----------------------------------------------------------------------------
\* The inductive invariant of the autosave handoff.
THEOREM Invariance == Spec => []IInv
  BY InitEstablishes, Inductive, PTL DEF Spec

\* The variables of the handoff keep their types.
THEOREM TypeCorrect == Spec => []TypeOK
  BY Invariance, PTL DEF IInv

\* The autosave file is a gap-free, duplicate-free prefix of the recorded
\* rows through every handoff, failed open, export and Remove.
THEOREM PrefixSaved == Spec => []FileIsPrefix
  BY Invariance, PTL DEF IInv

\* autosave_pending never outlives its callback, and there is one at most.
THEOREM FlagMatchesQueue == Spec => []PendingHasCallback
  BY Invariance, PTL DEF IInv

\* A callback only sees pages that were full when they were handed over.
THEOREM OnlyFullPages == Spec => []HandedPagesFull
  BY Invariance, PTL DEF IInv
=============================================================================
