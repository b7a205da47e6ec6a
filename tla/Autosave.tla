------------------------------ MODULE Autosave ------------------------------
(***************************************************************************)
(* The temporary file of a running measurement.  The measurement thread    *)
(* stores rows and, when a page of the buffer is full, hands the number of *)
(* full pages to the GUI thread: autosave_pages_to_write, the flag         *)
(* autosave_pending, and an idle callback.  The callback appends the rows  *)
(* that lie in pages before the newest full one.  A CSV export (only       *)
(* without a connection) removes the file and resets the counters, and     *)
(* Remove resets them too, while a measurement thread may still be between *)
(* two steps.                                                              *)
(*                                                                         *)
(* The GUI thread's idle queue is ordered by priority: the callback is of   *)
(* G_PRIORITY_LOW and runs only while no redraw, which each DATA_PACKAGE   *)
(* queues at the default priority, is left.                                *)
(*                                                                         *)
(* Rows are named by their number; file and csv are the row numbers they   *)
(* hold.                                                                   *)
(***************************************************************************)
EXTENDS Integers, Sequences

CONSTANTS
  FloatsPerPage,  \* floats_per_page
  FloatNumber,    \* floats in a row
  MaxRows,        \* bound: rows of the measurement
  MaxRedraws,     \* bound: redraws in the GUI's queue
  MaxEchoes       \* bound: echoed timestamps

ASSUME AutosaveAssumption ==
  /\ FloatsPerPage \in Nat \ {0}
  /\ FloatNumber \in 1..FloatsPerPage
  /\ MaxRows \in Nat
  /\ MaxRedraws \in Nat
  /\ MaxEchoes \in Nat

VARIABLES
  write_index,
  time_write_index,          \* echoed timestamps, the N of the export
  redraws,                   \* redraws of the plot in the GUI's queue
  conn,
  thread,                    \* where the measurement thread is
  last_saved_pages,          \* its local counter
  autosave_pages_to_write,
  autosave_pending,
  idle,                      \* autosave callbacks in the GUI's queue
  saving,                    \* a callback wrote and is about to clear the flag
  autosave_initialized,
  autosave_last_written_row,
  file,                      \* rows in the autosave file
  dialog,                    \* the export's file chooser runs the main loop
  csv,                       \* rows in the exported file
  tab                        \* "live", "removing" (Remove joins), "freed"

worker   == <<thread, last_saved_pages>>
recorded == <<write_index, time_write_index, redraws>>
handoff  == <<autosave_pages_to_write, autosave_pending, idle, saving>>
saved    == <<autosave_initialized, autosave_last_written_row, file>>
rest     == <<conn, dialog, csv, tab>>
vars == <<recorded, worker, handoff, saved, rest>>

\* size_t arithmetic of both threads
full_pages == (write_index * FloatNumber) \div FloatsPerPage
RowsIn(pages) == (pages * FloatsPerPage) \div FloatNumber

Rows(n) == [i \in 1..n |-> i - 1]     \* rows 0 .. n-1

-----------------------------------------------------------------------------
\* A measurement that was just started.
Init ==
  /\ write_index = 0
  /\ time_write_index = 0
  /\ redraws = 0
  /\ conn = TRUE
  /\ thread = "loop"
  /\ last_saved_pages = 0
  /\ autosave_pages_to_write = 0
  /\ autosave_pending = FALSE
  /\ idle = 0
  /\ saving = FALSE
  /\ autosave_initialized = FALSE
  /\ autosave_last_written_row = 0
  /\ file = <<>>
  /\ dialog = FALSE
  /\ csv = <<>>
  /\ tab = "live"

-----------------------------------------------------------------------------
(* The measurement thread.                                                 *)

\* A DATA_PACKAGE of n rows was stored and a redraw queued, or (n = 0) another
\* package read.
StoreRows(n) ==
  /\ thread = "loop"
  /\ tab = "live"
  /\ write_index + n <= MaxRows
  /\ write_index' = write_index + n
  /\ \/ n = 0 /\ UNCHANGED redraws
     \/ redraws < MaxRedraws /\ redraws' = redraws + 1
  /\ thread' = "check"
  /\ UNCHANGED <<time_write_index, last_saved_pages, handoff, saved, rest>>

\* An echoed TIMESTAMP_PACKAGE.
StoreEcho ==
  /\ thread = "loop"
  /\ tab = "live"
  /\ time_write_index < MaxEchoes
  /\ time_write_index' = time_write_index + 1
  /\ thread' = "check"
  /\ UNCHANGED <<write_index, redraws, last_saved_pages, handoff, saved, rest>>

\* Mutation: a pending autosave is not looked at.
CheckPagesOnly ==
  /\ thread = "check"
  /\ tab = "live"
  /\ \/ thread' = "loop"
     \/ full_pages > last_saved_pages /\ thread' = "handoff"
  /\ UNCHANGED <<recorded, last_saved_pages, handoff, saved, rest>>

\* A page is newly full; more than two seconds since the last trigger or not.
\* The time of the trigger is spent even while a callback is pending.
CheckPages ==
  /\ thread = "check"
  /\ tab = "live"
  /\ \/ thread' = "loop"                    \* not due
     \/ /\ full_pages > last_saved_pages
        /\ thread' = IF autosave_pending THEN "loop" ELSE "handoff"
  /\ UNCHANGED <<recorded, last_saved_pages, handoff, saved, rest>>

SetPages ==
  /\ thread = "handoff"
  /\ autosave_pages_to_write' = full_pages
  /\ thread' = "queue"
  /\ UNCHANGED <<recorded, last_saved_pages, autosave_pending, idle, saving, saved, rest>>

QueueCallback ==
  /\ thread = "queue"
  /\ autosave_pending' = TRUE
  /\ idle' = idle + 1
  /\ last_saved_pages' = full_pages
  /\ thread' = "loop"
  /\ UNCHANGED <<recorded, autosave_pages_to_write, saving, saved, rest>>

\* Stopped, removed, or disconnected.
ThreadEnds ==
  /\ thread = "loop"
  /\ thread' = "ended"
  /\ UNCHANGED <<recorded, last_saved_pages, handoff, saved, rest>>

-----------------------------------------------------------------------------
(* The GUI thread.  saving is the middle of a callback, and Remove joins   *)
(* inside its handler, so nothing else runs then.                          *)

GuiFree == ~saving /\ tab = "live"

\* The measurement thread or the monitor disconnects; the thread may still be
\* working on a package.
Disconnect ==
  /\ conn
  /\ conn' = FALSE
  /\ UNCHANGED <<recorded, worker, handoff, saved, dialog, csv, tab>>

\* gtk_widget_queue_draw as an idle function: it returns nothing, and what is
\* taken for its result removes it from the queue, or leaves it there for the
\* next round, maybe for ever: no fairness makes it go.
Redraw ==
  /\ GuiFree
  /\ redraws > 0
  /\ redraws' = redraws - 1
  /\ UNCHANGED <<write_index, time_write_index, worker, handoff, saved, rest>>

\* autosave_idle_cb with rows to write: "w" on the first call, "a" later.
AppendRows ==
  /\ GuiFree
  /\ idle > 0 /\ redraws = 0
  /\ autosave_pages_to_write /= 0
  /\ LET rows_total == RowsIn(autosave_pages_to_write - 1) IN
       /\ rows_total > autosave_last_written_row
       /\ file' = (IF autosave_initialized THEN file ELSE <<>>)
                    \o [i \in 1..(rows_total - autosave_last_written_row) |->
                          autosave_last_written_row + i - 1]
       /\ autosave_last_written_row' = rows_total
  /\ autosave_initialized' = TRUE
  /\ idle' = idle - 1
  /\ saving' = TRUE
  /\ UNCHANGED <<recorded, worker, autosave_pages_to_write, autosave_pending, rest>>

\* Mutation: the early return leaves the flag set.
SkipRowsAndFlag ==
  /\ GuiFree
  /\ idle > 0 /\ redraws = 0
  /\ idle' = idle - 1
  /\ UNCHANGED <<recorded, worker, autosave_pages_to_write, autosave_pending, saving,
                 saved, rest>>

\* ... with none, or the file cannot be opened.
SkipRows ==
  /\ GuiFree
  /\ idle > 0 /\ redraws = 0
  /\ idle' = idle - 1
  /\ saving' = TRUE
  /\ UNCHANGED <<recorded, worker, autosave_pages_to_write, autosave_pending, saved, rest>>

\* Either way the callback ends by clearing the flag.
ClearPending ==
  /\ saving
  /\ autosave_pending' = FALSE
  /\ saving' = FALSE
  /\ UNCHANGED <<recorded, worker, autosave_pages_to_write, idle, saved, rest>>

\* on_export_csv_clicked, up to the file chooser.
ExportPressed ==
  /\ GuiFree /\ ~dialog
  /\ ~conn
  /\ write_index > 0
  /\ dialog' = TRUE
  /\ UNCHANGED <<recorded, worker, handoff, saved, conn, csv, tab>>

\* Cancelled, or the chosen file cannot be opened.
ExportCancelled ==
  /\ GuiFree /\ dialog
  /\ dialog' = FALSE
  /\ UNCHANGED <<recorded, worker, handoff, saved, conn, csv, tab>>

\* Mutation: the file is removed, and its row counter kept.
ExportKeepsRowCounter ==
  /\ GuiFree /\ dialog
  /\ dialog' = FALSE
  /\ csv' = IF time_write_index >= 2 THEN Rows(write_index) ELSE <<>>
  /\ IF autosave_initialized
       THEN /\ file' \in {<<>>, file}
            /\ autosave_initialized' = FALSE
            /\ autosave_pages_to_write' = 0
            /\ UNCHANGED autosave_last_written_row
       ELSE UNCHANGED <<saved, autosave_pages_to_write>>
  /\ UNCHANGED <<recorded, worker, autosave_pending, idle, saving, conn, tab>>

\* The file is written: the rows only with two echoed timestamps or more.
\* Then the autosave file is removed, if it can be, and its counters are reset.
ExportWritten ==
  /\ GuiFree /\ dialog
  /\ dialog' = FALSE
  /\ csv' = IF time_write_index >= 2 THEN Rows(write_index) ELSE <<>>
  /\ IF autosave_initialized
       THEN /\ file' \in {<<>>, file}
            /\ autosave_initialized' = FALSE
            /\ autosave_last_written_row' = 0
            /\ autosave_pages_to_write' = 0
       ELSE UNCHANGED <<saved, autosave_pages_to_write>>
  /\ UNCHANGED <<recorded, worker, autosave_pending, idle, saving, conn, tab>>

\* free_client_info resets the autosave state and then joins the thread; the
\* file stays.  (What the freed buffers do to the thread: ClientSession.)
RemovePressed ==
  /\ GuiFree /\ ~dialog
  /\ tab' = "removing"
  /\ autosave_initialized' = FALSE
  /\ autosave_pending' = FALSE
  /\ autosave_pages_to_write' = 0
  /\ autosave_last_written_row' = 0
  /\ UNCHANGED <<recorded, worker, idle, saving, file, conn, dialog, csv>>

RemoveJoined ==
  /\ tab = "removing"
  /\ thread = "ended"
  /\ tab' = "freed"
  /\ UNCHANGED <<recorded, worker, handoff, saved, conn, dialog, csv>>

-----------------------------------------------------------------------------
WorkerStep == \/ (\E n \in 0..MaxRows : StoreRows(n))
              \/ StoreEcho
              \/ CheckPages \/ SetPages \/ QueueCallback \/ ThreadEnds

Callback == AppendRows \/ SkipRows \/ ClearPending

Next == \/ WorkerStep
        \/ Redraw \/ Callback
        \/ Disconnect
        \/ ExportPressed \/ ExportCancelled \/ ExportWritten
        \/ RemovePressed \/ RemoveJoined

\* The GUI's main loop runs a low-priority callback once nothing else is queued.
Spec == Init /\ [][Next]_vars /\ WF_vars(Callback)

-----------------------------------------------------------------------------
\* The types of the variables of the autosave handoff.
TypeOK ==
  /\ write_index \in Nat
  /\ time_write_index \in Nat
  /\ redraws \in Nat
  /\ conn \in BOOLEAN
  /\ thread \in {"loop", "check", "handoff", "queue", "ended"}
  /\ last_saved_pages \in Nat
  /\ autosave_pages_to_write \in Nat
  /\ autosave_pending \in BOOLEAN
  /\ idle \in Nat
  /\ saving \in BOOLEAN
  /\ autosave_initialized \in BOOLEAN
  /\ autosave_last_written_row \in Nat
  /\ file \in Seq(Nat)
  /\ dialog \in BOOLEAN
  /\ csv \in Seq(Nat)
  /\ tab \in {"live", "removing", "freed"}

\* The autosave file holds the recorded rows from the first on, without a gap
\* and without a duplicate, whatever handoffs, failed opens, exports and
\* Remove did in between; the counter tells how many while the file is in use.
FileIsPrefix ==
  /\ file = Rows(Len(file))
  /\ Len(file) <= write_index
  /\ autosave_initialized => Len(file) = autosave_last_written_row

\* The callback only touches rows that are complete: the pages handed over
\* were full, at whatever later time the callback runs.
HandedPagesFull == autosave_pages_to_write <= full_pages

\* The flag and the queue agree as long as the tab lives: a pending autosave
\* has exactly one callback, queued or running, so the flag cannot stay set
\* and no two callbacks can append the same rows.
PendingHasCallback ==
  tab = "live" => \/ ~autosave_pending /\ ~saving /\ idle = 0
                  \/ autosave_pending  /\ ~saving /\ idle = 1
                  \/ autosave_pending  /\  saving /\ idle = 0

\* The inductive invariant: a thread that hands pages over saw no pending
\* autosave, and the row counter starts from 0 when the file is not in use.
IInv ==
  /\ TypeOK
  /\ FileIsPrefix
  /\ HandedPagesFull
  /\ PendingHasCallback
  /\ ~autosave_initialized => autosave_last_written_row = 0
  /\ (thread \in {"handoff", "queue"} /\ tab = "live") => ~autosave_pending

\* Once the redraws of the plot are gone, a pending autosave does not stay
\* pending and the next full page can be saved, whatever early return the
\* callback takes and whatever was exported meanwhile.  As long as redraws come
\* or stay queued, nothing is promised.
PendingClears ==
  <>[](redraws = 0) => (autosave_pending ~> (~autosave_pending \/ tab /= "live"))

-----------------------------------------------------------------------------
(* What the README says and the code does not do.                          *)

\* README.md:223 "Measurement data until EOF": a written export holds the
\* recorded rows.
ExportHoldsRows ==
  [][dialog /\ autosave_initialized /\ ~autosave_initialized' /\ tab' = "live"
       => csv' = Rows(write_index)]_vars
=============================================================================
