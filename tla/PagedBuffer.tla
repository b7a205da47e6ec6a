----------------------------- MODULE PagedBuffer -----------------------------
(***************************************************************************)
(* The measurement buffer of one client (ClientInfo.measurement_data) as   *)
(* the measurement thread fills it while the GUI thread reads it.          *)
(*                                                                         *)
(* The buffer is a table of MaxPages page pointers; a page holds           *)
(* FloatsPerPage floats and a row FloatNumber of them, so a row may        *)
(* straddle two pages.  A DATA_PACKAGE is an array of floats.  The worker  *)
(* stores its rows one by one: it allocates the page of the next row if    *)
(* it must, copies the row (in one piece, or the first part, then the      *)
(* rest in the next page), and only then increments write_index.  Each     *)
(* of these is a step of its own, because the GUI thread reads the buffer  *)
(* below write_index at any moment, without a lock.                        *)
(***************************************************************************)
EXTENDS Integers, Sequences

CONSTANTS
  FloatsPerPage,  \* floats_per_page, PAGE_SIZE_BYTES / sizeof(float)
  FloatNumber,    \* *settings->float_number, the channels of the client
  MaxPages,       \* MAX_NUM_MESUREMENT_PAGES
  MaxFloats,      \* the most floats one DATA_PACKAGE carries
  Value           \* the floats

ASSUME GeometryAssumption ==
  /\ FloatsPerPage \in Nat \ {0}
  /\ FloatNumber \in 1..FloatsPerPage   \* a row is far smaller than a page
  /\ MaxPages \in Nat \ {0}
  /\ MaxFloats \in Nat
  /\ Value /= {}

NullPage == <<>>      \* the NULL page pointers of the zeroed table

VARIABLES
  measurement_data,   \* page number -> page or NullPage
  allocated_pages,
  write_index,        \* rows visible to the readers
  measurement_active,
  pc,                 \* where the worker is
  pkg,                \* the floats of the package being stored
  row,                \* the row of pkg being stored
  src                 \* floats of pkg consumed so far (the src pointer)

vars == <<measurement_data, allocated_pages, write_index, measurement_active,
          pc, pkg, row, src>>

Pages   == 0..(MaxPages - 1)
Offsets == 0..(FloatsPerPage - 1)
Channels == 0..(FloatNumber - 1)

\* A page from g_malloc0 holds zeros; any fixed value of Value stands for 0.0.
ZeroPage == [o \in Offsets |-> CHOOSE v \in Value : TRUE]

\* The page and the offset of a float, counted from the start of the buffer.
PageOf(index)   == index \div FloatsPerPage
OffsetOf(index) == index % FloatsPerPage

FloatAt(data, index) == data[PageOf(index)][OffsetOf(index)]

\* The float of a row and channel, as every reader finds it.
get_measurement(data, r, channel) == FloatAt(data, r * FloatNumber + channel)

\* memcpy(page + offset, floats from .. from+n-1 of the package)
CopyInto(page, offset, from, n) ==
  [o \in Offsets |-> IF o \in offset..(offset + n - 1)
                     THEN pkg[from + (o - offset) + 1]
                     ELSE page[o]]

page_index     == PageOf(write_index * FloatNumber)

\* Mutation: the row number taken for the number of floats.
offset_of_row_number == OffsetOf(write_index)

offset_in_page == OffsetOf(write_index * FloatNumber)
first_part     == FloatsPerPage - offset_in_page
RowFits        == offset_in_page + FloatNumber <= FloatsPerPage
n_rows         == Len(pkg) \div FloatNumber   \* a trailing part of a row is dropped

-----------------------------------------------------------------------------
\* The buffer as on_send_btn_clicked leaves it for the new worker.
Init ==
  /\ measurement_data = [p \in Pages |-> IF p = 0 THEN ZeroPage ELSE NullPage]
  /\ allocated_pages = 1
  /\ write_index = 0
  /\ measurement_active = TRUE
  /\ pc = "receive"
  /\ pkg = <<>>
  /\ row = 0
  /\ src = 0

Receive(floats) ==
  /\ pc = "receive"
  /\ measurement_active
  /\ floats /= <<>>
  /\ pkg' = floats
  /\ row' = 0
  /\ src' = 0
  /\ pc' = "row"
  /\ UNCHANGED <<measurement_data, allocated_pages, write_index, measurement_active>>

\* The row loop ends; free_tcp_package.
EndPackage ==
  /\ pc = "row"
  /\ row >= n_rows
  /\ pc' = "receive"
  /\ pkg' = <<>>
  /\ row' = 0
  /\ src' = 0
  /\ UNCHANGED <<measurement_data, allocated_pages, write_index, measurement_active>>

\* Mutation: one page more than the table has.
AllocateBeyondLimit(p) ==
  /\ p >= allocated_pages
  /\ p <= MaxPages
  /\ measurement_data' = [measurement_data EXCEPT ![p] = ZeroPage]
  /\ allocated_pages' = allocated_pages + 1

Allocate(p) ==
  /\ p >= allocated_pages
  /\ p < MaxPages
  /\ measurement_data' = [measurement_data EXCEPT ![p] = ZeroPage]
  /\ allocated_pages' = allocated_pages + 1

\* Mutation: the last page is never used.
ReachLimitEarly(p) ==
  /\ p >= allocated_pages
  /\ p >= MaxPages - 1
  /\ measurement_active' = FALSE
  /\ pc' = "receive"
  /\ pkg' = <<>>
  /\ row' = 0
  /\ src' = 0
  /\ UNCHANGED <<measurement_data, allocated_pages, write_index>>

\* The page limit: the measurement stops and the rest of the package is dropped.
ReachLimit(p) ==
  /\ p >= allocated_pages
  /\ p >= MaxPages
  /\ measurement_active' = FALSE
  /\ pc' = "receive"
  /\ pkg' = <<>>
  /\ row' = 0
  /\ src' = 0
  /\ UNCHANGED <<measurement_data, allocated_pages, write_index>>

AllocatePage ==
  /\ pc = "row"
  /\ row < n_rows
  /\ Allocate(page_index)
  /\ UNCHANGED <<write_index, measurement_active, pc, pkg, row, src>>

\* The table is full, at the start of a row or at the page border inside one.
LimitReached ==
  /\ pc \in {"row", "split"}
  /\ pc = "row" => row < n_rows
  /\ ReachLimit(IF pc = "row" THEN page_index ELSE page_index + 1)

\* Mutation: src is not advanced.
StoreFirstRowAgain ==
  /\ pc = "row"
  /\ row < n_rows
  /\ page_index < allocated_pages
  /\ RowFits
  /\ measurement_data' = [measurement_data EXCEPT
       ![page_index] = CopyInto(@, offset_in_page, src, FloatNumber)]
  /\ pc' = "publish"
  /\ UNCHANGED <<allocated_pages, write_index, measurement_active, pkg, row, src>>

StoreRow ==
  /\ pc = "row"
  /\ row < n_rows
  /\ page_index < allocated_pages
  /\ RowFits
  /\ measurement_data' = [measurement_data EXCEPT
       ![page_index] = CopyInto(@, offset_in_page, src, FloatNumber)]
  /\ src' = src + FloatNumber
  /\ pc' = "publish"
  /\ UNCHANGED <<allocated_pages, write_index, measurement_active, pkg, row>>

StoreFirstPart ==
  /\ pc = "row"
  /\ row < n_rows
  /\ page_index < allocated_pages
  /\ ~RowFits
  /\ measurement_data' = [measurement_data EXCEPT
       ![page_index] = CopyInto(@, offset_in_page, src, first_part)]
  /\ src' = src + first_part
  /\ pc' = "split"
  /\ UNCHANGED <<allocated_pages, write_index, measurement_active, pkg, row>>

AllocateNextPage ==
  /\ pc = "split"
  /\ Allocate(page_index + 1)
  /\ UNCHANGED <<write_index, measurement_active, pc, pkg, row, src>>

StoreRemaining ==
  /\ pc = "split"
  /\ page_index + 1 < allocated_pages
  /\ measurement_data' = [measurement_data EXCEPT
       ![page_index + 1] = CopyInto(@, 0, src, FloatNumber - first_part)]
  /\ src' = src + (FloatNumber - first_part)
  /\ pc' = "publish"
  /\ UNCHANGED <<allocated_pages, write_index, measurement_active, pkg, row>>

\* write_index += 1: from here on the readers see the row.
Publish ==
  /\ pc = "publish"
  /\ write_index' = write_index + 1
  /\ row' = row + 1
  /\ pc' = "row"
  /\ UNCHANGED <<measurement_data, allocated_pages, measurement_active, pkg, src>>

\* The GUI stops the measurement; the worker finishes its package first.
StopRequested ==
  /\ measurement_active
  /\ measurement_active' = FALSE
  /\ UNCHANGED <<measurement_data, allocated_pages, write_index, pc, pkg, row, src>>

Packages == UNION {[1..n -> Value] : n \in 1..MaxFloats}

Next ==
  \/ \E floats \in Packages : Receive(floats)
  \/ EndPackage
  \/ AllocatePage
  \/ LimitReached
  \/ StoreRow
  \/ StoreFirstPart
  \/ AllocateNextPage
  \/ StoreRemaining
  \/ Publish
  \/ StopRequested

Spec == Init /\ [][Next]_vars

-----------------------------------------------------------------------------
Page == [Offsets -> Value]

\* The types of the variables of the buffer and of the worker.
TypeOK ==
  /\ measurement_data \in [Pages -> Page \cup {NullPage}]
  /\ allocated_pages \in 1..MaxPages
  /\ write_index \in Nat
  /\ measurement_active \in BOOLEAN
  /\ pc \in {"receive", "row", "split", "publish"}
  /\ pkg \in Seq(Value)
  /\ row \in Nat
  /\ src \in Nat

\* The page table has no hole: the allocated pages are exactly the first
\* allocated_pages entries.  The worker bumps the counter by one whatever
\* page number it allocates, so this needs the next row never to start
\* beyond the page after the last one.
PageTableDense ==
  \A p \in Pages : (measurement_data[p] /= NullPage) <=> (p < allocated_pages)

\* Every float of a visible row is in an allocated page: get_measurement,
\* called by the plot, the autosave and the export for any row below
\* write_index, follows no NULL or out-of-table page pointer.
VisibleRowsReadable ==
  \A r \in 0..(write_index - 1), c \in Channels :
    PageOf(r * FloatNumber + c) < allocated_pages

\* The rows a reader sees, as a log.
RowAt(r) == [c \in Channels |-> get_measurement(measurement_data, r, c)]
VisibleRows == [i \in 1..write_index |-> RowAt(i - 1)]

Log == INSTANCE RowLog WITH Row <- [Channels -> Value], log <- VisibleRows

\* The buffer implements the append-only log: no reader, reading between
\* any two steps of the worker, sees a row torn, overwritten or withdrawn.
ImplementsRowLog == Log!Spec

\* A row that becomes visible is the row of the package that was due, float
\* for float: src advances over both parts of a split row, and neither part
\* lands on a wrong page or offset.
StoresPackageRow ==
  [][write_index' /= write_index =>
       \A c \in Channels :
         get_measurement(measurement_data', write_index, c)
           = pkg[row * FloatNumber + c + 1]]_vars

\* At the page limit the worker loses only rows there is no room for: while
\* the measurement was not stopped by the user, it stops itself only when
\* the next row does not fit into MaxPages pages.
LimitIsTight ==
  [][(pc = "row" \/ pc = "split") /\ pc' = "receive" /\ row < n_rows =>
       (write_index + 1) * FloatNumber > MaxPages * FloatsPerPage]_vars

-----------------------------------------------------------------------------
(* The inductive invariant behind the properties above.                    *)

\* The visible rows, and the row about to be published, lie in allocated pages.
RowsAllocated ==
  /\ write_index * FloatNumber <= allocated_pages * FloatsPerPage
  /\ pc = "publish" =>
       (write_index + 1) * FloatNumber <= allocated_pages * FloatsPerPage

\* src stands at the first float of the row, at the second part of a split
\* row, or behind the row.
SourceInStep ==
  /\ pc \in {"split", "publish"} => row < n_rows
  /\ pc = "row" => src = row * FloatNumber
  /\ pc = "split" => /\ ~RowFits
                     /\ page_index < allocated_pages
                     /\ src = row * FloatNumber + first_part
  /\ pc = "publish" => src = row * FloatNumber + FloatNumber

\* The floats of the current row that were copied are where readers look for them.
CopiedFloats ==
  \A c \in Channels :
    \/ pc = "publish"
    \/ pc = "split" /\ c < first_part
    => get_measurement(measurement_data, write_index, c)
         = pkg[row * FloatNumber + c + 1]

IInv ==
  /\ TypeOK
  /\ PageTableDense
  /\ RowsAllocated
  /\ SourceInStep
  /\ CopiedFloats
=============================================================================
