-------------------------- MODULE PagedBufferProofs --------------------------
(***************************************************************************)
(* Proofs about PagedBuffer for every page size, channel count, page limit *)
(* and package content, and then about LivePlot, which reads the buffer,   *)
(* for every window, width of the plot and range of the y axis.            *)
(***************************************************************************)
EXTENDS LivePlot, SequenceTheorems, FiniteSetTheorems, WellFoundedInduction, TLAPS

-----------------------------------------------------------------------------
(* Addresses: a float index and its page and offset.                       *)

\* Division by the page size: every index has one page and one offset.
LEMMA PageAndOffset ==
  ASSUME NEW k \in Nat
  PROVE  /\ PageOf(k) \in Nat
         /\ OffsetOf(k) \in Offsets
         /\ k = PageOf(k) * FloatsPerPage + OffsetOf(k)
  BY GeometryAssumption DEF PageOf, OffsetOf, Offsets

\* Multiplication by a positive number is monotonic.
LEMMA Monotonic ==
  ASSUME NEW m \in Nat, NEW x \in Nat, NEW y \in Nat, x < y
  PROVE  x * m + m <= y * m
  <1> DEFINE d == y - x
  <1>1. d \in Nat /\ d >= 1 /\ y = x + d
    OBVIOUS
  <1> HIDE DEF d
  <1>2. d * m >= m
    BY <1>1
  <1>3. y * m = x * m + d * m
    BY <1>1
  <1> QED BY <1>2, <1>3, <1>1

\* The offsets of a page stay below the next page.
LEMMA PageOrder ==
  ASSUME NEW p \in Nat, NEW q \in Nat, NEW a \in Offsets, p < q
  PROVE  p * FloatsPerPage + a < q * FloatsPerPage
  <1>1. FloatsPerPage \in Nat
    BY GeometryAssumption
  <1>2. p * FloatsPerPage + FloatsPerPage <= q * FloatsPerPage
    BY <1>1, Monotonic
  <1>3. p * FloatsPerPage \in Nat /\ q * FloatsPerPage \in Nat
    BY <1>1
  <1> QED BY <1>1, <1>2, <1>3 DEF Offsets

\* An index of page p, offset a is found on page p at offset a.
LEMMA UniqueAddress ==
  ASSUME NEW p \in Nat, NEW a \in Offsets
  PROVE  /\ PageOf(p * FloatsPerPage + a) = p
         /\ OffsetOf(p * FloatsPerPage + a) = a
  <1> DEFINE k == p * FloatsPerPage + a
  <1>0. FloatsPerPage \in Nat /\ p * FloatsPerPage \in Nat
    BY GeometryAssumption
  <1>1. k \in Nat
    BY <1>0 DEF Offsets
  <1> HIDE DEF k
  <1>2. /\ PageOf(k) \in Nat
        /\ OffsetOf(k) \in Offsets
        /\ k = PageOf(k) * FloatsPerPage + OffsetOf(k)
    BY <1>1, PageAndOffset
  <1>3. PageOf(k) * FloatsPerPage \in Nat
    BY <1>2, <1>0
  <1>4. k = p * FloatsPerPage + a
    BY DEF k
  <1>5. ~(PageOf(k) < p)
    <2> SUFFICES ASSUME PageOf(k) < p PROVE FALSE
      OBVIOUS
    <2>1. k < p * FloatsPerPage
      BY <1>2, PageOrder
    <2> QED BY <2>1, <1>4, <1>0 DEF Offsets
  <1>6. ~(p < PageOf(k))
    <2> SUFFICES ASSUME p < PageOf(k) PROVE FALSE
      OBVIOUS
    <2>1. k < PageOf(k) * FloatsPerPage
      BY <1>2, <1>4, PageOrder
    <2> QED BY <2>1, <1>2, <1>3 DEF Offsets
  <1>7. PageOf(k) = p
    BY <1>2, <1>5, <1>6
  <1>8. OffsetOf(k) = a
    BY <1>2, <1>4, <1>7, <1>0 DEF Offsets
  <1> QED BY <1>7, <1>8 DEF k

\* An index below n pages lies on one of the first n pages.
LEMMA PageBelow ==
  ASSUME NEW k \in Nat, NEW n \in Nat, k < n * FloatsPerPage
  PROVE  PageOf(k) < n
  <1>0. FloatsPerPage \in Nat /\ n * FloatsPerPage \in Nat
    BY GeometryAssumption
  <1>1. /\ PageOf(k) \in Nat
        /\ OffsetOf(k) \in Offsets
        /\ k = PageOf(k) * FloatsPerPage + OffsetOf(k)
    BY PageAndOffset
  <1>2. PageOf(k) * FloatsPerPage \in Nat
    BY <1>0, <1>1
  <1> SUFFICES ASSUME ~(PageOf(k) < n) PROVE FALSE
    OBVIOUS
  <1>3. CASE PageOf(k) = n
    BY <1>3, <1>0, <1>1 DEF Offsets
  <1>4. CASE n < PageOf(k)
    <2>1. n * FloatsPerPage + FloatsPerPage <= PageOf(k) * FloatsPerPage
      BY <1>0, <1>1, <1>4, Monotonic
    <2> QED BY <2>1, <1>0, <1>1, <1>2 DEF Offsets
  <1> QED BY <1>1, <1>3, <1>4

\* The floats of a row lie before those of every later row.
LEMMA RowsBeforeRow ==
  ASSUME NEW r \in Nat, NEW w \in Nat, NEW c \in Channels, r < w
  PROVE  /\ r * FloatNumber + c \in Nat
         /\ w * FloatNumber \in Nat
         /\ r * FloatNumber + c < w * FloatNumber
  <1>1. FloatNumber \in Nat
    BY GeometryAssumption
  <1>2. r * FloatNumber + FloatNumber <= w * FloatNumber
    BY <1>1, Monotonic
  <1>3. r * FloatNumber \in Nat /\ w * FloatNumber \in Nat
    BY <1>1
  <1> QED BY <1>1, <1>2, <1>3 DEF Channels

-----------------------------------------------------------------------------
(* memcpy into a page, seen through FloatAt.                               *)

\* A copy of n floats to offset a of page p writes float i of them to the index
\* p * FloatsPerPage + a + i.
LEMMA CopyHit ==
  ASSUME NEW p \in Pages, NEW a \in Offsets, NEW n \in Nat, NEW from \in Nat,
         a + n <= FloatsPerPage,
         NEW page, NEW new, new[p] = CopyInto(page, a, from, n),
         NEW i \in 0..(n - 1)
  PROVE  FloatAt(new, p * FloatsPerPage + (a + i)) = pkg[from + i + 1]
  <1>1. FloatsPerPage \in Nat /\ p \in Nat
    BY GeometryAssumption DEF Pages
  <1> DEFINE o == a + i
  <1>2. o \in Offsets /\ o \in a..(a + n - 1) /\ o - a = i
    BY <1>1 DEF Offsets
  <1> HIDE DEF o
  <1>3. PageOf(p * FloatsPerPage + o) = p /\ OffsetOf(p * FloatsPerPage + o) = o
    BY <1>1, <1>2, UniqueAddress
  <1>4. CopyInto(page, a, from, n)[o] = pkg[from + i + 1]
    BY <1>2 DEF CopyInto
  <1>5. FloatAt(new, p * FloatsPerPage + o) = pkg[from + i + 1]
    BY <1>3, <1>4 DEF FloatAt
  <1> QED BY <1>5 DEF o

\* It leaves every index below p * FloatsPerPage + a alone.
LEMMA CopyMiss ==
  ASSUME NEW p \in Pages, NEW a \in Offsets, NEW n \in Nat, NEW from \in Nat,
         NEW data, NEW new, new[p] = CopyInto(data[p], a, from, n),
         \A q \in Pages \ {p} : new[q] = data[q],
         NEW k \in Nat, PageOf(k) \in Pages, k < p * FloatsPerPage + a
  PROVE  FloatAt(new, k) = FloatAt(data, k)
  <1>1. FloatsPerPage \in Nat /\ p \in Nat /\ p * FloatsPerPage \in Nat
    BY GeometryAssumption DEF Pages
  <1>2. /\ PageOf(k) \in Nat
        /\ OffsetOf(k) \in Offsets
        /\ k = PageOf(k) * FloatsPerPage + OffsetOf(k)
    BY PageAndOffset
  <1>3. CASE PageOf(k) = p
    <2>1. OffsetOf(k) < a
      BY <1>1, <1>2, <1>3 DEF Offsets
    <2>2. OffsetOf(k) \notin a..(a + n - 1)
      BY <2>1, <1>2 DEF Offsets
    <2> QED BY <1>2, <1>3, <2>2 DEF FloatAt, CopyInto
  <1>4. CASE PageOf(k) /= p
    BY <1>4 DEF FloatAt
  <1> QED BY <1>3, <1>4

\* Its pages keep their type when the copied floats are floats of the package.
LEMMA CopyType ==
  ASSUME NEW page \in Page, NEW a \in Offsets, NEW n \in Nat, NEW from \in Nat,
         pkg \in Seq(Value), from + n <= Len(pkg)
  PROVE  CopyInto(page, a, from, n) \in Page
  <1>1. ASSUME NEW o \in Offsets, o \in a..(a + n - 1)
        PROVE  pkg[from + (o - a) + 1] \in Value
    <2>1. from + (o - a) + 1 \in 1..Len(pkg)
      BY <1>1 DEF Offsets
    <2> QED BY <2>1
  <1> QED BY <1>1 DEF CopyInto, Page

-----------------------------------------------------------------------------
(* Where the worker is, in terms of indexes.                               *)

\* The current row starts at page_index and offset_in_page.
LEMMA CurrentRow ==
  ASSUME write_index \in Nat
  PROVE  /\ write_index * FloatNumber \in Nat
         /\ page_index \in Nat
         /\ offset_in_page \in Offsets
         /\ write_index * FloatNumber = page_index * FloatsPerPage + offset_in_page
         /\ page_index * FloatsPerPage \in Nat
         /\ (page_index + 1) * FloatsPerPage = page_index * FloatsPerPage + FloatsPerPage
         /\ first_part \in 1..FloatsPerPage
         /\ FloatsPerPage \in Nat \ {0}
         /\ FloatNumber \in 1..FloatsPerPage
  <1>1. FloatsPerPage \in Nat \ {0} /\ FloatNumber \in 1..FloatsPerPage
    BY GeometryAssumption
  <1>2. write_index * FloatNumber \in Nat
    BY <1>1
  <1>3. /\ page_index \in Nat
        /\ offset_in_page \in Offsets
        /\ write_index * FloatNumber = page_index * FloatsPerPage + offset_in_page
    BY <1>2, PageAndOffset DEF page_index, offset_in_page
  <1>4. /\ page_index * FloatsPerPage \in Nat
        /\ (page_index + 1) * FloatsPerPage = page_index * FloatsPerPage + FloatsPerPage
    BY <1>1, <1>3
  <1>5. first_part \in 1..FloatsPerPage
    BY <1>1, <1>3 DEF first_part, Offsets
  <1> QED BY <1>1, <1>2, <1>3, <1>4, <1>5

\* The row being stored lies within the package.
LEMMA RowInPackage ==
  ASSUME TypeOK, row < n_rows
  PROVE  /\ row * FloatNumber \in Nat
         /\ row * FloatNumber + FloatNumber <= Len(pkg)
         /\ (row + 1) * FloatNumber = row * FloatNumber + FloatNumber
  <1>1. FloatNumber \in Nat \ {0} /\ row \in Nat /\ Len(pkg) \in Nat
    BY GeometryAssumption DEF TypeOK
  <1>2. n_rows \in Nat /\ n_rows * FloatNumber <= Len(pkg)
    BY <1>1 DEF n_rows
  <1>3. row * FloatNumber + FloatNumber <= n_rows * FloatNumber
    BY <1>1, <1>2, Monotonic
  <1>4. row * FloatNumber \in Nat /\ n_rows * FloatNumber \in Nat
    BY <1>1, <1>2
  <1>5. (row + 1) * FloatNumber = row * FloatNumber + FloatNumber
    BY <1>1
  <1> QED BY <1>1, <1>2, <1>3, <1>4, <1>5

\* The page of the next row is at most the first unallocated one.
LEMMA NextPageInReach ==
  ASSUME TypeOK, RowsAllocated
  PROVE  page_index <= allocated_pages
  <1>1. /\ page_index \in Nat /\ offset_in_page \in Offsets
        /\ write_index * FloatNumber = page_index * FloatsPerPage + offset_in_page
        /\ page_index * FloatsPerPage \in Nat
        /\ FloatsPerPage \in Nat \ {0}
    BY CurrentRow DEF TypeOK
  <1>2. allocated_pages \in Nat /\ allocated_pages * FloatsPerPage \in Nat
    BY <1>1 DEF TypeOK
  <1> SUFFICES ASSUME allocated_pages < page_index PROVE FALSE
    BY <1>1, <1>2
  <1>3. allocated_pages * FloatsPerPage + FloatsPerPage <= page_index * FloatsPerPage
    BY <1>1, <1>2, Monotonic
  <1> QED BY <1>1, <1>2, <1>3 DEF RowsAllocated, Offsets

\* Every float of a visible row has its page.
LEMMA VisiblePages ==
  ASSUME TypeOK, RowsAllocated,
         NEW r \in Nat, NEW c \in Channels,
         r < write_index \/ (r = write_index /\ pc = "publish")
  PROVE  /\ r * FloatNumber + c \in Nat
         /\ PageOf(r * FloatNumber + c) \in Nat
         /\ PageOf(r * FloatNumber + c) < allocated_pages
         /\ PageOf(r * FloatNumber + c) \in Pages
  <1>1. /\ FloatNumber \in Nat /\ FloatsPerPage \in Nat /\ MaxPages \in Nat
        /\ allocated_pages \in Nat /\ allocated_pages <= MaxPages /\ write_index \in Nat
    BY GeometryAssumption DEF TypeOK
  <1> DEFINE w == IF pc = "publish" THEN write_index + 1 ELSE write_index
  <1>2. w \in Nat /\ r < w
    BY <1>1
  <1>3. w * FloatNumber <= allocated_pages * FloatsPerPage
    BY DEF RowsAllocated
  <1> HIDE DEF w
  <1>4. /\ r * FloatNumber + c \in Nat
        /\ w * FloatNumber \in Nat
        /\ r * FloatNumber + c < w * FloatNumber
    BY <1>2, RowsBeforeRow
  <1>5. allocated_pages * FloatsPerPage \in Nat
    BY <1>1
  <1>6. r * FloatNumber + c < allocated_pages * FloatsPerPage
    BY <1>3, <1>4, <1>5
  <1>7. PageOf(r * FloatNumber + c) < allocated_pages
    BY <1>1, <1>4, <1>6, PageBelow
  <1>8. PageOf(r * FloatNumber + c) \in Nat
    BY <1>4, PageAndOffset
  <1> QED BY <1>1, <1>4, <1>7, <1>8 DEF Pages

-----------------------------------------------------------------------------
(* The invariant is inductive: one lemma per kind of step.                 *)

\* The page table stays dense when the next page is allocated.
LEMMA AllocateStep ==
  ASSUME IInv, NEW p \in Nat, p <= allocated_pages, Allocate(p),
         UNCHANGED <<write_index, measurement_active, pc, pkg, row, src>>,
         pc \in {"row", "split"}
  PROVE  IInv'
  <1>1. p = allocated_pages /\ p \in Pages /\ allocated_pages \in Nat
    BY GeometryAssumption DEF Allocate, IInv, TypeOK, Pages
  <1>2. ZeroPage \in Page /\ ZeroPage /= NullPage
    <2>1. ZeroPage \in Page
      BY GeometryAssumption DEF ZeroPage, Page
    <2>2. 0 \in DOMAIN ZeroPage /\ 0 \notin DOMAIN NullPage
      BY GeometryAssumption DEF ZeroPage, NullPage, Offsets
    <2> QED BY <2>1, <2>2
  <1>3. TypeOK'
    BY <1>1, <1>2, GeometryAssumption DEF Allocate, IInv, TypeOK, Pages
  <1>4. PageTableDense'
    BY <1>1, <1>2 DEF Allocate, IInv, TypeOK, PageTableDense, Pages
  <1>5. RowsAllocated'
    <2>1. allocated_pages * FloatsPerPage <= allocated_pages' * FloatsPerPage
      <3>1. (allocated_pages + 1) * FloatsPerPage
              = allocated_pages * FloatsPerPage + FloatsPerPage
        BY <1>1, GeometryAssumption
      <3>2. allocated_pages * FloatsPerPage \in Nat
        BY <1>1, GeometryAssumption
      <3> QED BY <3>1, <3>2, GeometryAssumption DEF Allocate
    <2>2. write_index * FloatNumber \in Nat /\ allocated_pages * FloatsPerPage \in Nat
          /\ allocated_pages' * FloatsPerPage \in Nat
      BY <1>1, CurrentRow, GeometryAssumption DEF IInv, TypeOK, Allocate
    <2> QED BY <2>1, <2>2 DEF IInv, RowsAllocated
  <1>6. SourceInStep'
    <2>1. UNCHANGED <<n_rows, RowFits, page_index, first_part>>
      BY DEF n_rows, RowFits, page_index, first_part, offset_in_page
    <2>2. page_index \in Nat
      BY CurrentRow DEF IInv, TypeOK
    <2>3. page_index < allocated_pages => page_index < allocated_pages'
      BY <1>1, <2>2 DEF Allocate
    <2> QED BY <2>1, <2>3 DEF IInv, SourceInStep
  <1>7. CopiedFloats'
    <2>1. UNCHANGED first_part
      BY DEF first_part, offset_in_page
    <2> SUFFICES ASSUME NEW c \in Channels, pc = "split", c < first_part
                 PROVE  FloatAt(measurement_data', write_index * FloatNumber + c)
                          = FloatAt(measurement_data, write_index * FloatNumber + c)
      BY <2>1 DEF IInv, CopiedFloats, get_measurement
    <2>2. /\ page_index \in Nat /\ offset_in_page \in Offsets
          /\ write_index * FloatNumber = page_index * FloatsPerPage + offset_in_page
          /\ page_index * FloatsPerPage \in Nat
      BY CurrentRow DEF IInv, TypeOK
    <2> DEFINE o == offset_in_page + c
    <2>3. o \in Offsets
      BY <2>2, GeometryAssumption DEF first_part, Offsets, Channels
    <2>4. write_index * FloatNumber + c = page_index * FloatsPerPage + o
      BY <2>2, GeometryAssumption DEF Channels, Offsets
    <2> HIDE DEF o
    <2>5. PageOf(write_index * FloatNumber + c) = page_index
      BY <2>2, <2>3, <2>4, UniqueAddress
    <2>6. page_index /= p
      BY <1>1, <2>2 DEF IInv, SourceInStep
    <2> QED BY <2>5, <2>6 DEF FloatAt, Allocate
  <1> QED BY <1>3, <1>4, <1>5, <1>6, <1>7 DEF IInv

\* A copy of floats of the package to an allocated page keeps the table dense
\* and the types.
LEMMA CopyStep ==
  ASSUME IInv, NEW p \in Nat, p < allocated_pages,
         NEW a \in Offsets, NEW n \in Nat, a + n <= FloatsPerPage,
         src + n <= Len(pkg),
         measurement_data' = [measurement_data EXCEPT ![p] = CopyInto(@, a, src, n)],
         src' = src + n, pc' \in {"split", "publish"},
         UNCHANGED <<allocated_pages, write_index, measurement_active, pkg, row>>
  PROVE  /\ p \in Pages
         /\ TypeOK'
         /\ PageTableDense'
  <1>1. p \in Pages
    BY GeometryAssumption DEF IInv, TypeOK, Pages
  <1>2. measurement_data[p] \in Page
    BY <1>1 DEF IInv, TypeOK, PageTableDense
  <1>3. CopyInto(measurement_data[p], a, src, n) \in Page
    BY <1>2, CopyType DEF IInv, TypeOK
  <1>4. TypeOK'
    BY <1>1, <1>3 DEF IInv, TypeOK
  <1>5. \A q \in Page : q /= NullPage
    <2> SUFFICES ASSUME NEW q \in Page PROVE q /= NullPage
      OBVIOUS
    <2>1. 0 \in DOMAIN q /\ 0 \notin DOMAIN NullPage
      BY GeometryAssumption DEF Page, NullPage, Offsets
    <2> QED BY <2>1
  <1>6. PageTableDense'
    BY <1>1, <1>2, <1>3, <1>5 DEF IInv, TypeOK, PageTableDense
  <1> QED BY <1>1, <1>4, <1>6

\* A row that fits is copied to where it will be read.
LEMMA StoreRowStep ==
  ASSUME IInv, StoreRow
  PROVE  IInv'
  <1> DEFINE w == write_index * FloatNumber
  <1>1. /\ w \in Nat /\ page_index \in Nat /\ offset_in_page \in Offsets
        /\ w = page_index * FloatsPerPage + offset_in_page
        /\ page_index * FloatsPerPage \in Nat
        /\ (page_index + 1) * FloatsPerPage = page_index * FloatsPerPage + FloatsPerPage
        /\ FloatsPerPage \in Nat \ {0} /\ FloatNumber \in 1..FloatsPerPage
    BY CurrentRow DEF IInv, TypeOK
  <1>2. /\ row * FloatNumber \in Nat /\ row * FloatNumber + FloatNumber <= Len(pkg)
        /\ src = row * FloatNumber
    BY RowInPackage DEF IInv, SourceInStep, StoreRow
  <1>3. page_index \in Pages /\ TypeOK' /\ PageTableDense'
    <2>1. offset_in_page + FloatNumber <= FloatsPerPage /\ src + FloatNumber <= Len(pkg)
      BY <1>2 DEF StoreRow, RowFits
    <2>2. FloatNumber \in Nat /\ page_index < allocated_pages /\ pc' = "publish"
      BY <1>1 DEF StoreRow
    <2> QED BY <1>1, <2>1, <2>2, CopyStep DEF StoreRow
  <1>4. RowsAllocated'
    <2>1. allocated_pages \in Nat
      BY DEF IInv, TypeOK
    <2>2. (page_index + 1) * FloatsPerPage <= allocated_pages * FloatsPerPage
      <3>1. CASE page_index + 1 = allocated_pages
        BY <3>1, <1>1
      <3>2. CASE page_index + 1 < allocated_pages
        <4>1. (page_index + 1) * FloatsPerPage + FloatsPerPage
                <= allocated_pages * FloatsPerPage
          BY <3>2, <1>1, <2>1, Monotonic
        <4> QED BY <4>1, <1>1, <2>1
      <3> QED BY <3>1, <3>2, <1>1, <2>1 DEF StoreRow
    <2>3. allocated_pages * FloatsPerPage \in Nat
      BY <1>1, <2>1
    <2>4. (write_index + 1) * FloatNumber = w + FloatNumber
      BY <1>1 DEF IInv, TypeOK
    <2> QED BY <1>1, <2>2, <2>3, <2>4 DEF IInv, RowsAllocated, StoreRow, RowFits, Offsets
  <1>5. SourceInStep'
    <2>1. n_rows' = n_rows
      BY DEF n_rows, StoreRow
    <2> QED BY <1>2, <2>1 DEF SourceInStep, StoreRow
  <1>6. CopiedFloats'
    <2> SUFFICES ASSUME NEW c \in Channels
                 PROVE  FloatAt(measurement_data', w + c) = pkg[row * FloatNumber + c + 1]
      BY DEF CopiedFloats, get_measurement, StoreRow
    <2>1. w + c = page_index * FloatsPerPage + (offset_in_page + c)
      BY <1>1 DEF Offsets, Channels
    <2>2. /\ FloatNumber \in Nat /\ c \in 0..(FloatNumber - 1)
          /\ offset_in_page + FloatNumber <= FloatsPerPage
      BY <1>1 DEF StoreRow, RowFits, Channels
    <2>3. src \in Nat
      BY DEF IInv, TypeOK
    <2>4. measurement_data'[page_index] =
            CopyInto(measurement_data[page_index], offset_in_page, src, FloatNumber)
      BY <1>3 DEF StoreRow, IInv, TypeOK
    <2>5. FloatAt(measurement_data', page_index * FloatsPerPage + (offset_in_page + c))
            = pkg[src + c + 1]
      BY <1>1, <1>3, <2>2, <2>3, <2>4, CopyHit
    <2> QED BY <1>2, <2>1, <2>5
  <1> QED BY <1>3, <1>4, <1>5, <1>6 DEF IInv

\* The first part of a row that straddles a page border fills its page.
LEMMA StoreFirstPartStep ==
  ASSUME IInv, StoreFirstPart
  PROVE  IInv'
  <1> DEFINE w == write_index * FloatNumber
  <1>1. /\ w \in Nat /\ page_index \in Nat /\ offset_in_page \in Offsets
        /\ w = page_index * FloatsPerPage + offset_in_page
        /\ page_index * FloatsPerPage \in Nat
        /\ first_part \in 1..FloatsPerPage /\ first_part < FloatNumber
        /\ offset_in_page + first_part = FloatsPerPage
        /\ FloatsPerPage \in Nat \ {0} /\ FloatNumber \in 1..FloatsPerPage
    <2>1. write_index \in Nat /\ ~RowFits
      BY DEF IInv, TypeOK, StoreFirstPart
    <2>2. first_part < FloatNumber /\ offset_in_page + first_part = FloatsPerPage
      BY <2>1, CurrentRow DEF RowFits, first_part, Offsets
    <2> QED BY <2>1, <2>2, CurrentRow
  <1>2. /\ row * FloatNumber \in Nat /\ row * FloatNumber + FloatNumber <= Len(pkg)
        /\ src = row * FloatNumber
    BY RowInPackage DEF IInv, SourceInStep, StoreFirstPart
  <1>3. page_index \in Pages /\ TypeOK' /\ PageTableDense'
    <2>1. /\ offset_in_page + first_part <= FloatsPerPage
          /\ src + first_part <= Len(pkg)
          /\ first_part \in Nat
          /\ page_index < allocated_pages
          /\ pc' = "split"
      BY <1>1, <1>2 DEF StoreFirstPart, IInv, TypeOK
    <2> QED BY <1>1, <2>1, CopyStep DEF StoreFirstPart
  <1>4. RowsAllocated'
    BY DEF IInv, RowsAllocated, StoreFirstPart
  <1>5. SourceInStep'
    <2>1. UNCHANGED <<n_rows, RowFits, page_index, first_part>>
      BY DEF n_rows, RowFits, page_index, first_part, offset_in_page, StoreFirstPart
    <2> QED BY <1>2, <2>1 DEF SourceInStep, StoreFirstPart
  <1>6. CopiedFloats'
    <2>1. UNCHANGED first_part
      BY DEF first_part, offset_in_page, StoreFirstPart
    <2> SUFFICES ASSUME NEW c \in Channels, c < first_part
                 PROVE  FloatAt(measurement_data', w + c) = pkg[row * FloatNumber + c + 1]
      BY <2>1 DEF CopiedFloats, get_measurement, StoreFirstPart
    <2>2. w + c = page_index * FloatsPerPage + (offset_in_page + c)
      BY <1>1 DEF Offsets, Channels
    <2>3. /\ first_part \in Nat /\ c \in 0..(first_part - 1)
          /\ offset_in_page + first_part <= FloatsPerPage
      BY <1>1 DEF Channels
    <2>4. src \in Nat
      BY DEF IInv, TypeOK
    <2>5. measurement_data'[page_index] =
            CopyInto(measurement_data[page_index], offset_in_page, src, first_part)
      BY <1>3 DEF StoreFirstPart, IInv, TypeOK
    <2>6. FloatAt(measurement_data', page_index * FloatsPerPage + (offset_in_page + c))
            = pkg[src + c + 1]
      BY <1>1, <1>3, <2>3, <2>4, <2>5, CopyHit
    <2> QED BY <1>2, <2>2, <2>6
  <1> QED BY <1>3, <1>4, <1>5, <1>6 DEF IInv

\* The rest of the row goes to the start of the next page and leaves the
\* first part alone.
LEMMA StoreRemainingStep ==
  ASSUME IInv, StoreRemaining
  PROVE  IInv'
  <1> DEFINE w == write_index * FloatNumber
             p == page_index + 1
             rest == FloatNumber - first_part
  <1>1. /\ w \in Nat /\ page_index \in Nat /\ offset_in_page \in Offsets
        /\ w = page_index * FloatsPerPage + offset_in_page
        /\ page_index * FloatsPerPage \in Nat
        /\ p * FloatsPerPage = page_index * FloatsPerPage + FloatsPerPage
        /\ first_part \in 1..FloatsPerPage /\ first_part < FloatNumber
        /\ offset_in_page + first_part = FloatsPerPage
        /\ FloatsPerPage \in Nat \ {0} /\ FloatNumber \in 1..FloatsPerPage
    <2>1. write_index \in Nat /\ ~RowFits
      BY DEF IInv, TypeOK, SourceInStep, StoreRemaining
    <2>2. first_part < FloatNumber /\ offset_in_page + first_part = FloatsPerPage
      BY <2>1, CurrentRow DEF RowFits, first_part, Offsets
    <2> QED BY <2>1, <2>2, CurrentRow
  <1>2. /\ row * FloatNumber \in Nat /\ row * FloatNumber + FloatNumber <= Len(pkg)
        /\ src = row * FloatNumber + first_part
    BY RowInPackage DEF IInv, SourceInStep, StoreRemaining
  <1>3. /\ p \in Nat /\ rest \in Nat /\ 0 \in Offsets /\ 0 + rest <= FloatsPerPage
        /\ w + first_part = p * FloatsPerPage + 0
    BY <1>1 DEF Offsets
  <1>4. p \in Pages /\ TypeOK' /\ PageTableDense'
    <2>1. src + rest <= Len(pkg) /\ p < allocated_pages /\ pc' = "publish"
      BY <1>1, <1>2 DEF StoreRemaining
    <2>2. measurement_data' = [measurement_data EXCEPT ![p] = CopyInto(@, 0, src, rest)]
          /\ src' = src + rest
      BY DEF StoreRemaining
    <2> HIDE DEF p, rest
    <2> QED BY <1>3, <2>1, <2>2, CopyStep DEF StoreRemaining
  <1>5. RowsAllocated'
    <2>1. allocated_pages \in Nat
      BY DEF IInv, TypeOK
    <2>2. p * FloatsPerPage + FloatsPerPage <= allocated_pages * FloatsPerPage
      BY <1>1, <2>1, Monotonic DEF StoreRemaining
    <2>3. allocated_pages * FloatsPerPage \in Nat
      BY <1>1, <2>1
    <2>4. (write_index + 1) * FloatNumber = w + FloatNumber
      BY <1>1 DEF IInv, TypeOK
    <2> QED BY <1>1, <2>2, <2>3, <2>4 DEF IInv, RowsAllocated, StoreRemaining, Offsets
  <1>6. SourceInStep'
    <2>1. n_rows' = n_rows
      BY DEF n_rows, StoreRemaining
    <2>2. src' = row * FloatNumber + FloatNumber
      BY <1>1, <1>2 DEF StoreRemaining
    <2> QED BY <2>1, <2>2 DEF IInv, SourceInStep, StoreRemaining
  <1>7. CopiedFloats'
    <2> SUFFICES ASSUME NEW c \in Channels
                 PROVE  FloatAt(measurement_data', w + c) = pkg[row * FloatNumber + c + 1]
      BY DEF CopiedFloats, get_measurement, StoreRemaining
    <2>1. src \in Nat
      BY DEF IInv, TypeOK
    <2>2. /\ measurement_data'[p] = CopyInto(measurement_data[p], 0, src, rest)
          /\ \A q \in Pages \ {p} : measurement_data'[q] = measurement_data[q]
      BY <1>4 DEF StoreRemaining, IInv, TypeOK
    <2>3. CASE c < first_part
      <3>1. FloatAt(measurement_data, w + c) = pkg[row * FloatNumber + c + 1]
        BY <2>3 DEF IInv, CopiedFloats, get_measurement, StoreRemaining
      <3> DEFINE o == offset_in_page + c
      <3>2. /\ o \in Offsets /\ w + c = page_index * FloatsPerPage + o
            /\ w + c \in Nat /\ w + c < p * FloatsPerPage + 0
        BY <1>1, <2>3 DEF Offsets, Channels
      <3> HIDE DEF o
      <3>3. PageOf(w + c) = page_index
        BY <1>1, <3>2, UniqueAddress
      <3>4. PageOf(w + c) \in Pages
        BY <1>1, <1>4, <3>3, GeometryAssumption DEF Pages
      <3> HIDE DEF w, p, rest
      <3>5. FloatAt(measurement_data', w + c) = FloatAt(measurement_data, w + c)
        BY <1>3, <1>4, <2>1, <2>2, <3>2, <3>4, CopyMiss
      <3> QED BY <3>1, <3>5
    <2>4. CASE ~(c < first_part)
      <3> DEFINE i == c - first_part
      <3>0. c \in 0..(FloatNumber - 1) /\ first_part \in Nat
        BY <1>1 DEF Channels
      <3>1. /\ i \in 0..(rest - 1)
            /\ w + c = p * FloatsPerPage + (0 + i)
            /\ src + i + 1 = row * FloatNumber + c + 1
        <4>1. i \in 0..(rest - 1)
          BY <1>1, <2>4, <3>0
        <4>2. src + i + 1 = row * FloatNumber + c + 1
          BY <1>2, <3>0
        <4> DEFINE base == p * FloatsPerPage
        <4>3. base \in Nat /\ w + first_part = base
          BY <1>1, <1>3
        <4> HIDE DEF base, w
        <4>4. w + c = base + (0 + i)
          BY <1>1, <3>0, <4>3
        <4> QED BY <4>1, <4>2, <4>4 DEF base
      <3> HIDE DEF w, p, rest, i
      <3>2. FloatAt(measurement_data', p * FloatsPerPage + (0 + i)) = pkg[src + i + 1]
        BY <1>3, <1>4, <2>1, <2>2, <3>1, CopyHit
      <3> QED BY <3>1, <3>2
    <2> QED BY <2>3, <2>4
  <1> QED BY <1>4, <1>5, <1>6, <1>7 DEF IInv

\* A published row keeps what was copied, and the next one starts behind it.
LEMMA PublishStep ==
  ASSUME IInv, Publish
  PROVE  IInv'
  <1>1. TypeOK'
    BY DEF IInv, TypeOK, Publish
  <1>2. PageTableDense'
    BY DEF IInv, PageTableDense, Publish
  <1>3. RowsAllocated'
    BY DEF IInv, RowsAllocated, Publish
  <1>4. SourceInStep'
    <2>1. (row + 1) * FloatNumber = row * FloatNumber + FloatNumber
      BY RowInPackage DEF IInv, SourceInStep, Publish
    <2> QED BY <2>1 DEF IInv, SourceInStep, Publish
  <1>5. CopiedFloats'
    BY DEF CopiedFloats, Publish
  <1> QED BY <1>1, <1>2, <1>3, <1>4, <1>5 DEF IInv

\* The limit, a stop, and the ends of packages touch no page.
LEMMA QuietStep ==
  ASSUME IInv,
         \/ \E floats \in Packages : Receive(floats)
         \/ EndPackage
         \/ LimitReached
         \/ StopRequested
         \/ UNCHANGED vars
  PROVE  IInv'
  <1>1. ASSUME NEW floats \in Packages, Receive(floats)
        PROVE  IInv'
    <2>1. floats \in Seq(Value)
      BY DEF Packages
    <2>2. TypeOK'
      BY <1>1, <2>1 DEF IInv, TypeOK, Receive
    <2>3. 0 * FloatNumber = 0
      BY GeometryAssumption
    <2> QED BY <1>1, <2>2, <2>3 DEF IInv, PageTableDense, RowsAllocated, SourceInStep,
                                    CopiedFloats, Receive
  <1>2. CASE EndPackage
    <2>1. TypeOK'
      BY <1>2 DEF IInv, TypeOK, EndPackage
    <2> QED BY <1>2, <2>1 DEF IInv, PageTableDense, RowsAllocated, SourceInStep,
                              CopiedFloats, EndPackage
  <1>3. ASSUME NEW p, ReachLimit(p)
        PROVE  IInv'
    <2>1. TypeOK'
      <3>1. /\ measurement_active' = FALSE /\ pc' = "receive"
            /\ pkg' = <<>> /\ row' = 0 /\ src' = 0
            /\ UNCHANGED <<measurement_data, allocated_pages, write_index>>
        BY <1>3 DEF ReachLimit
      <3>2. measurement_active' \in BOOLEAN
        BY <3>1
      <3>3. pkg' \in Seq(Value) /\ row' \in Nat /\ src' \in Nat
        BY <3>1
      <3> QED BY <3>1, <3>2, <3>3 DEF IInv, TypeOK
    <2> QED BY <1>3, <2>1 DEF IInv, PageTableDense, RowsAllocated, SourceInStep,
                              CopiedFloats, ReachLimit
  <1>4. CASE StopRequested \/ UNCHANGED vars
    <2>1. /\ UNCHANGED <<measurement_data, allocated_pages, write_index, pc, pkg, row, src>>
          /\ measurement_active' \in BOOLEAN
      BY <1>4 DEF StopRequested, vars, IInv, TypeOK
    <2>2. TypeOK'
      BY <2>1 DEF IInv, TypeOK
    <2>3. PageTableDense' /\ RowsAllocated'
      BY <2>1 DEF IInv, PageTableDense, RowsAllocated
    <2>4. UNCHANGED <<n_rows, RowFits, page_index, first_part>>
      BY <2>1 DEF n_rows, RowFits, page_index, first_part, offset_in_page
    <2>5. SourceInStep' /\ CopiedFloats'
      BY <2>1, <2>4 DEF IInv, SourceInStep, CopiedFloats, get_measurement
    <2> QED BY <2>2, <2>3, <2>5 DEF IInv
  <1> QED BY <1>1, <1>2, <1>3, <1>4 DEF LimitReached

LEMMA Inductive == IInv /\ [Next]_vars => IInv'
  <1> SUFFICES ASSUME IInv, [Next]_vars
               PROVE  IInv'
    OBVIOUS
  <1>1. CASE AllocatePage
    <2>1. page_index \in Nat /\ page_index <= allocated_pages
      BY CurrentRow, NextPageInReach DEF IInv, TypeOK
    <2> QED BY <1>1, <2>1, AllocateStep DEF AllocatePage
  <1>2. CASE AllocateNextPage
    <2>1. pc = "split"
      BY <1>2 DEF AllocateNextPage
    <2>2. page_index < allocated_pages
      BY <2>1 DEF IInv, SourceInStep
    <2>3. page_index \in Nat /\ allocated_pages \in Nat
      BY CurrentRow, GeometryAssumption DEF IInv, TypeOK
    <2>4. page_index + 1 \in Nat /\ page_index + 1 <= allocated_pages
      BY <2>2, <2>3
    <2> QED BY <1>2, <2>4, AllocateStep DEF AllocateNextPage
  <1>3. CASE StoreRow
    BY <1>3, StoreRowStep
  <1>4. CASE StoreFirstPart
    BY <1>4, StoreFirstPartStep
  <1>5. CASE StoreRemaining
    BY <1>5, StoreRemainingStep
  <1>6. CASE Publish
    BY <1>6, PublishStep
  <1> QED BY <1>1, <1>2, <1>3, <1>4, <1>5, <1>6, QuietStep DEF Next

LEMMA InitEstablishes == Init => IInv
  <1> SUFFICES ASSUME Init
               PROVE  IInv
    OBVIOUS
  <1>1. ZeroPage \in Page /\ ZeroPage /= NullPage
    <2>1. ZeroPage \in Page
      BY GeometryAssumption DEF ZeroPage, Page
    <2>2. 0 \in DOMAIN ZeroPage /\ 0 \notin DOMAIN NullPage
      BY GeometryAssumption DEF ZeroPage, NullPage, Offsets
    <2> QED BY <2>1, <2>2
  <1>2. TypeOK
    BY <1>1, GeometryAssumption DEF Init, TypeOK, Pages
  <1>3. PageTableDense
    BY <1>1 DEF Init, PageTableDense, Pages
  <1>4. RowsAllocated
    <2>1. 0 * FloatNumber = 0 /\ 1 * FloatsPerPage \in Nat
      BY GeometryAssumption
    <2> QED BY <2>1 DEF Init, RowsAllocated
  <1> QED BY <1>2, <1>3, <1>4 DEF Init, IInv, SourceInStep, CopiedFloats

-----------------------------------------------------------------------------
(* The theorems.                                                           *)

\* The inductive invariant holds in every reachable state.
THEOREM Invariance == Spec => []IInv
  <1>1. Init => IInv
    BY InitEstablishes
  <1>2. IInv /\ [Next]_vars => IInv'
    BY Inductive
  <1> QED BY <1>1, <1>2, PTL DEF Spec

\* The variables of the buffer keep their types: gui.c's page table, counters
\* and the worker's position.
THEOREM TypeCorrect == Spec => []TypeOK
  BY Invariance, PTL DEF IInv

\* The page table of gui.c has no hole, whatever the page and row sizes.
THEOREM TableIsDense == Spec => []PageTableDense
  BY Invariance, PTL DEF IInv

\* get_measurement never follows a NULL page pointer for a visible row.
THEOREM RowsReadable == Spec => []VisibleRowsReadable
  <1>1. IInv => VisibleRowsReadable
    <2> SUFFICES ASSUME IInv, NEW r \in 0..(write_index - 1), NEW c \in Channels
                 PROVE  PageOf(r * FloatNumber + c) < allocated_pages
      BY DEF VisibleRowsReadable
    <2>1. write_index \in Nat
      BY DEF IInv, TypeOK
    <2>2. r \in Nat /\ r < write_index
      BY <2>1
    <2> QED BY <2>2, VisiblePages DEF IInv
  <1> QED BY <1>1, Invariance, PTL

\* When write_index moves on, the row it uncovers is the row of the package
\* that was due.
THEOREM PackageRowStored == Spec => StoresPackageRow
  <1>1. IInv /\ [Next]_vars =>
          [write_index' /= write_index =>
             \A c \in Channels :
               get_measurement(measurement_data', write_index, c)
                 = pkg[row * FloatNumber + c + 1]]_vars
    <2> SUFFICES ASSUME IInv, Next, write_index' /= write_index, NEW c \in Channels
                 PROVE  get_measurement(measurement_data', write_index, c)
                          = pkg[row * FloatNumber + c + 1]
      OBVIOUS
    <2>1. Publish
      BY DEF Next, Receive, EndPackage, AllocatePage, LimitReached, StoreRow,
             StoreFirstPart, AllocateNextPage, StoreRemaining,
             StopRequested, ReachLimit
    <2> QED BY <2>1 DEF Publish, IInv, CopiedFloats
  <1> QED BY <1>1, Invariance, PTL DEF Spec, StoresPackageRow

\* The worker gives up at the page limit only when the row really has no room.
THEOREM LimitTight == Spec => LimitIsTight
  <1>1. IInv /\ [Next]_vars =>
          [(pc = "row" \/ pc = "split") /\ pc' = "receive" /\ row < n_rows =>
             (write_index + 1) * FloatNumber > MaxPages * FloatsPerPage]_vars
    <2> SUFFICES ASSUME IInv, Next, pc = "row" \/ pc = "split", pc' = "receive",
                        row < n_rows
                 PROVE  (write_index + 1) * FloatNumber > MaxPages * FloatsPerPage
      OBVIOUS
    <2> DEFINE w == write_index * FloatNumber
               limit == MaxPages * FloatsPerPage
    <2>1. /\ w \in Nat /\ page_index \in Nat /\ offset_in_page \in Offsets
          /\ w = page_index * FloatsPerPage + offset_in_page
          /\ page_index * FloatsPerPage \in Nat
          /\ (page_index + 1) * FloatsPerPage = page_index * FloatsPerPage + FloatsPerPage
          /\ FloatsPerPage \in Nat \ {0} /\ FloatNumber \in 1..FloatsPerPage
          /\ (write_index + 1) * FloatNumber = w + FloatNumber
          /\ limit \in Nat /\ MaxPages \in Nat
      <3>1. write_index \in Nat /\ MaxPages \in Nat
        BY GeometryAssumption DEF IInv, TypeOK
      <3>2. /\ FloatsPerPage \in Nat \ {0} /\ FloatNumber \in 1..FloatsPerPage
        BY GeometryAssumption
      <3>3. (write_index + 1) * FloatNumber = w + FloatNumber /\ limit \in Nat
        BY <3>1, <3>2
      <3> QED BY <3>1, <3>2, <3>3, CurrentRow
    <2>2. ASSUME NEW p \in Nat, p >= MaxPages, NEW x \in Nat, x = p * FloatsPerPage
          PROVE  x >= limit
      <3>1. CASE p = MaxPages
        BY <3>1, <2>2
      <3>2. CASE MaxPages < p
        <4>1. limit + FloatsPerPage <= x
          BY <3>2, <2>1, <2>2, Monotonic
        <4> QED BY <4>1, <2>1, <2>2
      <3> QED BY <3>1, <3>2, <2>1, <2>2
    <2>3. LimitReached /\ pc \in {"row", "split"}
      <3>1. n_rows \in Nat /\ row \in Nat
        BY <2>1 DEF n_rows, IInv, TypeOK
      <3>2. ~EndPackage
        BY <3>1 DEF EndPackage
      <3>3. pc /= "receive" /\ pc' = "receive" /\ pc' /= pc
        OBVIOUS
      <3>4. /\ ~AllocatePage /\ ~AllocateNextPage /\ ~StopRequested
            /\ ~\E floats \in Packages : Receive(floats)
        BY <3>3 DEF AllocatePage, AllocateNextPage, StopRequested, Receive
      <3>5. ~StoreRow /\ ~StoreFirstPart /\ ~StoreRemaining /\ ~Publish
        BY <3>3 DEF StoreRow, StoreFirstPart, StoreRemaining, Publish
      <3> QED BY <3>2, <3>4, <3>5 DEF Next
    <2>4. CASE pc = "row"
      <3>1. page_index >= MaxPages
        BY <2>3, <2>4 DEF LimitReached, ReachLimit
      <3>2. page_index * FloatsPerPage >= limit
        BY <3>1, <2>1, <2>2
      <3> HIDE DEF w, limit
      <3> QED BY <3>2, <2>1 DEF Offsets, limit
    <2>5. CASE pc = "split"
      <3>1. page_index + 1 >= MaxPages /\ ~RowFits
        BY <2>3, <2>5 DEF LimitReached, ReachLimit, IInv, SourceInStep
      <3>2. (page_index + 1) * FloatsPerPage >= limit
        BY <3>1, <2>1, <2>2
      <3>3. w + FloatNumber > page_index * FloatsPerPage + FloatsPerPage
        BY <3>1, <2>1 DEF RowFits, Offsets
      <3> HIDE DEF w, limit
      <3> QED BY <3>2, <3>3, <2>1 DEF limit
    <2> QED BY <2>3, <2>4, <2>5
  <1> QED BY <1>1, Invariance, PTL DEF Spec, LimitIsTight

\* A visible row is a row of floats.
LEMMA RowAtType ==
  ASSUME IInv, NEW r \in Nat,
         r < write_index \/ (r = write_index /\ pc = "publish")
  PROVE  RowAt(r) \in [Channels -> Value]
  <1> SUFFICES ASSUME NEW c \in Channels
               PROVE  FloatAt(measurement_data, r * FloatNumber + c) \in Value
    BY DEF RowAt, get_measurement
  <1> DEFINE k == r * FloatNumber + c
  <1>1. k \in Nat /\ PageOf(k) \in Pages /\ PageOf(k) < allocated_pages
    BY VisiblePages DEF IInv
  <1>2. OffsetOf(k) \in Offsets
    BY <1>1, PageAndOffset
  <1> HIDE DEF k
  <1>3. measurement_data[PageOf(k)] \in Page
    BY <1>1 DEF IInv, TypeOK, PageTableDense
  <1>4. FloatAt(measurement_data, k) \in Value
    BY <1>2, <1>3 DEF FloatAt, Page
  <1> QED BY <1>4 DEF k

\* A step that leaves the visible floats and write_index alone is a stutter of
\* the log.
LEMMA SameRows ==
  ASSUME IInv, write_index' = write_index,
         \A r \in 0..(write_index - 1), c \in Channels :
           FloatAt(measurement_data', r * FloatNumber + c)
             = FloatAt(measurement_data, r * FloatNumber + c)
  PROVE  VisibleRows' = VisibleRows
  <1>1. write_index \in Nat
    BY DEF IInv, TypeOK
  <1>2. ASSUME NEW i \in 1..write_index
        PROVE  RowAt(i - 1)' = RowAt(i - 1)
    <2>1. i - 1 \in 0..(write_index - 1)
      BY <1>1
    <2> QED BY <2>1 DEF RowAt, get_measurement
  <1> QED BY <1>2 DEF VisibleRows

\* Every store writes behind the visible rows.
LEMMA StoresKeepRows ==
  ASSUME IInv, StoreRow \/ StoreFirstPart \/ StoreRemaining
  PROVE  VisibleRows' = VisibleRows
  <1> DEFINE w == write_index * FloatNumber
  <1>1. /\ w \in Nat /\ page_index \in Nat /\ offset_in_page \in Offsets
        /\ w = page_index * FloatsPerPage + offset_in_page
        /\ page_index * FloatsPerPage \in Nat
        /\ (page_index + 1) * FloatsPerPage = page_index * FloatsPerPage + FloatsPerPage
        /\ first_part \in 1..FloatsPerPage
        /\ FloatsPerPage \in Nat \ {0} /\ FloatNumber \in 1..FloatsPerPage
        /\ write_index \in Nat /\ 0 \in Offsets
    <2>1. TypeOK /\ write_index \in Nat
      BY DEF IInv, TypeOK
    <2>2. 0 \in Offsets
      BY GeometryAssumption DEF Offsets
    <2> QED BY <2>1, <2>2, CurrentRow DEF TypeOK
  <1>2. PICK p \in Nat, a \in Offsets, n \in Nat :
          /\ p \in Pages
          /\ w <= p * FloatsPerPage + a
          /\ measurement_data'[p] = CopyInto(measurement_data[p], a, src, n)
          /\ \A q \in Pages \ {p} : measurement_data'[q] = measurement_data[q]
    <2>1. CASE StoreRow \/ StoreFirstPart
      <3>1. page_index \in Pages
        BY <1>1, <2>1, GeometryAssumption DEF StoreRow, StoreFirstPart, IInv, TypeOK, Pages
      <3>2. \A q \in Pages \ {page_index} : measurement_data'[q] = measurement_data[q]
        BY <2>1 DEF StoreRow, StoreFirstPart, IInv, TypeOK
      <3>3. CASE StoreRow
        <4>1. measurement_data'[page_index]
                = CopyInto(measurement_data[page_index], offset_in_page, src, FloatNumber)
          BY <3>1, <3>3 DEF StoreRow, IInv, TypeOK
        <4>2. FloatNumber \in Nat /\ w <= page_index * FloatsPerPage + offset_in_page
          BY <1>1 DEF Offsets
        <4> HIDE DEF w
        <4> QED BY <1>1, <3>1, <3>2, <4>1, <4>2
      <3>4. CASE StoreFirstPart
        <4>1. measurement_data'[page_index]
                = CopyInto(measurement_data[page_index], offset_in_page, src, first_part)
          BY <3>1, <3>4 DEF StoreFirstPart, IInv, TypeOK
        <4>2. first_part \in Nat /\ w <= page_index * FloatsPerPage + offset_in_page
          BY <1>1 DEF Offsets
        <4> HIDE DEF w
        <4> QED BY <1>1, <3>1, <3>2, <4>1, <4>2
      <3> QED BY <2>1, <3>3, <3>4
    <2>2. CASE StoreRemaining
      <3>1. page_index + 1 \in Pages
        BY <1>1, <2>2, GeometryAssumption DEF StoreRemaining, IInv, TypeOK, Pages
      <3>2. FloatNumber - first_part \in Nat
        BY <1>1, <2>2 DEF IInv, SourceInStep, StoreRemaining, RowFits, first_part, Offsets
      <3>3. w <= (page_index + 1) * FloatsPerPage + 0
        BY <1>1 DEF Offsets
      <3>4. /\ measurement_data'[page_index + 1]
                 = CopyInto(measurement_data[page_index + 1], 0, src, FloatNumber - first_part)
            /\ \A q \in Pages \ {page_index + 1} : measurement_data'[q] = measurement_data[q]
        BY <2>2, <3>1 DEF StoreRemaining, IInv, TypeOK
      <3>5. page_index + 1 \in Nat
        BY <1>1
      <3> HIDE DEF w
      <3> QED BY <1>1, <3>1, <3>2, <3>3, <3>4, <3>5
    <2> QED BY <2>1, <2>2
  <1>3. ASSUME NEW r \in 0..(write_index - 1), NEW c \in Channels
        PROVE  FloatAt(measurement_data', r * FloatNumber + c)
                 = FloatAt(measurement_data, r * FloatNumber + c)
    <2>1. r \in Nat /\ r < write_index
      BY <1>1
    <2> DEFINE k == r * FloatNumber + c
    <2>2. k \in Nat /\ k < w
      BY <1>1, <2>1, RowsBeforeRow
    <2>3. PageOf(k) \in Pages
      BY <2>1, VisiblePages DEF IInv
    <2> HIDE DEF k, w
    <2>4. p * FloatsPerPage \in Nat
      BY <1>1
    <2>5. k < p * FloatsPerPage + a
      BY <1>1, <1>2, <2>2, <2>4 DEF Offsets
    <2>6. src \in Nat
      BY DEF IInv, TypeOK
    <2>7. FloatAt(measurement_data', k) = FloatAt(measurement_data, k)
      BY <1>2, <2>2, <2>3, <2>5, <2>6, CopyMiss
    <2> QED BY <2>7 DEF k
  <1>4. write_index' = write_index
    BY DEF StoreRow, StoreFirstPart, StoreRemaining
  <1> QED BY <1>3, <1>4, SameRows

\* A fresh page replaces no page a visible row lies on.
LEMMA AllocationKeepsRows ==
  ASSUME IInv, NEW p \in Nat, Allocate(p), write_index' = write_index
  PROVE  VisibleRows' = VisibleRows
  <1>1. ASSUME NEW r \in 0..(write_index - 1), NEW c \in Channels
        PROVE  FloatAt(measurement_data', r * FloatNumber + c)
                 = FloatAt(measurement_data, r * FloatNumber + c)
    <2>1. r \in Nat /\ r < write_index
      BY DEF IInv, TypeOK
    <2>2. /\ PageOf(r * FloatNumber + c) \in Nat
          /\ PageOf(r * FloatNumber + c) < allocated_pages
      BY <2>1, VisiblePages DEF IInv
    <2>3. PageOf(r * FloatNumber + c) /= p
      BY <2>2 DEF Allocate, IInv, TypeOK
    <2> QED BY <2>3 DEF FloatAt, Allocate
  <1> QED BY <1>1, SameRows

\* The row that is published is appended to the log.
LEMMA PublishAppends ==
  ASSUME IInv, Publish
  PROVE  VisibleRows' = Append(VisibleRows, RowAt(write_index))
  <1>1. write_index \in Nat /\ write_index' = write_index + 1
    BY DEF IInv, TypeOK, Publish
  <1>2. \A r : RowAt(r)' = RowAt(r)
    BY DEF RowAt, Publish
  <1>3. VisibleRows' = [i \in 1..(write_index + 1) |-> RowAt(i - 1)]
    BY <1>1, <1>2 DEF VisibleRows
  <1>4. VisibleRows \in Seq([Channels -> Value]) /\ Len(VisibleRows) = write_index
    <2>1. ASSUME NEW i \in 1..write_index
          PROVE  RowAt(i - 1) \in [Channels -> Value]
      <3>1. i - 1 \in Nat /\ i - 1 < write_index
        BY <1>1
      <3> QED BY <3>1, RowAtType
    <2>2. VisibleRows \in [1..write_index -> [Channels -> Value]]
      BY <2>1 DEF VisibleRows
    <2> QED BY <1>1, <2>2
  <1> DEFINE S == [Channels -> Value]
             new == Append(VisibleRows, RowAt(write_index))
  <1>5. RowAt(write_index) \in S
    BY <1>1, RowAtType DEF Publish
  <1>6. /\ new \in Seq(S)
        /\ Len(new) = write_index + 1
        /\ \A i \in 1..write_index : new[i] = VisibleRows[i]
        /\ new[write_index + 1] = RowAt(write_index)
    BY <1>1, <1>4, <1>5, AppendProperties
  <1>7. \A i \in 1..(write_index + 1) : new[i] = RowAt(i - 1)
    <2>1. \A i \in 1..write_index : VisibleRows[i] = RowAt(i - 1)
      BY DEF VisibleRows
    <2>2. (write_index + 1) - 1 = write_index
      BY <1>1
    <2> QED BY <1>1, <1>6, <2>1, <2>2
  <1>8. DOMAIN new = 1..(write_index + 1) /\ new = [i \in DOMAIN new |-> new[i]]
    BY <1>6, LenProperties
  <1> HIDE DEF new
  <1>9. new = [i \in 1..(write_index + 1) |-> RowAt(i - 1)]
    BY <1>7, <1>8
  <1> QED BY <1>3, <1>9 DEF new

\* Every step but a publication leaves the visible rows alone.
LEMMA OthersKeepRows ==
  ASSUME IInv, [Next]_vars, ~Publish
  PROVE  VisibleRows' = VisibleRows
  <1>1. CASE StoreRow \/ StoreFirstPart \/ StoreRemaining
    BY <1>1, StoresKeepRows
  <1>2. CASE AllocatePage \/ AllocateNextPage
    <2>1. page_index \in Nat /\ page_index + 1 \in Nat
      BY CurrentRow DEF IInv, TypeOK
    <2> QED BY <1>2, <2>1, AllocationKeepsRows DEF AllocatePage, AllocateNextPage
  <1>3. CASE \/ \E floats \in Packages : Receive(floats)
             \/ EndPackage
             \/ LimitReached
             \/ StopRequested
             \/ UNCHANGED vars
    <2>1. UNCHANGED <<measurement_data, write_index>>
      BY <1>3 DEF Receive, EndPackage, LimitReached, ReachLimit, StopRequested, vars
    <2> QED BY <2>1, SameRows
  <1> QED BY <1>1, <1>2, <1>3 DEF Next

\* The paged buffer implements the append-only log.
THEOREM Refinement == Spec => ImplementsRowLog
  <1>1. Init => Log!Init
    <2> SUFFICES ASSUME Init PROVE VisibleRows = <<>>
      BY DEF Log!Init
    <2> QED BY DEF Init, VisibleRows
  <1>2. IInv /\ [Next]_vars => [Log!Next]_VisibleRows
    <2> SUFFICES ASSUME IInv, [Next]_vars
                 PROVE  Log!Next \/ VisibleRows' = VisibleRows
      OBVIOUS
    <2>1. CASE Publish
      <3>1. RowAt(write_index) \in [Channels -> Value]
        BY <2>1, RowAtType DEF Publish, IInv, TypeOK
      <3> QED BY <2>1, <3>1, PublishAppends DEF Log!Next, Log!Record
    <2>2. CASE ~Publish
      BY <2>2, OthersKeepRows
    <2> QED BY <2>1, <2>2
  <1> QED BY <1>1, <1>2, Invariance, PTL DEF Spec, ImplementsRowLog, Log!Spec

-----------------------------------------------------------------------------
(***************************************************************************)
(* LivePlot.  The measurement thread takes the steps of PagedBuffer, so    *)
(* the invariant of the buffer holds next to the plot; and what a draw     *)
(* read of write_index stays true, because write_index only grows.         *)
(***************************************************************************)

\* What a draw knows of its window.
WindowPublished ==
  /\ draw \in {"idle", "start", "count", "scaled", "drawn"}
  /\ draw /= "idle" => start \in Nat /\ start < write_index
  /\ draw \in {"count", "scaled", "drawn"} =>
       count \in Nat \ {0} /\ start + count <= write_index

PlotIInv == IInv /\ WindowPublished

-----------------------------------------------------------------------------
\* The greater one of two numbers.
LEMMA MaxOfTwo ==
  ASSUME NEW a \in Int, NEW b \in Int
  PROVE  Max({a, b}) = IF a >= b THEN a ELSE b
  <1> DEFINE m == IF a >= b THEN a ELSE b
  <1>1. m \in {a, b} /\ \A y \in {a, b} : m >= y
    OBVIOUS
  <1>2. \A x \in {a, b} : (\A y \in {a, b} : x >= y) => x = m
    OBVIOUS
  <1> HIDE DEF m
  <1>3. (CHOOSE x \in {a, b} : \A y \in {a, b} : x >= y) = m
    BY <1>1, <1>2
  <1> QED BY <1>3 DEF Max, m

\* The measurement thread beside a plot takes steps of PagedBuffer.
LEMMA WorkerIsBuffer == Worker => Next
  <1>1. Samples \subseteq Packages
    <2>1. FloatNumber \in 1..MaxFloats
      BY GeometryAssumption, PlotAssumption
    <2> QED BY <2>1, PlotAssumption DEF Packages
  <1> QED BY <1>1 DEF Worker, Next

\* No step of the measurement thread takes a row back.
LEMMA WriteIndexGrows ==
  ASSUME TypeOK, Worker
  PROVE  write_index' \in Nat /\ write_index <= write_index'
  <1>1. write_index' \in {write_index, write_index + 1}
    BY DEF Worker, Receive, EndPackage, AllocatePage, LimitReached, ReachLimit, StoreRow,
           StoreFirstPart, AllocateNextPage, StoreRemaining, Publish
  <1> QED BY <1>1 DEF TypeOK

\* Every step keeps the buffer's invariant and the draw's window.
LEMMA PlotInductive == PlotIInv /\ [PlotNext]_plotVars => PlotIInv'
  <1> SUFFICES ASSUME PlotIInv, [PlotNext]_plotVars
               PROVE  PlotIInv'
    OBVIOUS
  <1>t. IInv /\ TypeOK /\ WindowPublished /\ write_index \in Nat
    BY DEF PlotIInv, IInv, TypeOK
  <1>1. CASE Worker
    <2>1. IInv'
      BY <1>1, <1>t, WorkerIsBuffer, Inductive
    <2>2. write_index' \in Nat /\ write_index <= write_index'
      BY <1>1, <1>t, WriteIndexGrows
    <2>3. UNCHANGED <<draw, start, count>>
      BY <1>1 DEF Worker, drawing
    <2>4. WindowPublished'
      BY <1>t, <2>2, <2>3 DEF WindowPublished
    <2> QED BY <2>1, <2>4 DEF PlotIInv
  <1>2. ASSUME UNCHANGED vars
        PROVE  IInv'
    BY <1>2, <1>t, Inductive
  <1>3. CASE /\ UNCHANGED vars
             /\ UNCHANGED <<draw, start, count>>
    <2>1. WindowPublished'
      BY <1>3, <1>t DEF WindowPublished, vars
    <2> QED BY <1>2, <1>3, <2>1 DEF PlotIInv
  <1>4. ASSUME NEW window \in Windows, DrawBegin(window)
        PROVE  PlotIInv'
    <2>1. UNCHANGED vars
      BY <1>4 DEF DrawBegin
    <2>2. /\ write_index > 0
          /\ start' = Max({write_index - window, 0})
          /\ draw' = "start"
      BY <1>4 DEF DrawBegin
    <2>3. window \in Nat \ {0}
      BY <1>4, PlotAssumption
    <2>4. start' \in Nat /\ start' < write_index
      BY <1>t, <2>2, <2>3, MaxOfTwo
    <2>5. WindowPublished'
      BY <2>1, <2>2, <2>4 DEF WindowPublished, vars
    <2> QED BY <1>2, <2>1, <2>5 DEF PlotIInv
  <1>5. CASE DrawCount
    <2>1. UNCHANGED vars /\ UNCHANGED start
      BY <1>5 DEF DrawCount
    <2>2. draw = "start" /\ draw' = "count" /\ count' = write_index - start
      BY <1>5 DEF DrawCount
    <2>3. start \in Nat /\ start < write_index
      BY <1>t, <2>2 DEF WindowPublished
    <2>4. count' \in Nat \ {0} /\ start + count' <= write_index
      BY <1>t, <2>2, <2>3
    <2>5. WindowPublished'
      BY <2>1, <2>2, <2>3, <2>4 DEF WindowPublished, vars
    <2> QED BY <1>2, <2>1, <2>5 DEF PlotIInv
  <1>6. CASE DrawAutoscale \/ DrawUnscaled \/ \E width \in Widths : DrawChannels(width)
    <2>1. /\ UNCHANGED vars /\ UNCHANGED <<start, count>>
          /\ draw \in {"count", "scaled"} /\ draw' \in {"scaled", "drawn"}
      BY <1>6 DEF DrawAutoscale, DrawUnscaled, DrawChannels
    <2>2. WindowPublished'
      BY <1>t, <2>1 DEF WindowPublished, vars
    <2> QED BY <1>2, <2>1, <2>2 DEF PlotIInv
  <1>7. CASE DrawEnd
    <2>1. UNCHANGED vars /\ draw' = "idle"
      BY <1>7 DEF DrawEnd
    <2>2. WindowPublished'
      BY <2>1 DEF WindowPublished
    <2> QED BY <1>2, <2>1, <2>2 DEF PlotIInv
  <1>8. CASE \/ \E ch \in Sensors : ToggleChannel(ch)
             \/ toggle_visible_channels \/ ToggleFast \/ ToggleAutoscale
             \/ \E range \in TypedRanges : TypeRange(range)
             \/ UNCHANGED plotVars
    <2>1. UNCHANGED vars /\ UNCHANGED <<draw, start, count>>
      BY <1>8 DEF ToggleChannel, toggle_visible_channels, ToggleFast, ToggleAutoscale,
                  TypeRange, plotVars, drawing
    <2> QED BY <1>3, <2>1
  <1> QED BY <1>1, <1>4, <1>5, <1>6, <1>7, <1>8 DEF PlotNext

-----------------------------------------------------------------------------
\* The inductive invariant of a plot beside a measurement.
THEOREM PlotInvariance == PlotSpec => []PlotIInv
  <1>1. PlotInit => PlotIInv
    BY InitEstablishes DEF PlotInit, PlotIInv, WindowPublished
  <1> QED BY <1>1, PlotInductive, PTL DEF PlotSpec

\* Every row that a draw reads was published and lies in allocated pages.
THEOREM PlotReads == PlotSpec => []PlotReadsPublishedRows
  <1>1. PlotIInv => PlotReadsPublishedRows
    <2> SUFFICES ASSUME PlotIInv, draw \in {"count", "scaled", "drawn"}
                 PROVE  /\ count > 0
                        /\ \A r \in start..(window_end - 1), ch \in Channels :
                             /\ r < write_index
                             /\ PageOf(r * FloatNumber + ch) < allocated_pages
      BY DEF PlotReadsPublishedRows
    <2>1. /\ start \in Nat /\ count \in Nat \ {0}
          /\ start + count <= write_index /\ write_index \in Nat
      BY DEF PlotIInv, WindowPublished, IInv, TypeOK
    <2>2. TypeOK /\ RowsAllocated
      BY DEF PlotIInv, IInv
    <2> SUFFICES ASSUME NEW r \in start..(window_end - 1), NEW ch \in Channels
                 PROVE  /\ r < write_index
                        /\ PageOf(r * FloatNumber + ch) < allocated_pages
      BY <2>1
    <2>3. r \in Nat /\ r < write_index
      BY <2>1 DEF window_end
    <2> QED BY <2>2, <2>3, VisiblePages
  <1> QED BY <1>1, PlotInvariance, PTL

-----------------------------------------------------------------------------
(* Finite sets of numbers.                                                 *)

\* A nonempty set of naturals has a least member.
LEMMA LeastNatural ==
  ASSUME NEW S, S \subseteq Nat, S /= {}
  PROVE  \E m \in S : \A n \in S : m <= n
  <1>1. PICK m \in S : \A n \in S : <<n, m>> \notin OpToRel(<, Nat)
    BY NatLessThanWellFounded, WFMin, Zenon
  <1>2. \A n \in S : <<n, m>> \in Nat \X Nat /\ <<n, m>>[1] = n /\ <<n, m>>[2] = m
    OBVIOUS
  <1>3. \A n \in S : ~ (n < m)
    BY <1>1, <1>2, Zenon DEF OpToRel
  <1> QED BY <1>3

\* A set that has 0 and, with every number, the next one has them all: the
\* first number it lacks would follow one that it has.
LEMMA Induct ==
  ASSUME NEW S, 0 \in S, \A n \in Nat : n \in S => n + 1 \in S
  PROVE  Nat \subseteq S
  <1> DEFINE T == {n \in Nat : n \notin S}
  <1>1. SUFFICES ASSUME T /= {} PROVE FALSE
    OBVIOUS
  <1>2. PICK m \in T : \A n \in T : m <= n
    BY <1>1, LeastNatural
  <1>3. m - 1 \in Nat /\ m - 1 \notin T
    BY <1>2
  <1> QED BY <1>2, <1>3

\* Among finitely many numbers in a row one is the greatest and one the least.
LEMMA ExtremesOfList ==
  ASSUME NEW n \in Nat \ {0}, NEW f \in [1..n -> Int]
  PROVE  \E i, j \in 1..n : \A k \in 1..n : f[i] <= f[k] /\ f[k] <= f[j]
  <1> DEFINE Bounded(m) == \E i, j \in 1..n : \A k \in 1..m : f[i] <= f[k] /\ f[k] <= f[j]
             U == {m \in Nat : m <= n => Bounded(m)}
  <1>1. 0 \in U
    <2>1. 1 \in 1..n /\ 1..0 = {}
      OBVIOUS
    <2>2. Bounded(0)
      BY <2>1
    <2> QED BY <2>2
  <1>2. ASSUME NEW m \in Nat, m \in U
        PROVE  m + 1 \in U
    <2> SUFFICES ASSUME m + 1 <= n PROVE Bounded(m + 1)
      OBVIOUS
    <2>1. PICK i \in 1..n, j \in 1..n : \A k \in 1..m : f[i] <= f[k] /\ f[k] <= f[j]
      BY <1>2
    <2>2. m + 1 \in 1..n /\ \A k \in 1..n : f[k] \in Int
      OBVIOUS
    <2> DEFINE a == IF f[i] <= f[m + 1] THEN i ELSE m + 1
               b == IF f[m + 1] <= f[j] THEN j ELSE m + 1
    <2>3. a \in 1..n /\ b \in 1..n
      BY <2>2
    <2>4. ASSUME NEW k \in 1..(m + 1) PROVE f[a] <= f[k] /\ f[k] <= f[b]
      <3>1. k \in 1..n
        BY <2>2
      <3>2. CASE k = m + 1
        BY <2>2, <3>1, <3>2
      <3>3. CASE k /= m + 1
        <4>1. k \in 1..m
          BY <3>3
        <4> QED BY <2>1, <2>2, <3>1, <4>1
      <3> QED BY <3>2, <3>3
    <2> HIDE DEF a, b
    <2> QED BY <2>3, <2>4
  <1> HIDE DEF U
  <1>3. n \in U
    BY <1>1, <1>2, Induct
  <1> QED BY <1>3 DEF U

\* A finite nonempty set of integers has a least and a greatest member, and
\* these are Min and Max.
LEMMA FiniteExtremes ==
  ASSUME NEW S, IsFiniteSet(S), S \subseteq Int, S /= {}
  PROVE  /\ Min(S) \in S /\ \A x \in S : Min(S) <= x
         /\ Max(S) \in S /\ \A x \in S : x <= Max(S)
  <1> DEFINE n == Cardinality(S)
  <1>1. n \in Nat /\ ExistsBijection(1..n, S)
    BY FS_CardinalityType
  <1>2. PICK f \in Bijection(1..n, S) : TRUE
    BY <1>1 DEF ExistsBijection
  <1>3. f \in [1..n -> S] /\ \A x \in S : \E i \in 1..n : f[i] = x
    BY <1>2 DEF Bijection, Surjection
  <1>4. n /= 0
    BY FS_EmptySet
  <1> HIDE DEF n
  <1>5. PICK i \in 1..n, j \in 1..n : \A k \in 1..n : f[i] <= f[k] /\ f[k] <= f[j]
    <2>1. n \in Nat \ {0} /\ f \in [1..n -> Int]
      BY <1>1, <1>3, <1>4
    <2> QED BY <2>1, ExtremesOfList
  <1>6. f[i] \in S /\ \A x \in S : f[i] <= x
    BY <1>3, <1>5
  <1>7. f[j] \in S /\ \A x \in S : f[j] >= x
    BY <1>3, <1>5
  <1>8. Min(S) \in S /\ \A x \in S : Min(S) <= x
    BY <1>6 DEF Min
  <1>9. Max(S) \in S /\ \A x \in S : Max(S) >= x
    BY <1>7 DEF Max
  <1> QED BY <1>8, <1>9

\* What a function takes on a finite set is finite.
LEMMA FiniteImage ==
  ASSUME NEW S, IsFiniteSet(S), NEW f, f = [x \in S |-> f[x]]
  PROVE  IsFiniteSet({f[x] : x \in S})
  <1> DEFINE T == {f[x] : x \in S}
  <1>1. f \in Surjection(S, T)
    BY DEF Surjection
  <1> QED BY <1>1, FS_Surjection

-----------------------------------------------------------------------------
(* What a plot shows of the rows that it reads.                            *)

\* The measurement thread never changes a reading of a published row.
LEMMA ReadingsStay ==
  ASSUME IInv, [Next]_vars, NEW r \in Nat, r < write_index, NEW ch \in Channels
  PROVE  Reading(r, ch)' = Reading(r, ch)
  <1>1. CASE Publish
    BY <1>1 DEF Publish, Reading
  <1>2. CASE ~Publish
    <2>1. VisibleRows' = VisibleRows
      BY <1>2, OthersKeepRows
    <2>2. write_index \in Nat /\ r + 1 \in 1..write_index /\ (r + 1) - 1 = r
      BY DEF IInv, TypeOK
    <2>3. DOMAIN VisibleRows = 1..write_index /\ DOMAIN VisibleRows' = 1..write_index'
      BY DEF VisibleRows
    <2>4. VisibleRows[r + 1] = RowAt(r) /\ VisibleRows'[r + 1] = RowAt(r)'
      BY <2>1, <2>2, <2>3 DEF VisibleRows
    <2>5. RowAt(r)' = RowAt(r)
      BY <2>1, <2>4
    <2>6. RowAt(r)[ch] = Reading(r, ch) /\ RowAt(r)'[ch] = Reading(r, ch)'
      BY DEF RowAt, Reading
    <2> QED BY <2>5, <2>6
  <1> QED BY <1>1, <1>2

\* A reading of a published row is a whole number of hundredths.
LEMMA ReadingIsNumber ==
  ASSUME IInv, NEW r \in Nat, r < write_index, NEW ch \in Channels
  PROVE  Reading(r, ch) \in Int
  <1>1. RowAt(r) \in [Channels -> Value]
    BY RowAtType
  <1>2. RowAt(r)[ch] = Reading(r, ch)
    BY DEF RowAt, Reading
  <1> QED BY <1>1, <1>2, PlotAssumption

\* The sensors are channels of the rows.
LEMMA SensorsAreChannels == Sensors \subseteq Channels
  BY GeometryAssumption DEF Sensors, Channels

\* The extent of some rows of a channel reaches over the reading of each.
LEMMA ExtentReaches ==
  ASSUME IInv, NEW ch \in Channels, NEW rows, IsFiniteSet(rows),
         rows \subseteq 0..(write_index - 1), NEW r \in rows
  PROVE  Extent(ch, rows).lo <= Reading(r, ch) /\ Reading(r, ch) <= Extent(ch, rows).hi
  <1> DEFINE f == [x \in rows |-> Reading(x, ch)]
             values == {f[x] : x \in rows}
  <1>1. \A x \in rows : f[x] \in Int /\ f[x] = Reading(x, ch)
    <2> TAKE x \in rows
    <2>1. write_index \in Nat
      BY DEF IInv, TypeOK
    <2>2. x \in Nat /\ x < write_index
      BY <2>1
    <2> QED BY <2>2, ReadingIsNumber
  <1>2. values = {Reading(x, ch) : x \in rows}
    OBVIOUS
  <1>3. IsFiniteSet(values)
    <2>1. f = [x \in rows |-> f[x]]
      OBVIOUS
    <2> HIDE DEF f
    <2> QED BY <2>1, FiniteImage
  <1>4. values \subseteq Int /\ Reading(r, ch) \in values
    BY <1>1
  <1>5. Extent(ch, rows).lo = Min(values) /\ Extent(ch, rows).hi = Max(values)
    BY <1>2 DEF Extent
  <1> HIDE DEF values, f
  <1> QED BY <1>3, <1>4, <1>5, FiniteExtremes

\* Slow: every row of the window is a point of its own.
LEMMA PointsReach ==
  ASSUME PlotIInv, draw = "scaled", NEW ch \in Channels, NEW r \in start..(window_end - 1)
  PROVE  \E i \in DOMAIN Points(ch) :
           Points(ch)[i].lo <= Reading(r, ch) /\ Reading(r, ch) <= Points(ch)[i].hi
  <1>1. /\ IInv /\ write_index \in Nat /\ start \in Nat /\ count \in Nat \ {0}
        /\ start + count <= write_index
    BY DEF PlotIInv, WindowPublished, IInv, TypeOK
  <1>2. r \in Nat /\ r < write_index /\ r - start + 1 \in 1..count
        /\ start + (r - start + 1) - 1 = r
    BY <1>1 DEF window_end
  <1>3. {r} \subseteq 0..(write_index - 1)
    BY <1>1, <1>2
  <1>4. Extent(ch, {r}).lo <= Reading(r, ch) /\ Reading(r, ch) <= Extent(ch, {r}).hi
    <2>1. IsFiniteSet({r})
      BY FS_Singleton
    <2> QED BY <1>1, <1>3, <2>1, ExtentReaches
  <1>5. DOMAIN Points(ch) = 1..count /\ Points(ch)[r - start + 1] = Extent(ch, {r})
    BY <1>2 DEF Points
  <1> QED BY <1>2, <1>4, <1>5

\* What a division leaves.
LEMMA Quotient ==
  ASSUME NEW a \in Nat, NEW b \in Nat \ {0}
  PROVE  a \div b \in Nat /\ b * (a \div b) <= a /\ a < b * (a \div b) + b
  OBVIOUS

\* Rows per column: at least one, and too few for less than one row per column.
LEMMA RowsPerColumn ==
  ASSUME NEW width \in Nat \ {0}, count \in Nat \ {0}
  PROVE  /\ samples_per_pixel(width) \in Nat \ {0}
         /\ count < width * samples_per_pixel(width) + width
  <1> DEFINE q == count \div width
  <1>1. q \in Nat /\ width * q <= count /\ count < width * q + width
    BY Quotient
  <1>2. samples_per_pixel(width) = Max({q, 1})
    BY DEF samples_per_pixel
  <1> HIDE DEF q
  <1>3. Max({q, 1}) = IF q >= 1 THEN q ELSE 1
    BY <1>1, MaxOfTwo
  <1>4. CASE q >= 1
    BY <1>1, <1>2, <1>3, <1>4
  <1>5. CASE q = 0
    BY <1>1, <1>2, <1>3, <1>5
  <1> QED BY <1>1, <1>4, <1>5

\* The lesser one of two numbers.
LEMMA MinOfTwo ==
  ASSUME NEW a \in Int, NEW b \in Int
  PROVE  Min({a, b}) = IF a <= b THEN a ELSE b
  <1> DEFINE m == IF a <= b THEN a ELSE b
  <1>1. m \in {a, b} /\ \A y \in {a, b} : m <= y
    OBVIOUS
  <1>2. \A x \in {a, b} : (\A y \in {a, b} : x <= y) => x = m
    OBVIOUS
  <1> HIDE DEF m
  <1>3. (CHOOSE x \in {a, b} : \A y \in {a, b} : x <= y) = m
    BY <1>1, <1>2
  <1> QED BY <1>3 DEF Min, m

\* The rows of a column are those of its range that the window has.
LEMMA RowsOfColumn ==
  ASSUME NEW width \in Nat \ {0}, NEW px \in Nat, start \in Nat, count \in Nat \ {0}
  PROVE  LET s  == samples_per_pixel(width)
             i0 == start + px * s
         IN  /\ s \in Nat \ {0} /\ px * s \in Nat
             /\ RowsOfPixel(px, width) = {r \in i0..(window_end - 1) : r < i0 + s}
             /\ IsFiniteSet(RowsOfPixel(px, width))
  <1> DEFINE s  == samples_per_pixel(width)
             i0 == start + px * s
             to == Min({i0 + s, window_end})
  <1>1. s \in Nat \ {0}
    BY RowsPerColumn
  <1>2. px * s \in Nat
    <2> HIDE DEF s
    <2> QED BY <1>1
  <1>3. i0 \in Nat /\ window_end \in Nat
    <2> HIDE DEF s
    <2> QED BY <1>2 DEF window_end
  <1>4. to = IF i0 + s <= window_end THEN i0 + s ELSE window_end
    <2> HIDE DEF s, i0
    <2> QED BY <1>1, <1>3, MinOfTwo
  <1>5. RowsOfPixel(px, width) = i0..(to - 1)
    BY DEF RowsOfPixel
  <1> HIDE DEF s, i0, to
  <1>6. i0..(to - 1) = {r \in i0..(window_end - 1) : r < i0 + s}
    BY <1>1, <1>3, <1>4
  <1>7. IsFiniteSet(i0..(to - 1))
    BY <1>1, <1>3, <1>4, FS_Interval
  <1> QED BY <1>1, <1>2, <1>5, <1>6, <1>7 DEF s, i0

\* Fast: a row is in the line of its column, or is one of the newest rows,
\* fewer than there are columns.
LEMMA ColumnsReach ==
  ASSUME PlotIInv, draw = "scaled", NEW ch \in Channels, NEW width \in Widths,
         FastColumns(ch, width) /= <<>>, NEW r \in start..(window_end - 1)
  PROVE  \/ r > window_end - Max(Widths)
         \/ \E i \in DOMAIN FastColumns(ch, width) :
              /\ FastColumns(ch, width)[i].lo <= Reading(r, ch)
              /\ Reading(r, ch) <= FastColumns(ch, width)[i].hi
  <1> DEFINE s == samples_per_pixel(width)
             d == r - start
             p == d \div s
             pixels == {px \in 0..(width - 1) : RowsOfPixel(px, width) /= {}}
  <1>1. /\ IInv /\ write_index \in Nat /\ start \in Nat /\ count \in Nat \ {0}
        /\ start + count <= write_index
    BY DEF PlotIInv, WindowPublished, IInv, TypeOK
  <1>2. /\ Widths \subseteq Nat \ {0} /\ IsFiniteSet(Widths)
        /\ width \in Nat \ {0} /\ Max(Widths) \in Nat /\ width <= Max(Widths)
    <2>1. Widths \subseteq Nat \ {0} /\ IsFiniteSet(Widths)
      BY PlotAssumption
    <2>2. width \in Nat \ {0} /\ Widths /= {} /\ Widths \subseteq Int
      BY <2>1
    <2>3. Max(Widths) \in Widths /\ width <= Max(Widths)
      BY <2>1, <2>2, FiniteExtremes
    <2> QED BY <2>1, <2>2, <2>3
  <1>3. d \in 0..(count - 1) /\ r \in Nat /\ r < write_index /\ r = start + d
    BY <1>1 DEF window_end
  <1>4. s \in Nat \ {0} /\ count < width * s + width
    BY <1>1, <1>2, RowsPerColumn
  <1>5. p \in Nat /\ p * s <= d /\ d < p * s + s /\ p * s \in Nat
    <2> HIDE DEF s, d
    <2>1. p \in Nat /\ s * p <= d /\ d < s * p + s
      BY <1>3, <1>4
    <2> HIDE DEF p
    <2>2. p * s = s * p /\ p * s \in Nat
      BY <1>4, <2>1
    <2> QED BY <2>1, <2>2
  <1>6. CASE p >= width
    <2> HIDE DEF s, d, p
    <2>1. width * s <= p * s
      BY <1>2, <1>4, <1>5, <1>6
    <2>2. width * s \in Nat
      BY <1>2, <1>4
    <2>3. d > count - width
      BY <1>3, <1>4, <1>5, <2>1, <2>2, <1>1, <1>2
    <2> QED BY <1>1, <1>2, <1>3, <2>3 DEF window_end
  <1>7. CASE p < width
    <2>1. \A px \in 0..p : px \in Nat /\ px * s \in Nat /\ px * s <= p * s
      <3> HIDE DEF s, p
      <3> QED BY <1>4, <1>5
    <2>2. ASSUME NEW px \in 0..p
          PROVE  /\ RowsOfPixel(px, width) = {x \in (start + px * s)..(window_end - 1) :
                                                x < start + px * s + s}
                 /\ IsFiniteSet(RowsOfPixel(px, width))
                 /\ RowsOfPixel(px, width) /= {}
      <3>1. px \in Nat /\ px * s \in Nat /\ px * s <= p * s
        BY <2>1
      <3>2. /\ RowsOfPixel(px, width) = {x \in (start + px * s)..(window_end - 1) :
                                            x < start + px * s + s}
            /\ IsFiniteSet(RowsOfPixel(px, width))
        BY <1>1, <1>2, <3>1, RowsOfColumn
      <3> HIDE DEF s, d, p
      <3>3. start + px * s \in (start + px * s)..(window_end - 1)
        BY <1>1, <1>3, <1>5, <3>1 DEF window_end
      <3> QED BY <1>1, <1>4, <3>1, <3>2, <3>3
    <2>3. 0..p \subseteq pixels
      <3>1. \A px \in 0..p : px \in 0..(width - 1)
        <4> HIDE DEF p
        <4> QED BY <1>2, <1>5, <1>7
      <3> HIDE DEF p
      <3> QED BY <2>2, <3>1
    <2>4. p + 1 \in 1..Cardinality(pixels)
      <3>1. IsFiniteSet(pixels)
        <4>1. IsFiniteSet(0..(width - 1))
          BY <1>2, FS_Interval
        <4> QED BY <4>1, FS_Subset
      <3> HIDE DEF p, pixels
      <3>2. Cardinality(0..p) = p + 1
        BY <1>5, FS_Interval
      <3>3. Cardinality(0..p) <= Cardinality(pixels) /\ Cardinality(pixels) \in Nat
        BY <2>3, <3>1, FS_Subset, FS_CardinalityType
      <3> QED BY <1>5, <3>2, <3>3
    <2>5. r \in RowsOfPixel(p, width)
      <3>1. p \in 0..p
        BY <1>5
      <3> HIDE DEF s, p, d
      <3>2. r \in (start + p * s)..(window_end - 1) /\ r < start + p * s + s
        BY <1>1, <1>3, <1>4, <1>5 DEF window_end
      <3> QED BY <2>2, <3>1, <3>2
    <2>6. /\ DOMAIN FastColumns(ch, width) = 1..Cardinality(pixels)
          /\ FastColumns(ch, width)[p + 1] = Extent(ch, RowsOfPixel(p, width))
      <3>1. FastColumns(ch, width)
              = [i \in 1..Cardinality(pixels) |-> Extent(ch, RowsOfPixel(i - 1, width))]
        BY DEF FastColumns
      <3>2. (p + 1) - 1 = p
        BY <1>5
      <3> HIDE DEF p, pixels
      <3> QED BY <2>4, <3>1, <3>2
    <2>7. /\ Extent(ch, RowsOfPixel(p, width)).lo <= Reading(r, ch)
          /\ Reading(r, ch) <= Extent(ch, RowsOfPixel(p, width)).hi
      <3>1. p \in 0..p
        BY <1>5
      <3>2. RowsOfPixel(p, width) \subseteq 0..(write_index - 1)
        <4> HIDE DEF s, p
        <4> QED BY <1>1, <1>5, <2>2, <3>1 DEF window_end
      <3> HIDE DEF p
      <3> QED BY <1>1, <2>2, <2>5, <3>1, <3>2, ExtentReaches
    <2> HIDE DEF p, pixels
    <2> QED BY <2>4, <2>6, <2>7
  <1> QED BY <1>2, <1>5, <1>6, <1>7

\* The checked channels are sensors.
ChannelsKnown == chan_checkbuttons \subseteq Sensors

\* A finished picture reaches over its window, and stays so until the draw ends.
LEMMA PictureStep ==
  ASSUME PlotIInv, ChannelsKnown, PlotShowsExtremes, [PlotNext]_plotVars
  PROVE  ChannelsKnown' /\ PlotShowsExtremes'
  <1>1. ChannelsKnown'
    BY DEF ChannelsKnown, PlotNext, Worker, ToggleChannel, toggle_visible_channels, ToggleFast,
           ToggleAutoscale, TypeRange, DrawBegin, DrawCount, DrawAutoscale, DrawUnscaled,
           DrawChannels, DrawEnd, buttons, plotVars
  <1>2. CASE Worker
    <2>1. UNCHANGED <<draw, start, count, plotted, fast_mode, chan_checkbuttons>>
      BY <1>2 DEF Worker, drawing, buttons
    <2>2. IInv /\ [Next]_vars
      BY <1>2, WorkerIsBuffer DEF PlotIInv
    <2> SUFFICES ASSUME draw = "drawn", NEW ch \in chan_checkbuttons, plotted[ch] /= <<>>,
                        NEW r \in start..(window_end - 1)
                 PROVE  \/ fast_mode /\ r > window_end - Max(Widths)
                        \/ \E i \in DOMAIN plotted[ch] :
                             /\ plotted[ch][i].lo <= Reading(r, ch)'
                             /\ Reading(r, ch)' <= plotted[ch][i].hi
      BY <1>1, <2>1 DEF PlotShowsExtremes, window_end
    <2>3. r \in Nat /\ r < write_index
      <3>1. /\ write_index \in Nat /\ start \in Nat /\ count \in Nat
            /\ start + count <= write_index
        BY DEF PlotIInv, WindowPublished, IInv, TypeOK
      <3> QED BY <3>1 DEF window_end
    <2>4. ch \in Channels
      BY SensorsAreChannels DEF ChannelsKnown
    <2>5. Reading(r, ch)' = Reading(r, ch)
      BY <2>2, <2>3, <2>4, ReadingsStay
    <2> QED BY <2>5 DEF PlotShowsExtremes
  <1>3. ASSUME NEW width \in Widths, DrawChannels(width)
        PROVE  PlotShowsExtremes'
    <2>1. /\ draw = "scaled"
          /\ plotted' = [ch \in chan_checkbuttons |->
                           IF fast_mode THEN FastColumns(ch, width) ELSE Points(ch)]
          /\ UNCHANGED <<vars, buttons, start, count>>
      BY <1>3 DEF DrawChannels
    <2>2. /\ UNCHANGED <<measurement_data, start, count, fast_mode, chan_checkbuttons>>
      BY <2>1 DEF vars, buttons
    <2>3. \A r, ch : Reading(r, ch)' = Reading(r, ch)
      BY <2>2 DEF Reading
    <2> SUFFICES ASSUME NEW ch \in chan_checkbuttons, plotted'[ch] /= <<>>,
                        NEW r \in start..(window_end - 1)
                 PROVE  \/ fast_mode /\ r > window_end - Max(Widths)
                        \/ \E i \in DOMAIN plotted'[ch] :
                             /\ plotted'[ch][i].lo <= Reading(r, ch)
                             /\ Reading(r, ch) <= plotted'[ch][i].hi
      BY <2>2, <2>3 DEF PlotShowsExtremes, window_end
    <2>4. ch \in Channels
      BY SensorsAreChannels DEF ChannelsKnown
    <2>5. CASE fast_mode
      <3>1. plotted'[ch] = FastColumns(ch, width)
        BY <2>1, <2>5
      <3> QED BY <2>1, <2>4, <2>5, <3>1, ColumnsReach
    <2>6. CASE ~fast_mode
      <3>1. plotted'[ch] = Points(ch)
        BY <2>1, <2>6
      <3> QED BY <2>1, <2>4, <3>1, PointsReach
    <2> QED BY <2>5, <2>6
  <1>4. CASE UNCHANGED plotVars
    <2>1. UNCHANGED <<measurement_data, chan_checkbuttons, fast_mode, draw, start, count, plotted>>
      BY <1>4 DEF plotVars, vars, buttons, drawing
    <2>2. \A r, ch : Reading(r, ch)' = Reading(r, ch)
      BY <2>1 DEF Reading
    <2> QED BY <1>1, <2>1, <2>2 DEF PlotShowsExtremes, window_end
  <1>5. ASSUME draw' /= "drawn" PROVE PlotShowsExtremes'
    BY <1>5 DEF PlotShowsExtremes
  <1>6. CASE \/ \E ch \in Sensors : ToggleChannel(ch)
             \/ toggle_visible_channels \/ ToggleFast \/ ToggleAutoscale
             \/ \E range \in TypedRanges : TypeRange(range)
             \/ \E window \in Windows : DrawBegin(window)
             \/ DrawCount \/ DrawAutoscale \/ DrawUnscaled \/ DrawEnd
    <2>1. draw' \in {"idle", "start", "count", "scaled"}
      BY <1>6 DEF ToggleChannel, toggle_visible_channels, ToggleFast, ToggleAutoscale,
                  TypeRange, DrawBegin, DrawCount, DrawAutoscale, DrawUnscaled, DrawEnd, drawing
    <2> QED BY <1>1, <1>5, <2>1
  <1> QED BY <1>1, <1>2, <1>3, <1>4, <1>6 DEF PlotNext

\* The picture of a draw reaches over every value of its window, but for the
\* newest rows that the fast routine leaves out, fewer than the plot has
\* columns (on_plot_draw), however the measurement goes on meanwhile.
THEOREM ExtremesShown == PlotSpec => []PlotShowsExtremes
  <1>1. PlotInit => ChannelsKnown /\ PlotShowsExtremes
    BY DEF PlotInit, ChannelsKnown, PlotShowsExtremes
  <1>2. PlotIInv /\ ChannelsKnown /\ PlotShowsExtremes /\ [PlotNext]_plotVars
          => ChannelsKnown' /\ PlotShowsExtremes'
    BY PictureStep
  <1> QED BY <1>1, <1>2, PlotInvariance, PTL DEF PlotSpec

-----------------------------------------------------------------------------
(* The range of the y axis.                                                *)

\* Rounding to tenths: off by at most half a tenth, monotonic, and a tenth
\* stays what it is.
LEMMA TenthsNear ==
  ASSUME NEW x \in Int
  PROVE  /\ Tenths(x) \in Int
         /\ Tenths(x) - 50 <= x /\ x <= Tenths(x) + 50
         /\ Tenths(Tenths(x)) = Tenths(x)
         /\ \A y \in Int : x <= y => Tenths(x) <= Tenths(y)
  BY DEF Tenths

\* The values of the window are finitely many numbers.
LEMMA WindowIsFinite ==
  ASSUME PlotIInv, ChannelsKnown, draw = "count"
  PROVE  WindowValues \subseteq Int /\ IsFiniteSet(WindowValues)
  <1> DEFINE R == start..(window_end - 1)
             C == Sensors \cap chan_checkbuttons
             f == [x \in R \X C |-> Reading(x[1], x[2])]
  <1>1. /\ IInv /\ write_index \in Nat /\ start \in Nat /\ count \in Nat \ {0}
        /\ start + count <= write_index
    BY DEF PlotIInv, WindowPublished, IInv, TypeOK
  <1>2. IsFiniteSet(R \X C)
    <2>1. IsFiniteSet(R)
      BY <1>1, FS_Interval DEF window_end
    <2>2. IsFiniteSet(Sensors)
      BY GeometryAssumption, FS_Interval DEF Sensors
    <2>3. IsFiniteSet(C)
      BY <2>2, FS_Subset
    <2> QED BY <2>1, <2>3, FS_Product
  <1>3. WindowValues = {f[x] : x \in R \X C}
    <2>1. \A v : v \in WindowValues <=> \E r \in R, ch \in C : v = Reading(r, ch)
      BY DEF WindowValues
    <2> HIDE DEF R, C
    <2>2. \A r \in R, ch \in C : <<r, ch>> \in R \X C /\ f[<<r, ch>>] = Reading(r, ch)
      OBVIOUS
    <2>3. \A x \in R \X C : x[1] \in R /\ x[2] \in C /\ f[x] = Reading(x[1], x[2])
      OBVIOUS
    <2> HIDE DEF f
    <2>4. \A x \in R \X C : f[x] \in WindowValues
      BY <2>1, <2>3, Zenon
    <2>5. \A v \in WindowValues : \E x \in R \X C : v = f[x]
      <3> TAKE v \in WindowValues
      <3>1. PICK r \in R, ch \in C : v = Reading(r, ch)
        BY <2>1
      <3>2. <<r, ch>> \in R \X C /\ v = f[<<r, ch>>]
        BY <2>2, <3>1
      <3> QED BY <3>2
    <2> QED BY <2>4, <2>5
  <1>4. f = [x \in R \X C |-> f[x]]
    OBVIOUS
  <1>5. \A x \in R \X C : f[x] \in Int
    <2> SUFFICES ASSUME NEW r \in R, NEW ch \in C PROVE Reading(r, ch) \in Int
      OBVIOUS
    <2>1. r \in Nat /\ r < write_index
      BY <1>1 DEF window_end
    <2>2. ch \in Channels
      BY SensorsAreChannels
    <2> QED BY <1>1, <2>1, <2>2, ReadingIsNumber
  <1> HIDE DEF f, R, C
  <1>6. IsFiniteSet({f[x] : x \in R \X C})
    BY <1>2, <1>4, FiniteImage
  <1> QED BY <1>3, <1>5, <1>6

\* What holds of the ranges besides: a draw starts from the entries, or from
\* the fallback; what was scaled to is in entries that were written back, and
\* those are tenths.
RangeIInv ==
  /\ entries \in [min : Int, max : Int]
  /\ draw \in {"start", "count"} =>
       y_range = IF Valid(entries) THEN entries ELSE FallbackRange
  /\ scaled \subseteq Int
  /\ ~autoscale => scaled = {}
  /\ scaled /= {} => Tenths(entries.min) = entries.min /\ Tenths(entries.max) = entries.max
  /\ ScaledValuesStayInRange

\* The range scaled to a window reaches over the window and the range before.
LEMMA AutoscaledReaches ==
  ASSUME NEW range \in [min : Int, max : Int],
         WindowValues \subseteq Int, IsFiniteSet(WindowValues), WindowValues /= {}
  PROVE  /\ Autoscaled(range) \in [min : Int, max : Int]
         /\ Autoscaled(range).min <= range.min /\ range.max <= Autoscaled(range).max
         /\ \A v \in WindowValues :
              Autoscaled(range).min <= 10 * v /\ 10 * v <= Autoscaled(range).max
  <1> DEFINE lo  == Min(WindowValues)
             hi  == Max(WindowValues)
             low == 10 * lo - (hi - lo)
             top == 10 * hi + (hi - lo)
  <1>1. lo \in Int /\ hi \in Int /\ lo <= hi /\ \A v \in WindowValues : lo <= v /\ v <= hi
    BY FiniteExtremes
  <1>2. Autoscaled(range) = [min |-> Min({low, range.min}), max |-> Max({top, range.max})]
    BY DEF Autoscaled
  <1>3. range.min \in Int /\ range.max \in Int
    OBVIOUS
  <1> HIDE DEF lo, hi
  <1>4. low \in Int /\ top \in Int
    BY <1>1
  <1>5. \A v \in WindowValues : low <= 10 * v /\ 10 * v <= top
    BY <1>1
  <1> HIDE DEF low, top
  <1>6. /\ Min({low, range.min}) = IF low <= range.min THEN low ELSE range.min
        /\ Max({top, range.max}) = IF top >= range.max THEN top ELSE range.max
    BY <1>3, <1>4, MinOfTwo, MaxOfTwo
  <1> QED BY <1>1, <1>2, <1>3, <1>4, <1>5, <1>6

\* The two fixed ranges are numbers, and the text of the fallback is exact.
FallbackIsTenths ==
  /\ FallbackRange \in [min : Int, max : Int] /\ DefaultRange \in [min : Int, max : Int]
  /\ FallbackRange.min \in Int /\ FallbackRange.max \in Int
  /\ Tenths(FallbackRange.min) = FallbackRange.min
  /\ Tenths(FallbackRange.max) = FallbackRange.max

LEMMA FallbackTenths == FallbackIsTenths
  <1>1. /\ FallbackRange.min = -2500000 /\ FallbackRange.max = 2500000
        /\ FallbackRange \in [min : Int, max : Int] /\ DefaultRange \in [min : Int, max : Int]
    BY SMT DEF FallbackRange, DefaultRange
  <1>2. Tenths(-2500000) = -2500000 /\ Tenths(2500000) = 2500000
    <2>1. \A k \in Int : Tenths(100 * k) = 100 * k
      BY SMT DEF Tenths
    <2>2. 100 * (-25000) = -2500000 /\ 100 * 25000 = 2500000
      BY SMT
    <2> QED BY <2>1, <2>2, SMT
  <1> QED BY <1>1, <1>2, SMT DEF FallbackIsTenths

\* A range that a draw scaled or kept, written back into the entries.
LEMMA WrittenBack ==
  ASSUME PlotIInv, ChannelsKnown, RangeIInv, DrawAutoscale
  PROVE  RangeIInv'
  <1>1. /\ draw = "count" /\ autoscale /\ draw' = "scaled"
        /\ y_range' = IF Spread THEN Autoscaled(y_range) ELSE y_range
        /\ scaled' = IF Spread THEN scaled \cup WindowValues ELSE scaled
        /\ entries' = [min |-> Tenths(y_range'.min), max |-> Tenths(y_range'.max)]
        /\ autoscale' = autoscale
    BY DEF DrawAutoscale, buttons
  <1>2. entries.min \in Int /\ entries.max \in Int
    BY DEF RangeIInv
  <1>3. FallbackIsTenths
    BY FallbackTenths
  <1>4. y_range \in [min : Int, max : Int]
    BY <1>1, <1>3 DEF RangeIInv, FallbackIsTenths
  <1>5. /\ WindowValues \subseteq Int /\ IsFiniteSet(WindowValues)
        /\ Spread => WindowValues /= {}
    BY <1>1, WindowIsFinite, FS_EmptySet DEF Spread
  <1>6. /\ y_range' \in [min : Int, max : Int]
        /\ y_range'.min <= y_range.min /\ y_range.max <= y_range'.max
        /\ Spread => \A v \in WindowValues : y_range'.min <= 10 * v /\ 10 * v <= y_range'.max
    <2>1. CASE Spread
      BY <1>1, <1>4, <1>5, <2>1, AutoscaledReaches
    <2>2. CASE ~Spread
      BY <1>1, <1>4, <2>2
    <2> QED BY <2>1, <2>2
  <1> DEFINE lo == y_range'.min
             hi == y_range'.max
  <1>7. /\ lo \in Int /\ hi \in Int /\ y_range.min \in Int /\ y_range.max \in Int
        /\ entries'.min = Tenths(lo) /\ entries'.max = Tenths(hi)
        /\ entries' = [min |-> Tenths(lo), max |-> Tenths(hi)]
    BY <1>1, <1>4, <1>6
  <1> HIDE DEF lo, hi
  <1>8. /\ Tenths(lo) \in Int /\ Tenths(lo) - 50 <= lo /\ Tenths(Tenths(lo)) = Tenths(lo)
        /\ Tenths(hi) \in Int /\ hi <= Tenths(hi) + 50 /\ Tenths(Tenths(hi)) = Tenths(hi)
        /\ Tenths(lo) <= Tenths(y_range.min) /\ Tenths(y_range.max) <= Tenths(hi)
    BY <1>6, <1>7, TenthsNear DEF lo, hi
  <1>9. ASSUME NEW v \in scaled', FallbackRange.min <= 10 * v, 10 * v <= FallbackRange.max
        PROVE  Tenths(lo) - 50 <= 10 * v /\ 10 * v <= Tenths(hi) + 50
    <2>1. CASE v \in scaled
      <3>1. /\ v \in Int /\ Tenths(entries.min) = entries.min /\ Tenths(entries.max) = entries.max
            /\ entries.min - 50 <= 10 * v /\ 10 * v <= entries.max + 50
        BY <1>9, <2>1 DEF RangeIInv, ScaledValuesStayInRange
      <3>2. \/ Tenths(y_range.min) = entries.min /\ Tenths(y_range.max) = entries.max
            \/ /\ Tenths(y_range.min) = FallbackRange.min
               /\ Tenths(y_range.max) = FallbackRange.max
        BY <1>1, <1>3, <3>1 DEF RangeIInv, FallbackIsTenths
      <3> QED BY <1>2, <1>3, <1>8, <1>9, <3>1, <3>2 DEF FallbackIsTenths
    <2>2. CASE v \notin scaled
      <3>1. Spread /\ v \in WindowValues /\ v \in Int
        BY <1>1, <1>5, <1>9, <2>2
      <3>2. lo <= 10 * v /\ 10 * v <= hi
        BY <1>6, <3>1 DEF lo, hi
      <3> QED BY <1>7, <1>8, <3>1, <3>2
    <2> QED BY <2>1, <2>2
  <1>10. ScaledValuesStayInRange'
    BY <1>7, <1>9 DEF ScaledValuesStayInRange
  <1>11. scaled' \subseteq Int
    BY <1>1, <1>5 DEF RangeIInv
  <1> QED BY <1>1, <1>7, <1>8, <1>10, <1>11 DEF RangeIInv

\* Every step keeps the ranges.
LEMMA RangeStep ==
  ASSUME PlotIInv, ChannelsKnown, RangeIInv, [PlotNext]_plotVars
  PROVE  RangeIInv'
  <1>1. CASE DrawAutoscale
    BY <1>1, WrittenBack
  <1>2. ASSUME NEW range \in TypedRanges, TypeRange(range)
        PROVE  RangeIInv'
    <2>1. /\ draw = "idle" /\ ~autoscale /\ entries' = range
          /\ UNCHANGED <<draw, scaled, autoscale, y_range>>
      BY <1>2 DEF TypeRange, drawing, buttons
    <2>2. range \in [min : Int, max : Int]
      BY PlotAssumption
    <2>3. scaled = {}
      BY <2>1 DEF RangeIInv
    <2> QED BY <2>1, <2>2, <2>3 DEF RangeIInv, ScaledValuesStayInRange
  <1>3. CASE ToggleAutoscale
    <2>1. draw' = "idle" /\ scaled' = {} /\ UNCHANGED entries
      BY <1>3 DEF ToggleAutoscale, drawing
    <2> QED BY <2>1 DEF RangeIInv, ScaledValuesStayInRange
  <1>4. ASSUME NEW window \in Windows, DrawBegin(window)
        PROVE  RangeIInv'
    <2>1. /\ y_range' = IF Valid(entries) THEN entries ELSE FallbackRange
          /\ UNCHANGED <<entries, scaled, autoscale>>
      BY <1>4 DEF DrawBegin, buttons
    <2> QED BY <2>1 DEF RangeIInv, ScaledValuesStayInRange, Valid
  <1>5. CASE \/ Worker \/ \E ch \in Sensors : ToggleChannel(ch)
             \/ toggle_visible_channels \/ ToggleFast \/ DrawCount
             \/ UNCHANGED plotVars
    <2>1. /\ UNCHANGED <<entries, scaled, autoscale, y_range>>
          /\ draw' \in {"start", "count"} => draw \in {"start", "count"}
      BY <1>5 DEF Worker, ToggleChannel, toggle_visible_channels, ToggleFast, DrawCount,
                  plotVars, drawing, buttons
    <2> QED BY <2>1 DEF RangeIInv, ScaledValuesStayInRange, Valid
  <1>6. CASE DrawUnscaled \/ DrawEnd \/ \E width \in Widths : DrawChannels(width)
    <2>1. UNCHANGED <<entries, scaled, autoscale>> /\ draw' \notin {"start", "count"}
      BY <1>6 DEF DrawUnscaled, DrawEnd, DrawChannels, buttons
    <2> QED BY <2>1 DEF RangeIInv, ScaledValuesStayInRange
  <1> QED BY <1>1, <1>2, <1>3, <1>4, <1>5, <1>6 DEF PlotNext

\* While autoscale stays ticked, no value it ever scaled to leaves the range of
\* the entries by more than the half tenth their text rounds away
\* (compute_autoscale_y_range and the lines after it in on_plot_draw).
THEOREM ScaledStaysInRange == PlotSpec => []ScaledValuesStayInRange
  <1>1. PlotInit => ChannelsKnown /\ PlotShowsExtremes /\ RangeIInv
    BY FallbackTenths DEF PlotInit, ChannelsKnown, PlotShowsExtremes, RangeIInv,
           ScaledValuesStayInRange, FallbackIsTenths
  <1>2. (PlotIInv /\ ChannelsKnown /\ PlotShowsExtremes /\ RangeIInv /\ [PlotNext]_plotVars)
          => ChannelsKnown' /\ PlotShowsExtremes' /\ RangeIInv'
    BY PictureStep, RangeStep
  <1>3. RangeIInv => ScaledValuesStayInRange
    BY DEF RangeIInv
  <1> QED BY <1>1, <1>2, <1>3, PlotInvariance, PTL DEF PlotSpec
=============================================================================
