----------------------------- MODULE TimeBuffer -----------------------------
(***************************************************************************)
(* The timestamps of one tab (ClientInfo.client_time_sync): the            *)
(* measurement thread stores every echoed TIMESTAMP_PACKAGE and doubles    *)
(* the buffer when it is full; Start allocates a new buffer of two         *)
(* entries, unless rows were recorded; the CSV export reads the entries    *)
(* below time_write_index.                                                 *)
(*                                                                         *)
(* An entry is the number of the echo it holds.  The handler of an echo is *)
(* one step: the overlap of threads is the subject of ClientSession.       *)
(***************************************************************************)
EXTENDS Integers

CONSTANTS
  MaxStarts,    \* bound: Start pressed on this tab
  MaxEchoes,    \* bound: echoes that arrive
  MaxRows       \* bound: rows recorded

ASSUME TimeBufferAssumption ==
  /\ MaxStarts \in Nat /\ MaxEchoes \in Nat /\ MaxRows \in Nat

Zeroed == 0          \* an entry of g_malloc0 or of realloc, no echo's number

VARIABLES
  conn,
  client_time_sync,        \* [0 .. allocated-1 -> echo]
  allocated_client_times,
  time_write_index,
  write_index,
  thread,                  \* "none", "running", "ended"
  starts,
  echoes,                  \* echoes that arrived
  lost,                    \* echoes dropped for lack of memory
  overrun                  \* an entry was written outside the buffer

vars == <<conn, client_time_sync, allocated_client_times, time_write_index, write_index,
          thread, starts, echoes, lost, overrun>>

Buffer(n) == [i \in 0..(n - 1) |-> Zeroed]

\* Mutation: malloc in place of realloc.
GrownByMalloc(n) == Buffer(n)

\* The buffer after realloc to n entries.
Grown(n) == [i \in 0..(n - 1) |-> IF i < allocated_client_times
                                  THEN client_time_sync[i] ELSE Zeroed]

-----------------------------------------------------------------------------
\* A tab that was just assigned to a client.
Init ==
  /\ conn = TRUE
  /\ client_time_sync = Buffer(0)
  /\ allocated_client_times = 0
  /\ time_write_index = 0
  /\ write_index = 0
  /\ thread = "none"
  /\ starts = 0
  /\ echoes = 0
  /\ lost = 0
  /\ overrun = FALSE

\* on_send_btn_clicked: time_write_index stays as it is.  The new thread
\* returns at once when there is no connection.
Start ==
  /\ write_index = 0
  /\ starts < MaxStarts
  /\ starts' = starts + 1
  /\ client_time_sync' = Buffer(2)
  /\ allocated_client_times' = 2
  /\ thread' = IF conn THEN "running" ELSE "ended"
  /\ UNCHANGED <<conn, time_write_index, write_index, echoes, lost, overrun>>

\* The entry of the next echo, in a buffer of n entries.
StoreEcho(buffer, n) ==
  /\ allocated_client_times' = n
  /\ IF time_write_index < n
       THEN /\ client_time_sync' = [buffer EXCEPT ![time_write_index] = echoes + 1]
            /\ UNCHANGED overrun
       ELSE client_time_sync' = buffer /\ overrun' = TRUE
  /\ time_write_index' = time_write_index + 1

EchoArrives ==
  /\ thread = "running"
  /\ echoes < MaxEchoes
  /\ echoes' = echoes + 1

Echo ==
  /\ EchoArrives
  /\ IF time_write_index >= allocated_client_times
       THEN StoreEcho(Grown(2 * allocated_client_times), 2 * allocated_client_times)
       ELSE StoreEcho(client_time_sync, allocated_client_times)
  /\ UNCHANGED <<conn, write_index, thread, starts, lost>>

\* Mutation: the thread goes on after the failure.
EchoDropped ==
  /\ EchoArrives
  /\ time_write_index >= allocated_client_times
  /\ lost' = lost + 1
  /\ UNCHANGED <<conn, client_time_sync, allocated_client_times, time_write_index,
                 write_index, thread, starts, overrun>>

\* realloc fails: the echo is dropped, and the thread leaves its loop.
EchoWithoutMemory ==
  /\ EchoArrives
  /\ time_write_index >= allocated_client_times
  /\ lost' = lost + 1
  /\ thread' = "ended"
  /\ UNCHANGED <<conn, client_time_sync, allocated_client_times, time_write_index,
                 write_index, starts, overrun>>

StoreRow ==
  /\ thread = "running"
  /\ write_index < MaxRows
  /\ write_index' = write_index + 1
  /\ UNCHANGED <<conn, client_time_sync, allocated_client_times, time_write_index,
                 thread, starts, echoes, lost, overrun>>

\* Stop, or the connection is lost; the tab gets no other connection.
Disconnect ==
  /\ conn
  /\ conn' = FALSE
  /\ thread' = IF thread = "running" THEN "ended" ELSE thread
  /\ UNCHANGED <<client_time_sync, allocated_client_times, time_write_index,
                 write_index, starts, echoes, lost, overrun>>

Next == Start \/ Echo \/ EchoWithoutMemory \/ StoreRow \/ Disconnect

Spec == Init /\ [][Next]_vars

-----------------------------------------------------------------------------
\* The types of the variables of the time buffer.
TypeOK ==
  /\ conn \in BOOLEAN
  /\ allocated_client_times \in Nat
  /\ client_time_sync \in [0..(allocated_client_times - 1) -> Nat]
  /\ time_write_index \in Nat
  /\ write_index \in Nat
  /\ thread \in {"none", "running", "ended"}
  /\ starts \in Nat
  /\ echoes \in Nat
  /\ lost \in Nat
  /\ overrun \in BOOLEAN

\* In the first measurement of a tab every entry the export may read is an
\* echo, in the order of arrival, through every growth of the buffer.
EntriesAreEchoes ==
  starts <= 1 =>
    /\ time_write_index <= allocated_client_times
    /\ \A i \in 0..(time_write_index - 1) : client_time_sync[i] = i + 1

\* ... only an echo without memory is missing, and it is the last one: the
\* thread reads no further package.
OnlyLastEchoLost ==
  starts <= 1 =>
    /\ echoes = time_write_index + lost
    /\ lost > 0 => lost = 1 /\ thread = "ended"

\* gui.c:1903 "Safe to write to buffer now": in the first measurement.  A second
\* Start, of a tab without rows, allocates two entries and keeps the index.
SafeToWrite == starts <= 1 => ~overrun

\* The inductive invariant: an echo finds a running thread, which Start gave a
\* buffer that doubling makes larger.
IInv ==
  /\ TypeOK
  /\ EntriesAreEchoes
  /\ OnlyLastEchoLost
  /\ SafeToWrite
  /\ starts = 0 => thread = "none" /\ allocated_client_times = 0
  /\ starts = 1 => allocated_client_times >= 2
=============================================================================
