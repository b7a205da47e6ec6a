---------------------------- MODULE ClientSession ----------------------------
(***************************************************************************)
(* One client tab of the host: the GUI thread, which runs one handler at a *)
(* time (Start, Stop, the connection monitor, Remove), and the measurement *)
(* threads it starts, all working on one ClientInfo without a lock.        *)
(*                                                                         *)
(* pc[t] is where thread t is.  disconnect_client is called from the GUI   *)
(* thread and from the measurement thread, and runs as the same four steps *)
(* in either.  "idle" is the GUI thread back in its main loop, "done" a    *)
(* measurement thread that returned.                                       *)
(*                                                                         *)
(* Memory: refs is the reference count of the connection object; at 0 it   *)
(* and its socket are finalized.  A thread that is about to use finalized  *)
(* or freed memory may crash the program, or go on with a call that fails. *)
(***************************************************************************)
EXTENDS Integers, FiniteSets, Sequences

CONSTANTS
  Workers,     \* measurement threads; one Start uses one
  MaxRows,     \* bound: rows the network delivers
  MaxSettings  \* bound: SETTINGS packages the user has sent

Gui  == "gui"
None == "none"
Threads == Workers \cup {Gui}

ASSUME SessionAssumption ==
  /\ IsFiniteSet(Workers)
  /\ Gui \notin Workers /\ None \notin Workers
  /\ MaxRows \in Nat \ {0} /\ MaxSettings \in Nat \ {0}

VARIABLES
  pc,                  \* Threads -> program points
  conn,                \* info->conn is not NULL
  refs,                \* references to the connection object
  monitor_id,          \* the 5 s monitor source is installed
  measurement_active,
  destroying,
  measurement_thread,  \* the handle Stop and Remove join
  write_index,
  heap,                \* settings, buffers and ClientInfo: "live", "freed"
  label,               \* colour of the tab
  shown,               \* colour a thread computed and is about to set
  link,                \* "up", or "down" when the peer is unreachable
  sent,                \* commands given to the socket, in order: "SETTINGS", "STOP"
  crashed

vars == <<pc, conn, refs, monitor_id, measurement_active, destroying,
          measurement_thread, write_index, heap, label, shown, link, sent,
          crashed>>

memory == <<conn, refs, heap, crashed>>
flags  == <<measurement_active, destroying, measurement_thread, monitor_id>>
view   == <<label, shown>>
wire   == <<link, sent>>

Go(t, point) == pc' = [pc EXCEPT ![t] = point]
At(t, point) == pc[t] = point /\ ~crashed
GuiIdle      == At(Gui, "idle")

\* A socket that was neither closed nor finalized.
SocketOpen == refs > 0

\* Mutation: red and orange swapped.
SwappedColours ==
  CASE ~conn /\ write_index > 0      -> "red"
    [] ~conn /\ write_index = 0      -> "orange"
    [] conn /\ measurement_active    -> "blue"
    [] conn /\ ~measurement_active   -> "green"

\* get_client_visual_state
VisualState ==
  CASE ~conn /\ write_index > 0      -> "orange"
    [] ~conn /\ write_index = 0      -> "red"
    [] conn /\ measurement_active    -> "blue"
    [] conn /\ ~measurement_active   -> "green"

-----------------------------------------------------------------------------
\* The tab after assign_client_to_waiting_tab and on_client_incoming returned.
Init ==
  /\ pc = [t \in Threads |-> IF t = Gui THEN "idle" ELSE "unborn"]
  /\ conn = TRUE
  /\ refs = 1
  /\ monitor_id = TRUE
  /\ measurement_active = FALSE
  /\ destroying = FALSE
  /\ measurement_thread = None
  /\ write_index = 0
  /\ heap = "live"
  /\ label = "green"
  /\ shown = [t \in Threads |-> "green"]
  /\ link = "up"
  /\ sent = << >>
  /\ crashed = FALSE

LinkFails ==
  /\ link = "up"
  /\ link' = "down"
  /\ UNCHANGED <<pc, memory, flags, write_index, view, sent>>

-----------------------------------------------------------------------------
(* disconnect_client and update_client_visual_state, in thread t.          *)

\* measurement_active = FALSE; the monitor source goes; is there a conn?
DisconnectBegin(t) ==
  /\ At(t, "disconnect")
  /\ measurement_active' = FALSE
  /\ monitor_id' = FALSE
  /\ Go(t, IF conn THEN "close" ELSE "label")
  /\ UNCHANGED <<memory, destroying, measurement_thread, write_index, view, wire>>

\* Close the socket and drop the reference, of whatever info->conn is by now.
DisconnectClose(t) ==
  /\ At(t, "close")
  /\ refs' = IF conn THEN refs - 1 ELSE refs
  /\ Go(t, "clear")
  /\ UNCHANGED <<conn, heap, crashed, flags, write_index, view, wire>>

DisconnectClear(t) ==
  /\ At(t, "clear")
  /\ conn' = FALSE
  /\ Go(t, "label")
  /\ UNCHANGED <<refs, heap, crashed, flags, write_index, view, wire>>

\* update_client_visual_state computes the state ...
ComputeLabel(t) ==
  /\ At(t, "label")
  /\ shown' = [shown EXCEPT ![t] = VisualState]
  /\ Go(t, "markup")
  /\ UNCHANGED <<memory, flags, write_index, label, wire>>

\* Mutation: a measurement thread leaves the markup to the main loop and waits.
SetLabelInMainLoop(t) ==
  /\ At(t, "markup")
  /\ t /= Gui => GuiIdle
  /\ label' = shown[t]
  /\ Go(t, IF t = Gui THEN "idle" ELSE "done")
  /\ UNCHANGED <<memory, flags, write_index, shown, wire>>

\* ... and sets the markup; the handler, or the thread, ends.
SetLabel(t) ==
  /\ At(t, "markup")
  /\ label' = shown[t]
  /\ Go(t, IF t = Gui THEN "idle" ELSE "done")
  /\ UNCHANGED <<memory, flags, write_index, shown, wire>>

-----------------------------------------------------------------------------
(* Handlers of the GUI thread.                                             *)

\* Start: settings are sent whenever there is a connection, then
\* write_index is looked at.
StartPressed ==
  /\ GuiIdle /\ heap = "live"
  /\ conn => Len(sent) < MaxSettings              \* bound on the presses
  /\ sent' = IF conn THEN Append(sent, "SETTINGS") ELSE sent
  /\ \/ write_index > 0 /\ UNCHANGED pc
     \/ /\ write_index = 0
        /\ \E w \in Workers : pc[w] = "unborn"      \* bound on the starts
        /\ Go(Gui, "start")
  /\ UNCHANGED <<memory, flags, write_index, view, link>>

\* The rest of on_send_btn_clicked: buffer and write_index are reset and a
\* measurement thread is started; its handle replaces the previous one.
StartMeasurement(w) ==
  /\ At(Gui, "start")
  /\ pc[w] = "unborn"
  /\ write_index' = 0
  /\ measurement_active' = TRUE
  /\ measurement_thread' = w
  /\ pc' = [pc EXCEPT ![Gui] = "idle", ![w] = "enter"]
  /\ UNCHANGED <<memory, destroying, monitor_id, view, wire>>

\* Mutation: the measurement thread is told to end, but not joined.
StopWithoutJoin ==
  /\ GuiIdle /\ heap = "live"
  /\ conn
  /\ measurement_active' = FALSE
  /\ Go(Gui, "sendStop")
  /\ UNCHANGED <<memory, destroying, measurement_thread, monitor_id, write_index, view, wire>>

\* Stop of the tab, or Stop All, which takes every tab.
StopPressed ==
  /\ GuiIdle /\ heap = "live"
  /\ conn
  /\ measurement_active' = FALSE
  /\ Go(Gui, IF measurement_thread = None THEN "sendStop" ELSE "join")
  /\ UNCHANGED <<memory, destroying, measurement_thread, monitor_id, write_index, view, wire>>

\* g_thread_join returns
StopJoined ==
  /\ At(Gui, "join")
  /\ pc[measurement_thread] = "done"
  /\ measurement_thread' = None
  /\ Go(Gui, "sendStop")
  /\ UNCHANGED <<memory, measurement_active, destroying, monitor_id, write_index, view, wire>>

\* Mutation: the connection is kept after STOP.
SendStopKeepsConnection ==
  /\ At(Gui, "sendStop")
  /\ sent' = IF conn THEN Append(sent, "STOP") ELSE sent
  /\ Go(Gui, "idle")
  /\ UNCHANGED <<memory, flags, write_index, view, link>>

\* STOP goes out unless the measurement thread disconnected meanwhile; a send
\* error is only reported.
SendStop ==
  /\ At(Gui, "sendStop")
  /\ \/ conn /\ sent' = Append(sent, "STOP") /\ Go(Gui, "disconnect")
     \/ ~conn /\ Go(Gui, "idle") /\ UNCHANGED sent
  /\ UNCHANGED <<memory, flags, write_index, view, link>>

\* monitor_client_connection, every 5 s
MonitorTick ==
  /\ GuiIdle /\ heap = "live"
  /\ monitor_id
  /\ Go(Gui, IF conn THEN "ping" ELSE "disconnect")
  /\ UNCHANGED <<memory, flags, write_index, view, wire>>

\* Mutation: only a failed ping refreshes the colour.
PingSentOnly ==
  /\ At(Gui, "ping")
  /\ SocketOpen
  /\ Go(Gui, "idle")
  /\ UNCHANGED <<memory, flags, write_index, view, wire>>

\* A ping into a dead link is accepted as long as the send buffer takes it.
PingSent ==
  /\ At(Gui, "ping")
  /\ SocketOpen
  /\ Go(Gui, "label")
  /\ UNCHANGED <<memory, flags, write_index, view, wire>>

\* Mutation: a failed ping is reported, and nothing else.
PingFailureReported ==
  /\ At(Gui, "ping")
  /\ link = "down" \/ ~SocketOpen
  /\ Go(Gui, "label")
  /\ UNCHANGED <<memory, flags, write_index, view, wire>>

PingFails ==
  /\ At(Gui, "ping")
  /\ link = "down" \/ ~SocketOpen
  /\ Go(Gui, "disconnect")
  /\ UNCHANGED <<memory, flags, write_index, view, wire>>

\* Remove: free_client_info closes and unreferences the connection ...
RemovePressed ==
  /\ GuiIdle /\ heap = "live"
  /\ refs' = IF conn THEN refs - 1 ELSE refs
  /\ Go(Gui, "free")
  /\ UNCHANGED <<conn, heap, crashed, flags, write_index, view, wire>>

\* ... frees settings and buffers ...
RemoveFree ==
  /\ At(Gui, "free")
  /\ heap' = "freed"
  /\ Go(Gui, "destroy")
  /\ UNCHANGED <<conn, refs, crashed, flags, write_index, view, wire>>

\* ... then tells the measurement thread to end, and removes the monitor ...
RemoveDestroy ==
  /\ At(Gui, "destroy")
  /\ destroying' = TRUE
  /\ monitor_id' = FALSE
  /\ Go(Gui, "joinRemoved")
  /\ UNCHANGED <<memory, measurement_active, measurement_thread, write_index, view, wire>>

\* ... joins the thread, if there was one, and removes the page.
RemoveJoined ==
  /\ At(Gui, "joinRemoved")
  /\ measurement_thread /= None => pc[measurement_thread] = "done"
  /\ Go(Gui, "removed")
  /\ UNCHANGED <<memory, flags, write_index, view, wire>>

-----------------------------------------------------------------------------
(* measurement_thread_func in thread w.                                    *)

Enter(w) ==
  /\ At(w, "enter")
  /\ Go(w, IF conn THEN "guard" ELSE "done")
  /\ UNCHANGED <<memory, flags, write_index, view, wire>>

\* Mutation: the loop looks at destroying only.
GuardIgnoresStop(w) ==
  /\ At(w, "guard")
  /\ Go(w, IF ~destroying THEN "timestamp" ELSE "done")
  /\ UNCHANGED <<memory, flags, write_index, view, wire>>

Guard(w) ==
  /\ At(w, "guard")
  /\ Go(w, IF measurement_active /\ ~destroying THEN "timestamp" ELSE "done")
  /\ UNCHANGED <<memory, flags, write_index, view, wire>>

\* No timestamp is due yet, or it was sent.
TimestampOk(w) ==
  /\ At(w, "timestamp")
  /\ Go(w, "read")
  /\ UNCHANGED <<memory, flags, write_index, view, wire>>

\* Mutation: a failed timestamp is reported, and nothing else.
TimestampFailureReported(w) ==
  /\ At(w, "timestamp")
  /\ link = "down" \/ ~SocketOpen
  /\ Go(w, "read")
  /\ UNCHANGED <<memory, flags, write_index, view, wire>>

TimestampFails(w) ==
  /\ At(w, "timestamp")
  /\ link = "down" \/ ~SocketOpen
  /\ Go(w, "disconnect")
  /\ UNCHANGED <<memory, flags, write_index, view, wire>>

\* 800 ms without a package, or an error; or a package without rows.
ReadNothing(w) ==
  /\ At(w, "read")
  /\ Go(w, "guard")
  /\ UNCHANGED <<memory, flags, write_index, view, wire>>

\* A DATA_PACKAGE that reached the host, before the link failed or after.
ReadData(w) ==
  /\ At(w, "read")
  /\ SocketOpen
  /\ write_index < MaxRows
  /\ Go(w, "store")
  /\ UNCHANGED <<memory, flags, write_index, view, wire>>

StoreRow(w) ==
  /\ At(w, "store")
  /\ write_index' = write_index + 1
  /\ Go(w, "guard")
  /\ UNCHANGED <<memory, flags, view, wire>>

-----------------------------------------------------------------------------
(* Undefined behaviour.                                                    *)

\* Thread t's next step uses the finalized socket or connection.
UsesDeadSocket(t) ==
  /\ refs <= 0
  /\ \/ pc[t] \in {"timestamp", "read", "ping"}
     \/ pc[t] = "close" /\ conn

\* Thread t's next step uses freed settings or buffers, or ClientInfo itself.
UsesFreedHeap(t) ==
  \/ heap = "freed" /\ pc[t] = "store"
  \/ pc[Gui] = "removed" /\ t \in Workers /\ pc[t] \notin {"unborn", "done"}

Crash(t) ==
  /\ ~crashed
  /\ UsesDeadSocket(t) \/ UsesFreedHeap(t)
  /\ crashed' = TRUE
  /\ UNCHANGED <<pc, conn, refs, heap, flags, write_index, view, wire>>

-----------------------------------------------------------------------------
Disconnect(t) == \/ DisconnectBegin(t) \/ DisconnectClose(t) \/ DisconnectClear(t)
                 \/ ComputeLabel(t) \/ SetLabel(t)

User == StartPressed \/ StopPressed \/ RemovePressed

GuiStep == \/ (\E w \in Workers : StartMeasurement(w))
           \/ StopJoined \/ SendStop
           \/ PingSent \/ PingFails
           \/ RemoveFree \/ RemoveDestroy \/ RemoveJoined
           \/ Disconnect(Gui)

WorkerStep(w) == \/ Enter(w) \/ Guard(w)
                 \/ TimestampOk(w) \/ TimestampFails(w)
                 \/ ReadNothing(w) \/ ReadData(w) \/ StoreRow(w)
                 \/ Disconnect(w)

Next == \/ User \/ MonitorTick \/ GuiStep \/ LinkFails
        \/ \E w \in Workers : WorkerStep(w)
        \/ \E t \in Threads : Crash(t)

\* A thread the operating system schedules does not stand still; the timer of
\* the monitor fires again and again when the main loop runs; a timestamp is
\* due every 5 s, and sends into a dead link do not succeed for ever.  Nothing
\* makes the user press a button, and nothing makes data arrive.
Fairness ==
  /\ WF_vars(GuiStep)
  /\ \A w \in Workers : WF_vars(WorkerStep(w)) /\ SF_vars(TimestampFails(w))
  /\ SF_vars(MonitorTick)
  /\ SF_vars(PingFails)

Spec == Init /\ [][Next]_vars /\ Fairness

-----------------------------------------------------------------------------
Colours == {"green", "blue", "red", "orange"}

GuiPoints == {"idle", "start", "join", "sendStop", "ping", "free", "destroy",
              "joinRemoved", "removed"}
WorkerPoints == {"unborn", "enter", "guard", "timestamp", "read", "store", "done"}
DisconnectPoints == {"disconnect", "close", "clear", "label", "markup"}

Started == {w \in Workers : pc[w] /= "unborn"}
Running == {w \in Started : pc[w] /= "done"}

StopSent == \E i \in 1..Len(sent) : sent[i] = "STOP"

\* The colour of a tab whose client is gone.
GoneColour == IF write_index > 0 THEN "orange" ELSE "red"

\* The types of the variables of one tab.
TypeOK ==
  /\ pc \in [Threads -> GuiPoints \cup WorkerPoints \cup DisconnectPoints]
  /\ conn \in BOOLEAN
  /\ refs \in Int
  /\ monitor_id \in BOOLEAN
  /\ measurement_active \in BOOLEAN
  /\ destroying \in BOOLEAN
  /\ measurement_thread \in Workers \cup {None}
  /\ write_index \in Nat
  /\ heap \in {"live", "freed"}
  /\ label \in Colours
  /\ shown \in [Threads -> Colours]
  /\ link \in {"up", "down"}
  /\ sent \in Seq({"SETTINGS", "STOP"})
  /\ crashed \in BOOLEAN

\* After Stop sent its package the recorded rows are final: none is added,
\* because the measurement thread was joined first, and a later Start keeps
\* them.  It takes that only one thread was started until then.
QuietAfterStop ==
  [][(StopSent /\ Cardinality(Started) <= 1) => write_index' = write_index]_vars

\* While at most one measurement thread was started, Stop leaves a tab that is
\* orange exactly when there are rows: when it sent STOP and disconnected, and
\* when the thread lost the link while Stop waited for it, so that Stop finds no
\* connection and returns with the colour the thread set.
StopLabel ==
  (/\ Cardinality(Started) <= 1
   /\ \/ GuiIdle /\ StopSent /\ Running = {}
      \/ At(Gui, "sendStop") /\ ~conn)
    => label = GoneColour

\* One measurement thread, no Remove, no lost link: no thread ever uses a
\* socket the other one finalized.  Stop joins before it disconnects.
NoDeadSocketOnGoodLink ==
  (link = "up" /\ heap = "live" /\ Cardinality(Started) <= 1 /\ pc[Gui] /= "free")
    => \A t \in Threads : ~UsesDeadSocket(t)

\* Stop never hangs: the measurement thread it joins reads with a timeout.
StopReturns == (pc[Gui] = "join") ~> (pc[Gui] /= "join" \/ crashed)

\* Remove never hangs either.
RemoveReturns == (pc[Gui] = "joinRemoved") ~> (pc[Gui] = "removed" \/ crashed)

\* A dead link is noticed: the tab ends up disconnected without the user.
LinkLossNoticed == (link = "down") ~> (~conn \/ heap = "freed" \/ crashed)

\* A tab that measures turns blue.  Start leaves the colour to the monitor, which
\* sets it anew after each ping, so that a colour computed before Start and set
\* after it does not stay, for as long as the connection is there.
MeasuringTurnsBlue ==
  (conn /\ measurement_active)
    ~> (label = "blue" \/ ~conn \/ ~measurement_active \/ heap = "freed" \/ crashed)

\* Measurement threads end once the measurement is off: a tab whose connection
\* is gone keeps no thread, whoever took the connection.
NoOrphanThread == ~conn ~> (Running = {} \/ crashed)

-----------------------------------------------------------------------------
(* The tab as its user sees it.                                            *)

\* No Remove, and at most one Start that starts a thread.
Intact ==
  /\ heap = "live" /\ pc[Gui] /= "free"
  /\ Cardinality(Started) + (IF pc[Gui] = "start" THEN 1 ELSE 0) <= 1

\* A measurement thread that found a connection works with it to its end, also
\* when the monitor takes the connection away meanwhile.
Listening == \E w \in Workers : pc[w] \notin {"unborn", "enter", "done"}

\* The client can be heard, and may be sent commands.
Heard == ~StopSent /\ (conn \/ Listening)

HasStarted == Started /= {} \/ pc[Gui] = "start"

TabOfUser == INSTANCE Tab WITH
  open <- Heard, started <- HasStarted, rows <- write_index, sent <- sent, intact <- Intact

\* Two or more unsynchronised threads, pings, timeouts, lost links and
\* disconnections from both sides look like a tab: no row after STOP and none
\* to a tab that was not started, no row lost to a single Start, no SETTINGS to
\* a client after STOP or after it was lost, one per Start, and never a second
\* STOP.
ImplementsTab == TabOfUser!Spec

-----------------------------------------------------------------------------
(* What comments say and the code does not do.                             *)

\* client.h:63 "cleanly frees ClientInfo" and client.c:82 "syncronize
\* measurement thread": nothing a running thread uses is freed.
RemoveIsClean == \A t \in Threads : ~UsesFreedHeap(t)
=============================================================================
