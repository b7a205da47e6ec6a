------------------------- MODULE ClientSessionProofs -------------------------
(***************************************************************************)
(* The safety of a client tab, for any number of measurement threads and   *)
(* of rows: the types, and what Stop promises while at most one thread was *)
(* started.                                                                *)
(***************************************************************************)
EXTENDS ClientSession, FiniteSetTheorems, TLAPS

AtMostOne == \A v, w \in Started : v = w

\* The handle is that of a thread that was started, and of the one that runs.
HandleOfThread ==
  /\ measurement_thread /= None => pc[measurement_thread] /= "unborn"
  /\ AtMostOne => \A w \in Workers : pc[w] \in {"unborn", "done"} \/ measurement_thread = w

\* When STOP is due, the thread was joined.
JoinedBeforeStop ==
  (AtMostOne /\ pc[Gui] = "sendStop") => \A w \in Workers : pc[w] \in {"unborn", "done"}

\* After STOP the connection goes and does not come back, so a thread that is
\* started yet ends at once; and the label follows the rows.
AfterStop ==
  (AtMostOne /\ StopSent) =>
    /\ pc[Gui] \notin {"join", "sendStop", "ping"}
    /\ conn => pc[Gui] \in {"disconnect", "close", "clear"}
    /\ \A w \in Workers : /\ pc[w] \in {"unborn", "enter", "done"}
                          /\ pc[w] = "enter" => ~conn
    /\ pc[Gui] = "start" => write_index = 0
    /\ pc[Gui] = "markup" => shown[Gui] = GoneColour
    /\ pc[Gui] \notin DisconnectPoints => label = GoneColour

\* A connection lost while Stop waits, or before it sends, was lost by the one
\* thread, which sets the colour of a tab that is gone before it ends.
LostWhileStopping ==
  (AtMostOne /\ pc[Gui] \in {"join", "sendStop"} /\ ~conn) =>
    /\ \A w \in Workers : /\ pc[w] \in {"unborn", "label", "markup", "done"}
                          /\ pc[w] = "markup" => shown[w] = GoneColour
    /\ (\A w \in Workers : pc[w] \in {"unborn", "done"}) => label = GoneColour

Undisturbed == link = "up" /\ heap = "live" /\ AtMostOne /\ pc[Gui] /= "free"

\* Without Remove or a lost link only the GUI thread disconnects, and only when
\* no thread reads.
SocketInUse ==
  Undisturbed =>
    /\ refs = IF conn /\ pc[Gui] /= "clear" THEN 1 ELSE 0
    /\ pc[Gui] = "ping" => conn
    /\ \A w \in Workers :
         /\ pc[w] \notin DisconnectPoints
         /\ pc[w] \in {"guard", "timestamp", "read", "store"} => conn
         /\ pc[w] \in {"enter", "guard", "timestamp", "read", "store"} /\ conn =>
              pc[Gui] \notin {"disconnect", "close", "clear"}

\* The GUI thread does not measure, and a measurement thread does not ping.
PointsOfThreads ==
  /\ pc[Gui] \notin {"timestamp", "read"}
  /\ \A w \in Workers : pc[w] /= "ping"

IInv == /\ TypeOK /\ HandleOfThread /\ JoinedBeforeStop /\ AfterStop /\ LostWhileStopping
        /\ SocketInUse /\ PointsOfThreads

-----------------------------------------------------------------------------
\* Cardinality, in terms of elements.
LEMMA OneStarted == Cardinality(Started) <= 1 => AtMostOne
  <1>1. IsFiniteSet(Started)
    BY SessionAssumption, FS_Subset DEF Started
  <1>2. Cardinality(Started) \in Nat
    BY <1>1, FS_CardinalityType
  <1>3. CASE Cardinality(Started) = 0
    BY <1>1, <1>3, FS_EmptySet DEF AtMostOne
  <1>4. CASE Cardinality(Started) = 1
    BY <1>1, <1>4, FS_Singleton DEF AtMostOne
  <1> QED BY <1>2, <1>3, <1>4

\* A new tab.
LEMMA InitInv == Init => IInv
  <1> SUFFICES ASSUME Init
               PROVE  IInv
    OBVIOUS
  <1>1. TypeOK
    <2>1. pc \in [Threads -> GuiPoints \cup WorkerPoints \cup DisconnectPoints]
      BY DEF Init, GuiPoints, WorkerPoints
    <2>2. shown \in [Threads -> Colours] /\ label \in Colours
      BY DEF Init, Colours
    <2>3. /\ conn \in BOOLEAN /\ monitor_id \in BOOLEAN /\ measurement_active \in BOOLEAN
          /\ destroying \in BOOLEAN /\ crashed \in BOOLEAN
      BY DEF Init
    <2>4. /\ refs \in Int /\ measurement_thread \in Workers \cup {None} /\ write_index \in Nat
          /\ heap \in {"live", "freed"} /\ link \in {"up", "down"}
          /\ sent \in Seq({"SETTINGS", "STOP"})
      BY DEF Init
    <2> QED BY <2>1, <2>2, <2>3, <2>4 DEF TypeOK
  <1>2. \A w \in Workers : pc[w] = "unborn"
    BY SessionAssumption DEF Init, Threads
  <1>3. pc[Gui] = "idle"
    BY DEF Init, Threads
  <1>4. SocketInUse
    BY <1>2, <1>3 DEF Init, SocketInUse, DisconnectPoints
  <1> QED BY <1>1, <1>2, <1>3, <1>4
          DEF Init, IInv, HandleOfThread, JoinedBeforeStop, AfterStop, StopSent,
              LostWhileStopping, PointsOfThreads

-----------------------------------------------------------------------------
AllPoints == GuiPoints \cup WorkerPoints \cup DisconnectPoints

\* A thread moves: its own program point changes, and no other.
LEMMA Moves ==
  ASSUME TypeOK, NEW t \in Threads, NEW point \in AllPoints, Go(t, point)
  PROVE  /\ pc' \in [Threads -> AllPoints]
         /\ pc'[t] = point
         /\ \A u \in Threads : u /= t => pc'[u] = pc[u]
  BY DEF TypeOK, Go, AllPoints

LEMMA ThreadsDiffer ==
  /\ Gui \in Threads /\ Workers \subseteq Threads
  /\ \A w \in Workers : w /= Gui /\ w /= None
  BY SessionAssumption DEF Threads

\* A command more is a sequence of commands, with STOP in it if it is STOP.
LEMMA Commands ==
  ASSUME TypeOK, NEW c \in {"SETTINGS", "STOP"}
  PROVE  /\ Append(sent, c) \in Seq({"SETTINGS", "STOP"})
         /\ sent' = Append(sent, c) => (StopSent' <=> (StopSent \/ c = "STOP"))
  <1>1. /\ Append(sent, c) \in Seq({"SETTINGS", "STOP"})
        /\ Len(Append(sent, c)) = Len(sent) + 1 /\ Len(sent) \in Nat
        /\ Append(sent, c)[Len(sent) + 1] = c
        /\ \A i \in 1..Len(sent) : Append(sent, c)[i] = sent[i]
    BY DEF TypeOK
  <1>2. ASSUME sent' = Append(sent, c)
        PROVE  StopSent' <=> (StopSent \/ c = "STOP")
    <2>1. 1..Len(sent') = (1..Len(sent)) \cup {Len(sent) + 1}
      BY <1>1, <1>2
    <2> QED BY <1>1, <1>2, <2>1 DEF StopSent
  <1> QED BY <1>1, <1>2

LEMMA SentKept ==
  ASSUME sent' = sent
  PROVE  StopSent' <=> StopSent
  BY DEF StopSent

\* Every step keeps the types.
LEMMA TypeStep == TypeOK /\ [Next]_vars => TypeOK'
  <1> SUFFICES ASSUME TypeOK, [Next]_vars
               PROVE  TypeOK'
    OBVIOUS
  <1> USE ThreadsDiffer DEF memory, flags, view, wire, At, GuiIdle
  <1>g. ASSUME pc' \in [Threads -> AllPoints]
        PROVE  pc' \in [Threads -> GuiPoints \cup WorkerPoints \cup DisconnectPoints]
    BY <1>g DEF AllPoints
  <1>1. ASSUME NEW t \in Threads, Disconnect(t)
        PROVE  TypeOK'
    <2>0. {"close", "clear", "label", "markup", "idle", "done"} \subseteq AllPoints
      BY DEF AllPoints, GuiPoints, WorkerPoints, DisconnectPoints
    <2>v. VisualState \in Colours
      BY DEF VisualState, Colours, TypeOK
    <2>1. pc' \in [Threads -> AllPoints]
      BY <1>1, <2>0, Moves
      DEF Disconnect, DisconnectBegin, DisconnectClose, DisconnectClear, ComputeLabel, SetLabel
    <2>2. CASE DisconnectBegin(t)
      BY <2>1, <2>2, <1>g DEF DisconnectBegin, TypeOK
    <2>3. CASE DisconnectClose(t)
      BY <2>1, <2>3, <1>g DEF DisconnectClose, TypeOK
    <2>4. CASE DisconnectClear(t)
      BY <2>1, <2>4, <1>g DEF DisconnectClear, TypeOK
    <2>5. CASE ComputeLabel(t)
      BY <2>v, <2>1, <2>5, <1>g DEF ComputeLabel, TypeOK
    <2>6. CASE SetLabel(t)
      BY <2>1, <2>6, <1>g DEF SetLabel, TypeOK
    <2> QED BY <1>1, <2>2, <2>3, <2>4, <2>5, <2>6 DEF Disconnect
  <1>2. CASE User \/ MonitorTick
    <2>0. {"start", "sendStop", "join", "ping", "disconnect", "free"} \subseteq AllPoints
      BY DEF AllPoints, GuiPoints, DisconnectPoints
    <2>1. pc' \in [Threads -> AllPoints]
      BY <1>2, <2>0, Moves DEF User, StartPressed, StopPressed, RemovePressed, MonitorTick,
                               TypeOK, AllPoints
    <2>2. UNCHANGED <<measurement_thread, write_index, heap, label, shown, link>>
      BY <1>2 DEF User, StartPressed, StopPressed, RemovePressed, MonitorTick
    <2>3. refs' \in Int
      <3>1. refs \in Int /\ refs - 1 \in Int
        BY DEF TypeOK
      <3> QED BY <1>2, <3>1 DEF User, StartPressed, StopPressed, RemovePressed, MonitorTick
    <2>5. sent' \in Seq({"SETTINGS", "STOP"})
      <3>1. sent \in Seq({"SETTINGS", "STOP"}) /\ Append(sent, "SETTINGS") \in Seq({"SETTINGS", "STOP"})
        BY Commands DEF TypeOK
      <3> QED BY <1>2, <3>1 DEF User, StartPressed, StopPressed, RemovePressed, MonitorTick
    <2>4. {conn', monitor_id', measurement_active', destroying', crashed'} \subseteq BOOLEAN
      BY <1>2 DEF User, StartPressed, StopPressed, RemovePressed, MonitorTick, TypeOK
    <2> QED BY <2>1, <2>2, <2>3, <2>4, <2>5, <1>g DEF TypeOK
  <1>3. ASSUME NEW w \in Workers, StartMeasurement(w)
        PROVE  TypeOK'
    BY <1>3 DEF StartMeasurement, GuiPoints, WorkerPoints, TypeOK
  <1>4. CASE StopJoined \/ SendStop \/ PingSent \/ PingFails
    <2>0. {"sendStop", "disconnect", "idle", "label"} \subseteq AllPoints
      BY DEF AllPoints, GuiPoints, DisconnectPoints
    <2>1. pc' \in [Threads -> AllPoints]
      BY <1>4, <2>0, Moves DEF StopJoined, SendStop, PingSent, PingFails
    <2>2. /\ measurement_thread' \in Workers \cup {None}
          /\ sent' \in Seq({"SETTINGS", "STOP"})
      BY <1>4, Commands DEF StopJoined, SendStop, PingSent, PingFails, TypeOK
    <2>3. UNCHANGED <<memory, measurement_active, destroying, monitor_id, write_index, view, link>>
      BY <1>4 DEF StopJoined, SendStop, PingSent, PingFails
    <2> QED BY <2>1, <2>2, <2>3, <1>g DEF TypeOK
  <1>5. CASE RemoveFree \/ RemoveDestroy \/ RemoveJoined
    <2>0. {"destroy", "joinRemoved", "removed"} \subseteq AllPoints
      BY DEF AllPoints, GuiPoints
    <2>1. pc' \in [Threads -> AllPoints]
      BY <1>5, <2>0, Moves DEF RemoveFree, RemoveDestroy, RemoveJoined
    <2> QED BY <1>5, <2>1, <1>g DEF RemoveFree, RemoveDestroy, RemoveJoined, TypeOK
  <1>6. ASSUME NEW w \in Workers,
               Enter(w) \/ Guard(w) \/ TimestampOk(w) \/ TimestampFails(w)
                 \/ ReadNothing(w) \/ ReadData(w) \/ StoreRow(w)
        PROVE  TypeOK'
    <2>0. {"guard", "done", "timestamp", "read", "disconnect", "store"} \subseteq AllPoints
      BY DEF AllPoints, WorkerPoints, DisconnectPoints
    <2>1. pc' \in [Threads -> AllPoints]
      BY <1>6, <2>0, Moves
      DEF Enter, Guard, TimestampOk, TimestampFails, ReadNothing, ReadData, StoreRow
    <2>2. write_index' \in Nat
      BY <1>6 DEF Enter, Guard, TimestampOk, TimestampFails, ReadNothing, ReadData, StoreRow,
                  TypeOK
    <2>3. UNCHANGED <<memory, flags, view, wire>>
      BY <1>6 DEF Enter, Guard, TimestampOk, TimestampFails, ReadNothing, ReadData, StoreRow
    <2> QED BY <2>1, <2>2, <2>3, <1>g DEF TypeOK
  <1>7. CASE LinkFails \/ (\E t \in Threads : Crash(t)) \/ UNCHANGED vars
    BY <1>7 DEF LinkFails, Crash, vars, TypeOK
  <1> QED
    BY <1>1, <1>2, <1>3, <1>4, <1>5, <1>6, <1>7
    DEF Next, User, GuiStep, WorkerStep
-----------------------------------------------------------------------------
\* No thread becomes unborn again, so a second one stays a second one.
LEMMA StartedGrows ==
  ASSUME TypeOK, [Next]_vars
  PROVE  /\ \A w \in Workers : pc[w] /= "unborn" => pc'[w] /= "unborn"
         /\ AtMostOne' => AtMostOne
  <1>1. \A w \in Workers : pc[w] /= "unborn" => pc'[w] /= "unborn"
    <2> SUFFICES ASSUME NEW w \in Workers, pc[w] /= "unborn"
                 PROVE  pc'[w] /= "unborn"
      OBVIOUS
    <2> USE ThreadsDiffer DEF TypeOK, Go
    <2>1. CASE User \/ MonitorTick
      BY <2>1 DEF User, StartPressed, StopPressed, RemovePressed, MonitorTick
    <2>2. CASE StopJoined \/ SendStop \/ PingSent \/ PingFails
                 \/ RemoveFree \/ RemoveDestroy \/ RemoveJoined
      BY <2>2 DEF StopJoined, SendStop, PingSent, PingFails, RemoveFree, RemoveDestroy,
                  RemoveJoined
    <2>3. ASSUME NEW v \in Workers, StartMeasurement(v)
          PROVE  pc'[w] /= "unborn"
      BY <2>3 DEF StartMeasurement
    <2>4. ASSUME NEW t \in Threads, Disconnect(t)
          PROVE  pc'[w] /= "unborn"
      BY <2>4 DEF Disconnect, DisconnectBegin, DisconnectClose, DisconnectClear,
                  ComputeLabel, SetLabel
    <2>5. ASSUME NEW v \in Workers,
                 Enter(v) \/ Guard(v) \/ TimestampOk(v) \/ TimestampFails(v)
                   \/ ReadNothing(v) \/ ReadData(v) \/ StoreRow(v)
          PROVE  pc'[w] /= "unborn"
      BY <2>5 DEF Enter, Guard, TimestampOk, TimestampFails, ReadNothing, ReadData, StoreRow
    <2>6. CASE LinkFails \/ (\E t \in Threads : Crash(t)) \/ UNCHANGED vars
      BY <2>6 DEF LinkFails, Crash, vars
    <2> QED BY <2>1, <2>2, <2>3, <2>4, <2>5, <2>6 DEF Next, GuiStep, WorkerStep
  <1> QED BY <1>1 DEF AtMostOne, Started

-----------------------------------------------------------------------------
(* What each kind of step does to the parts of the invariant.              *)

\* A step of the GUI thread that only moves it.
LEMMA GuiMoves ==
  ASSUME TypeOK, NEW point, Go(Gui, point)
  PROVE  /\ pc'[Gui] = point
         /\ \A w \in Workers : pc'[w] = pc[w]
         /\ AtMostOne' <=> AtMostOne
  <1>1. pc'[Gui] = point /\ \A w \in Workers : pc'[w] = pc[w]
    BY ThreadsDiffer DEF TypeOK, Go
  <1> QED BY <1>1 DEF AtMostOne, Started

LEMMA WorkerMoves ==
  ASSUME TypeOK, NEW w \in Workers, NEW point, Go(w, point)
  PROVE  /\ pc'[w] = point
         /\ pc'[Gui] = pc[Gui]
         /\ \A v \in Workers : v /= w => pc'[v] = pc[v]
  BY ThreadsDiffer DEF TypeOK, Go

\* The handle names the one thread that may run.
LEMMA HandleStep ==
  ASSUME IInv, [Next]_vars
  PROVE  HandleOfThread'
  <1> USE ThreadsDiffer DEF IInv, HandleOfThread
  <1>t. TypeOK
    OBVIOUS
  <1>1. CASE User \/ MonitorTick \/ SendStop \/ PingSent \/ PingFails
               \/ RemoveFree \/ RemoveDestroy \/ RemoveJoined \/ Disconnect(Gui)
    <2>1. /\ UNCHANGED measurement_thread
          /\ \A w \in Workers : pc'[w] = pc[w]
          /\ AtMostOne' => AtMostOne
      BY <1>1, <1>t, GuiMoves, StartedGrows
      DEF User, StartPressed, StopPressed, RemovePressed, MonitorTick, SendStop, PingSent,
          PingFails, RemoveFree, RemoveDestroy, RemoveJoined, flags,
          Disconnect, DisconnectBegin, DisconnectClose, DisconnectClear, ComputeLabel, SetLabel
    <2> QED BY <2>1 DEF TypeOK
  <1>2. CASE StopJoined
    <2>1. /\ measurement_thread' = None
          /\ \A w \in Workers : pc'[w] = pc[w]
          /\ AtMostOne' => AtMostOne
          /\ pc[measurement_thread] = "done"
      BY <1>2, <1>t, GuiMoves, StartedGrows DEF StopJoined
    <2> QED BY <2>1
  <1>3. ASSUME NEW w \in Workers, StartMeasurement(w)
        PROVE  HandleOfThread'
    <2>1. /\ measurement_thread' = w
          /\ pc'[w] = "enter"
          /\ \A v \in Workers : v /= w => pc'[v] = pc[v]
      BY <1>3, <1>t DEF StartMeasurement, TypeOK
    <2>2. AtMostOne' => \A v \in Workers : v /= w => pc'[v] = "unborn"
      BY <2>1 DEF AtMostOne, Started
    <2> QED BY <2>1, <2>2
  <1>4. ASSUME NEW w \in Workers, WorkerStep(w)
        PROVE  HandleOfThread'
    <2>1. /\ UNCHANGED measurement_thread
          /\ \A v \in Workers : v /= w => pc'[v] = pc[v]
          /\ pc[w] \notin {"unborn", "done"}
      BY <1>4, <1>t, WorkerMoves
      DEF WorkerStep, Enter, Guard, TimestampOk, TimestampFails, ReadNothing, ReadData, StoreRow,
          Disconnect, DisconnectBegin, DisconnectClose, DisconnectClear, ComputeLabel, SetLabel,
          flags, At
    <2>2. /\ AtMostOne' => AtMostOne
          /\ \A v \in Workers : pc[v] /= "unborn" => pc'[v] /= "unborn"
      BY <1>t, StartedGrows
    <2> QED BY <2>1, <2>2, <1>t DEF TypeOK
  <1>5. CASE LinkFails \/ (\E t \in Threads : Crash(t)) \/ UNCHANGED vars
    <2>1. UNCHANGED <<pc, measurement_thread>>
      BY <1>5 DEF LinkFails, Crash, vars, flags
    <2> QED BY <2>1 DEF AtMostOne, Started
  <1> QED BY <1>1, <1>2, <1>3, <1>4, <1>5 DEF Next, GuiStep

\* Nobody starts a thread while STOP is due.
LEMMA JoinedStep ==
  ASSUME IInv, [Next]_vars
  PROVE  JoinedBeforeStop'
  <1> SUFFICES ASSUME AtMostOne', pc'[Gui] = "sendStop", NEW w \in Workers
               PROVE  pc'[w] \in {"unborn", "done"}
    BY DEF JoinedBeforeStop
  <1> USE ThreadsDiffer DEF IInv
  <1>t. TypeOK /\ AtMostOne
    BY StartedGrows
  <1>1. CASE StopPressed
    <2>1. measurement_thread = None /\ pc'[w] = pc[w]
      BY <1>1, <1>t, GuiMoves DEF StopPressed
    <2> QED BY <1>t, <2>1 DEF HandleOfThread
  <1>2. CASE StopJoined
    <2>1. /\ pc[measurement_thread] = "done"
          /\ pc'[w] = pc[w]
      BY <1>2, <1>t, GuiMoves DEF StopJoined
    <2> QED BY <1>t, <2>1 DEF HandleOfThread
  <1>3. CASE StartPressed \/ RemovePressed \/ MonitorTick \/ SendStop \/ PingSent \/ PingFails
               \/ RemoveFree \/ RemoveDestroy \/ RemoveJoined \/ Disconnect(Gui)
    <2>1. pc'[Gui] \in {"start", "free", "ping", "disconnect", "idle", "label", "destroy",
                        "joinRemoved", "removed", "close", "clear", "markup"}
            \/ UNCHANGED pc
      BY <1>3, <1>t, GuiMoves
      DEF StartPressed, RemovePressed, MonitorTick, SendStop, PingSent,
          PingFails, RemoveFree, RemoveDestroy, RemoveJoined,
          Disconnect, DisconnectBegin, DisconnectClose, DisconnectClear, ComputeLabel, SetLabel
    <2> QED BY <1>t, <2>1 DEF JoinedBeforeStop
  <1>4. ASSUME NEW v \in Workers, StartMeasurement(v)
        PROVE  pc'[w] \in {"unborn", "done"}
    <2>1. pc'[Gui] = "idle"
      BY <1>4, <1>t DEF StartMeasurement, TypeOK
    <2> QED BY <2>1
  <1>5. ASSUME NEW v \in Workers, WorkerStep(v)
        PROVE  pc'[w] \in {"unborn", "done"}
    <2>1. pc'[Gui] = pc[Gui] /\ pc[v] \notin {"unborn", "done"}
      BY <1>5, <1>t, WorkerMoves
      DEF WorkerStep, Enter, Guard, TimestampOk, TimestampFails, ReadNothing, ReadData, StoreRow,
          Disconnect, DisconnectBegin, DisconnectClose, DisconnectClear, ComputeLabel, SetLabel,
          At
    <2> QED BY <1>t, <2>1 DEF JoinedBeforeStop
  <1>6. CASE LinkFails \/ (\E t \in Threads : Crash(t)) \/ UNCHANGED vars
    <2>1. UNCHANGED pc
      BY <1>6 DEF LinkFails, Crash, vars
    <2> QED BY <1>t, <2>1 DEF JoinedBeforeStop
  <1> QED BY <1>1, <1>2, <1>3, <1>4, <1>5, <1>6 DEF Next, User, GuiStep

\* The colour that is computed without a connection.
LEMMA ColourShown == (TypeOK /\ ~conn) => VisualState = GoneColour
  BY DEF TypeOK, VisualState, GoneColour

\* After STOP the tab has come to rest.
LEMMA AfterStopStep ==
  ASSUME IInv, [Next]_vars
  PROVE  AfterStop'
  <1> SUFFICES ASSUME AtMostOne', StopSent'
               PROVE  AfterStop'
    BY DEF AfterStop
  <1> USE ThreadsDiffer
  <1>t. TypeOK /\ AtMostOne /\ HandleOfThread
    BY StartedGrows DEF IInv
  <1> DEFINE Rest ==
        /\ pc[Gui] \notin {"join", "sendStop", "ping"}
        /\ conn => pc[Gui] \in {"disconnect", "close", "clear"}
        /\ \A w \in Workers : /\ pc[w] \in {"unborn", "enter", "done"}
                              /\ pc[w] = "enter" => ~conn
        /\ pc[Gui] = "start" => write_index = 0
        /\ pc[Gui] = "markup" => shown[Gui] = GoneColour
        /\ pc[Gui] \notin DisconnectPoints => label = GoneColour
  <1>a. StopSent => Rest
    BY <1>t DEF IInv, AfterStop
  <1>b. sent' = sent => Rest
    BY <1>a, SentKept
  <1>z. SUFFICES Rest'
    BY DEF AfterStop
  <1>1. CASE SendStop
    <2>1. CASE StopSent
      BY <1>1, <1>a, <2>1 DEF SendStop, At
    <2>2. CASE ~StopSent
      <3>1. /\ conn /\ pc'[Gui] = "disconnect" /\ UNCHANGED conn
            /\ \A w \in Workers : pc'[w] = pc[w] /\ pc[w] \in {"unborn", "done"}
        BY <1>1, <1>t, <2>2, SentKept, GuiMoves DEF SendStop, At, IInv, JoinedBeforeStop, memory
      <3> QED BY <3>1 DEF DisconnectPoints
    <2> QED BY <2>1, <2>2
  <1>2. CASE StartPressed
    <2>1. /\ Rest /\ ~conn /\ pc[Gui] = "idle"
          /\ UNCHANGED <<conn, write_index, label, shown>>
      <3>1. StopSent
        BY <1>2, <1>t, Commands, SentKept DEF StartPressed
      <3> QED BY <1>2, <1>a, <3>1 DEF StartPressed, GuiIdle, At, memory, view
    <2>2. /\ \A w \in Workers : pc'[w] = pc[w]
          /\ \/ pc'[Gui] = "idle"
             \/ pc'[Gui] = "start" /\ write_index = 0
      <3>1. CASE UNCHANGED pc
        BY <2>1, <3>1
      <3>2. CASE write_index = 0 /\ Go(Gui, "start")
        BY <1>t, <3>2, GuiMoves
      <3> QED BY <1>2, <3>1, <3>2 DEF StartPressed
    <2> QED BY <2>1, <2>2 DEF DisconnectPoints, GoneColour
  <1>3. ASSUME NEW w \in Workers, StartMeasurement(w)
        PROVE  Rest'
    <2>1. /\ Rest /\ ~conn /\ pc[Gui] = "start" /\ write_index = 0 /\ write_index' = 0
          /\ UNCHANGED <<conn, label, shown>>
      BY <1>3, <1>b DEF StartMeasurement, At, memory, view, wire
    <2>2. /\ pc'[Gui] = "idle" /\ pc'[w] = "enter"
          /\ \A v \in Workers : v /= w => pc'[v] = pc[v]
      BY <1>3, <1>t DEF StartMeasurement, TypeOK
    <2>3. GoneColour' = GoneColour
      BY <2>1 DEF GoneColour
    <2> QED BY <2>1, <2>2, <2>3 DEF DisconnectPoints
  <1>4. CASE StopPressed \/ StopJoined \/ PingSent \/ PingFails
    BY <1>4, <1>b DEF StopPressed, StopJoined, PingSent, PingFails, GuiIdle, At, wire
  <1>5. CASE MonitorTick \/ RemovePressed \/ RemoveFree \/ RemoveDestroy \/ RemoveJoined
    <2>1. /\ Rest /\ UNCHANGED <<conn, write_index, label, shown>>
          /\ pc[Gui] \in {"idle", "free", "destroy", "joinRemoved"}
      BY <1>5, <1>b
      DEF MonitorTick, RemovePressed, RemoveFree, RemoveDestroy, RemoveJoined,
          GuiIdle, At, memory, view, wire
    <2>2. ~conn
      BY <2>1
    <2>3. /\ pc'[Gui] \in {"disconnect", "free", "destroy", "joinRemoved", "removed"}
          /\ \A w \in Workers : pc'[w] = pc[w]
      BY <1>5, <1>t, <2>2, GuiMoves
      DEF MonitorTick, RemovePressed, RemoveFree, RemoveDestroy, RemoveJoined
    <2> QED BY <2>1, <2>2, <2>3 DEF DisconnectPoints, GoneColour
  <1>6. CASE Disconnect(Gui)
    <2>1. Rest /\ UNCHANGED write_index
      BY <1>6, <1>b DEF Disconnect, DisconnectBegin, DisconnectClose, DisconnectClear,
                        ComputeLabel, SetLabel, wire
    <2>2. CASE DisconnectBegin(Gui) \/ DisconnectClose(Gui) \/ DisconnectClear(Gui)
      <3>1. /\ conn' => conn
            /\ \A w \in Workers : pc'[w] = pc[w]
            /\ pc'[Gui] \in {"close", "clear", "label"}
            /\ pc'[Gui] = "label" => ~conn'
        <4>1. CASE DisconnectBegin(Gui)
          <5>1. UNCHANGED conn
            BY <4>1 DEF DisconnectBegin, memory
          <5>2. CASE conn
            BY <1>t, <4>1, <5>1, <5>2, GuiMoves DEF DisconnectBegin
          <5>3. CASE ~conn
            BY <1>t, <4>1, <5>1, <5>3, GuiMoves DEF DisconnectBegin
          <5> QED BY <5>2, <5>3
        <4>2. CASE DisconnectClose(Gui)
          BY <1>t, <4>2, GuiMoves DEF DisconnectClose
        <4>3. CASE DisconnectClear(Gui)
          BY <1>t, <4>3, GuiMoves DEF DisconnectClear
        <4> QED BY <2>2, <4>1, <4>2, <4>3
      <3>2. /\ pc'[Gui] \in DisconnectPoints
            /\ pc'[Gui] \notin {"join", "sendStop", "ping", "start", "markup"}
        BY <3>1 DEF DisconnectPoints
      <3>3. \A w \in Workers : /\ pc'[w] \in {"unborn", "enter", "done"}
                               /\ pc'[w] = "enter" => ~conn'
        BY <2>1, <3>1
      <3> QED BY <3>1, <3>2, <3>3
    <2>3. CASE ComputeLabel(Gui)
      <3>1. /\ ~conn /\ UNCHANGED conn
            /\ shown'[Gui] = GoneColour
            /\ pc'[Gui] = "markup"
            /\ \A w \in Workers : pc'[w] = pc[w]
        BY <1>t, <2>1, <2>3, GuiMoves, ColourShown DEF ComputeLabel, At, memory, TypeOK
      <3> QED BY <2>1, <3>1 DEF DisconnectPoints, GoneColour
    <2>4. CASE SetLabel(Gui)
      <3>1. /\ ~conn /\ UNCHANGED conn
            /\ label' = GoneColour
            /\ pc'[Gui] = "idle"
            /\ \A w \in Workers : pc'[w] = pc[w]
        BY <1>t, <2>1, <2>4, GuiMoves DEF SetLabel, At, memory
      <3> QED BY <2>1, <3>1 DEF DisconnectPoints, GoneColour
    <2> QED BY <1>6, <2>2, <2>3, <2>4 DEF Disconnect
  <1>7. ASSUME NEW w \in Workers, WorkerStep(w)
        PROVE  Rest'
    <2>1. Rest
      BY <1>7, <1>b
      DEF WorkerStep, Enter, Guard, TimestampOk, TimestampFails, ReadNothing, ReadData, StoreRow,
          Disconnect, DisconnectBegin, DisconnectClose, DisconnectClear, ComputeLabel, SetLabel,
          wire
    <2>2. Enter(w)
      BY <1>7, <2>1
      DEF WorkerStep, Enter, Guard, TimestampOk, TimestampFails, ReadNothing, ReadData, StoreRow,
          Disconnect, DisconnectBegin, DisconnectClose, DisconnectClear, ComputeLabel, SetLabel,
          At
    <2>3. /\ pc[w] = "enter" /\ ~conn /\ pc'[w] = "done"
          /\ pc'[Gui] = pc[Gui]
          /\ \A v \in Workers : v /= w => pc'[v] = pc[v]
          /\ UNCHANGED <<conn, write_index, label, shown>>
      BY <1>t, <2>1, <2>2, WorkerMoves DEF Enter, At, memory, view
    <2> QED BY <2>1, <2>3 DEF DisconnectPoints, GoneColour
  <1>8. CASE LinkFails \/ (\E t \in Threads : Crash(t)) \/ UNCHANGED vars
    <2>1. Rest /\ UNCHANGED <<pc, conn, write_index, label, shown>>
      BY <1>8, <1>b DEF LinkFails, Crash, vars, memory, view, wire
    <2> QED BY <2>1 DEF GoneColour
  <1> QED BY <1>1, <1>2, <1>3, <1>4, <1>5, <1>6, <1>7, <1>8 DEF Next, User, GuiStep

\* What the one thread leaves behind when it disconnects under Stop.
LEMMA LostStep ==
  ASSUME IInv, [Next]_vars
  PROVE  LostWhileStopping'
  <1> SUFFICES ASSUME AtMostOne', pc'[Gui] \in {"join", "sendStop"}, ~conn'
               PROVE  LostWhileStopping'
    BY DEF LostWhileStopping
  <1> USE ThreadsDiffer
  <1>t. TypeOK /\ AtMostOne
    BY StartedGrows DEF IInv
  <1> DEFINE Lost ==
        /\ \A w \in Workers : /\ pc[w] \in {"unborn", "label", "markup", "done"}
                              /\ pc[w] = "markup" => shown[w] = GoneColour
        /\ (\A w \in Workers : pc[w] \in {"unborn", "done"}) => label = GoneColour
  <1>a. pc[Gui] \in {"join", "sendStop"} /\ ~conn => Lost
    BY <1>t DEF IInv, LostWhileStopping
  <1>z. SUFFICES Lost'
    BY DEF LostWhileStopping
  <1>1. CASE StopPressed
    BY <1>1 DEF StopPressed, memory
  <1>2. CASE StopJoined
    <2>1. /\ pc[Gui] = "join" /\ \A w \in Workers : pc'[w] = pc[w]
          /\ UNCHANGED <<conn, label, shown, write_index>>
      BY <1>2, <1>t, GuiMoves DEF StopJoined, At, memory, view
    <2>2. GoneColour' = GoneColour
      BY <2>1 DEF GoneColour
    <2> QED BY <1>a, <2>1, <2>2
  <1>3. CASE StartPressed \/ RemovePressed \/ MonitorTick \/ SendStop \/ PingSent \/ PingFails
               \/ RemoveFree \/ RemoveDestroy \/ RemoveJoined \/ Disconnect(Gui)
    <2>1. pc'[Gui] \in {"start", "free", "ping", "disconnect", "idle", "label", "destroy",
                        "joinRemoved", "removed", "close", "clear", "markup"}
            \/ (UNCHANGED pc /\ pc[Gui] = "idle")
      BY <1>3, <1>t, GuiMoves
      DEF StartPressed, RemovePressed, MonitorTick, SendStop, PingSent,
          PingFails, RemoveFree, RemoveDestroy, RemoveJoined, GuiIdle, At,
          Disconnect, DisconnectBegin, DisconnectClose, DisconnectClear, ComputeLabel, SetLabel
    <2> QED BY <2>1
  <1>4. ASSUME NEW w \in Workers, StartMeasurement(w)
        PROVE  Lost'
    BY <1>4, <1>t DEF StartMeasurement, TypeOK
  <1>5. ASSUME NEW w \in Workers, WorkerStep(w)
        PROVE  Lost'
    <2>1. /\ pc'[Gui] = pc[Gui] /\ pc[w] \notin {"unborn", "done"}
          /\ \A v \in Workers : v /= w => pc'[v] = pc[v]
      BY <1>5, <1>t, WorkerMoves
      DEF WorkerStep, Enter, Guard, TimestampOk, TimestampFails, ReadNothing, ReadData, StoreRow,
          Disconnect, DisconnectBegin, DisconnectClose, DisconnectClear, ComputeLabel, SetLabel,
          At
    <2>2. \A v \in Workers : v /= w => pc[v] = "unborn" /\ pc'[v] = "unborn"
      BY <1>t, <2>1 DEF AtMostOne, Started
    <2>3. CASE conn
      <3>1. DisconnectClear(w)
        BY <1>5, <2>3
        DEF WorkerStep, Enter, Guard, TimestampOk, TimestampFails, ReadNothing, ReadData,
            StoreRow, Disconnect, DisconnectBegin, DisconnectClose, ComputeLabel, SetLabel, memory
      <3>2. pc'[w] = "label"
        BY <1>t, <3>1, WorkerMoves DEF DisconnectClear
      <3> QED BY <2>2, <3>2
    <2>4. CASE ~conn
      <3>1. Lost
        BY <1>a, <2>1, <2>4
      <3>2. ComputeLabel(w) \/ SetLabel(w)
        BY <1>5, <2>1, <3>1
        DEF WorkerStep, Enter, Guard, TimestampOk, TimestampFails, ReadNothing, ReadData,
            StoreRow, Disconnect, DisconnectBegin, DisconnectClose, DisconnectClear, At
      <3>3. GoneColour' = GoneColour
        BY <3>2 DEF ComputeLabel, SetLabel, GoneColour
      <3>4. CASE ComputeLabel(w)
        <4>1. pc'[w] = "markup" /\ shown'[w] = GoneColour
          BY <1>t, <2>4, <3>4, WorkerMoves, ColourShown DEF ComputeLabel, TypeOK
        <4> QED BY <2>2, <3>3, <4>1
      <3>5. CASE SetLabel(w)
        <4>1. pc'[w] = "done" /\ label' = GoneColour
          BY <1>t, <3>1, <3>5, WorkerMoves DEF SetLabel, At
        <4> QED BY <2>2, <3>3, <4>1
      <3> QED BY <3>2, <3>4, <3>5
    <2> QED BY <2>3, <2>4
  <1>6. CASE LinkFails \/ (\E t \in Threads : Crash(t)) \/ UNCHANGED vars
    <2>1. UNCHANGED <<pc, conn, write_index, label, shown>>
      BY <1>6 DEF LinkFails, Crash, vars, memory, view
    <2>2. GoneColour' = GoneColour
      BY <2>1 DEF GoneColour
    <2> QED BY <1>a, <2>1, <2>2
  <1> QED BY <1>1, <1>2, <1>3, <1>4, <1>5, <1>6 DEF Next, User, GuiStep

\* A thread that reads has its socket.
LEMMA SocketStep ==
  ASSUME IInv, [Next]_vars
  PROVE  SocketInUse'
  <1> SUFFICES ASSUME Undisturbed'
               PROVE  SocketInUse'
    BY DEF SocketInUse
  <1> USE ThreadsDiffer
  <1>t. TypeOK /\ AtMostOne /\ HandleOfThread /\ JoinedBeforeStop
    BY StartedGrows DEF IInv, Undisturbed
  <1> DEFINE Held ==
        /\ refs = IF conn /\ pc[Gui] /= "clear" THEN 1 ELSE 0
        /\ pc[Gui] = "ping" => conn
        /\ \A w \in Workers :
             /\ pc[w] \notin DisconnectPoints
             /\ pc[w] \in {"guard", "timestamp", "read", "store"} => conn
             /\ pc[w] \in {"enter", "guard", "timestamp", "read", "store"} /\ conn =>
                  pc[Gui] \notin {"disconnect", "close", "clear"}
  <1>a. (link = "up" /\ heap = "live" /\ pc[Gui] /= "free") => Held
    BY <1>t DEF IInv, SocketInUse, Undisturbed
  <1>b. link' = "up" /\ heap' = "live" /\ pc'[Gui] /= "free"
    BY DEF Undisturbed
  <1>z. SUFFICES Held'
    BY DEF SocketInUse
  <1>1. CASE User \/ StopJoined
    <2>1. CASE RemovePressed
      BY <1>b, <1>t, <2>1, GuiMoves DEF RemovePressed
    <2>2. CASE StartPressed \/ StopPressed \/ StopJoined
      <3>1. /\ UNCHANGED <<conn, refs, heap, link>>
            /\ pc[Gui] \in {"idle", "join"}
        BY <2>2 DEF StartPressed, StopPressed, StopJoined, GuiIdle, At, memory, wire
      <3>2. \A w \in Workers : pc'[w] = pc[w]
        BY <1>t, <2>2, GuiMoves DEF StartPressed, StopPressed, StopJoined
      <3>3. pc'[Gui] \in {"idle", "start", "sendStop", "join"}
        <4>1. CASE UNCHANGED pc
          BY <3>1, <4>1
        <4>2. CASE Go(Gui, "start") \/ Go(Gui, "sendStop") \/ Go(Gui, "join")
          BY <1>t, <4>2, GuiMoves
        <4> QED BY <2>2, <4>1, <4>2 DEF StartPressed, StopPressed, StopJoined
      <3> QED BY <1>a, <1>b, <3>1, <3>2, <3>3
    <2> QED BY <1>1, <2>1, <2>2 DEF User
  <1>2. ASSUME NEW w \in Workers, StartMeasurement(w)
        PROVE  Held'
    <2>1. /\ Held /\ pc[Gui] = "start"
          /\ UNCHANGED <<conn, refs>>
      BY <1>2, <1>a, <1>b DEF StartMeasurement, At, memory, wire
    <2>2. /\ pc'[Gui] = "idle" /\ pc'[w] = "enter"
          /\ \A v \in Workers : v /= w => pc'[v] = pc[v]
      BY <1>2, <1>t DEF StartMeasurement, TypeOK
    <2> QED BY <2>1, <2>2 DEF DisconnectPoints
  <1>3. CASE SendStop
    <2>1. /\ Held /\ pc[Gui] = "sendStop"
          /\ UNCHANGED <<conn, refs>>
      BY <1>3, <1>a, <1>b DEF SendStop, At, memory, wire
    <2>2. \A w \in Workers : pc'[w] = pc[w] /\ pc[w] \in {"unborn", "done"}
      BY <1>3, <1>t, <2>1, GuiMoves DEF SendStop, JoinedBeforeStop
    <2>3. pc'[Gui] \in {"disconnect", "idle"}
      BY <1>3, <1>t, GuiMoves DEF SendStop
    <2> QED BY <2>1, <2>2, <2>3
  <1>4. CASE MonitorTick
    <2>1. /\ Held /\ pc[Gui] = "idle"
          /\ UNCHANGED <<conn, refs>>
      BY <1>4, <1>a, <1>b DEF MonitorTick, GuiIdle, At, memory, wire
    <2>2. /\ \A w \in Workers : pc'[w] = pc[w]
          /\ pc'[Gui] = IF conn THEN "ping" ELSE "disconnect"
      BY <1>4, <1>t, GuiMoves DEF MonitorTick
    <2> QED BY <2>1, <2>2
  <1>5. CASE PingSent \/ PingFails
    <2>1. /\ Held /\ pc[Gui] = "ping" /\ link = "up"
          /\ UNCHANGED <<conn, refs>>
      BY <1>5, <1>a, <1>b DEF PingSent, PingFails, At, memory, wire
    <2>2. PingSent
      BY <1>5, <2>1 DEF PingFails, SocketOpen
    <2>3. pc'[Gui] = "label" /\ \A w \in Workers : pc'[w] = pc[w]
      BY <1>t, <2>2, GuiMoves DEF PingSent
    <2> QED BY <2>1, <2>3
  <1>6. CASE RemoveFree \/ RemoveDestroy \/ RemoveJoined
    <2>1. CASE RemoveFree
      BY <1>b, <2>1 DEF RemoveFree
    <2>2. CASE RemoveDestroy \/ RemoveJoined
      <3>1. /\ Held /\ pc[Gui] \in {"destroy", "joinRemoved"}
            /\ UNCHANGED <<conn, refs>>
        BY <1>a, <1>b, <2>2 DEF RemoveDestroy, RemoveJoined, At, memory, wire
      <3>2. /\ pc'[Gui] \in {"joinRemoved", "removed"}
            /\ \A w \in Workers : pc'[w] = pc[w]
        BY <1>t, <2>2, GuiMoves DEF RemoveDestroy, RemoveJoined
      <3> QED BY <3>1, <3>2
    <2> QED BY <1>6, <2>1, <2>2
  <1>7. CASE Disconnect(Gui)
    <2>1. Held
      BY <1>7, <1>a, <1>b
      DEF Disconnect, DisconnectBegin, DisconnectClose, DisconnectClear, ComputeLabel, SetLabel,
          At, memory, wire
    <2>2. CASE DisconnectBegin(Gui)
      <3>1. /\ pc[Gui] = "disconnect" /\ UNCHANGED <<conn, refs>>
            /\ pc'[Gui] = IF conn THEN "close" ELSE "label"
            /\ \A w \in Workers : pc'[w] = pc[w]
        BY <1>t, <2>2, GuiMoves DEF DisconnectBegin, At, memory
      <3> QED BY <2>1, <3>1
    <2>3. CASE DisconnectClose(Gui)
      <3>1. /\ pc[Gui] = "close" /\ UNCHANGED conn
            /\ refs' = IF conn THEN refs - 1 ELSE refs
            /\ pc'[Gui] = "clear"
            /\ \A w \in Workers : pc'[w] = pc[w]
        BY <1>t, <2>3, GuiMoves DEF DisconnectClose, At
      <3>2. refs' = 0
        BY <2>1, <3>1
      <3> QED BY <2>1, <3>1, <3>2
    <2>4. CASE DisconnectClear(Gui)
      <3>1. /\ pc[Gui] = "clear" /\ UNCHANGED refs /\ conn' = FALSE
            /\ pc'[Gui] = "label"
            /\ \A w \in Workers : pc'[w] = pc[w]
        BY <1>t, <2>4, GuiMoves DEF DisconnectClear, At
      <3>2. \A w \in Workers : pc[w] \notin {"guard", "timestamp", "read", "store"}
        BY <2>1, <3>1
      <3> QED BY <2>1, <3>1, <3>2
    <2>5. CASE ComputeLabel(Gui) \/ SetLabel(Gui)
      <3>1. /\ pc[Gui] \in {"label", "markup"} /\ UNCHANGED <<conn, refs>>
            /\ pc'[Gui] \in {"markup", "idle"}
            /\ \A w \in Workers : pc'[w] = pc[w]
        BY <1>t, <2>5, GuiMoves DEF ComputeLabel, SetLabel, At, memory
      <3> QED BY <2>1, <3>1
    <2> QED BY <1>7, <2>2, <2>3, <2>4, <2>5 DEF Disconnect
  <1>8. ASSUME NEW w \in Workers, WorkerStep(w)
        PROVE  Held'
    <2>0. pc'[Gui] = pc[Gui] /\ \A v \in Workers : v /= w => pc'[v] = pc[v]
      BY <1>8, <1>t, WorkerMoves
      DEF WorkerStep, Enter, Guard, TimestampOk, TimestampFails, ReadNothing, ReadData, StoreRow,
          Disconnect, DisconnectBegin, DisconnectClose, DisconnectClear, ComputeLabel, SetLabel
    <2>1. Held /\ link = "up"
      BY <1>8, <1>a, <1>b, <2>0
      DEF WorkerStep, Enter, Guard, TimestampOk, TimestampFails, ReadNothing, ReadData, StoreRow,
          Disconnect, DisconnectBegin, DisconnectClose, DisconnectClear, ComputeLabel, SetLabel,
          memory, wire
    <2>2. ~Disconnect(w)
      BY <2>1
      DEF Disconnect, DisconnectBegin, DisconnectClose, DisconnectClear, ComputeLabel, SetLabel,
          At, DisconnectPoints
    <2>3. ~TimestampFails(w)
      <3> SUFFICES ASSUME pc[w] = "timestamp"
                   PROVE  refs > 0
        BY <2>1 DEF TimestampFails, At, SocketOpen
      <3>1. conn
        BY <2>1
      <3>2. pc[Gui] /= "clear"
        BY <2>1, <3>1
      <3> QED BY <2>1, <3>1, <3>2
    <2>4. CASE Enter(w)
      <3>1. /\ pc[w] = "enter" /\ UNCHANGED <<conn, refs>>
            /\ pc'[w] = IF conn THEN "guard" ELSE "done"
        BY <1>t, <2>4, WorkerMoves DEF Enter, At, memory
      <3> QED BY <2>0, <2>1, <3>1 DEF DisconnectPoints
    <2>5. CASE Guard(w) \/ TimestampOk(w) \/ ReadNothing(w) \/ ReadData(w) \/ StoreRow(w)
      <3>1. /\ pc[w] \in {"guard", "timestamp", "read", "store"} /\ UNCHANGED <<conn, refs>>
            /\ pc'[w] \in {"guard", "timestamp", "read", "store", "done"}
        BY <1>t, <2>5, WorkerMoves
        DEF Guard, TimestampOk, ReadNothing, ReadData, StoreRow, At, memory
      <3> QED BY <2>0, <2>1, <3>1 DEF DisconnectPoints
    <2> QED BY <1>8, <2>2, <2>3, <2>4, <2>5 DEF WorkerStep
  <1>9. CASE LinkFails \/ (\E t \in Threads : Crash(t)) \/ UNCHANGED vars
    <2>1. CASE LinkFails
      BY <1>b, <2>1 DEF LinkFails
    <2>2. CASE (\E t \in Threads : Crash(t)) \/ UNCHANGED vars
      <3>1. UNCHANGED <<pc, conn, refs, heap, link>>
        BY <2>2 DEF Crash, vars, wire
      <3> QED BY <1>a, <1>b, <3>1
    <2> QED BY <1>9, <2>1, <2>2
  <1> QED BY <1>1, <1>2, <1>3, <1>4, <1>5, <1>6, <1>7, <1>8, <1>9 DEF Next, GuiStep

\* Each thread keeps to its own program.
LEMMA PointsStep ==
  ASSUME IInv, [Next]_vars
  PROVE  PointsOfThreads'
  <1> USE ThreadsDiffer
  <1>t. TypeOK /\ PointsOfThreads
    BY DEF IInv
  <1>1. CASE User \/ MonitorTick
    <2>1. \A w \in Workers : pc'[w] = pc[w]
      BY <1>1, <1>t, GuiMoves DEF User, StartPressed, StopPressed, RemovePressed, MonitorTick
    <2>2. pc'[Gui] \in {pc[Gui], "start", "sendStop", "join", "free", "ping", "disconnect"}
      BY <1>1, <1>t, GuiMoves DEF User, StartPressed, StopPressed, RemovePressed, MonitorTick
    <2> QED BY <1>t, <2>1, <2>2 DEF PointsOfThreads
  <1>2. CASE StopJoined \/ SendStop \/ PingSent \/ PingFails
               \/ RemoveFree \/ RemoveDestroy \/ RemoveJoined
    <2>1. \A w \in Workers : pc'[w] = pc[w]
      BY <1>2, <1>t, GuiMoves
      DEF StopJoined, SendStop, PingSent, PingFails, RemoveFree, RemoveDestroy, RemoveJoined
    <2>2. pc'[Gui] \in {"sendStop", "disconnect", "idle", "label", "destroy", "joinRemoved",
                        "removed"}
      BY <1>2, <1>t, GuiMoves
      DEF StopJoined, SendStop, PingSent, PingFails, RemoveFree, RemoveDestroy, RemoveJoined
    <2> QED BY <1>t, <2>1, <2>2 DEF PointsOfThreads
  <1>3. ASSUME NEW w \in Workers, StartMeasurement(w)
        PROVE  PointsOfThreads'
    <2>1. /\ pc'[Gui] = "idle" /\ pc'[w] = "enter"
          /\ \A v \in Workers : v /= w => pc'[v] = pc[v]
      BY <1>3, <1>t DEF StartMeasurement, TypeOK
    <2> QED BY <1>t, <2>1 DEF PointsOfThreads
  <1>4. CASE Disconnect(Gui)
    <2>1. /\ \A w \in Workers : pc'[w] = pc[w]
          /\ pc'[Gui] \in {"close", "clear", "label", "markup", "idle"}
      BY <1>4, <1>t, GuiMoves
      DEF Disconnect, DisconnectBegin, DisconnectClose, DisconnectClear, ComputeLabel, SetLabel
    <2> QED BY <1>t, <2>1 DEF PointsOfThreads
  <1>5. ASSUME NEW w \in Workers, WorkerStep(w)
        PROVE  PointsOfThreads'
    <2>1. /\ pc'[Gui] = pc[Gui]
          /\ \A v \in Workers : v /= w => pc'[v] = pc[v]
      BY <1>5, <1>t, WorkerMoves
      DEF WorkerStep, Enter, Guard, TimestampOk, TimestampFails, ReadNothing, ReadData, StoreRow,
          Disconnect, DisconnectBegin, DisconnectClose, DisconnectClear, ComputeLabel, SetLabel
    <2>2. pc'[w] \in {"guard", "done", "timestamp", "read", "disconnect", "store",
                      "close", "clear", "label", "markup"}
      BY <1>5, <1>t, WorkerMoves
      DEF WorkerStep, Enter, Guard, TimestampOk, TimestampFails, ReadNothing, ReadData, StoreRow,
          Disconnect, DisconnectBegin, DisconnectClose, DisconnectClear, ComputeLabel, SetLabel
    <2> QED BY <1>t, <2>1, <2>2 DEF PointsOfThreads
  <1>6. CASE LinkFails \/ (\E t \in Threads : Crash(t)) \/ UNCHANGED vars
    <2>1. UNCHANGED pc
      BY <1>6 DEF LinkFails, Crash, vars
    <2> QED BY <1>t, <2>1 DEF PointsOfThreads
  <1> QED BY <1>1, <1>2, <1>3, <1>4, <1>5, <1>6 DEF Next, GuiStep

-----------------------------------------------------------------------------
(* The theorems.                                                           *)

\* The invariant is inductive.
LEMMA Inductive == IInv /\ [Next]_vars => IInv'
  BY TypeStep, HandleStep, JoinedStep, AfterStopStep, LostStep, SocketStep, PointsStep DEF IInv

\* The inductive invariant of a tab, for any number of measurement threads.
THEOREM Invariance == Spec => []IInv
  <1>1. Init => IInv
    BY InitInv
  <1>2. IInv /\ [Next]_vars => IInv'
    BY Inductive
  <1> QED BY <1>1, <1>2, PTL DEF Spec

\* The variables of a tab keep their types.
THEOREM TypeCorrect == Spec => []TypeOK
  <1>1. IInv => TypeOK
    BY DEF IInv
  <1> QED BY <1>1, Invariance, PTL

\* Stop leaves a tab whose colour says whether there are rows, whether it sent
\* STOP or found the connection lost meanwhile.
THEOREM LabelAfterStop == Spec => []StopLabel
  <1>1. IInv => StopLabel
    <2> SUFFICES ASSUME IInv, Cardinality(Started) <= 1,
                        \/ GuiIdle /\ StopSent
                        \/ At(Gui, "sendStop") /\ ~conn
                 PROVE  label = GoneColour
      BY DEF StopLabel
    <2>1. AtMostOne
      BY OneStarted
    <2>2. CASE GuiIdle /\ StopSent
      BY <2>1, <2>2 DEF GuiIdle, At, DisconnectPoints, IInv, AfterStop
    <2>3. CASE At(Gui, "sendStop") /\ ~conn
      BY <2>1, <2>3 DEF At, IInv, JoinedBeforeStop, LostWhileStopping
    <2> QED BY <2>2, <2>3
  <1> QED BY <1>1, Invariance, PTL

\* With one measurement thread and a good link, no thread uses a dead socket.
THEOREM SocketAlive == Spec => []NoDeadSocketOnGoodLink
  <1>1. IInv => NoDeadSocketOnGoodLink
    <2> SUFFICES ASSUME IInv, link = "up", heap = "live", Cardinality(Started) <= 1,
                        pc[Gui] /= "free", NEW t \in Threads, UsesDeadSocket(t)
                 PROVE  FALSE
      BY DEF NoDeadSocketOnGoodLink
    <2>1. /\ refs = IF conn /\ pc[Gui] /= "clear" THEN 1 ELSE 0
          /\ pc[Gui] = "ping" => conn
          /\ \A w \in Workers :
               /\ pc[w] \notin DisconnectPoints
               /\ pc[w] \in {"guard", "timestamp", "read", "store"} => conn
               /\ pc[w] \in {"enter", "guard", "timestamp", "read", "store"} /\ conn =>
                    pc[Gui] \notin {"disconnect", "close", "clear"}
      BY OneStarted DEF IInv, SocketInUse, Undisturbed
    <2>2. refs = 0 /\ (~conn \/ pc[Gui] = "clear")
      BY <2>1 DEF UsesDeadSocket
    <2>3. CASE t = Gui
      <3>1. pc[Gui] \notin {"timestamp", "read"}
        BY DEF IInv, PointsOfThreads
      <3> QED BY <2>1, <2>2, <2>3, <3>1 DEF UsesDeadSocket
    <2>4. CASE t \in Workers
      <3>1. pc[t] \notin {"close", "ping"}
        BY <2>1, <2>4 DEF IInv, PointsOfThreads, DisconnectPoints
      <3> QED BY <2>1, <2>2, <2>4, <3>1 DEF UsesDeadSocket
    <2> QED BY <2>3, <2>4 DEF Threads
  <1> QED BY <1>1, Invariance, PTL

\* After Stop sent its package the recorded rows are final.
THEOREM RowsAreFinal == Spec => QuietAfterStop
  <1>1. IInv /\ [Next]_vars =>
          [(StopSent /\ Cardinality(Started) <= 1) => write_index' = write_index]_vars
    <2> SUFFICES ASSUME IInv, [Next]_vars, StopSent, Cardinality(Started) <= 1
                 PROVE  write_index' = write_index
      OBVIOUS
    <2>1. /\ \A w \in Workers : pc[w] \in {"unborn", "enter", "done"}
          /\ pc[Gui] = "start" => write_index = 0
      BY OneStarted DEF IInv, AfterStop
    <2>2. ASSUME NEW w \in Workers, StoreRow(w)
          PROVE  FALSE
      BY <2>1, <2>2 DEF StoreRow, At
    <2>3. ASSUME NEW w \in Workers, StartMeasurement(w)
          PROVE  write_index' = write_index
      BY <2>1, <2>3 DEF StartMeasurement, At
    <2>4. CASE UNCHANGED vars
      BY <2>4 DEF vars
    <2> QED BY <2>2, <2>3, <2>4
          DEF Next, User, StartPressed, StopPressed, RemovePressed, MonitorTick, GuiStep,
              StopJoined, SendStop, PingSent, PingFails, RemoveFree, RemoveDestroy, RemoveJoined,
              LinkFails, Crash, WorkerStep, Enter, Guard, TimestampOk, TimestampFails,
              ReadNothing, ReadData, Disconnect, DisconnectBegin, DisconnectClose,
              DisconnectClear, ComputeLabel, SetLabel
  <1> QED BY <1>1, Invariance, PTL DEF Spec, QuietAfterStop

-----------------------------------------------------------------------------
(* The tab as its user sees it.                                            *)

\* The connection that STOP went out on is on its way out: nothing follows.
StopIsLast == (StopSent /\ conn) => pc[Gui] \in {"disconnect", "close", "clear"}

\* Rows come from measurement threads.
RowsOfThreads == Started = {} => write_index = 0

TabInv == StopIsLast /\ RowsOfThreads

\* The connection does not come back.
LEMMA ConnStays ==
  ASSUME TypeOK, [Next]_vars
  PROVE  conn' => conn
  BY DEF Next, vars, memory, User, StartPressed, StopPressed, RemovePressed, MonitorTick, GuiStep,
         StartMeasurement, StopJoined, SendStop, PingSent, PingFails, RemoveFree, RemoveDestroy,
         RemoveJoined, LinkFails, Crash, WorkerStep, Enter, Guard, TimestampOk, TimestampFails,
         ReadNothing, ReadData, StoreRow, Disconnect, DisconnectBegin, DisconnectClose,
         DisconnectClear, ComputeLabel, SetLabel, TypeOK

\* What the GUI thread does between the steps the user sees.
QuietGui == \/ StopPressed \/ StopJoined \/ MonitorTick \/ PingSent \/ PingFails
            \/ RemoveFree \/ RemoveDestroy \/ RemoveJoined \/ Disconnect(Gui)

LEMMA QuietGuiMoves ==
  ASSUME TypeOK, QuietGui
  PROVE  /\ UNCHANGED <<write_index, sent>> /\ (StopSent' <=> StopSent)
         /\ \A w \in Workers : pc'[w] = pc[w]
         /\ pc[Gui] /= "start" /\ pc'[Gui] /= "start"
         /\ Started' = Started
  <1>1. /\ UNCHANGED <<write_index, sent>>
        /\ \A w \in Workers : pc'[w] = pc[w]
    BY GuiMoves
    DEF QuietGui, StopPressed, StopJoined, MonitorTick, PingSent, PingFails,
        RemoveFree, RemoveDestroy, RemoveJoined, wire,
        Disconnect, DisconnectBegin, DisconnectClose, DisconnectClear, ComputeLabel, SetLabel
  <1>2. pc[Gui] /= "start"
    BY DEF QuietGui, StopPressed, StopJoined, MonitorTick, PingSent, PingFails,
           RemoveFree, RemoveDestroy, RemoveJoined, GuiIdle, At,
           Disconnect, DisconnectBegin, DisconnectClose, DisconnectClear, ComputeLabel, SetLabel
  <1>3. pc'[Gui] /= "start"
    BY GuiMoves
    DEF QuietGui, StopPressed, StopJoined, MonitorTick, PingSent, PingFails,
        RemoveFree, RemoveDestroy, RemoveJoined,
        Disconnect, DisconnectBegin, DisconnectClose, DisconnectClear, ComputeLabel, SetLabel
  <1> QED BY <1>1, <1>2, <1>3, SentKept DEF Started

\* A measurement thread keeps to itself, and was started.
LEMMA WorkerStepMoves ==
  ASSUME TypeOK, NEW w \in Workers, WorkerStep(w)
  PROVE  /\ sent' = sent /\ (StopSent' <=> StopSent)
         /\ pc'[Gui] = pc[Gui]
         /\ \A v \in Workers : v /= w => pc'[v] = pc[v]
         /\ pc[w] \notin {"unborn", "done"} /\ pc'[w] \notin {"unborn", "enter"}
         /\ Started' = Started
         /\ heap' = heap
         /\ pc[w] = "enter" /\ pc'[w] /= "done" => conn
         /\ StoreRow(w) \/ write_index' = write_index
  <1>1. /\ sent' = sent /\ heap' = heap
        /\ pc'[Gui] = pc[Gui]
        /\ \A v \in Workers : v /= w => pc'[v] = pc[v]
        /\ StoreRow(w) \/ write_index' = write_index
    BY WorkerMoves
    DEF WorkerStep, Enter, Guard, TimestampOk, TimestampFails, ReadNothing, ReadData, StoreRow,
        Disconnect, DisconnectBegin, DisconnectClose, DisconnectClear, ComputeLabel, SetLabel,
        wire, memory
  <1>2. pc[w] \notin {"unborn", "done"} /\ pc'[w] \notin {"unborn", "enter"}
    BY WorkerMoves, ThreadsDiffer
    DEF WorkerStep, Enter, Guard, TimestampOk, TimestampFails, ReadNothing, ReadData, StoreRow,
        Disconnect, DisconnectBegin, DisconnectClose, DisconnectClear, ComputeLabel, SetLabel, At
  <1>3. pc[w] = "enter" /\ pc'[w] /= "done" => conn
    BY WorkerMoves
    DEF WorkerStep, Enter, Guard, TimestampOk, TimestampFails, ReadNothing, ReadData, StoreRow,
        Disconnect, DisconnectBegin, DisconnectClose, DisconnectClear, ComputeLabel, SetLabel, At
  <1>4. Started' = Started
    BY <1>1, <1>2 DEF Started
  <1> QED BY <1>1, <1>2, <1>3, <1>4, SentKept

\* A thread that is started is one more.
LEMMA StartMoves ==
  ASSUME TypeOK, NEW w \in Workers, StartMeasurement(w)
  PROVE  /\ pc[Gui] = "start" /\ pc'[Gui] = "idle"
         /\ pc[w] = "unborn" /\ pc'[w] = "enter"
         /\ \A v \in Workers : v /= w => pc'[v] = pc[v]
         /\ Started' = Started \cup {w} /\ w \notin Started
         /\ IsFiniteSet(Started) /\ Cardinality(Started') = Cardinality(Started) + 1
         /\ write_index' = 0
         /\ UNCHANGED <<conn, sent, heap>> /\ (StopSent' <=> StopSent)
  <1>1. /\ pc[Gui] = "start" /\ pc'[Gui] = "idle"
        /\ pc[w] = "unborn" /\ pc'[w] = "enter"
        /\ \A v \in Workers : v /= w => pc'[v] = pc[v]
    BY ThreadsDiffer DEF StartMeasurement, At, TypeOK
  <1>2. Started' = Started \cup {w} /\ w \notin Started
    BY <1>1 DEF Started
  <1>3. IsFiniteSet(Started)
    BY SessionAssumption, FS_Subset DEF Started
  <1>4. Cardinality(Started \cup {w}) = Cardinality(Started) + 1
    BY <1>2, <1>3, FS_AddElement
  <1> QED BY <1>1, <1>2, <1>3, <1>4, SentKept DEF StartMeasurement, memory, wire

LEMMA TabInvInit == Init => TabInv
  BY ThreadsDiffer DEF Init, TabInv, StopIsLast, StopSent, RowsOfThreads

LEMMA TabInvStep ==
  ASSUME TypeOK, TabInv, [Next]_vars
  PROVE  TabInv'
  <1> USE ThreadsDiffer DEF TabInv
  <1>0. conn' => conn
    BY ConnStays
  <1>1. CASE QuietGui
    <2>1. StopIsLast'
      <3> SUFFICES ASSUME StopSent, conn'
                   PROVE  pc'[Gui] \in {"disconnect", "close", "clear"}
        BY <1>1, QuietGuiMoves DEF StopIsLast
      <3>1. conn /\ pc[Gui] \in {"disconnect", "close", "clear"}
        BY <1>0 DEF StopIsLast
      <3>2. DisconnectBegin(Gui) \/ DisconnectClose(Gui)
        BY <1>1, <3>1
        DEF QuietGui, StopPressed, StopJoined, MonitorTick, PingSent, PingFails,
            RemoveFree, RemoveDestroy, RemoveJoined, GuiIdle, At,
            Disconnect, DisconnectClear, ComputeLabel, SetLabel
      <3> QED BY <3>1, <3>2, GuiMoves DEF DisconnectBegin, DisconnectClose
    <2>2. RowsOfThreads'
      BY <1>1, QuietGuiMoves DEF RowsOfThreads
    <2> QED BY <2>1, <2>2
  <1>2. CASE StartPressed \/ RemovePressed
    <2>1. /\ pc[Gui] = "idle" /\ UNCHANGED <<conn, write_index>>
          /\ \A w \in Workers : pc'[w] = pc[w]
      BY <1>2, GuiMoves DEF StartPressed, RemovePressed, GuiIdle, At, memory
    <2>2. conn => ~StopSent
      BY <2>1 DEF StopIsLast
    <2>3. conn => ~StopSent'
      <3>1. sent' = sent \/ sent' = Append(sent, "SETTINGS")
        BY <1>2 DEF StartPressed, RemovePressed, wire
      <3> QED BY <2>2, <3>1, Commands, SentKept
    <2> QED BY <2>1, <2>3 DEF StopIsLast, RowsOfThreads, Started
  <1>3. ASSUME NEW w \in Workers, StartMeasurement(w)
        PROVE  TabInv'
    BY <1>3, StartMoves DEF StopIsLast, RowsOfThreads
  <1>4. CASE SendStop
    <2>1. /\ UNCHANGED <<conn, write_index>>
          /\ \A w \in Workers : pc'[w] = pc[w]
          /\ conn => pc'[Gui] = "disconnect"
      BY <1>4, GuiMoves DEF SendStop, memory
    <2> QED BY <2>1 DEF StopIsLast, RowsOfThreads, Started
  <1>5. ASSUME NEW w \in Workers, WorkerStep(w)
        PROVE  TabInv'
    <2>1. Started /= {}
      BY <1>5, WorkerStepMoves DEF Started
    <2> QED BY <1>0, <1>5, <2>1, WorkerStepMoves DEF StopIsLast, RowsOfThreads
  <1>6. CASE LinkFails \/ (\E t \in Threads : Crash(t)) \/ UNCHANGED vars
    <2>1. UNCHANGED <<pc, conn, sent, write_index>>
      BY <1>6 DEF LinkFails, Crash, vars, memory, wire
    <2> QED BY <2>1, SentKept DEF StopIsLast, RowsOfThreads, Started
  <1> QED BY <1>1, <1>2, <1>3, <1>4, <1>5, <1>6 DEF Next, User, GuiStep, QuietGui

\* What the user sees of the tab is true or false, before and after a step.
LEMMA SeenTypes ==
  /\ Heard \in BOOLEAN /\ HasStarted \in BOOLEAN /\ Intact \in BOOLEAN
  /\ Heard' \in BOOLEAN /\ HasStarted' \in BOOLEAN /\ Intact' \in BOOLEAN
  <1>1. Heard \in BOOLEAN /\ Heard' \in BOOLEAN
    BY DEF Heard
  <1>2. HasStarted \in BOOLEAN /\ HasStarted' \in BOOLEAN
    BY DEF HasStarted
  <1>3. Intact \in BOOLEAN /\ Intact' \in BOOLEAN
    BY DEF Intact
  <1> QED BY <1>1, <1>2, <1>3

\* A step that at most loses the client.
LEMMA LoseOrStutter ==
  ASSUME Heard' => Heard, HasStarted' <=> HasStarted, Intact' <=> Intact,
         UNCHANGED <<write_index, sent>>
  PROVE  [TabOfUser!Next]_(TabOfUser!tab)
  <1>1. CASE Heard' <=> Heard
    BY <1>1, SeenTypes DEF TabOfUser!tab
  <1>2. CASE Heard /\ ~Heard'
    BY <1>2, SeenTypes DEF TabOfUser!Next, TabOfUser!Lose
  <1> QED BY <1>1, <1>2

\* Every step of the threads is one of the tab, or none.
LEMMA TabStep ==
  ASSUME IInv, TabInv, [Next]_vars
  PROVE  [TabOfUser!Next]_(TabOfUser!tab)
  <1> USE ThreadsDiffer, SeenTypes
  <1>t. TypeOK
    BY DEF IInv
  <1>0. conn' => conn
    BY <1>t, ConnStays
  <1>f. IsFiniteSet(Started) /\ Cardinality(Started) \in Nat
        /\ (Cardinality(Started) = 0 <=> Started = {})
    <2>1. IsFiniteSet(Started)
      BY SessionAssumption, FS_Subset DEF Started
    <2> QED BY <2>1, FS_CardinalityType, FS_EmptySet
  <1>1. CASE QuietGui
    <2>1. Heard' => Heard
      BY <1>t, <1>0, <1>1, QuietGuiMoves DEF Heard, Listening
    <2>2. HasStarted' <=> HasStarted
      BY <1>t, <1>1, QuietGuiMoves DEF HasStarted
    <2>3. (heap' = "live" /\ pc'[Gui] /= "free") <=> (heap = "live" /\ pc[Gui] /= "free")
      <3>1. CASE RemoveFree
        BY <3>1 DEF RemoveFree, At
      <3>2. CASE ~RemoveFree
        <4>1. heap' = heap /\ pc[Gui] /= "free"
          BY <1>1, <3>2
          DEF QuietGui, StopPressed, StopJoined, MonitorTick, PingSent, PingFails,
              RemoveDestroy, RemoveJoined, GuiIdle, At, memory,
              Disconnect, DisconnectBegin, DisconnectClose, DisconnectClear, ComputeLabel, SetLabel
        <4>2. pc'[Gui] /= "free"
          BY <1>1, <1>t, <3>2, GuiMoves
          DEF QuietGui, StopPressed, StopJoined, MonitorTick, PingSent, PingFails,
              RemoveDestroy, RemoveJoined,
              Disconnect, DisconnectBegin, DisconnectClose, DisconnectClear, ComputeLabel, SetLabel
        <4> QED BY <4>1, <4>2
      <3> QED BY <3>1, <3>2
    <2>4. Intact' <=> Intact
      BY <1>t, <1>1, <2>3, QuietGuiMoves DEF Intact
    <2> QED BY <1>t, <1>1, <2>1, <2>2, <2>4, QuietGuiMoves, LoseOrStutter
  <1>2. CASE StartPressed
    <2>1. /\ pc[Gui] = "idle" /\ heap = "live" /\ UNCHANGED <<conn, write_index, heap>>
          /\ \A w \in Workers : pc'[w] = pc[w]
      BY <1>t, <1>2, GuiMoves DEF StartPressed, GuiIdle, At, memory
    <2>2. Started' = Started /\ (Listening' <=> Listening)
      BY <2>1 DEF Started, Listening
    <2>3. /\ sent' = sent \/ (Heard /\ sent' = Append(sent, "SETTINGS"))
          /\ StopSent' <=> StopSent
      BY <1>2, <1>t, <2>1, Commands, SentKept DEF StartPressed, Heard, TabInv, StopIsLast
    <2>4. Heard' <=> Heard
      BY <2>1, <2>2, <2>3 DEF Heard
    <2>5. CASE write_index > 0
      <3>1. UNCHANGED pc
        BY <1>2, <2>5 DEF StartPressed
      <3>2. (HasStarted' <=> HasStarted) /\ (Intact' <=> Intact)
        BY <2>1, <2>2, <3>1 DEF HasStarted, Intact
      <3> QED BY <2>1, <2>3, <2>4, <2>5, <3>2
              DEF TabOfUser!Next, TabOfUser!Resend, TabOfUser!SettingsSent
    <2>6. CASE ~(write_index > 0)
      <3>1. write_index = 0 /\ pc'[Gui] = "start"
        BY <1>t, <1>2, <2>6, GuiMoves DEF StartPressed
      <3>2. HasStarted'
        BY <3>1 DEF HasStarted
      <3>3. Intact' <=> (Intact /\ ~HasStarted)
        BY <1>f, <2>1, <2>2, <3>1 DEF HasStarted, Intact
      <3> QED BY <2>1, <2>3, <2>4, <3>1, <3>2, <3>3
              DEF TabOfUser!Next, TabOfUser!Start, TabOfUser!SettingsSent
    <2> QED BY <2>5, <2>6
  <1>3. ASSUME NEW w \in Workers, StartMeasurement(w)
        PROVE  [TabOfUser!Next]_(TabOfUser!tab)
    <2>1. (HasStarted' <=> HasStarted) /\ (Intact' <=> Intact)
      BY <1>t, <1>3, <1>f, StartMoves DEF HasStarted, Intact
    <2>2. Heard' <=> Heard
      BY <1>t, <1>3, StartMoves DEF Heard, Listening
    <2>3. CASE Intact
      <3>1. Started = {}
        BY <1>t, <1>f, <1>3, <2>3, StartMoves DEF Intact
      <3>2. write_index' = write_index
        BY <1>t, <1>3, <3>1, StartMoves DEF TabInv, RowsOfThreads
      <3> QED BY <1>t, <1>3, <2>1, <2>2, <3>2, StartMoves, LoseOrStutter
    <2>4. CASE ~Intact
      BY <1>t, <1>3, <2>1, <2>2, <2>4, StartMoves DEF TabOfUser!Next, TabOfUser!Clear
    <2> QED BY <2>3, <2>4
  <1>4. CASE SendStop
    <2>1. /\ pc[Gui] = "sendStop" /\ pc'[Gui] \in {"disconnect", "idle"}
          /\ UNCHANGED <<conn, write_index, heap>>
          /\ \A w \in Workers : pc'[w] = pc[w]
      BY <1>t, <1>4, GuiMoves DEF SendStop, At, memory
    <2>2. Started' = Started /\ (Listening' <=> Listening)
      BY <2>1 DEF Started, Listening
    <2>3. (HasStarted' <=> HasStarted) /\ (Intact' <=> Intact)
      BY <2>1, <2>2 DEF HasStarted, Intact
    <2>4. CASE conn
      <3>1. Heard
        BY <2>1, <2>4 DEF Heard, TabInv, StopIsLast
      <3>2. sent' = Append(sent, "STOP") /\ ~Heard'
        BY <1>4, <1>t, <2>4, Commands DEF SendStop, Heard
      <3> QED BY <2>1, <2>3, <3>1, <3>2 DEF TabOfUser!Next, TabOfUser!Stop
    <2>5. CASE ~conn
      <3>1. sent' = sent
        BY <1>4, <2>5 DEF SendStop
      <3>2. Heard' => Heard
        BY <2>1, <2>2, <3>1, SentKept DEF Heard
      <3> QED BY <2>1, <2>3, <3>1, <3>2, LoseOrStutter
    <2> QED BY <2>4, <2>5
  <1>5. CASE RemovePressed
    <2>1. /\ pc[Gui] = "idle" /\ pc'[Gui] = "free"
          /\ UNCHANGED <<conn, write_index, sent>>
          /\ \A w \in Workers : pc'[w] = pc[w]
      BY <1>t, <1>5, GuiMoves DEF RemovePressed, GuiIdle, At, wire
    <2>2. ~Intact' /\ (HasStarted' <=> HasStarted) /\ (Heard' <=> Heard)
      BY <2>1, SentKept DEF Intact, HasStarted, Heard, Started, Listening
    <2> QED BY <2>1, <2>2 DEF TabOfUser!Next, TabOfUser!Remove
  <1>6. ASSUME NEW w \in Workers, WorkerStep(w)
        PROVE  [TabOfUser!Next]_(TabOfUser!tab)
    <2>1. (HasStarted' <=> HasStarted) /\ (Intact' <=> Intact)
      BY <1>t, <1>6, WorkerStepMoves DEF HasStarted, Intact
    <2>2. Heard' => Heard
      BY <1>t, <1>0, <1>6, WorkerStepMoves DEF Heard, Listening
    <2>3. CASE StoreRow(w)
      <3>1. /\ pc[w] = "store" /\ pc'[w] = "guard"
            /\ write_index' = write_index + 1
            /\ UNCHANGED conn
        BY <1>t, <2>3, WorkerMoves DEF StoreRow, At, memory
      <3>2. Listening /\ Listening'
        BY <3>1 DEF Listening
      <3>3. Heard' <=> Heard
        BY <1>t, <1>6, <3>2, WorkerStepMoves DEF Heard
      <3>4. HasStarted
        BY <3>1 DEF HasStarted, Started
      <3>5. Intact => Heard
        <4> SUFFICES ASSUME Intact, StopSent
                     PROVE  FALSE
          BY <3>2 DEF Heard
        <4>1. AtMostOne
          BY <1>f, OneStarted DEF Intact
        <4> QED BY <3>1, <4>1 DEF IInv, AfterStop
      <3> QED BY <1>t, <1>6, <2>1, <3>1, <3>3, <3>4, <3>5, WorkerStepMoves
              DEF TabOfUser!Next, TabOfUser!Record
    <2>4. CASE ~StoreRow(w)
      BY <1>t, <1>6, <2>1, <2>2, <2>4, WorkerStepMoves, LoseOrStutter
    <2> QED BY <2>3, <2>4
  <1>7. CASE LinkFails \/ (\E t \in Threads : Crash(t)) \/ UNCHANGED vars
    <2>1. UNCHANGED <<pc, conn, sent, write_index, heap>>
      BY <1>7 DEF LinkFails, Crash, vars, memory, wire
    <2>2. /\ Heard' <=> Heard
          /\ HasStarted' <=> HasStarted
          /\ Intact' <=> Intact
      BY <2>1, SentKept DEF Heard, HasStarted, Intact, Started, Listening
    <2> QED BY <2>1, <2>2, LoseOrStutter
  <1> QED BY <1>1, <1>2, <1>3, <1>4, <1>5, <1>6, <1>7 DEF Next, User, GuiStep, QuietGui

\* A tab is a tab to its user: however many measurement threads share it with
\* the GUI thread, commands and rows come and go as Tab says.
THEOREM TabRefinement == Spec => ImplementsTab
  <1>1. Init => TabOfUser!Init
    <2> SUFFICES ASSUME Init
                 PROVE  TabOfUser!Init
      OBVIOUS
    <2>1. pc[Gui] = "idle" /\ Started = {}
      BY ThreadsDiffer DEF Init, Started
    <2>2. Heard /\ ~HasStarted
      BY <2>1 DEF Init, Heard, StopSent, HasStarted
    <2>3. Intact
      BY <2>1, FS_EmptySet DEF Init, Intact
    <2> QED BY <2>2, <2>3, SeenTypes DEF Init, TabOfUser!Init
  <1>2. Init => TabInv
    BY TabInvInit
  <1>3. TypeOK /\ TabInv /\ [Next]_vars => TabInv'
    BY TabInvStep
  <1>4. IInv /\ TabInv /\ [Next]_vars => [TabOfUser!Next]_(TabOfUser!tab)
    BY TabStep
  <1> QED BY <1>1, <1>2, <1>3, <1>4, Invariance, TypeCorrect, PTL
          DEF Spec, ImplementsTab, TabOfUser!Spec
=============================================================================
