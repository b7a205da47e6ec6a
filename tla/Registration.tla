---------------------------- MODULE Registration ----------------------------
(***************************************************************************)
(* How clients come to tabs: the host announces itself by UDP broadcast,   *)
(* a client that hears it connects and shakes hands, the GUI thread reads  *)
(* the handshake inside on_client_incoming and builds a tab, and Start and *)
(* Stop, of one tab or of all, act on the tabs.  The host program may be   *)
(* closed, or crash, and be started again on another network; links fail;  *)
(* clients are power-cycled.                                               *)
(*                                                                         *)
(* A connection is named by its client and the client's boot.  A handler   *)
(* of the GUI thread is one step, but for on_client_incoming, which blocks *)
(* the GUI thread until the handshake arrived or the time is up.  What     *)
(* Stop and the measurement thread do inside a tab is ClientSession's.     *)
(***************************************************************************)
EXTENDS HotspotIp, SequencesExt

CONSTANTS
  Clients,
  Kinds,        \* what a client's first package may be
  Machines,     \* the host's operating system and adapters at a start
  ClientNet,    \* the network, of 24 bits, that the clients are on
  None,
  MaxBoots,     \* bound: boots of all clients together
  MaxHosts,     \* bound: starts of the host program
  MaxWire       \* bound: packages on the way to a client

ASSUME RegistrationAssumption ==
  /\ Kinds \subseteq {"named", "nameless", "other"}
  /\ MaxBoots \in Nat /\ MaxHosts \in Nat /\ MaxWire \in Nat
  /\ None \notin Clients \X Nat
  /\ \A m \in Machines : m.adapters \in Adapters
  /\ ClientNet \in [1..3 -> Octets]

VARIABLES
  kind,        \* HANDSHAKE with a gui_handle, without one, or no HANDSHAKE
  at,          \* where each client's send task is
  boots,       \* its boots, and so the name of its present connection
  host_addr,   \* the host's address as the client discovered it
  wire,        \* packages on the way to the client

  running,     \* the host program runs
  machine,     \* os and adapters
  starts,      \* of the host program
  reading,     \* the connection on_client_incoming reads from, or None
  backlog,     \* connections that wait for the main loop
  tabs,        \* the notebook's pages behind the Main tab
  stack_slot,  \* what the uninitialised client_config happens to hold

  open,        \* connections neither closed nor lost
  arrived      \* connections whose first package is there to be read

clientVars == <<kind, at, boots, host_addr, wire>>
hostVars   == <<running, machine, starts, reading, backlog, tabs, stack_slot>>
netVars    == <<open, arrived>>
vars       == <<clientVars, hostVars, netVars>>

Connection(c) == <<c, boots[c]>>
ClientOf(conn) == conn[1]

\* Where the broadcasts go, and which of the host's addresses a client sees.
broadcast_ip == compute_broadcast(detect_hotspot_ip(machine))
UpAddresses == {Address(machine.adapters, place) : place \in UpPlaces(machine.adapters)}
HostAddresses == {ip \in UpAddresses : Network(ip) = ClientNet}
Reachable ==
  /\ running
  /\ HostAddresses /= {}
  /\ broadcast_ip \in {ClientNet \o <<255>>, Limited}

\* A GUI handler can only run while none else does.
GuiFree == running /\ reading = None

\* A tab after assign_client_to_waiting_tab: info->conn, its config, the
\* measurement thread, which reads or gave up, and the rows in memory.  Nothing
\* here reads measurement_active: how it ends a thread is ClientSession's.
NewTab(connection, config) ==
  [connection |-> connection, conn |-> TRUE, config |-> config,
   thread |-> "none", rows |-> 0]

\* disconnect_client
Disconnected(tab) == [tab EXCEPT !.conn = FALSE, !.thread = "none"]

Init ==
  /\ kind \in [Clients -> Kinds]
  /\ at = [c \in Clients |-> "discover"]
  /\ boots = [c \in Clients |-> 1]
  /\ host_addr = [c \in Clients |-> None]
  /\ wire = [c \in Clients |-> <<>>]
  /\ running = FALSE
  /\ machine = [os |-> "linux", adapters |-> <<>>]
  /\ starts = 0
  /\ reading = None
  /\ backlog = <<>>
  /\ tabs = <<>>
  /\ stack_slot = None
  /\ open = {}
  /\ arrived = {}

-----------------------------------------------------------------------------
(* The host program.                                                       *)

\* main: listen, and choose the broadcast address once and for all.
HostStarts(m) ==
  /\ ~running
  /\ starts < MaxHosts
  /\ running' = TRUE
  /\ starts' = starts + 1
  /\ machine' = m
  /\ UNCHANGED <<clientVars, reading, backlog, tabs, stack_slot, netVars>>

\* The process ends, and the system closes all its connections.  No client is
\* told to stop.
Exit ==
  /\ running' = FALSE
  /\ reading' = None
  /\ backlog' = <<>>
  /\ tabs' = <<>>
  /\ stack_slot' = None
  /\ open' = {}
  /\ arrived' = {}
  /\ UNCHANGED <<clientVars, machine, starts>>

on_close_clicked == GuiFree /\ Exit

\* The listener's source is dispatched: on_client_incoming begins to read.
Incoming ==
  /\ GuiFree
  /\ backlog /= <<>>
  /\ reading' = Head(backlog)
  /\ backlog' = Tail(backlog)
  /\ UNCHANGED <<clientVars, running, machine, starts, tabs, stack_slot, netVars>>

\* Mutation: the connection stays open, as the log says.
HandshakeIgnored ==
  /\ reading /= None
  /\ reading \notin arrived
  /\ reading' = None
  /\ UNCHANGED <<clientVars, running, machine, starts, backlog, tabs, stack_slot,
                 netVars>>

\* Mutation: the handshake is awaited without a limit.
HandshakeAwaited ==
  /\ reading /= None
  /\ reading \notin arrived
  /\ reading \notin open
  /\ reading' = None
  /\ UNCHANGED <<clientVars, running, machine, starts, backlog, tabs, stack_slot,
                 netVars>>

\* 8 s without the handshake, or the peer closed: the handler returns, and the
\* last reference to the connection goes.
HandshakeTimesOut ==
  /\ reading /= None
  /\ reading \notin arrived
  /\ reading' = None
  /\ open' = open \ {reading}
  /\ UNCHANGED <<clientVars, running, machine, starts, backlog, tabs, stack_slot,
                 arrived>>

\* assign_client_to_waiting_tab: no tab waits, so one is created.
AssignTab(config) ==
  /\ tabs' = Append(tabs, NewTab(reading, config))
  /\ reading' = None
  /\ arrived' = arrived \ {reading}
  /\ UNCHANGED <<clientVars, running, machine, starts, backlog, open>>

\* Mutation: client_config keeps what an earlier handshake left.
RegisterWithOldConfig ==
  /\ reading \in arrived
  /\ kind[ClientOf(reading)] /= "other"
  /\ stack_slot' = IF stack_slot = None THEN reading ELSE stack_slot
  /\ AssignTab(stack_slot')

\* The handshake is parsed.  Whether the ping sent as its acknowledgement
\* arrives does not matter to the host.
Register ==
  /\ reading \in arrived
  /\ kind[ClientOf(reading)] /= "other"
  /\ stack_slot' = reading
  /\ AssignTab(reading)

\* The first package is no HANDSHAKE: client_config is not initialised.  It may
\* hold the pointer of the last registration, or one that ends the process when
\* it is followed.
RegisterOther ==
  /\ reading \in arrived
  /\ kind[ClientOf(reading)] = "other"
  /\ \/ stack_slot /= None /\ AssignTab(stack_slot) /\ UNCHANGED stack_slot
     \/ Exit

-----------------------------------------------------------------------------
(* The tabs.                                                               *)

\* The present connection of a tab's client, as far as packages reach it.
Connected(tab) == tab.conn /\ tab.connection \in open

\* Packages for the clients of some tabs.
Sent(selected, package) ==
  [c \in Clients |->
     IF \E i \in selected : Connected(tabs[i]) /\ tabs[i].connection = Connection(c)
     THEN Append(wire[c], package) ELSE wire[c]]

\* Mutation: a measurement in memory is started over without its thread.
StartedWithoutThread(tab) == [tab EXCEPT !.rows = 0]

\* on_send_btn_clicked after the settings were sent: unless rows are in memory,
\* the buffers are reset and a thread is started, which ends at once without a
\* connection.  A config without gui_handle gets no thread.
Started(tab) ==
  IF tab.rows > 0 THEN tab
  ELSE [tab EXCEPT !.thread = IF tab.conn /\ kind[ClientOf(tab.config)] = "named"
                              THEN "reads" ELSE "none"]

\* Start of one tab, or on_start_all_clicked.
Start(selected) ==
  /\ GuiFree
  /\ \A c \in Clients : Len(wire[c]) < MaxWire
  /\ wire' = Sent(selected, "SETTINGS")
  /\ tabs' = [i \in DOMAIN tabs |-> IF i \in selected THEN Started(tabs[i]) ELSE tabs[i]]
  /\ UNCHANGED <<kind, at, boots, host_addr, running, machine, starts, reading, backlog,
                 stack_slot, netVars>>

\* Stop of one tab, or on_stop_all_clicked, which passes over the tabs without
\* a connection.
Stop(selected) ==
  /\ GuiFree
  /\ \A c \in Clients : Len(wire[c]) < MaxWire
  /\ \E i \in selected : tabs[i].conn
  /\ wire' = Sent(selected, "STOP")
  /\ open' = open \ {tabs[i].connection : i \in {j \in selected : tabs[j].conn}}
  /\ tabs' = [i \in DOMAIN tabs |->
                IF i \in selected /\ tabs[i].conn THEN Disconnected(tabs[i]) ELSE tabs[i]]
  /\ UNCHANGED <<kind, at, boots, host_addr, running, machine, starts, reading, backlog,
                 stack_slot, arrived>>

\* Remove Client; the client is not told to stop.
RemoveClient(i) ==
  /\ GuiFree
  /\ i \in DOMAIN tabs
  /\ open' = IF tabs[i].conn THEN open \ {tabs[i].connection} ELSE open
  /\ tabs' = RemoveAt(tabs, i)
  /\ UNCHANGED <<clientVars, running, machine, starts, reading, backlog, stack_slot,
                 arrived>>

\* monitor_client_connection finds the connection dead.
Monitor(i) ==
  /\ GuiFree
  /\ i \in DOMAIN tabs
  /\ tabs[i].conn
  /\ ~Connected(tabs[i])
  /\ tabs' = [tabs EXCEPT ![i] = Disconnected(@)]
  /\ UNCHANGED <<clientVars, running, machine, starts, reading, backlog, stack_slot,
                 netVars>>

\* The measurement thread stores what the client measures; it does not wait
\* for the GUI.
StoreRow(i) ==
  /\ i \in DOMAIN tabs
  /\ tabs[i].thread = "reads"
  /\ tabs[i].rows = 0
  /\ Connected(tabs[i])
  /\ at[ClientOf(tabs[i].connection)] = "measuring"
  /\ tabs' = [tabs EXCEPT ![i].rows = 1]
  /\ UNCHANGED <<clientVars, running, machine, starts, reading, backlog, stack_slot,
                 netVars>>

\* The thread ends by itself, and the connection stays open: at the page limit,
\* or when there is no memory for a timestamp or an echo.
ThreadGivesUp(i) ==
  /\ i \in DOMAIN tabs
  /\ tabs[i].thread = "reads"
  /\ tabs' = [tabs EXCEPT ![i].thread = "gave_up"]
  /\ UNCHANGED <<clientVars, running, machine, starts, reading, backlog, stack_slot,
                 netVars>>

-----------------------------------------------------------------------------
(* The clients, and the network.                                           *)

\* discoverHostUDP: one of the repeated broadcasts is heard.
Discover(c) ==
  /\ at[c] = "discover"
  /\ Reachable
  /\ \E ip \in HostAddresses : host_addr' = [host_addr EXCEPT ![c] = ip]
  /\ at' = [at EXCEPT ![c] = "connect"]
  /\ UNCHANGED <<kind, boots, wire, hostVars, netVars>>

\* connectToHost tries the discovered address until it answers; then the
\* client sends its handshake.  The system accepts for a blocked GUI thread.
Connect(c) ==
  /\ at[c] = "connect"
  /\ running
  /\ host_addr[c] \in HostAddresses
  /\ open' = open \cup {Connection(c)}
  /\ backlog' = Append(backlog, Connection(c))
  /\ at' = [at EXCEPT ![c] = "waiting"]
  /\ UNCHANGED <<kind, boots, host_addr, wire, running, machine, starts, reading, tabs,
                 stack_slot, arrived>>

\* Header and payload reach the host, whenever they do.
HandshakeArrives(c) ==
  /\ Connection(c) \in open \ arrived
  /\ Connection(c) \in ToSet(backlog) \cup {reading}
  /\ arrived' = arrived \cup {Connection(c)}
  /\ UNCHANGED <<clientVars, hostVars, open>>

\* waitAndApplySettings ignores everything but SETTINGS, and does not look at
\* the connection.
ReadWaiting(c) ==
  /\ at[c] = "waiting"
  /\ wire[c] /= <<>>
  /\ at' = [at EXCEPT ![c] = IF Head(wire[c]) = "SETTINGS" THEN "measuring" ELSE "waiting"]
  /\ wire' = [wire EXCEPT ![c] = Tail(@)]
  /\ UNCHANGED <<kind, boots, host_addr, hostVars, netVars>>

\* ESP.restart(): the connection goes, and so does what was on the way.
Reboot(c) ==
  /\ MapThenSumSet(LAMBDA b : boots[b], Clients) < MaxBoots
  /\ at' = [at EXCEPT ![c] = "discover"]
  /\ boots' = [boots EXCEPT ![c] = @ + 1]
  /\ host_addr' = [host_addr EXCEPT ![c] = None]
  /\ wire' = [wire EXCEPT ![c] = <<>>]
  /\ open' = open \ {Connection(c)}
  /\ UNCHANGED <<kind, hostVars, arrived>>

ReadMeasuring(c) ==
  /\ at[c] = "measuring"
  /\ wire[c] /= <<>>
  /\ \/ Head(wire[c]) = "STOP" /\ Reboot(c)
     \/ /\ Head(wire[c]) /= "STOP"
        /\ wire' = [wire EXCEPT ![c] = Tail(@)]
        /\ UNCHANGED <<kind, at, boots, host_addr, hostVars, netVars>>

\* A client that counts its samples is done, or any client is power-cycled.
Restart(c) == Reboot(c)

LinkFails(c) ==
  /\ Connection(c) \in open
  /\ open' = open \ {Connection(c)}
  /\ UNCHANGED <<clientVars, hostVars, arrived>>

-----------------------------------------------------------------------------
Next ==
  \/ \E m \in Machines : HostStarts(m)
  \/ on_close_clicked
  \/ Incoming
  \/ HandshakeTimesOut
  \/ Register
  \/ RegisterOther
  \/ \E selected \in {DOMAIN tabs} \cup {{i} : i \in DOMAIN tabs} :
       Start(selected) \/ Stop(selected)
  \/ \E i \in DOMAIN tabs : RemoveClient(i) \/ Monitor(i) \/ StoreRow(i) \/ ThreadGivesUp(i)
  \/ \E c \in Clients :
       \/ Discover(c)
       \/ Connect(c)
       \/ HandshakeArrives(c)
       \/ ReadWaiting(c)
       \/ ReadMeasuring(c)
       \/ Restart(c)
       \/ LinkFails(c)

\* The main loop dispatches the listener's source and ends each handler; the
\* broadcast is repeated every five seconds and a connection attempt every
\* second.  Nothing makes a handshake arrive.
Fairness ==
  /\ WF_vars(Incoming)
  /\ WF_vars(HandshakeTimesOut)
  /\ WF_vars(Register)
  /\ WF_vars(RegisterOther)
  /\ \A c \in Clients : WF_vars(Discover(c)) /\ WF_vars(Connect(c))

Spec == Init /\ [][Next]_vars /\ Fairness
-----------------------------------------------------------------------------
Connections == Clients \X Nat
Tabs == [connection : Connections, conn : BOOLEAN, config : Connections,
         thread : {"none", "reads", "gave_up"}, rows : Nat]

\* The types of the variables; addresses are the adapters'.
TypeOK ==
  /\ kind \in [Clients -> {"named", "nameless", "other"}]
  /\ at \in [Clients -> {"discover", "connect", "waiting", "measuring"}]
  /\ boots \in [Clients -> Nat]
  /\ wire \in [Clients -> Seq({"SETTINGS", "STOP"})]
  /\ running \in BOOLEAN
  /\ starts \in Nat
  /\ reading \in Connections \cup {None}
  /\ backlog \in Seq(Connections)
  /\ tabs \in Seq(Tabs)
  /\ stack_slot \in Connections \cup {None}
  /\ open \subseteq Connections
  /\ arrived \subseteq Connections

\* A tab is named, labelled and parsed after the config of the client at the
\* other end of its connection, and no two tabs hold one connection, however
\* the clients' packages race.  (client_config is not initialised for a client
\* that sends something else first.)
TabHasOwnConfig ==
  \A i \in DOMAIN tabs :
    /\ kind[ClientOf(tabs[i].connection)] /= "other" => tabs[i].config = tabs[i].connection
    /\ \A j \in DOMAIN tabs : tabs[i].connection = tabs[j].connection => i = j

\* A client never measures over an open connection with no thread started for
\* it, however Start, Stop, Remove, reboots and lost links follow each other: its
\* tab has a thread that reads it, or that gave up for lack of pages or memory,
\* after which nobody reads and nobody tells the client.  The other exception is
\* a client without a gui_handle.
MeasuringIsRecorded ==
  \A c \in Clients :
    at[c] = "measuring" /\ Connection(c) \in open /\ kind[c] = "named" =>
      \E i \in DOMAIN tabs : /\ tabs[i].connection = Connection(c)
                             /\ tabs[i].conn
                             /\ tabs[i].thread /= "none"

\* The broadcasts go to the clients' network if that is Windows' own hotspot,
\* or the only private network of the host.
PrivateNetworks ==
  {Network(ip) : ip \in {a \in Addresses(machine.adapters) : is_private_ip(a)}}
BroadcastReachesHotspot ==
  running /\ HostAddresses /= {}
    /\ \/ PrivateNetworks = {ClientNet} /\ ClientNet /= VirtualBox
       \/ machine.os = "windows" /\ ClientNet = WindowsHotspot
    => broadcast_ip = ClientNet \o <<255>>

\* A connection does not wait for the main loop for ever: whatever a client
\* before it in the queue does, its handshake is read or its time is up.
BacklogServed ==
  \A c \in Clients :
    (running /\ \E i \in DOMAIN backlog : backlog[i] = Connection(c))
      ~> ~(running /\ \E i \in DOMAIN backlog : backlog[i] = Connection(c))

HasTab(c) == \E i \in DOMAIN tabs : tabs[i].connection = Connection(c)

\* A client that boots while the host announces itself on its network gets a
\* tab, unless its connection is dropped, the user removes the tab, or the
\* host ends.
ClientGetsTab ==
  \A c \in Clients :
    (at[c] = "discover" /\ Reachable)
      ~> \/ HasTab(c)
         \/ ~running
         \/ at[c] \in {"waiting", "measuring"} /\ Connection(c) \notin open
=============================================================================
