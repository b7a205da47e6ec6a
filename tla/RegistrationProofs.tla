-------------------------- MODULE RegistrationProofs --------------------------
(***************************************************************************)
(* What the registration promises for any number of clients, boots and     *)
(* packages: a tab has its own client's config and connection, and for a   *)
(* client that measures a thread was started.  Both rest on the names of   *)
(* connections: a client connects once per boot, so that a connection is   *)
(* in one place only (the listener's queue, the handler, or one tab), and  *)
(* a client that has not connected yet was sent nothing.                   *)
(*                                                                         *)
(* And what its broadcasts promise: they reach the clients' network, for   *)
(* any number of adapters and of addresses on each.                        *)
(***************************************************************************)
EXTENDS Registration, SequenceTheorems, WellFoundedInduction, TLAPS

\* A connection that was made in an earlier boot of its client, or in this one.
Made(conn) ==
  /\ conn[2] <= boots[conn[1]]
  /\ conn[2] = boots[conn[1]] => at[conn[1]] \in {"waiting", "measuring"}

ConnectionsMade ==
  /\ \A i \in 1..Len(backlog) : Made(backlog[i])
  /\ reading /= None => Made(reading)
  /\ \A i \in 1..Len(tabs) : Made(tabs[i].connection)

\* A connection is in one place.
InOnePlace ==
  /\ \A i, j \in 1..Len(backlog) : backlog[i] = backlog[j] => i = j
  /\ \A i \in 1..Len(backlog) : backlog[i] /= reading
  /\ \A i \in 1..Len(tabs) : tabs[i].connection /= reading
  /\ \A i \in 1..Len(tabs), j \in 1..Len(backlog) : tabs[i].connection /= backlog[j]
  /\ \A i, j \in 1..Len(tabs) : tabs[i].connection = tabs[j].connection => i = j

OwnConfig ==
  \A i \in 1..Len(tabs) :
    kind[tabs[i].connection[1]] /= "other" => tabs[i].config = tabs[i].connection

SilentBefore ==
  \A c \in Clients : at[c] \in {"discover", "connect"} => wire[c] = <<>>

RowsHaveThread ==
  \A i \in 1..Len(tabs) : tabs[i].rows > 0 /\ tabs[i].conn => tabs[i].thread /= "none"

\* A client that measures, or is going to as soon as it reads.
Going(c) == at[c] = "measuring" \/ \E k \in 1..Len(wire[c]) : wire[c][k] = "SETTINGS"

Recorded(c) ==
  \E i \in 1..Len(tabs) : /\ tabs[i].connection = <<c, boots[c]>>
                          /\ tabs[i].conn
                          /\ tabs[i].thread /= "none"

StartedIsRecorded ==
  \A c \in Clients :
    Going(c) /\ <<c, boots[c]>> \in open /\ kind[c] = "named" => Recorded(c)

IInv == /\ TypeOK
        /\ ConnectionsMade /\ InOnePlace /\ OwnConfig
        /\ SilentBefore /\ RowsHaveThread /\ StartedIsRecorded
-----------------------------------------------------------------------------
\* The first element of a sequence, and the others.
LEMMA TailFacts ==
  ASSUME NEW S, NEW s \in Seq(S), s /= <<>>
  PROVE  /\ Head(s) \in S /\ Head(s) = s[1]
         /\ Tail(s) \in Seq(S)
         /\ Len(s) \in Nat \ {0}
         /\ Len(Tail(s)) = Len(s) - 1
         /\ \A i \in 1..Len(Tail(s)) : Tail(s)[i] = s[i + 1]
  BY HeadTailProperties, EmptySeq

\* A sequence with one more element.
LEMMA AppendFacts ==
  ASSUME NEW S, NEW s \in Seq(S), NEW e \in S
  PROVE  /\ Append(s, e) \in Seq(S)
         /\ Len(s) \in Nat
         /\ Len(Append(s, e)) = Len(s) + 1
         /\ \A i \in 1..Len(s) : Append(s, e)[i] = s[i]
         /\ Append(s, e)[Len(s) + 1] = e
  BY AppendProperties

\* A sequence given by its elements.
LEMMA FunctionFacts ==
  ASSUME NEW S, NEW n \in Nat, NEW f \in [1..n -> S]
  PROVE  f \in Seq(S) /\ Len(f) = n
  <1>1. f \in Seq(S)
    BY SeqDef
  <1>2. Len(f) \in Nat /\ 1..Len(f) = 1..n
    BY <1>1, LenProperties
  <1>3. Len(f) <= n
    <2>1. Len(f) > 0 => Len(f) \in 1..Len(f)
      BY <1>2
    <2>2. Len(f) > 0 => Len(f) \in 1..n
      BY <2>1, <1>2
    <2> QED BY <2>2, <1>2
  <1>4. n <= Len(f)
    <2>1. n > 0 => n \in 1..n
      OBVIOUS
    <2>2. n > 0 => n \in 1..Len(f)
      BY <2>1, <1>2
    <2> QED BY <2>2, <1>2
  <1> QED BY <1>1, <1>2, <1>3, <1>4

\* A sequence without its i-th element.
LEMMA RemoveFacts ==
  ASSUME NEW S, NEW s \in Seq(S), NEW i \in 1..Len(s)
  PROVE  /\ RemoveAt(s, i) \in Seq(S)
         /\ Len(RemoveAt(s, i)) = Len(s) - 1
         /\ \A j \in 1..(Len(s) - 1) :
              RemoveAt(s, i)[j] = IF j < i THEN s[j] ELSE s[j + 1]
  <1> DEFINE front == SubSeq(s, 1, i - 1)
             rest  == SubSeq(s, i + 1, Len(s))
  <1> HIDE DEF front, rest
  <1>1. Len(s) \in Nat /\ \A j \in 1..Len(s) : s[j] \in S
    BY LenProperties
  <1>2. front \in Seq(S) /\ Len(front) = i - 1 /\ \A j \in 1..(i - 1) : front[j] = s[j]
    <2>1. \A j \in 1..(i - 1) : s[j] \in S
      BY <1>1
    <2>2. /\ front \in Seq(S)
          /\ Len(front) = IF 1 <= i - 1 THEN i - 1 - 1 + 1 ELSE 0
          /\ \A j \in 1..(i - 1 - 1 + 1) : front[j] = s[1 + j - 1]
      BY <1>1, <2>1, SubSeqProperties DEF front
    <2>3. ASSUME NEW j \in 1..(i - 1) PROVE front[j] = s[j]
      <3>1. j \in 1..(i - 1 - 1 + 1) /\ 1 + j - 1 = j
        BY <1>1
      <3> QED BY <2>2, <3>1
    <2>4. Len(front) = i - 1
      BY <1>1, <2>2
    <2> QED BY <2>2, <2>3, <2>4
  <1>3. /\ rest \in Seq(S) /\ Len(rest) = Len(s) - i
        /\ \A j \in 1..(Len(s) - i) : rest[j] = s[i + j]
    <2>1. \A j \in (i + 1)..Len(s) : s[j] \in S
      BY <1>1
    <2>2. /\ rest \in Seq(S)
          /\ Len(rest) = IF i + 1 <= Len(s) THEN Len(s) - (i + 1) + 1 ELSE 0
          /\ \A j \in 1..(Len(s) - (i + 1) + 1) : rest[j] = s[i + 1 + j - 1]
      BY <1>1, <2>1, SubSeqProperties DEF rest
    <2>3. ASSUME NEW j \in 1..(Len(s) - i) PROVE rest[j] = s[i + j]
      <3>1. j \in 1..(Len(s) - (i + 1) + 1) /\ i + 1 + j - 1 = i + j
        BY <1>1
      <3> QED BY <2>2, <3>1
    <2>4. Len(rest) = Len(s) - i
      BY <1>1, <2>2
    <2> QED BY <2>2, <2>3, <2>4
  <1>4. /\ front \o rest \in Seq(S)
        /\ Len(front \o rest) = Len(front) + Len(rest)
        /\ \A j \in 1..(Len(front) + Len(rest)) :
             (front \o rest)[j] = IF j <= Len(front) THEN front[j] ELSE rest[j - Len(front)]
    BY <1>2, <1>3, ConcatProperties
  <1>5. RemoveAt(s, i) = front \o rest
    BY DEF RemoveAt, front, rest
  <1>6. Len(front) + Len(rest) = Len(s) - 1
    BY <1>1, <1>2, <1>3
  <1>7. ASSUME NEW j \in 1..(Len(s) - 1)
        PROVE  (front \o rest)[j] = IF j < i THEN s[j] ELSE s[j + 1]
    <2>1. CASE j < i
      BY <2>1, <1>1, <1>2, <1>4, <1>6
    <2>2. CASE j >= i
      <3>1. j - (i - 1) \in 1..(Len(s) - i) /\ i + (j - (i - 1)) = j + 1
        BY <2>2, <1>1
      <3>2. (front \o rest)[j] = rest[j - (i - 1)]
        BY <2>2, <1>1, <1>2, <1>4, <1>6
      <3>3. rest[j - (i - 1)] = s[j + 1]
        BY <3>1, <1>3
      <3>4. ~(j < i)
        BY <2>2, <1>1
      <3> QED BY <3>2, <3>3, <3>4
    <2>3. j < i \/ j >= i
      BY <1>1
    <2> QED BY <2>1, <2>2, <2>3
  <1> QED BY <1>4, <1>5, <1>6, <1>7

-----------------------------------------------------------------------------
LEMMA InitInv == Init => IInv
  <1> SUFFICES ASSUME Init
               PROVE  IInv
    OBVIOUS
  <1>0. /\ <<>> \in Seq(Connections) /\ <<>> \in Seq(Tabs)
        /\ <<>> \in Seq({"SETTINGS", "STOP"}) /\ Len(<<>>) = 0
    BY EmptySeq
  <1>1. TypeOK
    <2>1. kind \in [Clients -> {"named", "nameless", "other"}]
      BY RegistrationAssumption DEF Init
    <2> QED BY <1>0, <2>1 DEF Init, TypeOK
  <1>2. ConnectionsMade /\ InOnePlace /\ OwnConfig /\ RowsHaveThread
    BY <1>0 DEF Init, ConnectionsMade, InOnePlace, OwnConfig, RowsHaveThread
  <1>3. SilentBefore /\ StartedIsRecorded
    BY <1>0 DEF Init, SilentBefore, StartedIsRecorded, Going
  <1> QED BY <1>1, <1>2, <1>3 DEF IInv

\* The elements of the sequences.
LEMMA Elements ==
  ASSUME TypeOK
  PROVE  /\ Len(tabs) \in Nat /\ Len(backlog) \in Nat
         /\ DOMAIN tabs = 1..Len(tabs) /\ DOMAIN backlog = 1..Len(backlog)
         /\ \A i \in 1..Len(tabs) : tabs[i] \in Tabs /\ tabs[i].connection \in Connections
         /\ \A i \in 1..Len(backlog) : backlog[i] \in Connections
         /\ \A conn \in Connections : conn = <<conn[1], conn[2]>> /\ conn[1] \in Clients
                                      /\ conn[2] \in Nat
         /\ None \notin Connections
  <1>1. tabs \in Seq(Tabs) /\ backlog \in Seq(Connections)
    BY DEF TypeOK
  <1>2. \A i \in 1..Len(tabs) : tabs[i] \in Tabs
    BY <1>1, LenProperties
  <1>3. \A i \in 1..Len(tabs) : tabs[i].connection \in Connections
    BY <1>2 DEF Tabs
  <1>4. \A conn \in Connections : conn = <<conn[1], conn[2]>> /\ conn[1] \in Clients
                                  /\ conn[2] \in Nat
    BY DEF Connections
  <1> QED BY <1>1, <1>2, <1>3, <1>4, LenProperties, RegistrationAssumption DEF Connections

-----------------------------------------------------------------------------
(* The parts of the invariant that a step cannot disturb.                  *)

\* Nothing but the host's own state changed.
LEMMA SameWorld ==
  ASSUME IInv,
         UNCHANGED <<kind, at, boots, wire, reading, backlog, tabs, open>>
  PROVE  /\ ConnectionsMade' /\ InOnePlace' /\ OwnConfig'
         /\ SilentBefore' /\ RowsHaveThread' /\ StartedIsRecorded'
  <1> USE DEF IInv
  <1>1. ConnectionsMade' /\ SilentBefore'
    BY DEF ConnectionsMade, Made, SilentBefore
  <1>2. InOnePlace' /\ OwnConfig' /\ RowsHaveThread'
    BY DEF InOnePlace, OwnConfig, RowsHaveThread
  <1>3. StartedIsRecorded'
    BY DEF StartedIsRecorded, Going, Recorded
  <1> QED BY <1>1, <1>2, <1>3

\* The handlers that leave the tabs where they are.
LEMMA SameTabs ==
  ASSUME IInv,
         UNCHANGED <<kind, at, boots, reading, backlog>>,
         Len(tabs') = Len(tabs),
         \A i \in 1..Len(tabs) : /\ tabs'[i].connection = tabs[i].connection
                                 /\ tabs'[i].config = tabs[i].config
  PROVE  ConnectionsMade' /\ InOnePlace' /\ OwnConfig'
  <1>1. ConnectionsMade'
    BY DEF IInv, ConnectionsMade, Made
  <1>2. InOnePlace'
    BY DEF IInv, InOnePlace
  <1>3. OwnConfig'
    BY DEF IInv, OwnConfig
  <1> QED BY <1>1, <1>2, <1>3

\* The steps of clients and network that leave the host alone.
LEMMA SameHost ==
  ASSUME IInv,
         UNCHANGED <<kind, reading, backlog, tabs>>,
         \A conn \in Connections : Made(conn) => Made(conn)'
  PROVE  ConnectionsMade' /\ InOnePlace' /\ OwnConfig' /\ RowsHaveThread'
  <1>1. ConnectionsMade'
    <2>1. TypeOK /\ (reading /= None => reading \in Connections)
      BY DEF IInv, TypeOK
    <2> QED BY <2>1, Elements DEF IInv, ConnectionsMade
  <1>2. InOnePlace' /\ OwnConfig' /\ RowsHaveThread'
    BY DEF IInv, InOnePlace, OwnConfig, RowsHaveThread
  <1> QED BY <1>1, <1>2

-----------------------------------------------------------------------------
(* The host.                                                               *)

LEMMA HostStartsInv ==
  ASSUME IInv, NEW m \in Machines, HostStarts(m)
  PROVE  IInv'
  <1>1. TypeOK'
    BY DEF IInv, TypeOK, HostStarts, clientVars, netVars
  <1>2. UNCHANGED <<kind, at, boots, wire, reading, backlog, tabs, open>>
    BY DEF HostStarts, clientVars, netVars
  <1> QED BY <1>1, <1>2, SameWorld DEF IInv

LEMMA ExitInv ==
  ASSUME IInv, Exit
  PROVE  IInv'
  <1>0. <<>> \in Seq(Connections) /\ <<>> \in Seq(Tabs) /\ Len(<<>>) = 0
    BY EmptySeq
  <1>1. TypeOK'
    BY <1>0 DEF IInv, TypeOK, Exit, clientVars
  <1>2. ConnectionsMade' /\ InOnePlace' /\ OwnConfig' /\ RowsHaveThread'
    BY <1>0 DEF Exit, ConnectionsMade, InOnePlace, OwnConfig, RowsHaveThread
  <1>3. SilentBefore'
    BY DEF IInv, SilentBefore, Exit, clientVars
  <1>4. StartedIsRecorded'
    BY DEF Exit, StartedIsRecorded
  <1> QED BY <1>1, <1>2, <1>3, <1>4 DEF IInv

\* The first connection of the queue becomes the one that is read.
LEMMA IncomingInv ==
  ASSUME IInv, Incoming
  PROVE  IInv'
  <1> USE DEF IInv
  <1>1. backlog \in Seq(Connections) /\ backlog /= <<>>
    BY DEF TypeOK, Incoming
  <1>2. /\ reading' = backlog[1] /\ reading' \in Connections
        /\ backlog' \in Seq(Connections)
        /\ Len(backlog) \in Nat \ {0} /\ Len(backlog') = Len(backlog) - 1
        /\ \A i \in 1..Len(backlog') : backlog'[i] = backlog[i + 1]
    BY <1>1, TailFacts DEF Incoming
  <1>3. UNCHANGED <<kind, at, boots, wire, tabs, open>>
    BY DEF Incoming, clientVars, netVars
  <1>4. TypeOK'
    BY <1>2, <1>3 DEF TypeOK, Incoming, clientVars, netVars
  <1>5. ConnectionsMade'
    <2>1. 1 \in 1..Len(backlog) /\ \A i \in 1..Len(backlog') : i + 1 \in 1..Len(backlog)
      BY <1>2
    <2>2. Made(reading)'
      BY <2>1, <1>2, <1>3 DEF ConnectionsMade, Made
    <2>3. (\A i \in 1..Len(backlog) : Made(backlog[i]))'
      <3> SUFFICES ASSUME NEW i \in 1..Len(backlog')
                   PROVE  Made(backlog[i])'
        OBVIOUS
      <3>1. i + 1 \in 1..Len(backlog) /\ backlog'[i] = backlog[i + 1]
        BY <2>1, <1>2
      <3> QED BY <3>1, <1>3 DEF ConnectionsMade, Made
    <2>4. (\A i \in 1..Len(tabs) : Made(tabs[i].connection))'
      BY <1>3 DEF ConnectionsMade, Made
    <2> QED BY <2>2, <2>3, <2>4 DEF ConnectionsMade
  <1>6. InOnePlace'
    <2>1. /\ 1 \in 1..Len(backlog)
          /\ \A i \in 1..Len(backlog') : i + 1 \in 1..Len(backlog) /\ i + 1 /= 1
      BY <1>2
    <2>2. \A i, j \in 1..Len(backlog') : backlog'[i] = backlog'[j] => i = j
      <3> SUFFICES ASSUME NEW i \in 1..Len(backlog'), NEW j \in 1..Len(backlog'),
                          backlog'[i] = backlog'[j]
                   PROVE  i = j
        OBVIOUS
      <3>1. i + 1 \in 1..Len(backlog) /\ j + 1 \in 1..Len(backlog)
        BY <2>1
      <3>2. backlog[i + 1] = backlog[j + 1]
        BY <1>2
      <3>3. i + 1 = j + 1
        BY <3>1, <3>2 DEF InOnePlace
      <3> QED BY <3>3
    <2>3. \A i \in 1..Len(backlog') : backlog'[i] /= reading'
      BY <2>1, <1>2 DEF InOnePlace
    <2>4. \A i \in 1..Len(tabs), j \in 1..Len(backlog') :
            tabs[i].connection /= reading' /\ tabs[i].connection /= backlog'[j]
      BY <2>1, <1>2 DEF InOnePlace
    <2>5. \A i \in 1..Len(tabs) : tabs[i].connection /= reading'
      BY <2>1, <1>2 DEF InOnePlace
    <2> QED BY <2>2, <2>3, <2>4, <2>5, <1>3 DEF InOnePlace
  <1>7. OwnConfig' /\ SilentBefore' /\ RowsHaveThread' /\ StartedIsRecorded'
    BY <1>3 DEF OwnConfig, SilentBefore, RowsHaveThread, StartedIsRecorded, Going, Recorded
  <1> QED BY <1>4, <1>5, <1>6, <1>7

LEMMA HandshakeTimesOutInv ==
  ASSUME IInv, HandshakeTimesOut
  PROVE  IInv'
  <1> USE DEF IInv
  <1>1. /\ reading' = None /\ open' \subseteq open
        /\ UNCHANGED <<kind, at, boots, wire, backlog, tabs>>
    BY DEF HandshakeTimesOut, clientVars
  <1>2. TypeOK'
    BY <1>1 DEF TypeOK, HandshakeTimesOut, clientVars
  <1>3. ConnectionsMade'
    BY <1>1 DEF ConnectionsMade, Made
  <1>4. InOnePlace'
    <2>1. TypeOK
      OBVIOUS
    <2>2. /\ \A i \in 1..Len(tabs) : tabs[i].connection /= None
          /\ \A i \in 1..Len(backlog) : backlog[i] /= None
      BY <2>1, Elements
    <2> QED BY <1>1, <2>2 DEF InOnePlace
  <1>5. OwnConfig' /\ SilentBefore' /\ RowsHaveThread' /\ StartedIsRecorded'
    BY <1>1 DEF OwnConfig, SilentBefore, RowsHaveThread, StartedIsRecorded, Going, Recorded
  <1> QED BY <1>2, <1>3, <1>4, <1>5

\* The connection that was read becomes the last tab's.
LEMMA AssignTabInv ==
  ASSUME IInv, NEW config \in Connections, AssignTab(config),
         reading \in arrived,
         kind[reading[1]] /= "other" => config = reading,
         stack_slot' \in Connections \cup {None}
  PROVE  IInv'
  <1> USE DEF IInv
  <1>1. /\ reading' = None
        /\ UNCHANGED <<kind, at, boots, wire, backlog, open>>
        /\ arrived' \subseteq arrived
    BY DEF AssignTab, clientVars
  <1>2. reading \in Connections /\ reading /= None /\ TypeOK
    BY Elements DEF TypeOK
  <1>3. NewTab(reading, config) \in Tabs
    BY <1>2 DEF NewTab, Tabs
  <1>4. /\ tabs' \in Seq(Tabs)
        /\ Len(tabs) \in Nat /\ Len(tabs') = Len(tabs) + 1
        /\ \A i \in 1..Len(tabs) : tabs'[i] = tabs[i]
        /\ tabs'[Len(tabs) + 1] = NewTab(reading, config)
    BY <1>3, AppendFacts DEF AssignTab, TypeOK
  <1>5. LET t == tabs'[Len(tabs) + 1]
        IN  /\ t.connection = reading /\ t.config = config /\ t.rows = 0
    BY <1>4 DEF NewTab
  <1>6. TypeOK'
    BY <1>1, <1>4 DEF TypeOK, AssignTab, clientVars
  <1>7. ConnectionsMade'
    BY <1>1, <1>2, <1>4, <1>5 DEF ConnectionsMade, Made
  <1>8. InOnePlace'
    <2>1. /\ \A i \in 1..Len(tabs') : tabs'[i].connection /= None
          /\ \A i \in 1..Len(backlog) : backlog[i] /= None
      <3>1. /\ \A i \in 1..Len(tabs) : tabs[i].connection /= None
            /\ \A i \in 1..Len(backlog) : backlog[i] /= None
        BY <1>2, Elements
      <3> QED BY <1>2, <1>4, <1>5, <3>1
    <2>2. \A i \in 1..Len(tabs'), j \in 1..Len(backlog) : tabs'[i].connection /= backlog[j]
      BY <1>4, <1>5 DEF InOnePlace
    <2>3. \A i, j \in 1..Len(tabs') : tabs'[i].connection = tabs'[j].connection => i = j
      BY <1>4, <1>5 DEF InOnePlace
    <2> QED BY <1>1, <2>1, <2>2, <2>3 DEF InOnePlace
  <1>9. OwnConfig'
    BY <1>1, <1>4, <1>5 DEF OwnConfig
  <1>10. SilentBefore'
    BY <1>1 DEF SilentBefore
  <1>11. RowsHaveThread'
    BY <1>4, <1>5 DEF RowsHaveThread
  <1>12. StartedIsRecorded'
    <2>1. \A c \in Clients : Recorded(c) => Recorded(c)'
      BY <1>1, <1>4 DEF Recorded
    <2> QED BY <1>1, <2>1 DEF StartedIsRecorded, Going
  <1> QED BY <1>6, <1>7, <1>8, <1>9, <1>10, <1>11, <1>12

LEMMA RegisterInv ==
  ASSUME IInv, Register
  PROVE  IInv'
  <1>1. reading \in arrived /\ reading \in Connections
    BY DEF Register, IInv, TypeOK
  <1>2. AssignTab(reading) /\ stack_slot' \in Connections \cup {None}
    BY <1>1 DEF Register
  <1> QED BY <1>1, <1>2, AssignTabInv

LEMMA RegisterOtherInv ==
  ASSUME IInv, RegisterOther
  PROVE  IInv'
  <1>1. CASE Exit
    BY <1>1, ExitInv
  <1>2. CASE stack_slot /= None /\ AssignTab(stack_slot) /\ UNCHANGED stack_slot
    <2>1. /\ stack_slot \in Connections
          /\ stack_slot' \in Connections \cup {None}
      BY <1>2 DEF IInv, TypeOK
    <2>2. reading \in arrived /\ kind[reading[1]] = "other"
      BY DEF RegisterOther, ClientOf
    <2> QED BY <1>2, <2>1, <2>2, AssignTabInv
  <1> QED BY <1>1, <1>2 DEF RegisterOther

-----------------------------------------------------------------------------
(* The tabs.                                                               *)

LEMMA StartedFacts ==
  ASSUME NEW tab \in Tabs
  PROVE  /\ Started(tab) \in Tabs
         /\ Started(tab).connection = tab.connection
         /\ Started(tab).config = tab.config
         /\ Started(tab).conn = tab.conn
         /\ Started(tab).rows = tab.rows
         /\ tab.rows > 0 => Started(tab).thread = tab.thread
         /\ ~(tab.rows > 0) =>
              Started(tab).thread =
                IF tab.conn /\ kind[tab.config[1]] = "named" THEN "reads" ELSE "none"
  <1>1. tab.rows \in Nat /\ tab.conn \in BOOLEAN
    BY DEF Tabs
  <1>2. CASE tab.rows > 0
    BY <1>1, <1>2 DEF Started
  <1>3. CASE ~(tab.rows > 0)
    <2> DEFINE new == IF tab.conn /\ kind[tab.config[1]] = "named" THEN "reads" ELSE "none"
    <2>1. Started(tab) = [tab EXCEPT !.thread = new]
      BY <1>3 DEF Started, ClientOf
    <2>2. new \in {"none", "reads", "gave_up"}
      OBVIOUS
    <2> HIDE DEF new
    <2>3. /\ Started(tab) \in Tabs
          /\ Started(tab).connection = tab.connection
          /\ Started(tab).config = tab.config
          /\ Started(tab).conn = tab.conn
          /\ Started(tab).rows = tab.rows
          /\ Started(tab).thread = new
      BY <2>1, <2>2 DEF Tabs
    <2> QED BY <2>3, <1>3 DEF new
  <1> QED BY <1>2, <1>3

LEMMA DisconnectedFacts ==
  ASSUME NEW tab \in Tabs
  PROVE  /\ Disconnected(tab) \in Tabs
         /\ Disconnected(tab).connection = tab.connection
         /\ Disconnected(tab).config = tab.config
         /\ Disconnected(tab).conn = FALSE
  BY DEF Disconnected, Tabs

\* The packages of one handler.
LEMMA SentFacts ==
  ASSUME TypeOK, NEW selected \in SUBSET (1..Len(tabs)),
         NEW package \in {"SETTINGS", "STOP"}, wire' = Sent(selected, package)
  PROVE  /\ wire' \in [Clients -> Seq({"SETTINGS", "STOP"})]
         /\ \A c \in Clients :
              \/ wire'[c] = wire[c]
              \/ /\ \E i \in selected : /\ tabs[i].connection = <<c, boots[c]>>
                                         /\ tabs[i].conn
                 /\ Len(wire[c]) \in Nat /\ Len(wire'[c]) = Len(wire[c]) + 1
                 /\ \A k \in 1..Len(wire[c]) : wire'[c][k] = wire[c][k]
                 /\ wire'[c][Len(wire[c]) + 1] = package
  <1> DEFINE reached(c) == \E i \in selected : /\ tabs[i].conn /\ tabs[i].connection \in open
                                               /\ tabs[i].connection = <<c, boots[c]>>
  <1>1. wire' = [c \in Clients |-> IF reached(c) THEN Append(wire[c], package) ELSE wire[c]]
    BY DEF Sent, Connected, Connection
  <1>2. \A c \in Clients : wire[c] \in Seq({"SETTINGS", "STOP"})
    BY DEF TypeOK
  <1>3. \A c \in Clients :
          /\ Append(wire[c], package) \in Seq({"SETTINGS", "STOP"})
          /\ Len(wire[c]) \in Nat /\ Len(Append(wire[c], package)) = Len(wire[c]) + 1
          /\ \A k \in 1..Len(wire[c]) : Append(wire[c], package)[k] = wire[c][k]
          /\ Append(wire[c], package)[Len(wire[c]) + 1] = package
    BY <1>2, AppendFacts
  <1>4. \A c \in Clients :
          reached(c) => \E i \in selected : /\ tabs[i].connection = <<c, boots[c]>>
                                            /\ tabs[i].conn
    OBVIOUS
  <1> HIDE DEF reached
  <1>5. wire' \in [Clients -> Seq({"SETTINGS", "STOP"})]
    BY <1>1, <1>2, <1>3
  <1>6. ASSUME NEW c \in Clients
        PROVE  \/ wire'[c] = wire[c]
               \/ /\ \E i \in selected : /\ tabs[i].connection = <<c, boots[c]>>
                                          /\ tabs[i].conn
                  /\ Len(wire[c]) \in Nat /\ Len(wire'[c]) = Len(wire[c]) + 1
                  /\ \A k \in 1..Len(wire[c]) : wire'[c][k] = wire[c][k]
                  /\ wire'[c][Len(wire[c]) + 1] = package
    <2>1. CASE reached(c)
      <3>1. wire'[c] = Append(wire[c], package)
        BY <1>1, <2>1
      <3>2. /\ Len(wire[c]) \in Nat /\ Len(wire'[c]) = Len(wire[c]) + 1
            /\ \A k \in 1..Len(wire[c]) : wire'[c][k] = wire[c][k]
            /\ wire'[c][Len(wire[c]) + 1] = package
        BY <3>1, <1>3
      <3> QED BY <3>2, <2>1, <1>4
    <2>2. CASE ~reached(c)
      BY <1>1, <2>2
    <2> QED BY <2>1, <2>2
  <1> QED BY <1>5, <1>6

\* A client that goes on measuring is recorded as it was before.
LEMMA StartInv ==
  ASSUME IInv, NEW selected \in SUBSET (1..Len(tabs)), Start(selected)
  PROVE  IInv'
  <1> USE DEF IInv
  <1>1. TypeOK
    OBVIOUS
  <1>2. UNCHANGED <<kind, at, boots, running, starts, reading, backlog, stack_slot, open,
                    arrived>>
    BY DEF Start, netVars
  <1>3. /\ wire' = Sent(selected, "SETTINGS")
        /\ tabs' = [i \in 1..Len(tabs) |-> IF i \in selected THEN Started(tabs[i]) ELSE tabs[i]]
    BY <1>1, Elements DEF Start
  <1>4. /\ Len(tabs) \in Nat
        /\ \A i \in 1..Len(tabs) : tabs[i] \in Tabs /\ Started(tabs[i]) \in Tabs
    BY <1>1, Elements, StartedFacts
  <1>5. /\ tabs' \in Seq(Tabs) /\ Len(tabs') = Len(tabs)
        /\ \A i \in 1..Len(tabs) : tabs'[i] = IF i \in selected THEN Started(tabs[i]) ELSE tabs[i]
    <2>1. tabs' \in [1..Len(tabs) -> Tabs]
      BY <1>3, <1>4
    <2>2. tabs' \in Seq(Tabs) /\ Len(tabs') = Len(tabs)
      BY <2>1, <1>4, FunctionFacts
    <2> QED BY <2>2, <1>3
  <1>6. \A i \in 1..Len(tabs) : /\ tabs'[i].connection = tabs[i].connection
                                /\ tabs'[i].config = tabs[i].config
                                /\ tabs'[i].conn = tabs[i].conn
                                /\ tabs'[i].rows = tabs[i].rows
    BY <1>4, <1>5, StartedFacts
  <1>7. TypeOK'
    BY <1>1, <1>2, <1>3, <1>5, SentFacts DEF TypeOK
  <1>8. ConnectionsMade' /\ InOnePlace' /\ OwnConfig'
    BY <1>2, <1>5, <1>6, SameTabs
  <1>9. SilentBefore'
    <2> SUFFICES ASSUME NEW c \in Clients, at[c] \in {"discover", "connect"}
                 PROVE  wire'[c] = <<>>
      BY <1>2 DEF SilentBefore
    <2>1. ~\E i \in selected : tabs[i].connection = <<c, boots[c]>>
      BY DEF ConnectionsMade, Made
    <2>2. wire'[c] = wire[c]
      BY <2>1, <1>1, <1>3, SentFacts
    <2> QED BY <2>2 DEF SilentBefore
  <1>10. RowsHaveThread'
    BY <1>4, <1>5, <1>6, StartedFacts DEF RowsHaveThread
  <1>11. StartedIsRecorded'
    <2> SUFFICES ASSUME NEW c \in Clients, Going(c)', <<c, boots[c]>> \in open,
                        kind[c] = "named"
                 PROVE  Recorded(c)'
      BY <1>2 DEF StartedIsRecorded
    <2>1. ASSUME NEW i \in 1..Len(tabs), tabs[i].connection = <<c, boots[c]>>, tabs[i].conn,
                 i \in selected \/ tabs[i].thread /= "none"
          PROVE  Recorded(c)'
      <3>1. tabs[i].config = tabs[i].connection
        BY <2>1 DEF OwnConfig
      <3>2. kind[tabs[i].config[1]] = "named"
        BY <3>1, <2>1
      <3>3. tabs[i].rows > 0 => tabs[i].thread /= "none"
        BY <2>1 DEF RowsHaveThread
      <3>4. tabs'[i].thread /= "none"
        <4>1. CASE i \notin selected
          BY <4>1, <2>1, <1>5
        <4>2. CASE i \in selected
          <5>1. tabs'[i] = Started(tabs[i]) /\ tabs[i] \in Tabs
            BY <4>2, <1>4, <1>5
          <5>2. CASE tabs[i].rows > 0
            BY <5>1, <5>2, <3>3, StartedFacts
          <5>3. CASE ~(tabs[i].rows > 0)
            <6>1. Started(tabs[i]).thread = "reads"
              BY <5>1, <5>3, <2>1, <3>2, StartedFacts
            <6> QED BY <6>1, <5>1
          <5> QED BY <5>2, <5>3
        <4> QED BY <4>1, <4>2
      <3> QED BY <3>4, <2>1, <1>2, <1>5, <1>6 DEF Recorded
    <2>2. CASE wire'[c] = wire[c]
      <3>1. Going(c)
        BY <2>2, <1>2 DEF Going
      <3> QED BY <3>1, <2>1 DEF StartedIsRecorded, Recorded
    <2>3. CASE \E i \in selected : tabs[i].connection = <<c, boots[c]>> /\ tabs[i].conn
      BY <2>3, <2>1
    <2> QED BY <2>2, <2>3, <1>1, <1>3, SentFacts
  <1> QED BY <1>7, <1>8, <1>9, <1>10, <1>11

\* The tabs that are stopped let go of connections nobody has any more.
LEMMA StopInv ==
  ASSUME IInv, NEW selected \in SUBSET (1..Len(tabs)), Stop(selected)
  PROVE  IInv'
  <1> USE DEF IInv
  <1> DEFINE stopped == {j \in selected : tabs[j].conn}
  <1>1. TypeOK
    OBVIOUS
  <1>2. UNCHANGED <<kind, at, boots, running, starts, reading, backlog, stack_slot, arrived>>
    BY DEF Stop
  <1>3. /\ wire' = Sent(selected, "STOP")
        /\ open' = open \ {tabs[i].connection : i \in stopped}
        /\ tabs' = [i \in 1..Len(tabs) |->
                      IF i \in stopped THEN Disconnected(tabs[i]) ELSE tabs[i]]
    BY <1>1, Elements DEF Stop
  <1>4. /\ Len(tabs) \in Nat
        /\ \A i \in 1..Len(tabs) : tabs[i] \in Tabs /\ Disconnected(tabs[i]) \in Tabs
    BY <1>1, Elements, DisconnectedFacts
  <1> HIDE DEF stopped
  <1>5. /\ tabs' \in Seq(Tabs) /\ Len(tabs') = Len(tabs)
        /\ \A i \in 1..Len(tabs) :
             tabs'[i] = IF i \in stopped THEN Disconnected(tabs[i]) ELSE tabs[i]
    <2>1. tabs' \in [1..Len(tabs) -> Tabs]
      BY <1>3, <1>4
    <2>2. tabs' \in Seq(Tabs) /\ Len(tabs') = Len(tabs)
      BY <2>1, <1>4, FunctionFacts
    <2> QED BY <2>2, <1>3
  <1>6. \A i \in 1..Len(tabs) : /\ tabs'[i].connection = tabs[i].connection
                                /\ tabs'[i].config = tabs[i].config
                                /\ tabs'[i].conn => tabs'[i] = tabs[i]
    BY <1>4, <1>5, DisconnectedFacts
  <1>7. TypeOK'
    BY <1>1, <1>2, <1>3, <1>5, SentFacts DEF TypeOK
  <1>8. ConnectionsMade' /\ InOnePlace' /\ OwnConfig'
    BY <1>2, <1>5, <1>6, SameTabs
  <1>9. SilentBefore'
    <2> SUFFICES ASSUME NEW c \in Clients, at[c] \in {"discover", "connect"}
                 PROVE  wire'[c] = <<>>
      BY <1>2 DEF SilentBefore
    <2>1. ~\E i \in selected : tabs[i].connection = <<c, boots[c]>>
      BY DEF ConnectionsMade, Made
    <2>2. wire'[c] = wire[c]
      BY <2>1, <1>1, <1>3, SentFacts
    <2> QED BY <2>2 DEF SilentBefore
  <1>10. RowsHaveThread'
    BY <1>5, <1>6 DEF RowsHaveThread
  <1>11. StartedIsRecorded'
    <2> SUFFICES ASSUME NEW c \in Clients, Going(c)', <<c, boots[c]>> \in open',
                        kind[c] = "named"
                 PROVE  Recorded(c)'
      BY <1>2 DEF StartedIsRecorded
    <2>1. Going(c)
      <3>1. CASE wire'[c] = wire[c]
        BY <3>1, <1>2 DEF Going
      <3>2. CASE /\ Len(wire[c]) \in Nat /\ Len(wire'[c]) = Len(wire[c]) + 1
                 /\ \A k \in 1..Len(wire[c]) : wire'[c][k] = wire[c][k]
                 /\ wire'[c][Len(wire[c]) + 1] = "STOP"
        BY <3>2, <1>2 DEF Going
      <3> QED BY <3>1, <3>2, <1>1, <1>3, SentFacts
    <2>2. PICK i \in 1..Len(tabs) : /\ tabs[i].connection = <<c, boots[c]>>
                                    /\ tabs[i].conn
                                    /\ tabs[i].thread /= "none"
      BY <2>1, <1>3 DEF StartedIsRecorded, Recorded
    <2>3. i \notin stopped
      BY <2>2, <1>3
    <2> QED BY <2>2, <2>3, <1>2, <1>5 DEF Recorded
  <1> QED BY <1>7, <1>8, <1>9, <1>10, <1>11

\* The tabs behind the one that goes move up.
LEMMA RemoveClientInv ==
  ASSUME IInv, NEW i \in 1..Len(tabs), RemoveClient(i)
  PROVE  IInv'
  <1> USE DEF IInv
  <1>1. TypeOK /\ tabs \in Seq(Tabs)
    BY DEF TypeOK
  <1>2. /\ UNCHANGED <<kind, at, boots, wire, running, starts, reading, backlog, stack_slot,
                       arrived>>
        /\ open' \subseteq open
        /\ tabs[i].conn => tabs[i].connection \notin open'
    BY DEF RemoveClient, clientVars
  <1>3. /\ tabs' \in Seq(Tabs) /\ Len(tabs') = Len(tabs) - 1
        /\ \A j \in 1..(Len(tabs) - 1) : tabs'[j] = IF j < i THEN tabs[j] ELSE tabs[j + 1]
    BY <1>1, RemoveFacts DEF RemoveClient
  <1> DEFINE old(j) == IF j < i THEN j ELSE j + 1
  <1>4. /\ Len(tabs) \in Nat
        /\ \A j \in 1..Len(tabs') : old(j) \in 1..Len(tabs) /\ tabs'[j] = tabs[old(j)]
        /\ \A j, k \in 1..Len(tabs') : old(j) = old(k) => j = k
        /\ \A k \in 1..Len(tabs) : k /= i => \E j \in 1..Len(tabs') : k = old(j)
    <2>1. Len(tabs) \in Nat
      BY <1>1, Elements
    <2>2. \A j \in 1..Len(tabs') : old(j) \in 1..Len(tabs) /\ tabs'[j] = tabs[old(j)]
      BY <2>1, <1>3
    <2>3. \A j, k \in 1..Len(tabs') : old(j) = old(k) => j = k
      BY <2>1, <1>3
    <2>4. ASSUME NEW k \in 1..Len(tabs), k /= i
          PROVE  \E j \in 1..Len(tabs') : k = old(j)
      <3>1. CASE k < i
        <4>1. k \in 1..Len(tabs') /\ k = old(k)
          BY <3>1, <2>1, <1>3
        <4> QED BY <4>1
      <3>2. CASE k > i
        <4>1. k - 1 \in 1..Len(tabs') /\ k = old(k - 1)
          BY <3>2, <2>1, <1>3
        <4> QED BY <4>1
      <3> QED BY <3>1, <3>2, <2>4, <2>1
    <2> QED BY <2>1, <2>2, <2>3, <2>4
  <1> HIDE DEF old
  <1>5. TypeOK'
    BY <1>1, <1>2, <1>3 DEF TypeOK, RemoveClient, clientVars
  <1>6. ConnectionsMade'
    BY <1>2, <1>4 DEF ConnectionsMade, Made
  <1>7. InOnePlace'
    <2>1. ASSUME NEW j \in 1..Len(tabs'), NEW k \in 1..Len(tabs'),
                 tabs'[j].connection = tabs'[k].connection
          PROVE  j = k
      <3>1. tabs[old(j)].connection = tabs[old(k)].connection
        BY <2>1, <1>4
      <3>2. old(j) = old(k)
        BY <3>1, <1>4 DEF InOnePlace
      <3> QED BY <3>2, <1>4
    <2>2. ASSUME NEW j \in 1..Len(tabs')
          PROVE  /\ tabs'[j].connection /= reading
                 /\ \A k \in 1..Len(backlog) : tabs'[j].connection /= backlog[k]
      <3>1. old(j) \in 1..Len(tabs) /\ tabs'[j] = tabs[old(j)]
        BY <1>4
      <3> QED BY <3>1 DEF InOnePlace
    <2> QED BY <2>1, <2>2, <1>2 DEF InOnePlace
  <1>8. OwnConfig'
    <2> SUFFICES ASSUME NEW j \in 1..Len(tabs'), kind[tabs'[j].connection[1]] /= "other"
                 PROVE  tabs'[j].config = tabs'[j].connection
      BY <1>2 DEF OwnConfig, ClientOf
    <2>1. old(j) \in 1..Len(tabs) /\ tabs'[j] = tabs[old(j)]
      BY <1>4
    <2> QED BY <2>1 DEF OwnConfig, ClientOf
  <1>9. SilentBefore'
    BY <1>2 DEF SilentBefore
  <1>10. RowsHaveThread'
    BY <1>4 DEF RowsHaveThread
  <1>11. StartedIsRecorded'
    <2> SUFFICES ASSUME NEW c \in Clients, Going(c), <<c, boots[c]>> \in open',
                        kind[c] = "named"
                 PROVE  Recorded(c)'
      BY <1>2 DEF StartedIsRecorded, Going
    <2>1. PICK k \in 1..Len(tabs) : /\ tabs[k].connection = <<c, boots[c]>>
                                    /\ tabs[k].conn
                                    /\ tabs[k].thread /= "none"
      BY <1>2 DEF StartedIsRecorded, Recorded
    <2>2. k /= i
      BY <2>1, <1>2
    <2>3. PICK j \in 1..Len(tabs') : k = old(j)
      BY <2>2, <1>4
    <2>4. tabs'[j] = tabs[k]
      BY <2>3, <1>4
    <2> QED BY <2>1, <2>4, <1>2 DEF Recorded
  <1> QED BY <1>5, <1>6, <1>7, <1>8, <1>9, <1>10, <1>11

\* One tab changes, and keeps its connection and its config.
LEMMA TabChangesInv ==
  ASSUME IInv, NEW i \in 1..Len(tabs), NEW tab \in Tabs,
         tabs' = [tabs EXCEPT ![i] = tab],
         UNCHANGED <<clientVars, running, machine, starts, reading, backlog, stack_slot,
                     netVars>>,
         tab.connection = tabs[i].connection, tab.config = tabs[i].config,
         tab.rows > 0 /\ tab.conn => tab.thread /= "none",
         tabs[i].connection \in open /\ tabs[i].conn /\ tabs[i].thread /= "none" =>
           tab.conn /\ tab.thread /= "none"
  PROVE  IInv'
  <1> USE DEF IInv
  <1>1. TypeOK /\ tabs \in Seq(Tabs)
    BY DEF TypeOK
  <1>2. UNCHANGED <<kind, at, boots, wire, running, starts, reading, backlog, stack_slot,
                    open, arrived>>
    BY DEF clientVars, netVars
  <1>3. /\ tabs' \in Seq(Tabs) /\ Len(tabs') = Len(tabs)
        /\ \A j \in 1..Len(tabs) : tabs'[j] = IF j = i THEN tab ELSE tabs[j]
    BY <1>1, ExceptSeq
  <1>4. TypeOK'
    BY <1>1, <1>2, <1>3 DEF TypeOK
  <1>5. ConnectionsMade' /\ InOnePlace' /\ OwnConfig'
    BY <1>2, <1>3, SameTabs
  <1>6. SilentBefore'
    BY <1>2 DEF SilentBefore
  <1>7. RowsHaveThread'
    BY <1>3 DEF RowsHaveThread
  <1>8. StartedIsRecorded'
    <2> SUFFICES ASSUME NEW c \in Clients, Going(c), <<c, boots[c]>> \in open,
                        kind[c] = "named"
                 PROVE  Recorded(c)'
      BY <1>2 DEF StartedIsRecorded, Going
    <2>1. PICK k \in 1..Len(tabs) : /\ tabs[k].connection = <<c, boots[c]>>
                                    /\ tabs[k].conn
                                    /\ tabs[k].thread /= "none"
      BY DEF StartedIsRecorded, Recorded
    <2>2. CASE k = i
      <3>1. tab.conn /\ tab.thread /= "none" /\ tab.connection = <<c, boots[c]>>
        BY <2>1, <2>2
      <3>2. i \in 1..Len(tabs') /\ tabs'[i] = tab
        BY <1>3
      <3> QED BY <3>1, <3>2, <1>2 DEF Recorded
    <2>3. CASE k /= i
      <3>1. k \in 1..Len(tabs') /\ tabs'[k] = tabs[k]
        BY <2>3, <1>3
      <3> QED BY <3>1, <2>1, <1>2 DEF Recorded
    <2> QED BY <2>2, <2>3
  <1> QED BY <1>4, <1>5, <1>6, <1>7, <1>8

LEMMA MonitorInv ==
  ASSUME IInv, NEW i \in 1..Len(tabs), Monitor(i)
  PROVE  IInv'
  <1>1. TypeOK /\ tabs[i] \in Tabs
    BY Elements DEF IInv
  <1>2. tabs' = [tabs EXCEPT ![i] = Disconnected(tabs[i])]
    BY DEF Monitor
  <1>3. tabs[i].connection \notin open
    BY DEF Monitor, Connected
  <1>4. UNCHANGED <<clientVars, running, machine, starts, reading, backlog, stack_slot,
                    netVars>>
    BY DEF Monitor
  <1> DEFINE tab == Disconnected(tabs[i])
  <1>5. /\ tab \in Tabs
        /\ tab.connection = tabs[i].connection /\ tab.config = tabs[i].config
        /\ tab.conn = FALSE
    BY <1>1, DisconnectedFacts
  <1>6. tabs' = [tabs EXCEPT ![i] = tab]
    BY <1>2
  <1> HIDE DEF tab
  <1> QED BY <1>3, <1>4, <1>5, <1>6, TabChangesInv

LEMMA StoreRowInv ==
  ASSUME IInv, NEW i \in 1..Len(tabs), StoreRow(i)
  PROVE  IInv'
  <1>1. TypeOK /\ tabs[i] \in Tabs
    BY Elements DEF IInv
  <1> DEFINE tab == [tabs[i] EXCEPT !.rows = 1]
  <1>2. tabs' = [tabs EXCEPT ![i] = tab]
    BY DEF StoreRow
  <1>3. UNCHANGED <<clientVars, running, machine, starts, reading, backlog, stack_slot,
                    netVars>>
    BY DEF StoreRow
  <1>4. /\ tab \in Tabs
        /\ tab.connection = tabs[i].connection /\ tab.config = tabs[i].config
        /\ tab.conn = tabs[i].conn /\ tab.thread = tabs[i].thread
    BY <1>1 DEF Tabs
  <1>5. tabs[i].thread /= "none"
    BY DEF StoreRow
  <1> HIDE DEF tab
  <1> QED BY <1>2, <1>3, <1>4, <1>5, TabChangesInv

LEMMA ThreadGivesUpInv ==
  ASSUME IInv, NEW i \in 1..Len(tabs), ThreadGivesUp(i)
  PROVE  IInv'
  <1>1. TypeOK /\ tabs[i] \in Tabs
    BY Elements DEF IInv
  <1> DEFINE tab == [tabs[i] EXCEPT !.thread = "gave_up"]
  <1>2. tabs' = [tabs EXCEPT ![i] = tab]
    BY DEF ThreadGivesUp
  <1>3. UNCHANGED <<clientVars, running, machine, starts, reading, backlog, stack_slot,
                    netVars>>
    BY DEF ThreadGivesUp
  <1>4. /\ tab \in Tabs
        /\ tab.connection = tabs[i].connection /\ tab.config = tabs[i].config
        /\ tab.conn = tabs[i].conn /\ tab.thread /= "none"
    BY <1>1 DEF Tabs
  <1> HIDE DEF tab
  <1> QED BY <1>2, <1>3, <1>4, TabChangesInv

-----------------------------------------------------------------------------
(* The clients, and the network.                                           *)

LEMMA DiscoverInv ==
  ASSUME IInv, NEW c \in Clients, Discover(c)
  PROVE  IInv'
  <1> USE DEF IInv
  <1>1. /\ at[c] = "discover" /\ at' = [at EXCEPT ![c] = "connect"]
        /\ UNCHANGED <<kind, boots, wire, running, starts, reading, backlog, tabs,
                       stack_slot, open, arrived>>
    BY DEF Discover, hostVars, netVars
  <1>2. at \in [Clients -> {"discover", "connect", "waiting", "measuring"}]
    BY DEF TypeOK
  <1>3. TypeOK'
    BY <1>1, <1>2 DEF TypeOK
  <1>4. \A conn \in Connections : Made(conn) => Made(conn)'
    BY <1>1, <1>2 DEF Made, Connections
  <1>5. ConnectionsMade' /\ InOnePlace' /\ OwnConfig' /\ RowsHaveThread'
    BY <1>1, <1>4, SameHost
  <1>6. SilentBefore'
    BY <1>1, <1>2 DEF SilentBefore
  <1>7. StartedIsRecorded'
    <2>1. \A d \in Clients : Going(d)' => Going(d)
      BY <1>1, <1>2 DEF Going
    <2>2. \A d \in Clients : Recorded(d) => Recorded(d)'
      BY <1>1 DEF Recorded
    <2> QED BY <1>1, <2>1, <2>2 DEF StartedIsRecorded
  <1> QED BY <1>3, <1>5, <1>6, <1>7

\* The new connection is in no place yet, and nothing was sent over it.
LEMMA ConnectInv ==
  ASSUME IInv, NEW c \in Clients, Connect(c)
  PROVE  IInv'
  <1> USE DEF IInv
  <1>0. boots[c] \in Nat
    BY DEF TypeOK
  <1> PICK new \in Connections : new = <<c, boots[c]>>
    BY <1>0 DEF Connections
  <1>1. /\ at[c] = "connect" /\ at' = [at EXCEPT ![c] = "waiting"]
        /\ backlog' = Append(backlog, new) /\ open' = open \cup {new}
        /\ UNCHANGED <<kind, boots, wire, running, starts, reading, tabs, stack_slot,
                       arrived>>
    BY DEF Connect, Connection
  <1>2. /\ at \in [Clients -> {"discover", "connect", "waiting", "measuring"}]
        /\ boots \in [Clients -> Nat] /\ backlog \in Seq(Connections) /\ TypeOK
    BY DEF TypeOK
  <1>3. new \in Connections /\ new[1] = c /\ new[2] = boots[c]
    BY <1>2 DEF Connections
  <1>4. ~Made(new)
    BY <1>1, <1>3 DEF Made
  <1>5. /\ backlog' \in Seq(Connections)
        /\ Len(backlog) \in Nat /\ Len(backlog') = Len(backlog) + 1
        /\ \A i \in 1..Len(backlog) : backlog'[i] = backlog[i]
        /\ backlog'[Len(backlog) + 1] = new
    BY <1>1, <1>2, <1>3, AppendFacts
  <1>6. TypeOK'
    BY <1>1, <1>2, <1>3, <1>5 DEF TypeOK
  <1>7. \A conn \in Connections : Made(conn) => Made(conn)'
    BY <1>1, <1>2 DEF Made, Connections
  <1>8. Made(new)'
    BY <1>1, <1>2, <1>3 DEF Made
  <1>9. ConnectionsMade'
    <2>1. reading /= None => reading \in Connections
      BY DEF TypeOK
    <2>2. /\ \A i \in 1..Len(backlog) : backlog[i] \in Connections
          /\ \A i \in 1..Len(tabs) : tabs[i].connection \in Connections
      BY <1>2, Elements
    <2>3. \A i \in 1..Len(backlog') : Made(backlog[i])'
      <3> SUFFICES ASSUME NEW i \in 1..Len(backlog')
                   PROVE  Made(backlog[i])'
        OBVIOUS
      <3>1. CASE i \in 1..Len(backlog)
        <4> PICK conn \in Connections : conn = backlog[i]
          BY <3>1, <2>2
        <4>1. Made(conn)'
          BY <3>1, <1>7 DEF ConnectionsMade
        <4>2. backlog'[i] = conn
          BY <3>1, <1>5
        <4> QED BY <4>1, <4>2
      <3>2. CASE i = Len(backlog) + 1
        <4>1. backlog'[i] = new
          BY <3>2, <1>5
        <4> QED BY <4>1, <1>8
      <3> QED BY <3>1, <3>2, <1>5
    <2>4. (reading /= None => Made(reading)') /\ reading' = reading
      BY <1>1, <1>7, <2>1 DEF ConnectionsMade
    <2>5. \A i \in 1..Len(tabs) : Made(tabs[i].connection)'
      BY <1>1, <1>7, <2>2 DEF ConnectionsMade
    <2> QED BY <1>1, <2>3, <2>4, <2>5 DEF ConnectionsMade
  <1>10. InOnePlace'
    <2>1. /\ \A i \in 1..Len(backlog) : backlog[i] /= new
          /\ reading /= new
          /\ \A i \in 1..Len(tabs) : tabs[i].connection /= new
      <3>1. new /= None
        BY <1>2, <1>3, Elements
      <3> QED BY <3>1, <1>4 DEF ConnectionsMade
    <2>2. \A i, j \in 1..Len(backlog') : backlog'[i] = backlog'[j] => i = j
      BY <2>1, <1>5 DEF InOnePlace
    <2>3. \A i \in 1..Len(backlog') : backlog'[i] /= reading
      BY <2>1, <1>5 DEF InOnePlace
    <2>4. \A i \in 1..Len(tabs), j \in 1..Len(backlog') : tabs[i].connection /= backlog'[j]
      BY <2>1, <1>5 DEF InOnePlace
    <2> QED BY <1>1, <2>2, <2>3, <2>4 DEF InOnePlace
  <1>11. OwnConfig' /\ RowsHaveThread'
    BY <1>1 DEF OwnConfig, RowsHaveThread
  <1>12. SilentBefore'
    BY <1>1, <1>2 DEF SilentBefore
  <1>13. StartedIsRecorded'
    <2> SUFFICES ASSUME NEW d \in Clients, Going(d)', <<d, boots[d]>> \in open',
                        kind[d] = "named"
                 PROVE  Recorded(d)'
      BY <1>1 DEF StartedIsRecorded
    <2>1. wire[c] = <<>> /\ Len(<<>>) = 0
      BY <1>1, EmptySeq DEF SilentBefore
    <2>2. d /= c /\ Going(d)
      BY <1>1, <1>2, <2>1 DEF Going
    <2>3. <<d, boots[d]>> \in open
      BY <2>2, <1>1
    <2>4. Recorded(d)
      BY <2>2, <2>3 DEF StartedIsRecorded
    <2> QED BY <2>4, <1>1 DEF Recorded
  <1> QED BY <1>6, <1>9, <1>10, <1>11, <1>12, <1>13

LEMMA HandshakeArrivesInv ==
  ASSUME IInv, NEW c \in Clients, HandshakeArrives(c)
  PROVE  IInv'
  <1>1. UNCHANGED <<kind, at, boots, wire, running, starts, reading, backlog, tabs,
                    stack_slot, open>>
    BY DEF HandshakeArrives, clientVars, hostVars
  <1>2. arrived' \subseteq Connections
    BY DEF HandshakeArrives, IInv, TypeOK
  <1>3. TypeOK'
    BY <1>1, <1>2 DEF IInv, TypeOK
  <1> QED BY <1>1, <1>3, SameWorld DEF IInv

\* A client reads the first package on the way to it.
LEMMA ReadInv ==
  ASSUME IInv, NEW c \in Clients, wire[c] /= <<>>,
         wire' = [wire EXCEPT ![c] = Tail(@)],
         NEW next \in {"waiting", "measuring"}, at' = [at EXCEPT ![c] = next],
         at[c] \in {"waiting", "measuring"},
         next = "measuring" => at[c] = "measuring" \/ Head(wire[c]) = "SETTINGS",
         UNCHANGED <<kind, boots, host_addr, hostVars, netVars>>
  PROVE  IInv'
  <1> USE DEF IInv
  <1>1. UNCHANGED <<kind, boots, running, starts, reading, backlog, tabs, stack_slot, open,
                    arrived>>
    BY DEF hostVars, netVars
  <1>2. /\ at \in [Clients -> {"discover", "connect", "waiting", "measuring"}]
        /\ wire \in [Clients -> Seq({"SETTINGS", "STOP"})]
        /\ wire[c] \in Seq({"SETTINGS", "STOP"}) /\ TypeOK
    BY DEF TypeOK
  <1>3. /\ Head(wire[c]) = wire[c][1]
        /\ Tail(wire[c]) \in Seq({"SETTINGS", "STOP"})
        /\ Len(wire[c]) \in Nat \ {0} /\ Len(Tail(wire[c])) = Len(wire[c]) - 1
        /\ \A k \in 1..Len(Tail(wire[c])) : Tail(wire[c])[k] = wire[c][k + 1]
    BY <1>2, TailFacts
  <1>4. /\ at' \in [Clients -> {"discover", "connect", "waiting", "measuring"}]
        /\ at'[c] = next /\ \A d \in Clients \ {c} : at'[d] = at[d]
    BY <1>2
  <1>5. /\ wire' \in [Clients -> Seq({"SETTINGS", "STOP"})]
         /\ wire'[c] = Tail(wire[c]) /\ \A d \in Clients \ {c} : wire'[d] = wire[d]
    BY <1>2, <1>3
  <1>6. TypeOK'
    BY <1>1, <1>4, <1>5 DEF TypeOK
  <1>7. \A conn \in Connections : Made(conn) => Made(conn)'
    BY <1>1, <1>2 DEF Made, Connections
  <1>8. ConnectionsMade' /\ InOnePlace' /\ OwnConfig' /\ RowsHaveThread'
    BY <1>1, <1>7, SameHost
  <1>9. SilentBefore'
    BY <1>1, <1>2 DEF SilentBefore
  <1>10. StartedIsRecorded'
    <2>1. \A d \in Clients : Going(d)' => Going(d)
      <3> SUFFICES ASSUME NEW d \in Clients, Going(d)'
                   PROVE  Going(d)
        OBVIOUS
      <3>1. CASE d /= c
        BY <3>1, <1>4, <1>5 DEF Going
      <3>2. CASE d = c
        <4>1. CASE at'[c] = "measuring"
          <5>1. at[c] = "measuring" \/ wire[c][1] = "SETTINGS"
            BY <4>1, <1>4, <1>3
          <5>2. 1 \in 1..Len(wire[c])
            BY <1>3
          <5> QED BY <5>1, <5>2, <3>2 DEF Going
        <4>2. CASE \E k \in 1..Len(Tail(wire[c])) : Tail(wire[c])[k] = "SETTINGS"
          <5>1. PICK k \in 1..Len(Tail(wire[c])) : Tail(wire[c])[k] = "SETTINGS"
            BY <4>2
          <5>2. k + 1 \in 1..Len(wire[c]) /\ wire[c][k + 1] = "SETTINGS"
            BY <5>1, <1>3
          <5> QED BY <5>2, <3>2 DEF Going
        <4> QED BY <3>2, <4>1, <4>2, <1>5 DEF Going
      <3> QED BY <3>1, <3>2
    <2>2. \A d \in Clients : Recorded(d) => Recorded(d)'
      BY <1>1 DEF Recorded
    <2> QED BY <1>1, <2>1, <2>2 DEF StartedIsRecorded
  <1> QED BY <1>6, <1>8, <1>9, <1>10

LEMMA ReadWaitingInv ==
  ASSUME IInv, NEW c \in Clients, ReadWaiting(c)
  PROVE  IInv'
  <1> DEFINE next == IF Head(wire[c]) = "SETTINGS" THEN "measuring" ELSE "waiting"
  <1>1. /\ next \in {"waiting", "measuring"}
        /\ next = "measuring" => Head(wire[c]) = "SETTINGS"
    OBVIOUS
  <1>2. /\ at[c] = "waiting" /\ wire[c] /= <<>>
        /\ at' = [at EXCEPT ![c] = next]
        /\ wire' = [wire EXCEPT ![c] = Tail(@)]
        /\ UNCHANGED <<kind, boots, host_addr, hostVars, netVars>>
    BY DEF ReadWaiting
  <1> HIDE DEF next
  <1> QED BY <1>1, <1>2, ReadInv

\* A client that boots has a new name for its next connection.
LEMMA RebootInv ==
  ASSUME IInv, NEW c \in Clients, Reboot(c)
  PROVE  IInv'
  <1> USE DEF IInv
  <1>1. /\ at' = [at EXCEPT ![c] = "discover"]
        /\ boots' = [boots EXCEPT ![c] = @ + 1]
        /\ wire' = [wire EXCEPT ![c] = <<>>]
        /\ open' \subseteq open
        /\ UNCHANGED <<kind, running, starts, reading, backlog, tabs, stack_slot, arrived>>
    BY DEF Reboot, hostVars
  <1>2. /\ at \in [Clients -> {"discover", "connect", "waiting", "measuring"}]
        /\ boots \in [Clients -> Nat]
        /\ wire \in [Clients -> Seq({"SETTINGS", "STOP"})]
    BY DEF TypeOK
  <1>3. <<>> \in Seq({"SETTINGS", "STOP"}) /\ Len(<<>>) = 0
    BY EmptySeq
  <1>4. TypeOK'
    BY <1>1, <1>2, <1>3 DEF TypeOK
  <1>5. \A conn \in Connections : Made(conn) => Made(conn)'
    <2> SUFFICES ASSUME NEW conn \in Connections, Made(conn)
                 PROVE  Made(conn)'
      OBVIOUS
    <2>1. conn[1] \in Clients /\ conn[2] \in Nat
      BY DEF Connections
    <2>2. CASE conn[1] = c
      <3>1. conn[2] <= boots[c] /\ boots[c] \in Nat /\ boots'[c] = boots[c] + 1
        BY <2>2, <1>1, <1>2 DEF Made
      <3>2. conn[2] <= boots'[c] /\ conn[2] /= boots'[c]
        BY <3>1, <2>1
      <3> QED BY <3>2, <2>2 DEF Made
    <2>3. CASE conn[1] /= c
      <3>1. boots'[conn[1]] = boots[conn[1]] /\ at'[conn[1]] = at[conn[1]]
        BY <2>3, <2>1, <1>1, <1>2
      <3> QED BY <3>1 DEF Made
    <2> QED BY <2>2, <2>3
  <1>6. ConnectionsMade' /\ InOnePlace' /\ OwnConfig' /\ RowsHaveThread'
    BY <1>1, <1>5, SameHost
  <1>7. SilentBefore'
    BY <1>1, <1>2 DEF SilentBefore
  <1>8. StartedIsRecorded'
    <2> SUFFICES ASSUME NEW d \in Clients, Going(d)', <<d, boots'[d]>> \in open',
                        kind[d] = "named"
                 PROVE  Recorded(d)'
      BY <1>1 DEF StartedIsRecorded
    <2>1. d /= c /\ Going(d) /\ boots'[d] = boots[d]
      BY <1>1, <1>2, <1>3 DEF Going
    <2>2. Recorded(d)
      BY <2>1, <1>1 DEF StartedIsRecorded
    <2> QED BY <2>1, <2>2, <1>1 DEF Recorded
  <1> QED BY <1>4, <1>6, <1>7, <1>8

LEMMA ReadMeasuringInv ==
  ASSUME IInv, NEW c \in Clients, ReadMeasuring(c)
  PROVE  IInv'
  <1>1. CASE Reboot(c)
    BY <1>1, RebootInv
  <1>2. CASE /\ wire' = [wire EXCEPT ![c] = Tail(@)]
             /\ UNCHANGED <<kind, at, boots, host_addr, hostVars, netVars>>
    <2>1. at[c] = "measuring" /\ wire[c] /= <<>>
      BY DEF ReadMeasuring
    <2>2. at' = [at EXCEPT ![c] = "measuring"]
      BY <1>2, <2>1 DEF IInv, TypeOK
    <2>3. "measuring" \in {"waiting", "measuring"}
      OBVIOUS
    <2>4. UNCHANGED <<kind, boots, host_addr, hostVars, netVars>>
      BY <1>2
    <2> QED BY <1>2, <2>1, <2>2, <2>3, <2>4, ReadInv
  <1> QED BY <1>1, <1>2 DEF ReadMeasuring

LEMMA LinkFailsInv ==
  ASSUME IInv, NEW c \in Clients, LinkFails(c)
  PROVE  IInv'
  <1>1. /\ open' \subseteq open
        /\ UNCHANGED <<kind, at, boots, wire, running, starts, reading, backlog, tabs,
                       stack_slot, arrived>>
    BY DEF LinkFails, clientVars, hostVars
  <1>2. TypeOK'
    BY <1>1 DEF IInv, TypeOK
  <1>3. ConnectionsMade' /\ InOnePlace' /\ OwnConfig' /\ SilentBefore' /\ RowsHaveThread'
    BY <1>1 DEF IInv, ConnectionsMade, Made, InOnePlace, OwnConfig, SilentBefore,
                RowsHaveThread
  <1>4. StartedIsRecorded'
    BY <1>1 DEF IInv, StartedIsRecorded, Going, Recorded
  <1> QED BY <1>2, <1>3, <1>4 DEF IInv

-----------------------------------------------------------------------------
LEMMA NextInv == IInv /\ [Next]_vars => IInv'
  <1> SUFFICES ASSUME IInv, [Next]_vars
               PROVE  IInv'
    OBVIOUS
  <1>0. DOMAIN tabs = 1..Len(tabs)
    BY Elements DEF IInv
  <1>1. ASSUME NEW m \in Machines, HostStarts(m) PROVE IInv'
    BY <1>1, HostStartsInv
  <1>2. CASE on_close_clicked
    BY <1>2, ExitInv DEF on_close_clicked
  <1>3. CASE Incoming
    BY <1>3, IncomingInv
  <1>4. CASE HandshakeTimesOut
    BY <1>4, HandshakeTimesOutInv
  <1>5. CASE Register
    BY <1>5, RegisterInv
  <1>6. CASE RegisterOther
    BY <1>6, RegisterOtherInv
  <1>7. ASSUME NEW selected \in {DOMAIN tabs} \cup {{i} : i \in DOMAIN tabs},
               Start(selected) \/ Stop(selected)
        PROVE  IInv'
    <2>1. selected \in SUBSET (1..Len(tabs))
      BY <1>0
    <2> QED BY <1>7, <2>1, StartInv, StopInv
  <1>8. ASSUME NEW i \in DOMAIN tabs, RemoveClient(i) \/ Monitor(i) \/ StoreRow(i) \/ ThreadGivesUp(i)
        PROVE  IInv'
    <2>1. i \in 1..Len(tabs)
      BY <1>0
    <2> QED BY <1>8, <2>1, RemoveClientInv, MonitorInv, StoreRowInv, ThreadGivesUpInv
  <1>9. ASSUME NEW c \in Clients,
               \/ Discover(c) \/ Connect(c) \/ HandshakeArrives(c) \/ ReadWaiting(c)
               \/ ReadMeasuring(c) \/ Restart(c) \/ LinkFails(c)
        PROVE  IInv'
    BY <1>9, DiscoverInv, ConnectInv, HandshakeArrivesInv, ReadWaitingInv,
       ReadMeasuringInv, RebootInv, LinkFailsInv DEF Restart
  <1>10. CASE UNCHANGED vars
    <2>1. TypeOK'
      BY <1>10 DEF IInv, TypeOK, vars, clientVars, hostVars, netVars
    <2>2. UNCHANGED <<kind, at, boots, wire, reading, backlog, tabs, open>>
      BY <1>10 DEF vars, clientVars, hostVars, netVars
    <2> QED BY <2>1, <2>2, SameWorld DEF IInv
  <1> QED BY <1>1, <1>2, <1>3, <1>4, <1>5, <1>6, <1>7, <1>8, <1>9, <1>10 DEF Next

\* The inductive invariant holds in every reachable state.
THEOREM Invariance == Spec => []IInv
  BY InitInv, NextInv, PTL DEF Spec

\* The types of the clients', the host's and the network's variables, for any
\* number of clients, boots, starts of the host and packages.
THEOREM TypeCorrect == Spec => []TypeOK
  BY Invariance, PTL DEF IInv

\* A tab has the config of the client at the other end of its connection, and
\* no two tabs share a connection, whatever the order in which on_client_incoming
\* gets to the clients.
THEOREM OwnTab == Spec => []TabHasOwnConfig
  <1>1. IInv => TabHasOwnConfig
    <2> SUFFICES ASSUME IInv
                 PROVE  TabHasOwnConfig
      OBVIOUS
    <2>1. DOMAIN tabs = 1..Len(tabs)
      BY Elements DEF IInv
    <2>2. OwnConfig /\ InOnePlace
      BY DEF IInv
    <2> QED BY <2>1, <2>2 DEF TabHasOwnConfig, OwnConfig, InOnePlace, ClientOf
  <1> QED BY <1>1, Invariance, PTL

\* A client that measures over an open connection has a tab with a thread that
\* reads it, or gave up for lack of pages or memory, however Start, Stop, Start
\* All, Stop All, Remove Client, lost links and power cycles follow each other.
THEOREM MeasuringHasThread == Spec => []MeasuringIsRecorded
  <1>1. IInv => MeasuringIsRecorded
    <2> SUFFICES ASSUME IInv
                 PROVE  MeasuringIsRecorded
      OBVIOUS
    <2>1. DOMAIN tabs = 1..Len(tabs)
      BY Elements DEF IInv
    <2>2. StartedIsRecorded
      BY DEF IInv
    <2> QED BY <2>1, <2>2 DEF MeasuringIsRecorded, StartedIsRecorded, Going, Recorded, Connection
  <1> QED BY <1>1, Invariance, PTL

-----------------------------------------------------------------------------
(* Where the host announces itself.                                        *)

\* A nonempty set of naturals has a least member.
LEMMA LeastNatural ==
  ASSUME NEW S, S \subseteq Nat, S /= {}
  PROVE  \E m \in S : \A n \in S : m <= n
  <1>1. PICK m \in S : \A n \in S : <<n, m>> \notin OpToRel(<, Nat)
    BY NatLessThanWellFounded, WFMin, Zenon
  <1>2. \A n \in S : <<n, m>> \in Nat \X Nat /\ <<n, m>>[1] = n /\ <<n, m>>[2] = m
    OBVIOUS
  <1>3. \A n \in S : ~ (n < m)
    BY <1>1, <1>2, Zenon DEF OpToRel
  <1> QED BY <1>3

\* A place names an adapter and one of its addresses.
LEMMA PlaceFacts ==
  ASSUME NEW adapters \in Adapters, NEW p \in Places(adapters)
  PROVE  /\ p \in Nat \X Nat
         /\ Address(adapters, p) \in [1..4 -> Octets]
  <1>1. PICK i \in DOMAIN adapters : p \in {<<i, j>> : j \in DOMAIN adapters[i].addresses}
    BY DEF Places
  <1>2. PICK j \in DOMAIN adapters[i].addresses : p = <<i, j>>
    BY <1>1
  <1>3. /\ i \in Nat
        /\ adapters[i] \in [up : BOOLEAN, wireless : BOOLEAN, addresses : Seq([1..4 -> Octets])]
    <2> DEFINE A == [up : BOOLEAN, wireless : BOOLEAN, addresses : Seq([1..4 -> Octets])]
    <2>1. adapters \in Seq(A)
      BY DEF Adapters
    <2> HIDE DEF A
    <2>2. DOMAIN adapters = 1..Len(adapters) /\ Len(adapters) \in Nat /\ adapters[i] \in A
      BY <2>1
    <2> QED BY <2>2 DEF A
  <1>4. adapters[i].addresses \in Seq([1..4 -> Octets])
    BY <1>3
  <1>5. j \in Nat /\ adapters[i].addresses[j] \in [1..4 -> Octets]
    <2> DEFINE B == [1..4 -> Octets]
               b == adapters[i].addresses
    <2>1. b \in Seq(B) /\ j \in DOMAIN b
      BY <1>4
    <2> HIDE DEF B, b
    <2>2. j \in Nat /\ b[j] \in B
      BY <2>1
    <2> QED BY <2>2 DEF B, b
  <1> QED BY <1>2, <1>3, <1>5 DEF Address

\* Of some places one is the first.
LEMMA FirstIsOne ==
  ASSUME NEW adapters \in Adapters, NEW places,
         places \subseteq Places(adapters), places /= {}
  PROVE  First(places) \in places
  <1> DEFINE I == {i \in Nat : \E j \in Nat : <<i, j>> \in places}
  <1>1. \A p \in places : p \in Nat \X Nat /\ p = <<p[1], p[2]>> /\ p[1] \in Nat /\ p[2] \in Nat
    BY PlaceFacts
  <1>2. PICK i \in I : \A k \in I : i <= k
    <2>1. I /= {} /\ I \subseteq Nat
      BY <1>1
    <2> HIDE DEF I
    <2> QED BY <2>1, LeastNatural
  <1> DEFINE J == {j \in Nat : <<i, j>> \in places}
  <1>3. PICK j \in J : \A k \in J : j <= k
    <2>1. J /= {} /\ J \subseteq Nat
      BY <1>2
    <2> HIDE DEF J
    <2> QED BY <2>1, LeastNatural
  <1>4. <<i, j>> \in places
    BY <1>3
  <1>5. ASSUME NEW q \in places
        PROVE  Before(<<i, j>>, q)
    <2>1. q = <<q[1], q[2]>> /\ q[1] \in Nat /\ q[2] \in Nat /\ i \in Nat /\ j \in Nat
      BY <1>1, <1>2, <1>3
    <2>2. q[1] \in I
      BY <2>1
    <2>3. q[1] = i => q[2] \in J
      BY <2>1
    <2>4. i < q[1] \/ (i = q[1] /\ j <= q[2])
      BY <1>2, <1>3, <2>1, <2>2, <2>3
    <2> QED BY <2>4 DEF Before
  <1>6. \E p \in places : \A q \in places : Before(p, q)
    BY <1>4, <1>5
  <1> QED BY <1>6 DEF First

\* A pass that finds something returns the address of one of its places.
LEMMA PassFinds ==
  ASSUME NEW adapters \in Adapters, NEW places, places \subseteq Places(adapters),
         NEW otherwise
  PROVE  /\ places = {} => FirstOr(adapters, places, otherwise) = otherwise
         /\ places /= {} => \E p \in places :
                              FirstOr(adapters, places, otherwise) = Address(adapters, p)
  BY FirstIsOne DEF FirstOr

\* Whether an address is private depends on its network.
LEMMA PrivateByNetwork ==
  ASSUME NEW a, NEW b, Network(a) = Network(b)
  PROVE  is_private_ip(a) <=> is_private_ip(b)
  <1>1. a[1] = b[1] /\ a[2] = b[2]
    BY DEF Network
  <1> QED BY <1>1 DEF is_private_ip

\* A sequence of three with one more.
LEMMA OneMore ==
  ASSUME NEW S, NEW a \in Seq(S), NEW b \in Seq(S), NEW c \in Seq(S),
         Len(a) = 3, Len(b) = 1, Len(c) = 4,
         a[1] = c[1], a[2] = c[2], a[3] = c[3], b[1] = c[4]
  PROVE  a \o b = c
  <1>1. a \o b \in Seq(S)
    BY ConcatProperties, Zenon
  <1>2. Len(a \o b) = Len(a) + Len(b)
    BY ConcatProperties, Zenon
  <1>3. \A i \in 1..(Len(a) + Len(b)) :
          (a \o b)[i] = IF i <= Len(a) THEN a[i] ELSE b[i - Len(a)]
    BY ConcatProperties, Zenon
  <1> DEFINE d == a \o b
  <1>4. /\ d \in Seq(S) /\ Len(d) = 4
        /\ \A i \in 1..4 : d[i] = IF i <= 3 THEN a[i] ELSE b[i - 3]
    BY <1>1, <1>2, <1>3
  <1> HIDE DEF d
  <1>5. d[1] = a[1] /\ d[2] = a[2] /\ d[3] = a[3] /\ d[4] = b[1]
    BY <1>4
  <1>6. Len(d) = Len(c) /\ \A i \in 1..Len(d) : d[i] = c[i]
    BY <1>4, <1>5
  <1>7. d = c
    BY <1>4, <1>6, SeqEqual, Zenon
  <1> QED BY <1>7 DEF d

\* The broadcast address of a network of 24 bits.
LEMMA BroadcastOfNetwork ==
  ASSUME NEW ip \in [1..4 -> Octets]
  PROVE  compute_broadcast(ip) = Network(ip) \o <<255>>
  <1> DEFINE c == compute_broadcast(ip)
             a == Network(ip)
             b == <<255>>
  <1>1. /\ c \in Seq(Octets) /\ Len(c) = 4
        /\ c[1] = ip[1] /\ c[2] = ip[2] /\ c[3] = ip[3] /\ c[4] = 255
    <2>1. c = <<ip[1], ip[2], ip[3], 255>>
      BY DEF compute_broadcast, Octets
    <2> QED BY <2>1 DEF Octets
  <1>2. /\ a \in Seq(Octets) /\ Len(a) = 3 /\ a[1] = ip[1] /\ a[2] = ip[2] /\ a[3] = ip[3]
        /\ b \in Seq(Octets) /\ Len(b) = 1 /\ b[1] = 255
    BY DEF Network, Octets
  <1> HIDE DEF a, b, c
  <1>3. a[1] = c[1] /\ a[2] = c[2] /\ a[3] = c[3] /\ b[1] = c[4]
    BY <1>1, <1>2
  <1>4. a \o b = c
    BY <1>1, <1>2, <1>3, OneMore, ZenonT(30)
  <1> QED BY <1>4 DEF a, b, c

\* The adapters of a machine the host may run on.
LEMMA MachineFacts ==
  ASSUME machine \in Machines
  PROVE  machine.adapters \in Adapters /\ ClientNet \in [1..3 -> Octets]
  BY RegistrationAssumption, Zenon

\* An address of the adapters on the clients' network.
OnTheirNet(adapters, a) ==
  \E p \in Places(adapters) : a = Address(adapters, p) /\ Network(a) = ClientNet

\* A pass over addresses on the clients' network returns one, or goes on to one.
LEMMA PassOver ==
  ASSUME NEW adapters \in Adapters, NEW places, places \subseteq Places(adapters),
         \A p \in places : Network(Address(adapters, p)) = ClientNet,
         NEW otherwise, places /= {} \/ OnTheirNet(adapters, otherwise)
  PROVE  OnTheirNet(adapters, FirstOr(adapters, places, otherwise))
  <1>1. CASE places = {}
    <2>1. FirstOr(adapters, places, otherwise) = otherwise
      BY <1>1, PassFinds
    <2> QED BY <1>1, <2>1
  <1>2. CASE places /= {}
    <2>1. PICK p \in places : FirstOr(adapters, places, otherwise) = Address(adapters, p)
      BY <1>2, PassFinds
    <2> QED BY <2>1 DEF OnTheirNet
  <1> QED BY <1>1, <1>2

\* What the two conditions of the property have in common: the search ends at an
\* address on the clients' network.
LEMMA SearchFinds ==
  ASSUME machine \in Machines, HostAddresses /= {},
         \/ PrivateNetworks = {ClientNet} /\ ClientNet /= VirtualBox
         \/ machine.os = "windows" /\ ClientNet = WindowsHotspot
  PROVE  \E p \in Places(machine.adapters) :
           /\ detect_hotspot_ip(machine) = Address(machine.adapters, p)
           /\ Network(Address(machine.adapters, p)) = ClientNet
  <1> DEFINE adapters == machine.adapters
             up       == UpPlaces(adapters)
             hotspot  == {p \in up : Network(Address(adapters, p)) = WindowsHotspot}
             wireless == Private(adapters, {p \in up : adapters[p[1]].wireless})
             fallback == Private(adapters,
                           {p \in up : Network(Address(adapters, p)) /= VirtualBox})
             all      == Private(adapters, Places(adapters))
             third    == FirstOr(adapters, fallback, Limited)
             second   == FirstOr(adapters, wireless, third)
             first    == FirstOr(adapters, hotspot, second)
             Good(a)  == OnTheirNet(adapters, a)
  <1>1. adapters \in Adapters
    BY MachineFacts
  <1>2. PICK h \in up : Network(Address(adapters, h)) = ClientNet
    BY DEF HostAddresses, UpAddresses
  <1>3. /\ hotspot \subseteq Places(adapters) /\ wireless \subseteq Places(adapters)
        /\ fallback \subseteq Places(adapters) /\ all \subseteq Places(adapters)
        /\ h \in Places(adapters)
    BY <1>2 DEF UpPlaces, Private
  <1>4. detect_on_windows(adapters) = first /\ detect_on_linux(adapters)
          = FirstOr(adapters, all, Limited)
    BY DEF detect_on_windows, detect_on_linux
  <1>6. CASE machine.os = "windows" /\ ClientNet = WindowsHotspot
    <2>1. h \in hotspot /\ \A p \in hotspot : Network(Address(adapters, p)) = ClientNet
      BY <1>2, <1>6
    <2>2. Good(first)
      <3> HIDE DEF hotspot, second, adapters
      <3> QED BY <1>1, <1>3, <2>1, PassOver
    <2>3. detect_hotspot_ip(machine) = first
      BY <1>4, <1>6 DEF detect_hotspot_ip
    <2> QED BY <2>2, <2>3 DEF OnTheirNet
  <1>7. CASE PrivateNetworks = {ClientNet} /\ ClientNet /= VirtualBox
    <2>1. \A p \in Places(adapters) : is_private_ip(Address(adapters, p)) =>
            Network(Address(adapters, p)) = ClientNet
      BY <1>7 DEF PrivateNetworks, Addresses
    <2>2. is_private_ip(Address(adapters, h))
      <3>1. PICK a : is_private_ip(a) /\ Network(a) = ClientNet
        BY <1>7 DEF PrivateNetworks
      <3> QED BY <1>2, <3>1, PrivateByNetwork
    <2>3. \A p \in hotspot : Network(Address(adapters, p)) = ClientNet
      <3> SUFFICES ASSUME NEW p \in hotspot
                   PROVE  Network(Address(adapters, p)) = ClientNet
        OBVIOUS
      <3>1. Network(Address(adapters, p)) = <<192, 168, 137>>
        BY DEF WindowsHotspot
      <3>2. Address(adapters, p)[1] = 192 /\ Address(adapters, p)[2] = 168
        BY <3>1 DEF Network
      <3>3. is_private_ip(Address(adapters, p))
        BY <3>2 DEF is_private_ip
      <3> QED BY <1>3, <2>1, <3>3
    <2>4. /\ \A p \in wireless : Network(Address(adapters, p)) = ClientNet
          /\ \A p \in fallback : Network(Address(adapters, p)) = ClientNet
          /\ \A p \in all : Network(Address(adapters, p)) = ClientNet
      BY <1>3, <2>1 DEF Private
    <2>5. h \in fallback /\ h \in all
      BY <1>2, <1>3, <1>7, <2>2 DEF Private
    <2>6. Good(first) /\ Good(FirstOr(adapters, all, Limited))
      <3> HIDE DEF hotspot, wireless, fallback, all, adapters
      <3>1. Good(third)
        BY <1>1, <1>3, <2>4, <2>5, PassOver
      <3> HIDE DEF third
      <3>2. Good(second)
        BY <1>1, <1>3, <2>4, <3>1, PassOver
      <3> HIDE DEF second
      <3>3. Good(first)
        BY <1>1, <1>3, <2>3, <3>2, PassOver
      <3>4. Good(FirstOr(adapters, all, Limited))
        BY <1>1, <1>3, <2>4, <2>5, PassOver
      <3> QED BY <3>3, <3>4
    <2>7. detect_hotspot_ip(machine) \in {first, FirstOr(adapters, all, Limited)}
      BY <1>4 DEF detect_hotspot_ip
    <2> QED BY <2>6, <2>7 DEF OnTheirNet
  <1> QED BY <1>6, <1>7

\* The machine is one the host may run on, from its first start.
HostOn == running => machine \in Machines

LEMMA HostOnInvariant == Spec => []HostOn
  <1>1. Init => HostOn
    BY DEF Init, HostOn
  <1>2. HostOn /\ [Next]_vars => HostOn'
    <2> SUFFICES ASSUME HostOn, [Next]_vars
                 PROVE  HostOn'
      OBVIOUS
    <2>1. ASSUME NEW m \in Machines, HostStarts(m)
          PROVE  HostOn'
      BY <2>1 DEF HostStarts, HostOn
    <2>2. CASE on_close_clicked
      BY <2>2 DEF on_close_clicked, Exit, HostOn
    <2>3. CASE RegisterOther
      BY <2>3 DEF RegisterOther, AssignTab, Exit, HostOn
    <2>4. CASE Incoming \/ HandshakeTimesOut \/ Register
      BY <2>4 DEF Incoming, HandshakeTimesOut, Register, AssignTab, HostOn
    <2>5. ASSUME NEW selected, Start(selected) \/ Stop(selected)
          PROVE  HostOn'
      BY <2>5 DEF Start, Stop, HostOn
    <2>6. ASSUME NEW i, RemoveClient(i) \/ Monitor(i) \/ StoreRow(i) \/ ThreadGivesUp(i)
          PROVE  HostOn'
      BY <2>6 DEF RemoveClient, Monitor, StoreRow, ThreadGivesUp, HostOn
    <2>7. ASSUME NEW c \in Clients,
                 \/ Discover(c) \/ Connect(c) \/ HandshakeArrives(c) \/ ReadWaiting(c)
                 \/ ReadMeasuring(c) \/ Restart(c) \/ LinkFails(c)
          PROVE  HostOn'
      <3>1. UNCHANGED <<running, machine>>
        BY <2>7 DEF Discover, Connect, HandshakeArrives, ReadWaiting, ReadMeasuring,
                    Restart, Reboot, LinkFails, hostVars
      <3> QED BY <3>1 DEF HostOn
    <2>8. CASE UNCHANGED vars
      BY <2>8 DEF vars, hostVars, HostOn
    <2> QED BY <2>1, <2>2, <2>3, <2>4, <2>5, <2>6, <2>7, <2>8 DEF Next
  <1> QED BY <1>1, <1>2, PTL DEF Spec

\* On a machine whose only private network is the clients', or with Windows' own
\* hotspot, detect_hotspot_ip leads to the clients' network, whatever other
\* adapters the machine has and in whatever order it lists them.
THEOREM AnnouncesToHotspot == Spec => []BroadcastReachesHotspot
  <1>1. HostOn => BroadcastReachesHotspot
    <2> SUFFICES ASSUME HostOn, running, HostAddresses /= {},
                        \/ PrivateNetworks = {ClientNet} /\ ClientNet /= VirtualBox
                        \/ machine.os = "windows" /\ ClientNet = WindowsHotspot
                 PROVE  broadcast_ip = ClientNet \o <<255>>
      BY DEF BroadcastReachesHotspot
    <2>1. machine \in Machines
      BY DEF HostOn
    <2>2. PICK p \in Places(machine.adapters) :
                 /\ detect_hotspot_ip(machine) = Address(machine.adapters, p)
                 /\ Network(Address(machine.adapters, p)) = ClientNet
      BY <2>1, SearchFinds, Zenon
    <2>3. Address(machine.adapters, p) \in [1..4 -> Octets]
      BY <2>1, MachineFacts, PlaceFacts
    <2>4. compute_broadcast(Address(machine.adapters, p)) = ClientNet \o <<255>>
      BY <2>2, <2>3, BroadcastOfNetwork
    <2> QED BY <2>2, <2>4 DEF broadcast_ip
  <1> QED BY <1>1, HostOnInvariant, PTL
=============================================================================
