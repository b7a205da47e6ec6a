---------------------------- MODULE FrameStream ----------------------------
(***************************************************************************)
(* The byte stream between the host and a client, in one direction.        *)
(*                                                                         *)
(* To the client, two threads of the host send into one socket without a   *)
(* lock: the GUI thread a PING every five seconds, in two sends (header,   *)
(* payload), SETTINGS and STOP in one send each, and the measurement       *)
(* thread a TIMESTAMP in one send.  To the host, the one task of the       *)
(* client writes: its HANDSHAKE in two writes, then echoes and data, and   *)
(* never looks at what write returns.                                      *)
(*                                                                         *)
(* Each side takes the stream apart again: a header, then as many bytes of *)
(* payload as the header says, either with a timeout after which what was  *)
(* read is dropped.  The client takes one byte at a time, the host what is *)
(* there.                                                                  *)
(*                                                                         *)
(* A header is two bytes here, the type and the size (four bytes in the    *)
(* code); payloads are short.                                              *)
(***************************************************************************)
EXTENDS Integers, Sequences, SequencesExt

CONSTANTS
  Directions,      \* of the streams looked at: "to_client", "to_host"
  PingSize,        \* payload of a PING, 16 zero bytes in the code
  TimestampSize,   \* payload of a TIMESTAMP, sizeof(struct timespec)
  MaxFrames        \* bound: frames sent

ASSUME FrameAssumption ==
  /\ Directions \subseteq {"to_client", "to_host"}
  /\ PingSize \in Nat \ {0} /\ TimestampSize \in Nat \ {0} /\ MaxFrames \in Nat

PING      == 0
STOP      == 1
SETTINGS  == 2
DATA      == 3
TIMESTAMP == 4
HANDSHAKE == 5
HeaderSize == 2

VARIABLES
  direction,
  wire,         \* bytes sent and not yet read
  sending,      \* "idle", or "payload": the header of a PING or HANDSHAKE is out
  closed,       \* disconnect_client closed the socket
  part,         \* what the receiver reads: "header" or "payload"
  buf,          \* bytes of that part read so far
  header,       \* the header of the payload being read
  frames,       \* frames the sender began to send, in the order of the socket
  packages,     \* packages read
  split,        \* a frame went out between header and payload of a ping
  cut,          \* a frame was sent in part, and the sender went on
  torn          \* a read failed with bytes already taken

sender == <<direction, sending, closed, frames, split, cut>>
reader == <<part, buf, header, packages, torn>>
vars == <<wire, sender, reader>>

Frame(type, payload) == [type |-> type, payload |-> payload]

\* Mutation: the size counts the header.
HeaderOfFrameSize(frame) == <<frame.type, HeaderSize + Len(frame.payload)>>

Header(frame) == <<frame.type, Len(frame.payload)>>
Bytes(frame)  == Header(frame) \o frame.payload

Ping      == Frame(PING, [i \in 1..PingSize |-> 0])
Timestamp == Frame(TIMESTAMP, [i \in 1..TimestampSize |-> 1])    \* the time, not 0
Settings  == Frame(SETTINGS, <<1>>)
Stop      == Frame(STOP, <<>>)
Handshake == Frame(HANDSHAKE, <<2, 2>>)
Echo      == Frame(TIMESTAMP, Append(Timestamp.payload, 3))
Data      == Frame(DATA, <<4>>)

NoHeader == <<>>

-----------------------------------------------------------------------------
\* To the client, it shook hands; to the host, it just connected.
Init ==
  /\ direction \in Directions
  /\ wire = <<>>
  /\ sending = "idle"
  /\ closed = FALSE
  /\ part = "header"
  /\ buf = <<>>
  /\ header = NoHeader
  /\ frames = <<>>
  /\ packages = <<>>
  /\ split = FALSE /\ cut = FALSE /\ torn = FALSE

-----------------------------------------------------------------------------
(* The host sends.  A send takes the first n of the bytes; all of them, as *)
(* a rule.                                                                 *)

Send(bytes, n) == wire' = wire \o SubSeq(bytes, 1, n)

NextFrame(frame) ==
  /\ ~closed
  /\ Len(frames) < MaxFrames
  /\ frames' = Append(frames, frame)

\* monitor_client_connection: the header; a failure disconnects.
SendPingHeader ==
  /\ direction = "to_client"
  /\ sending = "idle"
  /\ NextFrame(Ping)
  /\ \E n \in 0..HeaderSize :
       /\ Send(Header(Ping), n)
       /\ sending' = IF n = HeaderSize THEN "payload" ELSE "idle"
       /\ closed' = (n < HeaderSize)
  /\ UNCHANGED <<direction, split, cut, reader>>

\* ... and the payload, in whatever state the connection is by now.
SendPingPayload ==
  /\ direction = "to_client"
  /\ sending = "payload"
  /\ sending' = "idle"
  /\ \E n \in 0..PingSize :
       /\ closed => n = 0
       /\ Send(Ping.payload, n)
       /\ closed' = (n < PingSize)
  /\ UNCHANGED <<direction, frames, split, cut, reader>>

\* measurement_thread_func; a failure disconnects.
SendTimestamp ==
  /\ direction = "to_client"
  /\ NextFrame(Timestamp)
  /\ \E n \in 0..(HeaderSize + TimestampSize) :
       /\ Send(Bytes(Timestamp), n)
       /\ closed' = (n < HeaderSize + TimestampSize)
       /\ split' = (split \/ (sending = "payload" /\ n > 0))
  /\ UNCHANGED <<direction, sending, cut, reader>>

\* A frame in one send whose failure is at most reported.  When nothing was
\* sent there is no frame.
SendUnwatched(frame) ==
  /\ sending = "idle"
  /\ ~closed
  /\ Len(frames) < MaxFrames
  /\ \E n \in 0..Len(Bytes(frame)) :
       /\ Send(Bytes(frame), n)
       /\ frames' = IF n > 0 THEN Append(frames, frame) ELSE frames
       /\ cut' = (cut \/ n \in 1..(Len(Bytes(frame)) - 1))
  /\ UNCHANGED <<direction, sending, closed, split, reader>>

\* send_settings_to_client
SendSettings == direction = "to_client" /\ SendUnwatched(Settings)

\* on_stop_btn_clicked: disconnects in any case.
SendStop ==
  /\ direction = "to_client"
  /\ sending = "idle"
  /\ NextFrame(Stop)
  /\ \E n \in 0..HeaderSize : Send(Bytes(Stop), n)
  /\ closed' = TRUE
  /\ UNCHANGED <<direction, sending, split, cut, reader>>

-----------------------------------------------------------------------------
(* The client sends.                                                       *)

\* sendHandshakePackage: the header, once ...
SendHandshakeHeader ==
  /\ direction = "to_host"
  /\ frames = <<>>
  /\ sending = "idle"
  /\ NextFrame(Handshake)
  /\ \E n \in 0..HeaderSize :
       /\ Send(Header(Handshake), n)
       /\ cut' = (cut \/ n < HeaderSize)
  /\ sending' = "payload"
  /\ UNCHANGED <<direction, closed, split, reader>>

\* ... and the payload, whatever became of the header.
SendHandshakePayload ==
  /\ direction = "to_host"
  /\ sending = "payload"
  /\ sending' = "idle"
  /\ \E n \in 0..Len(Handshake.payload) :
       /\ Send(Handshake.payload, n)
       /\ cut' = (cut \/ n < Len(Handshake.payload))
  /\ UNCHANGED <<direction, closed, frames, split, reader>>

\* respondWithTimestampPackage, which sends nothing without memory, and the
\* DATA packages of the loop.
SendEcho == direction = "to_host" /\ frames /= <<>> /\ SendUnwatched(Echo)
SendData == direction = "to_host" /\ frames /= <<>> /\ SendUnwatched(Data)

-----------------------------------------------------------------------------
(* Reading: readTcpPackage with readBytes, read_tcp_package with           *)
(* read_bytes.                                                             *)

\* Mutation: the loop runs while read_so_far <= n.
NeedOneMore == IF part = "header" THEN HeaderSize + 1 ELSE header[2] + 1

Need == IF part = "header" THEN HeaderSize ELSE header[2]

\* How many bytes one call of read or g_socket_receive can return.
Chunks ==
  IF wire = <<>> THEN {}
  ELSE IF direction = "to_client" THEN {1}
  ELSE {n \in 1..Len(wire) : n <= Need - Len(buf)}

Taken(n)  == buf \o SubSeq(wire, 1, n)
Rest(n)   == SubSeq(wire, n + 1, Len(wire))

\* The function returns true.
Deliver(type, payload) ==
  /\ packages' = Append(packages, Frame(type, payload))
  /\ part' = "header"
  /\ header' = NoHeader

\* The function returns false; the next call begins with a header.
Fail(bytes) ==
  /\ part' = "header"
  /\ buf' = <<>>
  /\ header' = NoHeader
  /\ torn' = (torn \/ part = "payload" \/ bytes /= <<>>)
  /\ UNCHANGED packages

\* Some bytes, and there must be more.
TakeBytes ==
  /\ \E n \in Chunks :
       /\ Len(Taken(n)) < Need
       /\ buf' = Taken(n)
       /\ wire' = Rest(n)
  /\ UNCHANGED <<sender, part, header, packages, torn>>

\* The last bytes of a header: of a package without payload, or of one whose
\* payload is to be read.
TakeHeader ==
  /\ part = "header"
  /\ \E n \in Chunks :
       /\ Len(Taken(n)) = Need
       /\ IF Taken(n)[2] = 0
            THEN Deliver(Taken(n)[1], <<>>)
            ELSE part' = "payload" /\ header' = Taken(n) /\ UNCHANGED packages
       /\ wire' = Rest(n)
  /\ buf' = <<>>
  /\ UNCHANGED <<sender, torn>>

TakePayload ==
  /\ part = "payload"
  /\ \E n \in Chunks :
       /\ Len(Taken(n)) = Need
       /\ Deliver(header[1], Taken(n))
       /\ wire' = Rest(n)
  /\ buf' = <<>>
  /\ UNCHANGED <<sender, torn>>

\* The time passed.  The host looks at the clock before it looks for bytes; an
\* error of the socket makes it loop until then, and the end of the stream
\* ends the call at once.
TimeoutWaiting ==
  /\ wire = <<>> \/ direction = "to_host"
  /\ Fail(buf)
  /\ UNCHANGED <<wire, sender>>

\* The client looks at the clock after a byte was taken, the last one included.
TimeoutAfterByte ==
  /\ direction = "to_client"
  /\ \E n \in Chunks : Fail(Taken(n)) /\ wire' = Rest(n)
  /\ UNCHANGED sender

\* The client has no memory for the payload.
AllocationFails ==
  /\ direction = "to_client"
  /\ part = "payload"
  /\ buf = <<>>
  /\ Fail(buf)
  /\ UNCHANGED <<wire, sender>>

-----------------------------------------------------------------------------
Host == SendPingHeader \/ SendPingPayload \/ SendTimestamp \/ SendSettings \/ SendStop

Client == SendHandshakeHeader \/ SendHandshakePayload \/ SendEcho \/ SendData

Reader == \/ TakeBytes \/ TakeHeader \/ TakePayload
          \/ TimeoutWaiting \/ TimeoutAfterByte \/ AllocationFails

Next == Host \/ Client \/ Reader

\* A measuring client and the measurement thread call their reading function
\* again and again, and it takes what is there.
Fairness == WF_vars(TakeBytes \/ TakeHeader \/ TakePayload)

Spec == Init /\ [][Next]_vars /\ Fairness

-----------------------------------------------------------------------------
Byte == Nat

\* The types of the variables of the stream.
TypeOK ==
  /\ direction \in Directions
  /\ wire \in Seq(Byte)
  /\ sending \in {"idle", "payload"}
  /\ part \in {"header", "payload"}
  /\ buf \in Seq(Byte)
  /\ header \in Seq(Byte)
  /\ frames \in Seq([type : Byte, payload : Seq(Byte)])
  /\ packages \in Seq([type : Byte, payload : Seq(Byte)])
  /\ {closed, split, cut, torn} \subseteq BOOLEAN

intact == ~split /\ ~cut /\ ~torn

\* Both streams keep the promise of PackageChannel, however the bytes are
\* grouped, through idle timeouts and failed sends, until a ping is split, a
\* frame cut, or a read fails half-way.
Channel == INSTANCE PackageChannel WITH
  sent <- frames, delivered <- packages,
  Package <- {Ping, Timestamp, Settings, Stop, Handshake, Echo, Data}
ImplementsChannel == Channel!Spec

\* A frame that was sent is read at last, unless the stream broke before or
\* the host closed it.
FramesArrive ==
  \A k \in 1..MaxFrames :
    (Len(frames) = k /\ sending = "idle") ~> (Len(packages) >= k \/ closed \/ ~intact)
=============================================================================
