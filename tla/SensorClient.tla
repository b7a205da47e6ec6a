---------------------------- MODULE SensorClient ----------------------------
(***************************************************************************)
(* The firmware of a measuring client (Sync_Client, HEX32, FSR): the send  *)
(* task connects, shakes hands, waits for SETTINGS, starts the acquisition *)
(* task, and then, in a loop, handles the packages of the host and sends   *)
(* blocks of BUFFERSIZE samples out of a queue the acquisition task fills. *)
(* The example (basic_complete_example) does all of it in one task, which  *)
(* makes up the samples of a block when it sends it.  Every end is a       *)
(* restart of the device, which connects anew.                             *)
(*                                                                         *)
(* The host is its part of the protocol: SETTINGS when Start is pressed,   *)
(* TIMESTAMP and STOP afterwards, but STOP also when Stop All is pressed   *)
(* before; after STOP it closes the connection.                            *)
(***************************************************************************)
EXTENDS Integers, Sequences, FiniteSets

CONSTANTS
  BUFFERSIZE,         \* samples per DATA_PACKAGE
  DATAQUEUE_SIZE,     \* length of the queue
  sample_rate_hz,     \* of the SETTINGS; 1000 in Sync
  duration_seconds,   \* of the SETTINGS, where the host sends 0; 100 in Sync
  MaxTimestamps,      \* bound: TIMESTAMP_PACKAGEs of a connection
  MaxEchoes,          \* bound: echoes of a connection, reached only after a failed read
  MaxInbox,           \* bound: packages in the client's receive buffer
  MaxSamples          \* bound: samples acquired on a connection

ASSUME ClientAssumption ==
  /\ BUFFERSIZE \in Nat \ {0} /\ DATAQUEUE_SIZE \in Nat /\ DATAQUEUE_SIZE >= BUFFERSIZE
  /\ sample_rate_hz \in Nat /\ duration_seconds \in Nat
  /\ MaxTimestamps \in Nat /\ MaxEchoes \in Nat /\ MaxEchoes >= MaxTimestamps
  /\ MaxInbox \in Nat /\ MaxSamples \in Nat

VARIABLES
  firmware,       \* "counting": HEX32 and FSR, "endless": Sync, "example"
  started,        \* the host sent SETTINGS
  stopped,        \* the host sent STOP and closed
  timestamps,     \* TIMESTAMP_PACKAGEs sent by the host
  inbox,          \* packages that arrived and were not read yet
  task,           \* the send task: "boot", "waiting", "loop", "handle", "data"
  total_samples,
  dataPkg,        \* the package of the last read, as the task sees it
  acquired,       \* samples taken by the acquisition task
  queue,          \* sample numbers in datatransferQueue
  leaked,         \* samples that found the queue full
  sent,           \* sample numbers sent, in order
  echoes,         \* timestamps echoed, in order
  failed          \* history: a read or the parsing of SETTINGS failed

host   == <<started, stopped, timestamps>>
buffer == <<acquired, queue, leaked>>
out    == <<sent, echoes>>
vars == <<firmware, host, inbox, task, total_samples, dataPkg, buffer, out, failed>>

Package(type, ts) == [type |-> type, ts |-> ts]
Firmwares == {"counting", "endless", "example"}
counting  == firmware = "counting"
Null == 0                   \* no payload, or one that was not read
Types == {"PING", "STOP", "SETTINGS", "TIMESTAMP"}

-----------------------------------------------------------------------------
\* Reset: nothing of the earlier connection is left, on either side.
Booted ==
  /\ started' = FALSE /\ stopped' = FALSE /\ timestamps' = 0
  /\ inbox' = <<>>
  /\ task' = "boot"
  /\ total_samples' = 0
  /\ dataPkg' = Package("PING", Null)
  /\ acquired' = 0 /\ queue' = <<>> /\ leaked' = {}
  /\ sent' = <<>> /\ echoes' = <<>>
  /\ failed' = FALSE
  /\ UNCHANGED firmware

Init ==
  /\ firmware \in Firmwares
  /\ started = FALSE /\ stopped = FALSE /\ timestamps = 0
  /\ inbox = <<>>
  /\ task = "boot"
  /\ total_samples = 0
  /\ dataPkg = Package("PING", Null)
  /\ acquired = 0 /\ queue = <<>> /\ leaked = {}
  /\ sent = <<>> /\ echoes = <<>>
  /\ failed = FALSE

-----------------------------------------------------------------------------
(* The host.                                                               *)

HostSends(package) ==
  /\ task /= "boot"
  /\ ~stopped
  /\ Len(inbox) < MaxInbox
  /\ inbox' = Append(inbox, package)
  /\ UNCHANGED <<task, total_samples, dataPkg, buffer, out, firmware, failed>>

HostPing  == HostSends(Package("PING", Null)) /\ UNCHANGED host

HostStart == /\ HostSends(Package("SETTINGS", 1))
             /\ started' = TRUE
             /\ UNCHANGED <<stopped, timestamps>>

HostTimestamp ==
  /\ started
  /\ timestamps < MaxTimestamps
  /\ timestamps' = timestamps + 1
  /\ HostSends(Package("TIMESTAMP", timestamps'))
  /\ UNCHANGED <<started, stopped>>

HostStop == /\ HostSends(Package("STOP", Null))
            /\ stopped' = TRUE
            /\ UNCHANGED <<started, timestamps>>

-----------------------------------------------------------------------------
(* getNextTcpPackage into the variable dataPkg: the package; or a header   *)
(* and no payload; or nothing, which leaves dataPkg as it was.  The        *)
(* firmware does not look at the result.  A failed read also loses the     *)
(* bytes it took (FrameStream).                                            *)

\* Mutation: the newest package is read first.
ReadNewest ==
  /\ inbox /= <<>>
  /\ inbox' = SubSeq(inbox, 1, Len(inbox) - 1)
  /\ dataPkg' = inbox[Len(inbox)]
  /\ UNCHANGED failed

ReadPackage ==
  /\ inbox /= <<>>
  /\ inbox' = Tail(inbox)
  /\ \/ dataPkg' = Head(inbox) /\ UNCHANGED failed
     \/ /\ dataPkg' \in {Package(Head(inbox).type, Null), dataPkg}
        /\ failed' = TRUE

\* Wi-Fi, the host's broadcast, TCP, HANDSHAKE_PACKAGE.
Connect ==
  /\ task = "boot"
  /\ task' = "waiting"
  /\ UNCHANGED <<firmware, host, inbox, total_samples, dataPkg, buffer, out, failed>>

\* waitAndApplySettings: packages of any other type are skipped.
AwaitSettings ==
  /\ task = "waiting"
  /\ ReadPackage
  /\ dataPkg'.type /= "SETTINGS"
  /\ UNCHANGED <<firmware, host, task, total_samples, buffer, out>>

\* SETTINGS that cannot be parsed give no samples.  The acquisition starts, and
\* the loop's own, uninitialised package takes the place of this one.
ApplySettings ==
  /\ task = "waiting"
  /\ inbox /= <<>>
  /\ Head(inbox).type = "SETTINGS"
  /\ inbox' = Tail(inbox)
  /\ \/ total_samples' = sample_rate_hz * duration_seconds /\ UNCHANGED failed
     \/ total_samples' = 0 /\ failed' = TRUE
  /\ dataPkg' \in [type : Types, ts : {Null}]
  /\ task' = "loop"
  /\ UNCHANGED <<firmware, host, buffer, out>>

\* Mutation: packages are counted for samples.
packages_sent == IF counting THEN Len(sent) \div BUFFERSIZE ELSE 0

\* The samples the task has counted; what does not count never reaches the end.
progress == IF counting THEN Len(sent) ELSE 0

Loop == task = "loop" /\ (firmware = "example" \/ progress < total_samples)

\* A package of the host while measuring: read, then handled by its type.
ReadCommand ==
  /\ Loop
  /\ ReadPackage
  /\ task' = "handle"
  /\ UNCHANGED <<firmware, host, total_samples, buffer, out>>

Handled == UNCHANGED <<firmware, host, inbox, total_samples, dataPkg, buffer, failed>>

\* Mutation: the time since the request is echoed, the wrong way round.
EchoDifference ==
  /\ task = "handle"
  /\ dataPkg.type = "TIMESTAMP" /\ dataPkg.ts /= Null
  /\ Len(echoes) < MaxEchoes
  /\ echoes' = Append(echoes, -dataPkg.ts)
  /\ task' = "loop"
  /\ Handled /\ UNCHANGED sent

\* Without memory for the frame the request stays unanswered.
HandleTimestamp ==
  /\ task = "handle"
  /\ dataPkg.type = "TIMESTAMP" /\ dataPkg.ts /= Null
  /\ \/ Len(echoes) < MaxEchoes /\ echoes' = Append(echoes, dataPkg.ts)
     \/ UNCHANGED echoes
  /\ task' = "loop"
  /\ Handled /\ UNCHANGED sent

\* An echo of a payload that is not there copies from address 0, which is an
\* exception and a restart, or from wherever an uninitialised package points:
\* it may send anything, or nothing.
EchoWithoutPayload ==
  /\ task = "handle"
  /\ dataPkg = Package("TIMESTAMP", Null)
  /\ Len(echoes) < MaxEchoes
  /\ echoes' \in {echoes, Append(echoes, Null)}
  /\ task' = "loop"
  /\ Handled /\ UNCHANGED sent

CrashOnEcho ==
  /\ task = "handle"
  /\ dataPkg = Package("TIMESTAMP", Null)
  /\ Booted

HandleOther ==
  /\ task = "handle"
  /\ dataPkg.type \in {"PING", "SETTINGS"}
  /\ task' = "loop"
  /\ Handled /\ UNCHANGED out

\* Mutation: STOP is taken for an unknown package.
SkipStop ==
  /\ task = "handle"
  /\ dataPkg.type = "STOP"
  /\ task' = "loop"
  /\ Handled /\ UNCHANGED out

HandleStop ==
  /\ task = "handle"
  /\ dataPkg.type = "STOP"
  /\ Booted

\* Nothing is available: on to the queue.
CommandsDone ==
  /\ Loop
  /\ inbox = <<>>
  /\ task' = "data"
  /\ Handled /\ UNCHANGED out

\* Mutation: the last sample of a block stays in the queue.
SendDataAgain ==
  /\ task = "data"
  /\ Len(queue) >= BUFFERSIZE
  /\ sent' = sent \o SubSeq(queue, 1, BUFFERSIZE)
  /\ queue' = SubSeq(queue, BUFFERSIZE, Len(queue))
  /\ task' = "loop"
  /\ UNCHANGED <<firmware, host, inbox, total_samples, dataPkg, acquired, leaked,
                 echoes, failed>>

SendData ==
  /\ task = "data"
  /\ Len(queue) >= BUFFERSIZE
  /\ sent' = sent \o SubSeq(queue, 1, BUFFERSIZE)
  /\ queue' = SubSeq(queue, BUFFERSIZE + 1, Len(queue))
  /\ task' = "loop"
  /\ UNCHANGED <<firmware, host, inbox, total_samples, dataPkg, acquired, leaked,
                 echoes, failed>>

\* The example's loop: a block is made up and sent, in two writes.  Its package
\* variable is a new one each time, with what the stack holds.
SendGenerated ==
  /\ firmware = "example"
  /\ task = "data"
  /\ acquired + BUFFERSIZE <= MaxSamples
  /\ acquired' = acquired + BUFFERSIZE
  /\ sent' = sent \o [i \in 1..BUFFERSIZE |-> acquired + i]
  /\ dataPkg' \in {dataPkg} \cup [type : Types, ts : {Null}]
  /\ task' = "loop"
  /\ UNCHANGED <<firmware, host, inbox, total_samples, queue, leaked, echoes, failed>>

\* For the example, whose queue is empty, this is the bound on the samples.
NotEnoughData ==
  /\ firmware = "example" => acquired + BUFFERSIZE > MaxSamples
  /\ task = "data"
  /\ Len(queue) < BUFFERSIZE
  /\ task' = "loop"
  /\ Handled /\ UNCHANGED out

\* All samples are sent: the measurement ends with a restart.
Finish ==
  /\ task = "loop"
  /\ firmware /= "example"
  /\ progress >= total_samples
  /\ Booted

-----------------------------------------------------------------------------
\* The acquisition task: a sample, into the queue or, when that is full, lost
\* with its memory.
Acquire ==
  /\ firmware /= "example"
  /\ task \in {"loop", "handle", "data"}
  /\ acquired < MaxSamples
  /\ acquired' = acquired + 1
  /\ IF Len(queue) < DATAQUEUE_SIZE
       THEN queue' = Append(queue, acquired') /\ UNCHANGED leaked
       ELSE leaked' = leaked \cup {acquired'} /\ UNCHANGED queue
  /\ UNCHANGED <<firmware, host, inbox, task, total_samples, dataPkg, out, failed>>

-----------------------------------------------------------------------------
Host == HostPing \/ HostStart \/ HostTimestamp \/ HostStop

SendTask == \/ Connect \/ AwaitSettings \/ ApplySettings
            \/ ReadCommand
            \/ HandleTimestamp \/ EchoWithoutPayload \/ CrashOnEcho
            \/ HandleOther \/ HandleStop
            \/ CommandsDone \/ SendData \/ SendGenerated \/ NotEnoughData \/ Finish

Next == Host \/ SendTask \/ Acquire

\* FreeRTOS runs the two tasks on a core each.
Spec == Init /\ [][Next]_vars /\ WF_vars(SendTask) /\ WF_vars(Acquire)

-----------------------------------------------------------------------------
\* The types of the variables of the client.
TypeOK ==
  /\ firmware \in Firmwares
  /\ {started, stopped, failed} \subseteq BOOLEAN
  /\ timestamps \in Nat
  /\ inbox \in Seq([type : Types, ts : Nat])
  /\ task \in {"boot", "waiting", "loop", "handle", "data"}
  /\ total_samples \in Nat
  /\ dataPkg \in [type : Types, ts : Nat]
  /\ acquired \in Nat
  /\ queue \in Seq(Nat)
  /\ leaked \subseteq Nat
  /\ sent \in Seq(Nat)
  /\ echoes \in Seq(Nat)

\* The host gets the samples in the order they were taken, and every sample is
\* sent, or waits in the queue, or found the queue full: together they are the
\* samples taken, each once.
SamplesAccounted ==
  LET kept == sent \o queue
  IN /\ \A i \in 1..(Len(kept) - 1) : kept[i] < kept[i + 1]
     /\ {kept[i] : i \in DOMAIN kept} \cup leaked = 1..acquired
     /\ Len(kept) + Cardinality(leaked) = acquired

\* A counting client that is not stopped, and whose reads do not fail, restarts
\* neither early nor more than a block late.
EndsInTime ==
  [][(counting /\ task /= "boot" /\ task' = "boot" /\ ~stopped /\ ~failed) =>
       Len(sent) \in total_samples..(total_samples + BUFFERSIZE - 1)]_vars

\* While no read fails, an echo carries a timestamp of the host, and the echoes
\* come in the order of the requests, none twice; a request may stay unanswered.
\* The host, which takes the sent time of an echo from the echo itself, so gets
\* times that rise (TimeBuffer).
EchoesFollowRequests ==
  ~failed => /\ \A i \in DOMAIN echoes : echoes[i] \in 1..timestamps
             /\ \A i, j \in DOMAIN echoes : i < j => echoes[i] < echoes[j]

\* A STOP after SETTINGS resets the client, whatever it was sending and however
\* many commands come before it, unless a read fails.
StopObeyed == (started /\ stopped) ~> (task = "boot" \/ failed)

-----------------------------------------------------------------------------
(* What the README says and the firmware, with the settings it is sent,    *)
(* does not do.                                                            *)

\* README.md:290 SETTINGS_PACKAGE, purpose: "Transfer measurement settings and
\* start a measurement": a client that was not stopped, and whose reads did not
\* fail, sends data before it restarts.
SettingsStartMeasurement ==
  [][(task /= "boot" /\ task' = "boot" /\ ~stopped /\ ~failed) => sent /= <<>>]_vars
=============================================================================
