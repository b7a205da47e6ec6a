-------------------------- MODULE SensorClientProofs --------------------------
(***************************************************************************)
(* What a client owes the host, for any block and queue size and any       *)
(* number of packages: every sample is accounted for, and the echoes are   *)
(* timestamps in the order of the requests, none twice.  The second needs  *)
(* to know where a timestamp may be: echoed, or behind the echoed ones,    *)
(* being handled, or behind that in the receive buffer.                    *)
(* A counting client ends by itself, with the samples it was asked for.    *)
(***************************************************************************)
EXTENDS SensorClient, SequenceTheorems, FiniteSetTheorems, TLAPS

Messages == [type : Types, ts : Nat]

IsTimestamp(package) == package.type = "TIMESTAMP"

\* A timestamp the client has in its hands.
Handling == task = "handle" /\ IsTimestamp(dataPkg)

\* A timestamp of the host behind the echoed ones.
Later(ts) == ts \in 1..timestamps /\ \A i \in 1..Len(echoes) : echoes[i] < ts

\* Timestamps are echoed, handled and received in the order they were sent.
InOrder ==
  ~failed =>
    /\ \A i \in 1..Len(echoes) : echoes[i] \in 1..timestamps
    /\ \A i, j \in 1..Len(echoes) : i < j => echoes[i] < echoes[j]
    /\ Handling => Later(dataPkg.ts)
    /\ \A i \in 1..Len(inbox) : IsTimestamp(inbox[i]) => Later(inbox[i].ts)
    /\ \A i \in 1..Len(inbox) : IsTimestamp(inbox[i]) /\ Handling => dataPkg.ts < inbox[i].ts
    /\ \A i, j \in 1..Len(inbox) :
         i < j /\ IsTimestamp(inbox[i]) /\ IsTimestamp(inbox[j]) => inbox[i].ts < inbox[j].ts

\* The samples that were not lost, in order.
kept == sent \o queue

Accounted ==
  /\ \A i, j \in 1..Len(kept) : i < j => kept[i] < kept[j]
  /\ \A i \in 1..Len(kept) : kept[i] \in 1..acquired /\ kept[i] \notin leaked
  /\ leaked \subseteq 1..acquired
  /\ \A s \in 1..acquired : s \in leaked \/ \E i \in 1..Len(kept) : kept[i] = s
  /\ Len(kept) + Cardinality(leaked) = acquired
  /\ firmware = "example" => queue = <<>>

\* A counting client goes on only while samples are due, so it is at most a block
\* ahead.
Counted ==
  counting =>
    /\ task \in {"boot", "waiting"} => Len(sent) = 0
    /\ task \in {"handle", "data"} => Len(sent) < total_samples
    /\ Len(sent) < total_samples + BUFFERSIZE

\* A STOP the client has in its hands was sent by the host.
StopsAreSent ==
  ~stopped /\ ~failed =>
    /\ \A i \in 1..Len(inbox) : inbox[i].type /= "STOP"
    /\ task = "handle" => dataPkg.type /= "STOP"

IInv == TypeOK /\ InOrder /\ Accounted /\ Counted /\ StopsAreSent

-----------------------------------------------------------------------------
\* A sequence without its first element.
LEMMA TailFacts ==
  ASSUME NEW S, NEW s \in Seq(S), s /= <<>>
  PROVE  /\ Head(s) \in S /\ Head(s) = s[1]
         /\ Tail(s) \in Seq(S)
         /\ Len(s) \in Nat \ {0}
         /\ Len(Tail(s)) = Len(s) - 1
         /\ \A i \in 1..Len(Tail(s)) : Tail(s)[i] = s[i + 1]
  BY HeadTailProperties, EmptySeq

\* A sequence with one more element.
LEMMA AppendFacts ==
  ASSUME NEW S, NEW s \in Seq(S), NEW e \in S
  PROVE  /\ Append(s, e) \in Seq(S)
         /\ Len(s) \in Nat
         /\ Len(Append(s, e)) = Len(s) + 1
         /\ \A i \in 1..Len(s) : Append(s, e)[i] = s[i]
         /\ Append(s, e)[Len(s) + 1] = e
  BY AppendProperties

\* A sequence cut in two.
LEMMA SplitSeq ==
  ASSUME NEW S, NEW s \in Seq(S), NEW n \in Nat, n <= Len(s)
  PROVE  /\ SubSeq(s, 1, n) \in Seq(S) /\ SubSeq(s, n + 1, Len(s)) \in Seq(S)
         /\ SubSeq(s, 1, n) \o SubSeq(s, n + 1, Len(s)) = s
  <1>1. Len(s) \in Nat /\ \A i \in 1..Len(s) : s[i] \in S
    BY LenProperties
  <1>2. SubSeq(s, 1, n) \in Seq(S)
    <2>1. \A i \in 1..n : s[i] \in S
      BY <1>1
    <2> QED BY <2>1, SubSeqProperties
  <1>3. SubSeq(s, n + 1, Len(s)) \in Seq(S)
    <2>1. \A i \in (n + 1)..Len(s) : s[i] \in S
      BY <1>1
    <2> QED BY <1>1, <2>1, SubSeqProperties
  <1>4. SubSeq(s, 1, n) \o SubSeq(s, n + 1, Len(s)) = SubSeq(s, 1, Len(s))
    <2>1. 1 \in 1..(Len(s) + 1) /\ n \in (1 - 1)..Len(s) /\ Len(s) \in n..Len(s)
      BY <1>1
    <2> QED BY <2>1, ConcatAdjacentSubSeq
  <1> QED BY <1>2, <1>3, <1>4, SubSeqFull

\* What a read of the receive buffer leaves.
LEMMA ReadFacts ==
  ASSUME TypeOK, ReadPackage
  PROVE  /\ inbox /= <<>> /\ inbox' = Tail(inbox)
         /\ inbox[1] \in Messages
         /\ dataPkg' \in Messages
         /\ failed' \in BOOLEAN
         /\ ~failed' => ~failed /\ dataPkg' = inbox[1]
  <1>1. inbox /= <<>> /\ inbox' = Tail(inbox)
    BY DEF ReadPackage
  <1>2. inbox \in Seq(Messages) /\ dataPkg \in Messages /\ failed \in BOOLEAN
    BY DEF TypeOK, Messages
  <1>3. Head(inbox) \in Messages /\ Head(inbox) = inbox[1]
    BY <1>1, <1>2, TailFacts
  <1>4. Package(Head(inbox).type, Null) \in Messages
    BY <1>3 DEF Package, Null, Messages
  <1>5. \/ dataPkg' = Head(inbox) /\ failed' = failed
        \/ dataPkg' \in {Package(Head(inbox).type, Null), dataPkg} /\ failed' = TRUE
    BY DEF ReadPackage
  <1> QED BY <1>1, <1>2, <1>3, <1>4, <1>5

\* A new connection.
LEMMA BootedInv ==
  ASSUME TypeOK, Booted
  PROVE  IInv'
  <1>0. <<>> \in Seq(Messages) /\ <<>> \in Seq(Nat) /\ Package("PING", Null) \in Messages
    BY EmptySeq DEF Package, Null, Messages, Types
  <1>1. TypeOK'
    BY <1>0 DEF Booted, TypeOK, Messages
  <1>2. Len(<<>>) = 0 /\ <<>> \o <<>> = <<>> /\ Cardinality({}) = 0
    BY FS_EmptySet
  <1>3. InOrder'
    BY <1>2 DEF Booted, InOrder, Handling
  <1>4. Accounted'
    BY <1>2 DEF Booted, Accounted, kept
  <1>5. Counted' /\ StopsAreSent'
    BY <1>2, ClientAssumption DEF Booted, Counted, StopsAreSent
  <1> QED BY <1>1, <1>3, <1>4, <1>5 DEF IInv

LEMMA InitInv == Init => IInv
  <1> SUFFICES ASSUME Init
               PROVE  IInv
    OBVIOUS
  <1>0. <<>> \in Seq(Messages) /\ <<>> \in Seq(Nat) /\ Package("PING", Null) \in Messages
    BY EmptySeq DEF Package, Null, Messages, Types
  <1>1. TypeOK
    BY <1>0 DEF Init, TypeOK, Messages
  <1>2. Len(<<>>) = 0 /\ <<>> \o <<>> = <<>> /\ Cardinality({}) = 0
    BY FS_EmptySet
  <1>3. InOrder
    BY <1>2 DEF Init, InOrder, Handling
  <1>4. Accounted
    BY <1>2 DEF Init, Accounted, kept
  <1>5. Counted /\ StopsAreSent
    BY <1>2, ClientAssumption DEF Init, Counted, StopsAreSent
  <1> QED BY <1>1, <1>3, <1>4, <1>5 DEF IInv

\* The steps of the send task that are not a restart.
Commands == \/ Connect \/ AwaitSettings \/ ApplySettings \/ ReadCommand
            \/ HandleTimestamp \/ EchoWithoutPayload \/ HandleOther \/ CommandsDone
Blocks   == SendData \/ SendGenerated \/ NotEnoughData

LEMMA Steps ==
  [Next]_vars => \/ Booted \/ Host \/ Commands \/ Blocks \/ Acquire \/ UNCHANGED vars
  BY DEF Next, SendTask, Commands, Blocks, CrashOnEcho, HandleStop, Finish

-----------------------------------------------------------------------------
(* Types.                                                                  *)

LEMMA HostTypes ==
  ASSUME TypeOK, Host
  PROVE  TypeOK'
  <1> USE DEF TypeOK
  <1>1. ASSUME NEW package \in Messages, HostSends(package)
        PROVE  /\ inbox' \in Seq([type : Types, ts : Nat])
               /\ UNCHANGED <<task, total_samples, dataPkg, buffer, out, firmware, failed>>
    BY <1>1, AppendFacts DEF HostSends, Messages
  <1>2. \A type \in Types, ts \in Nat : Package(type, ts) \in Messages
    BY DEF Package, Messages
  <1>3. CASE HostPing
    BY <1>1, <1>2, <1>3 DEF HostPing, Types, Null, host, buffer, out
  <1>4. CASE HostStart
    BY <1>1, <1>2, <1>4 DEF HostStart, Types, buffer, out
  <1>5. CASE HostTimestamp
    <2>1. timestamps' \in Nat
      BY <1>5 DEF HostTimestamp
    <2>2. Package("TIMESTAMP", timestamps') \in Messages
      BY <1>2, <2>1 DEF Types
    <2>3. HostSends(Package("TIMESTAMP", timestamps')) /\ UNCHANGED <<started, stopped>>
      BY <1>5 DEF HostTimestamp
    <2> QED BY <1>1, <2>1, <2>2, <2>3 DEF buffer, out
  <1>6. CASE HostStop
    BY <1>1, <1>2, <1>6 DEF HostStop, Types, Null, buffer, out
  <1> QED BY <1>3, <1>4, <1>5, <1>6 DEF Host

LEMMA CommandTypes ==
  ASSUME TypeOK, Commands
  PROVE  TypeOK'
  <1> USE DEF host, buffer, out
  <1>1. CASE Connect
    BY <1>1 DEF Connect, TypeOK
  <1>2. CASE AwaitSettings \/ ReadCommand
    <2>1. /\ ReadPackage
          /\ task' \in {"waiting", "handle"}
          /\ UNCHANGED <<firmware, host, total_samples, buffer, out>>
      BY <1>2 DEF AwaitSettings, ReadCommand
    <2>2. inbox' \in Seq(Messages)
      <3>1. inbox \in Seq(Messages)
        BY DEF TypeOK, Messages
      <3> QED BY <2>1, <3>1, ReadFacts, TailFacts
    <2> QED BY <2>1, <2>2, ReadFacts DEF TypeOK, Messages
  <1>3. CASE ApplySettings
    <2>1. inbox' \in Seq(Messages)
      BY <1>3, TailFacts DEF ApplySettings, TypeOK, Messages
    <2>2. total_samples' \in Nat
      <3> DEFINE samples == sample_rate_hz * duration_seconds
      <3>1. samples \in Nat
        BY ClientAssumption
      <3>2. total_samples' = samples \/ total_samples' = 0
        BY <1>3, Zenon DEF ApplySettings
      <3> HIDE DEF samples
      <3> QED BY <3>1, <3>2
    <2>4. failed' \in BOOLEAN
      <3>1. failed \in BOOLEAN
        BY DEF TypeOK
      <3>2. failed' = failed \/ failed' = TRUE
        BY <1>3, Zenon DEF ApplySettings
      <3> QED BY <3>1, <3>2
    <2>3. dataPkg' \in Messages /\ task' = "loop"
          /\ UNCHANGED <<firmware, host, buffer, out>>
      BY <1>3 DEF ApplySettings, Messages, Null
    <2> QED BY <2>1, <2>2, <2>3, <2>4 DEF TypeOK, Messages
  <1>4. CASE HandleTimestamp \/ EchoWithoutPayload \/ HandleOther \/ CommandsDone
    <2>1. echoes' \in Seq(Nat)
      <3>1. echoes \in Seq(Nat) /\ dataPkg.ts \in Nat /\ Null \in Nat
        BY DEF TypeOK, Null
      <3>2. Append(echoes, dataPkg.ts) \in Seq(Nat) /\ Append(echoes, Null) \in Seq(Nat)
        BY <3>1, AppendFacts
      <3> QED BY <1>4, <3>1, <3>2
              DEF HandleTimestamp, EchoWithoutPayload, HandleOther, CommandsDone
    <2>2. task' \in {"loop", "data"} /\ UNCHANGED sent /\ Handled
      BY <1>4 DEF HandleTimestamp, EchoWithoutPayload, HandleOther, CommandsDone
    <2> QED BY <2>1, <2>2 DEF TypeOK, Handled
  <1> QED BY <1>1, <1>2, <1>3, <1>4 DEF Commands

LEMMA BlockTypes ==
  ASSUME TypeOK, Blocks \/ Acquire
  PROVE  TypeOK'
  <1> USE DEF host, buffer, out
  <1>n. BUFFERSIZE \in Nat \ {0}
    BY ClientAssumption
  <1>1. CASE SendData
    <2>1. Len(queue) \in Nat /\ BUFFERSIZE <= Len(queue) /\ queue \in Seq(Nat) /\ sent \in Seq(Nat)
      BY <1>1, LenProperties DEF SendData, TypeOK
    <2>2. /\ SubSeq(queue, 1, BUFFERSIZE) \in Seq(Nat)
          /\ SubSeq(queue, BUFFERSIZE + 1, Len(queue)) \in Seq(Nat)
      BY <1>n, <2>1, SplitSeq
    <2>3. sent' \in Seq(Nat) /\ queue' \in Seq(Nat)
      BY <1>1, <2>1, <2>2, ConcatProperties DEF SendData
    <2> QED BY <1>1, <2>3 DEF SendData, TypeOK
  <1>2. CASE SendGenerated
    <2>1. acquired \in Nat /\ sent \in Seq(Nat)
      BY DEF TypeOK
    <2>2. [i \in 1..BUFFERSIZE |-> acquired + i] \in Seq(Nat)
      BY <1>n, <2>1
    <2>3. sent' \in Seq(Nat) /\ acquired' \in Nat
      BY <1>n, <1>2, <2>1, <2>2, ConcatProperties DEF SendGenerated
    <2>4. dataPkg' \in Messages
      BY <1>2 DEF SendGenerated, TypeOK, Messages, Null
    <2> QED BY <1>2, <2>3, <2>4 DEF SendGenerated, TypeOK, Messages
  <1>3. CASE NotEnoughData
    BY <1>3 DEF NotEnoughData, Handled, TypeOK
  <1>4. CASE Acquire
    <2>1. acquired' \in Nat
      BY <1>4 DEF Acquire, TypeOK
    <2>2. queue' \in Seq(Nat) /\ leaked' \subseteq Nat
      <3>1. queue \in Seq(Nat) /\ leaked \subseteq Nat
        BY DEF TypeOK
      <3>2. Append(queue, acquired') \in Seq(Nat)
        BY <2>1, <3>1, AppendFacts
      <3> QED BY <1>4, <2>1, <3>1, <3>2 DEF Acquire
    <2> QED BY <1>4, <2>1, <2>2 DEF Acquire, TypeOK
  <1> QED BY <1>1, <1>2, <1>3, <1>4 DEF Blocks

\* Every step keeps the types.
LEMMA TypeStep == TypeOK /\ [Next]_vars => TypeOK'
  <1>1. ASSUME TypeOK, UNCHANGED vars
        PROVE  TypeOK'
    BY <1>1 DEF vars, host, buffer, out, TypeOK
  <1>2. ASSUME TypeOK, Booted
        PROVE  TypeOK'
    BY <1>2, BootedInv DEF IInv
  <1> QED BY <1>1, <1>2, Steps, HostTypes, CommandTypes, BlockTypes

-----------------------------------------------------------------------------
(* Samples.                                                                *)

\* Concatenation of sample numbers is associative.
LEMMA ConcatNat ==
  \A s, t, u \in Seq(Nat) : (s \o t) \o u = s \o (t \o u)
  <1> TAKE s, t, u \in Seq(Nat)
  <1> QED BY ConcatAssociative, SMTT(30)

\* Blocks leave the queue at its front, and go behind what was sent.
LEMMA SendDataKeeps ==
  ASSUME TypeOK, SendData
  PROVE  kept' = kept
  <1> DEFINE block == SubSeq(queue, 1, BUFFERSIZE)
             rest == SubSeq(queue, BUFFERSIZE + 1, Len(queue))
  <1>1. BUFFERSIZE \in Nat /\ BUFFERSIZE <= Len(queue) /\ queue \in Seq(Nat) /\ sent \in Seq(Nat)
    BY ClientAssumption DEF SendData, TypeOK
  <1>2. block \in Seq(Nat) /\ rest \in Seq(Nat) /\ block \o rest = queue
    BY <1>1, SplitSeq
  <1>3. sent' = sent \o block /\ queue' = rest
    BY DEF SendData
  <1> HIDE DEF block, rest
  <1>4. (sent \o block) \o rest = sent \o (block \o rest)
    <2>1. block \in Seq(Nat) /\ rest \in Seq(Nat) /\ sent \in Seq(Nat)
      BY <1>1, <1>2
    <2> QED BY <2>1, ConcatNat, Zenon
  <1>5. kept' = (sent \o block) \o rest
    BY <1>3 DEF kept
  <1> QED BY <1>2, <1>4, <1>5 DEF kept

\* New samples go behind the ones that were kept.
LEMMA GrowKept ==
  ASSUME TypeOK, Accounted, TypeOK',
         NEW n \in Nat, NEW block \in Seq(Nat), Len(block) = n,
         \A i \in 1..n : block[i] = acquired + i,
         kept' = kept \o block, acquired' = acquired + n,
         UNCHANGED leaked, firmware' = "example" => queue' = <<>>
  PROVE  Accounted'
  <1>1. acquired \in Nat /\ kept \in Seq(Nat) /\ Len(kept) \in Nat
    BY ConcatProperties, LenProperties DEF TypeOK, kept
  <1>2. /\ Len(kept') = Len(kept) + n
        /\ \A i \in 1..Len(kept) : kept'[i] = kept[i]
        /\ \A i \in 1..n : kept'[Len(kept) + i] = acquired + i
    <2>1. /\ Len(kept \o block) = Len(kept) + Len(block)
          /\ \A i \in 1..(Len(kept) + Len(block)) : (kept \o block)[i] =
               IF i <= Len(kept) THEN kept[i] ELSE block[i - Len(kept)]
      BY <1>1, ConcatProperties
    <2>2. ASSUME NEW i \in 1..n
          PROVE  (kept \o block)[Len(kept) + i] = block[i]
      <3>1. Len(kept) + i \in 1..(Len(kept) + Len(block)) /\ ~(Len(kept) + i <= Len(kept))
        BY <1>1
      <3>2. Len(kept) + i - Len(kept) = i
        BY <1>1
      <3> QED BY <2>1, <3>1, <3>2
    <2>3. ASSUME NEW i \in 1..Len(kept)
          PROVE  (kept \o block)[i] = kept[i]
      BY <1>1, <2>1, <2>3
    <2> QED BY <2>1, <2>2, <2>3
  <1>3. \A i \in 1..Len(kept') :
          \/ i \in 1..Len(kept) /\ kept'[i] = kept[i]
          \/ i - Len(kept) \in 1..n /\ kept'[i] = acquired + (i - Len(kept))
    <2> SUFFICES ASSUME NEW i \in 1..Len(kept'), i > Len(kept)
                 PROVE  i - Len(kept) \in 1..n /\ kept'[i] = acquired + (i - Len(kept))
      BY <1>1, <1>2
    <2>1. i - Len(kept) \in 1..n /\ Len(kept) + (i - Len(kept)) = i
      BY <1>1, <1>2
    <2> QED BY <1>2, <2>1
  <1>4. /\ \A i, j \in 1..Len(kept) : i < j => kept[i] < kept[j]
        /\ \A i \in 1..Len(kept) : kept[i] \in 1..acquired /\ kept[i] \notin leaked
        /\ leaked \subseteq 1..acquired
        /\ \A s \in 1..acquired : s \in leaked \/ \E i \in 1..Len(kept) : kept[i] = s
        /\ Len(kept) + Cardinality(leaked) = acquired
    BY DEF Accounted
  <1>5. Cardinality(leaked) \in Int
    <2>1. IsFiniteSet(1..acquired)
      BY <1>1, FS_Interval
    <2>2. IsFiniteSet(leaked)
      BY <1>4, <2>1, FS_Subset
    <2> QED BY <2>2, FS_CardinalityType
  <1>6. \A i, j \in 1..Len(kept') : i < j => kept'[i] < kept'[j]
    <2> SUFFICES ASSUME NEW i \in 1..Len(kept'), NEW j \in 1..Len(kept'), i < j
                 PROVE  kept'[i] < kept'[j]
      OBVIOUS
    <2>0. i \in Nat \ {0} /\ j \in Nat \ {0} /\ acquired \in Nat /\ Len(kept) \in Nat
      BY <1>1, <1>2
    <2>1. CASE j <= Len(kept)
      <3>1. i \in 1..Len(kept) /\ j \in 1..Len(kept)
        BY <2>0, <2>1
      <3>2. kept'[i] = kept[i] /\ kept'[j] = kept[j]
        BY <3>1, <1>2
      <3> QED BY <3>1, <3>2, <1>4
    <2>2. CASE j > Len(kept)
      <3>1. kept'[j] = acquired + (j - Len(kept))
        BY <1>3, <2>0, <2>2
      <3>2. CASE i <= Len(kept)
        <4>1. i \in 1..Len(kept) /\ kept'[i] = kept[i]
          BY <3>2, <2>0, <1>2
        <4>2. kept'[i] \in Int /\ kept'[i] <= acquired
          BY <4>1, <1>4
        <4>3. acquired < acquired + (j - Len(kept))
              /\ acquired + (j - Len(kept)) \in Int
          BY <2>0, <2>2
        <4>4. \A x, y, z \in Int : x <= y /\ y < z => x < z
          OBVIOUS
        <4> QED BY <3>1, <4>2, <4>3, <4>4, <2>0
      <3>3. CASE i > Len(kept)
        <4>1. kept'[i] = acquired + (i - Len(kept))
          BY <3>3, <2>0, <1>3
        <4> QED BY <3>1, <4>1, <2>0
      <3> QED BY <3>2, <3>3, <2>0
    <2>3. j <= Len(kept) \/ j > Len(kept)
      BY <2>0
    <2> QED BY <2>1, <2>2, <2>3, Zenon
  <1>7. \A i \in 1..Len(kept') : kept'[i] \in 1..acquired' /\ kept'[i] \notin leaked
    BY <1>1, <1>2, <1>3, <1>4
  <1>8. leaked \subseteq 1..acquired'
    BY <1>1, <1>4
  <1>9. \A s \in 1..acquired' : s \in leaked \/ \E i \in 1..Len(kept') : kept'[i] = s
    <2> SUFFICES ASSUME NEW s \in 1..acquired', s \notin leaked
                 PROVE  \E i \in 1..Len(kept') : kept'[i] = s
      OBVIOUS
    <2>1. CASE s <= acquired
      <3>1. PICK i \in 1..Len(kept) : kept[i] = s
        BY <1>1, <1>4, <2>1
      <3> QED BY <1>1, <1>2, <3>1
    <2>2. CASE s > acquired
      <3>1. s - acquired \in 1..n /\ acquired + (s - acquired) = s
        BY <1>1, <2>2
      <3>2. kept'[Len(kept) + (s - acquired)] = s
        BY <1>2, <3>1
      <3>3. Len(kept) + (s - acquired) \in 1..Len(kept')
        BY <1>1, <1>2, <3>1
      <3> QED BY <3>2, <3>3
    <2> QED BY <1>1, <2>1, <2>2
  <1>10. Len(kept') + Cardinality(leaked) = acquired'
    <2> DEFINE length == Len(kept)
               lost == Cardinality(leaked)
    <2>1. length \in Int /\ lost \in Int /\ length + lost = acquired
      BY <1>1, <1>4, <1>5
    <2>2. Len(kept') = length + n
      BY <1>2
    <2> HIDE DEF length, lost
    <2>3. (length + n) + lost = acquired + n
      BY <2>1
    <2> QED BY <2>2, <2>3 DEF lost
  <1> QED BY <1>6, <1>7, <1>8, <1>9, <1>10 DEF Accounted

\* A sample that finds the queue full.
LEMMA LeakOne ==
  ASSUME TypeOK, Accounted, UNCHANGED <<sent, queue, firmware>>,
         acquired' = acquired + 1, leaked' = leaked \cup {acquired + 1}
  PROVE  Accounted'
  <1>1. acquired \in Nat /\ kept' = kept /\ Len(kept) \in Nat
    BY ConcatProperties, LenProperties DEF TypeOK, kept
  <1>2. IsFiniteSet(leaked) /\ Cardinality(leaked) \in Nat
    <2>1. IsFiniteSet(1..acquired) /\ leaked \subseteq 1..acquired
      BY <1>1, FS_Interval DEF Accounted
    <2>2. IsFiniteSet(leaked)
      BY <2>1, FS_Subset
    <2> QED BY <2>2, FS_CardinalityType
  <1>3. acquired + 1 \notin leaked
    BY <1>1 DEF Accounted
  <1>4. Cardinality(leaked') = Cardinality(leaked) + 1
    BY <1>2, <1>3, FS_AddElement
  <1>5. Len(kept) + Cardinality(leaked') = acquired'
    <2> DEFINE length == Len(kept)
               lost == Cardinality(leaked)
    <2>1. length \in Int /\ lost \in Int /\ length + lost = acquired
      BY <1>1, <1>2 DEF Accounted
    <2>2. Cardinality(leaked') = lost + 1
      BY <1>4
    <2> HIDE DEF lost, length
    <2>3. length + (lost + 1) = acquired + 1
      BY <2>1
    <2> QED BY <2>2, <2>3 DEF length
  <1>6. /\ \A i \in 1..Len(kept) : kept[i] \in 1..acquired' /\ kept[i] \notin leaked'
        /\ leaked' \subseteq 1..acquired'
    BY <1>1 DEF Accounted
  <1>7. \A s \in 1..acquired' : s \in leaked' \/ \E i \in 1..Len(kept) : kept[i] = s
    <2> SUFFICES ASSUME NEW s \in 1..acquired', s /= acquired + 1
                 PROVE  s \in leaked \/ \E i \in 1..Len(kept) : kept[i] = s
      OBVIOUS
    <2>1. s \in 1..acquired
      BY <1>1
    <2> QED BY <2>1 DEF Accounted
  <1> QED BY <1>1, <1>5, <1>6, <1>7 DEF Accounted

\* Every step accounts for the samples.
LEMMA SamplesStep ==
  ASSUME TypeOK, Accounted, [Next]_vars
  PROVE  Accounted'
  <1> USE DEF host, buffer, out
  <1>t. TypeOK'
    BY TypeStep
  <1>s. acquired \in Nat /\ sent \in Seq(Nat) /\ queue \in Seq(Nat)
    BY DEF TypeOK
  <1>1. ASSUME UNCHANGED <<firmware, acquired, queue, leaked, sent>>
        PROVE  Accounted'
    BY <1>1 DEF Accounted, kept
  <1>2. CASE Booted
    BY <1>2, BootedInv DEF IInv
  <1>3. CASE Host \/ UNCHANGED vars
    BY <1>1, <1>3 DEF Host, HostPing, HostStart, HostTimestamp, HostStop, HostSends, vars
  <1>4. CASE Commands
    <2>1. UNCHANGED <<firmware, acquired, queue, leaked, sent>>
      BY <1>4 DEF Commands, Connect, AwaitSettings, ApplySettings, ReadCommand, HandleTimestamp,
                  EchoWithoutPayload, HandleOther, CommandsDone, Handled
    <2> QED BY <1>1, <2>1
  <1>5. CASE SendData
    <2>1. kept' = kept
      BY <1>5, SendDataKeeps
    <2>2. UNCHANGED <<acquired, leaked, firmware>> /\ firmware /= "example"
      <3>1. Len(queue) >= BUFFERSIZE /\ Len(<<>>) = 0
        BY <1>5 DEF SendData
      <3>2. queue /= <<>>
        BY <3>1, ClientAssumption
      <3> QED BY <1>5, <3>2 DEF SendData, Accounted
    <2> QED BY <2>1, <2>2 DEF Accounted
  <1>6. CASE SendGenerated
    <2> DEFINE block == [i \in 1..BUFFERSIZE |-> acquired + i]
    <2>1. /\ queue = <<>> /\ sent' = sent \o block /\ UNCHANGED <<queue, leaked, firmware>>
          /\ acquired' = acquired + BUFFERSIZE
      BY <1>6 DEF SendGenerated, Accounted
    <2>2. /\ BUFFERSIZE \in Nat /\ block \in Seq(Nat) /\ Len(block) = BUFFERSIZE
          /\ \A i \in 1..BUFFERSIZE : block[i] = acquired + i
      BY <1>s, ClientAssumption
    <2> HIDE DEF block
    <2>3. sent \o block \in Seq(Nat)
      BY <1>s, <2>2, ConcatProperties
    <2>4. kept' = kept \o block
      <3>1. kept = sent
        BY <1>s, <2>1, ConcatEmptySeq DEF kept
      <3>2. kept' = sent \o block
        BY <2>1, <2>3, ConcatEmptySeq DEF kept
      <3> QED BY <3>1, <3>2
    <2> QED BY <1>t, <2>1, <2>2, <2>4, GrowKept
  <1>7. CASE NotEnoughData
    BY <1>1, <1>7 DEF NotEnoughData, Handled
  <1>8. CASE Acquire
    <2>1. firmware /= "example" /\ acquired' = acquired + 1 /\ UNCHANGED <<firmware, sent>>
      BY <1>8 DEF Acquire
    <2>2. CASE UNCHANGED queue /\ leaked' = leaked \cup {acquired'}
      BY <2>1, <2>2, LeakOne
    <2>3. CASE queue' = Append(queue, acquired') /\ UNCHANGED leaked
      <3>1. <<acquired + 1>> \in Seq(Nat) /\ Len(<<acquired + 1>>) = 1
            /\ \A i \in 1..1 : <<acquired + 1>>[i] = acquired + i
        BY <1>s
      <3>2. queue' = queue \o <<acquired + 1>>
        BY <1>s, <2>1, <2>3, AppendIsConcat
      <3>3. kept' = kept \o <<acquired + 1>>
        BY <1>s, <2>1, <3>1, <3>2, ConcatAssociative DEF kept
      <3> QED BY <1>t, <2>1, <2>3, <3>1, <3>3, GrowKept
    <2> QED BY <1>8, <2>2, <2>3 DEF Acquire
  <1> QED BY <1>2, <1>3, <1>4, <1>5, <1>6, <1>7, <1>8, Steps DEF Blocks
-----------------------------------------------------------------------------
(* Timestamps.                                                             *)

\* The part of InOrder about the receive buffer.
Buffered ==
  /\ \A i \in 1..Len(inbox) : IsTimestamp(inbox[i]) => Later(inbox[i].ts)
  /\ \A i \in 1..Len(inbox) : IsTimestamp(inbox[i]) /\ Handling => dataPkg.ts < inbox[i].ts
  /\ \A i, j \in 1..Len(inbox) :
       i < j /\ IsTimestamp(inbox[i]) /\ IsTimestamp(inbox[j]) => inbox[i].ts < inbox[j].ts

\* The rest of InOrder.
Echoed ==
  /\ \A i \in 1..Len(echoes) : echoes[i] \in 1..timestamps
  /\ \A i, j \in 1..Len(echoes) : i < j => echoes[i] < echoes[j]
  /\ Handling => Later(dataPkg.ts)

LEMMA OrderParts ==
  /\ InOrder  <=> (~failed => Echoed /\ Buffered)
  /\ InOrder' <=> (~failed' => Echoed' /\ Buffered')
  BY DEF InOrder, Echoed, Buffered

LEMMA Numbers ==
  ASSUME TypeOK
  PROVE  /\ Len(echoes) \in Nat /\ timestamps \in Nat
         /\ \A i \in 1..Len(echoes) : echoes[i] \in Nat
         /\ inbox \in Seq(Messages) /\ Len(inbox) \in Nat
         /\ \A i \in 1..Len(inbox) : inbox[i] \in Messages /\ inbox[i].ts \in Nat
         /\ dataPkg.ts \in Nat
  <1>1. echoes \in Seq(Nat) /\ timestamps \in Nat /\ inbox \in Seq(Messages)
        /\ dataPkg \in Messages
    BY DEF TypeOK, Messages
  <1>2. Len(inbox) \in Nat /\ \A i \in 1..Len(inbox) : inbox[i] \in Messages
    BY <1>1, LenProperties
  <1>3. Len(echoes) \in Nat /\ \A i \in 1..Len(echoes) : echoes[i] \in Nat
    BY <1>1, LenProperties
  <1> QED BY <1>1, <1>2, <1>3 DEF Messages

\* The first package leaves the buffer; a timestamp that is then handled is the first.
LEMMA ShiftOrder ==
  ASSUME TypeOK, Buffered, inbox /= <<>>, inbox' = Tail(inbox),
         UNCHANGED <<timestamps, echoes>>,
         Handling' => dataPkg' = inbox[1] /\ IsTimestamp(inbox[1])
  PROVE  Buffered' /\ (IsTimestamp(inbox[1]) => Later(inbox[1].ts))
  <1>1. /\ Len(inbox) \in Nat \ {0} /\ Len(inbox') = Len(inbox) - 1
        /\ \A i \in 1..Len(inbox') : inbox'[i] = inbox[i + 1]
    BY Numbers, TailFacts
  <1>2. 1 \in 1..Len(inbox)
        /\ \A i \in 1..Len(inbox') : i + 1 \in 1..Len(inbox) /\ 1 < i + 1
    BY <1>1
  <1>3. \A i \in 1..Len(inbox') : IsTimestamp(inbox'[i]) => Later(inbox[i].ts)'
    BY <1>1, <1>2 DEF Buffered, Later
  <1>4. \A i \in 1..Len(inbox') : IsTimestamp(inbox'[i]) /\ Handling' => dataPkg'.ts < inbox'[i].ts
    BY <1>1, <1>2 DEF Buffered
  <1>5. ASSUME NEW i \in 1..Len(inbox'), NEW j \in 1..Len(inbox'), i < j,
               IsTimestamp(inbox'[i]), IsTimestamp(inbox'[j])
        PROVE  inbox'[i].ts < inbox'[j].ts
    <2>1. i + 1 \in 1..Len(inbox) /\ j + 1 \in 1..Len(inbox) /\ i + 1 < j + 1
          /\ inbox'[i] = inbox[i + 1] /\ inbox'[j] = inbox[j + 1]
      BY <1>1, <1>5
    <2> QED BY <1>5, <2>1 DEF Buffered
  <1> QED BY <1>2, <1>3, <1>4, <1>5 DEF Buffered

\* A package of the host goes behind the others; a timestamp has the next number.
LEMMA AppendOrder ==
  ASSUME TypeOK, Buffered, Echoed, NEW package \in Messages, inbox' = Append(inbox, package),
         UNCHANGED <<task, dataPkg, echoes>>,
         timestamps' = timestamps + (IF IsTimestamp(package) THEN 1 ELSE 0),
         IsTimestamp(package) => package.ts = timestamps'
  PROVE  Buffered' /\ Echoed'
  <1>n. /\ timestamps \in Nat /\ Len(inbox) \in Nat /\ Len(echoes) \in Nat
        /\ \A i \in 1..Len(inbox) : inbox[i].ts \in Nat
        /\ \A i \in 1..Len(echoes) : echoes[i] \in Nat
        /\ dataPkg.ts \in Nat
    BY Numbers
  <1>1. timestamps' \in Nat /\ timestamps <= timestamps'
        /\ (IsTimestamp(package) => timestamps < package.ts /\ package.ts = timestamps')
    BY <1>n
  <1>2. \A ts \in Nat : Later(ts) => Later(ts)' /\ ts <= timestamps
    BY <1>n, <1>1 DEF Later
  <1>3. Handling' <=> Handling
    BY DEF Handling
  <1>4. Echoed'
    BY <1>n, <1>1, <1>2, <1>3 DEF Echoed
  <1> DEFINE n == Len(inbox) + 1
  <1>5. /\ Len(inbox') = n /\ inbox'[n] = package
        /\ \A i \in 1..Len(inbox) : inbox'[i] = inbox[i]
    BY <1>n, Numbers, AppendFacts
  <1>6. \A i \in 1..Len(inbox') :
          \/ i \in 1..Len(inbox) /\ inbox'[i] = inbox[i]
          \/ i = n /\ inbox'[i] = package
    BY <1>n, <1>5
  <1>7. ASSUME IsTimestamp(package)
        PROVE  Later(package.ts)' /\ (Handling => dataPkg.ts < package.ts)
    <2>1. package.ts \in 1..timestamps'
      BY <1>n, <1>1, <1>7
    <2>2. \A i \in 1..Len(echoes) : echoes[i] < package.ts
      BY <1>n, <1>1, <1>7 DEF Echoed
    <2>3. Handling => dataPkg.ts < package.ts
      BY <1>n, <1>1, <1>2, <1>7 DEF Echoed
    <2> QED BY <2>1, <2>2, <2>3 DEF Later
  <1>8. ASSUME NEW i \in 1..Len(inbox'), IsTimestamp(inbox'[i])
        PROVE  Later(inbox[i].ts)' /\ (Handling' => dataPkg'.ts < inbox'[i].ts)
    <2>1. CASE i \in 1..Len(inbox) /\ inbox'[i] = inbox[i]
      BY <1>n, <1>2, <1>3, <1>8, <2>1 DEF Buffered
    <2>2. CASE inbox'[i] = package
      BY <1>3, <1>7, <1>8, <2>2
    <2> QED BY <1>6, <2>1, <2>2
  <1>9. ASSUME NEW i \in 1..Len(inbox'), NEW j \in 1..Len(inbox'), i < j,
               IsTimestamp(inbox'[i]), IsTimestamp(inbox'[j])
        PROVE  inbox'[i].ts < inbox'[j].ts
    <2>1. i \in 1..Len(inbox) /\ inbox'[i] = inbox[i]
      BY <1>n, <1>5, <1>9
    <2>2. Later(inbox[i].ts)
      BY <1>9, <2>1 DEF Buffered
    <2>3. CASE inbox'[j] = package
      BY <1>n, <1>1, <1>2, <1>9, <2>1, <2>2, <2>3
    <2>4. CASE j \in 1..Len(inbox) /\ inbox'[j] = inbox[j]
      BY <1>9, <2>1, <2>4 DEF Buffered
    <2> QED BY <1>6, <2>3, <2>4
  <1> QED BY <1>4, <1>8, <1>9 DEF Buffered

\* Steps that neither take nor echo a timestamp.
LEMMA QuietOrder ==
  ASSUME InOrder, UNCHANGED <<inbox, timestamps, echoes, failed>>, ~Handling'
  PROVE  InOrder'
  BY OrderParts DEF InOrder, Later

\* Every step keeps the timestamps in order.
LEMMA OrderStep ==
  ASSUME TypeOK, InOrder, [Next]_vars
  PROVE  InOrder'
  <1> USE DEF host, buffer, out
  <1>n. Len(echoes) \in Nat /\ timestamps \in Nat
    BY Numbers
  <1>1. CASE Booted
    BY <1>1, BootedInv DEF IInv
  <1>2. CASE Host
    <2>1. UNCHANGED <<task, dataPkg, echoes, failed>>
      BY <1>2 DEF Host, HostPing, HostStart, HostTimestamp, HostStop, HostSends
    <2>2. \E package \in Messages :
            /\ inbox' = Append(inbox, package)
            /\ timestamps' = timestamps + (IF IsTimestamp(package) THEN 1 ELSE 0)
            /\ IsTimestamp(package) => package.ts = timestamps'
      <3>1. CASE HostTimestamp
        <4> DEFINE package == Package("TIMESTAMP", timestamps')
        <4>1. inbox' = Append(inbox, package) /\ timestamps' = timestamps + 1
          BY <3>1 DEF HostTimestamp, HostSends
        <4>2. package \in Messages /\ IsTimestamp(package) /\ package.ts = timestamps'
          BY <1>n, <4>1 DEF Package, Messages, Types, IsTimestamp
        <4> HIDE DEF package
        <4> QED BY <4>1, <4>2
      <3>2. CASE HostPing \/ HostStart \/ HostStop
        <4>1. /\ UNCHANGED timestamps
              /\ \E package \in {Package("PING", Null), Package("SETTINGS", 1), Package("STOP", Null)} :
                   inbox' = Append(inbox, package)
          BY <3>2 DEF HostPing, HostStart, HostStop, HostSends
        <4>2. PICK package \in Messages : ~IsTimestamp(package) /\ inbox' = Append(inbox, package)
          BY <4>1 DEF Package, Messages, Types, IsTimestamp, Null
        <4> QED BY <1>n, <4>1, <4>2
      <3> QED BY <1>2, <3>1, <3>2 DEF Host
    <2>3. ~failed => Buffered' /\ Echoed'
      BY <2>1, <2>2, OrderParts, AppendOrder
    <2> QED BY <2>1, <2>3, OrderParts
  <1>3. CASE ReadCommand
    <2> SUFFICES ASSUME ~failed'
                 PROVE  Buffered' /\ Echoed'
      BY OrderParts
    <2>1. /\ task = "loop" /\ UNCHANGED <<timestamps, echoes>>
          /\ inbox /= <<>> /\ inbox' = Tail(inbox) /\ ~failed /\ dataPkg' = inbox[1]
      BY <1>3, ReadFacts DEF ReadCommand, Loop
    <2>2. Buffered /\ Echoed
      BY <2>1, OrderParts
    <2>3. Handling' => dataPkg' = inbox[1] /\ IsTimestamp(inbox[1])
      BY <2>1 DEF Handling, IsTimestamp
    <2>4. Buffered' /\ (IsTimestamp(inbox[1]) => Later(inbox[1].ts))
      BY <2>1, <2>2, <2>3, ShiftOrder
    <2>5. Echoed'
      BY <2>1, <2>2, <2>3, <2>4 DEF Echoed, Later
    <2> QED BY <2>4, <2>5
  <1>4. CASE AwaitSettings \/ ApplySettings
    <2> SUFFICES ASSUME ~failed'
                 PROVE  Buffered' /\ Echoed'
      BY OrderParts
    <2>1. /\ task' \in {"waiting", "loop"} /\ UNCHANGED <<timestamps, echoes>>
          /\ inbox /= <<>> /\ inbox' = Tail(inbox) /\ ~failed
      <3>1. CASE AwaitSettings
        BY <3>1, ReadFacts DEF AwaitSettings
      <3>2. CASE ApplySettings
        <4>1. failed' = failed \/ failed' = TRUE
          BY <3>2, Zenon DEF ApplySettings
        <4>2. /\ task' = "loop" /\ UNCHANGED <<timestamps, echoes>>
              /\ inbox /= <<>> /\ inbox' = Tail(inbox)
          BY <3>2 DEF ApplySettings
        <4> QED BY <4>1, <4>2
      <3> QED BY <1>4, <3>1, <3>2
    <2>2. Buffered /\ Echoed
      BY <2>1, OrderParts
    <2>3. ~Handling'
      BY <2>1 DEF Handling
    <2>4. Buffered'
      BY <2>1, <2>2, <2>3, ShiftOrder
    <2>5. Echoed'
      BY <2>1, <2>2, <2>3 DEF Echoed
    <2> QED BY <2>4, <2>5
  <1>5. CASE HandleTimestamp
    <2>1. Handling /\ ~Handling' /\ UNCHANGED <<inbox, timestamps, failed>>
      BY <1>5 DEF HandleTimestamp, Handled, Handling, IsTimestamp
    <2>2. CASE UNCHANGED echoes
      BY <2>1, <2>2, QuietOrder
    <2>3. CASE echoes' = Append(echoes, dataPkg.ts)
      <3>1. /\ echoes \in Seq(Nat) /\ dataPkg.ts \in Nat
            /\ \A i \in 1..Len(inbox) : inbox[i].ts \in Nat
        BY Numbers DEF TypeOK
      <3>2. /\ Len(echoes') = Len(echoes) + 1
            /\ \A i \in 1..Len(echoes) : echoes'[i] = echoes[i]
            /\ echoes'[Len(echoes) + 1] = dataPkg.ts
        BY <2>3, <3>1, AppendFacts
      <3>3. \A i \in 1..Len(echoes') :
              \/ i \in 1..Len(echoes) /\ echoes'[i] = echoes[i]
              \/ i = Len(echoes) + 1 /\ echoes'[i] = dataPkg.ts
        BY <1>n, <3>2
      <3>4. ASSUME ~failed
            PROVE  Buffered' /\ Echoed'
        <4>1. Buffered /\ Echoed /\ Later(dataPkg.ts)
          BY <2>1, <3>4, OrderParts DEF Echoed
        <4>2. \A i \in 1..Len(echoes') : echoes'[i] \in 1..timestamps
          BY <3>3, <4>1 DEF Echoed, Later
        <4>3. \A i, j \in 1..Len(echoes') : i < j => echoes'[i] < echoes'[j]
          <5> SUFFICES ASSUME NEW i \in 1..Len(echoes'), NEW j \in 1..Len(echoes'), i < j
                       PROVE  echoes'[i] < echoes'[j]
            OBVIOUS
          <5>1. i \in 1..Len(echoes) /\ echoes'[i] = echoes[i]
            BY <1>n, <3>2
          <5> QED BY <3>3, <4>1, <5>1 DEF Echoed, Later
        <4>4. \A i \in 1..Len(inbox) : IsTimestamp(inbox[i]) => Later(inbox[i].ts)'
          BY <2>1, <3>1, <3>3, <4>1 DEF Buffered, Later
        <4> QED BY <2>1, <4>1, <4>2, <4>3, <4>4 DEF Buffered, Echoed
      <3> QED BY <2>1, <3>4, OrderParts
    <2> QED BY <1>5, <2>2, <2>3 DEF HandleTimestamp
  <1>6. CASE EchoWithoutPayload
    <2>1. Handling /\ dataPkg.ts = 0 /\ UNCHANGED failed
      BY <1>6 DEF EchoWithoutPayload, Handled, Handling, IsTimestamp, Package, Null
    <2>2. failed
      BY <2>1 DEF InOrder, Later
    <2> QED BY <2>1, <2>2 DEF InOrder
  <1>7. CASE Connect \/ HandleOther \/ CommandsDone \/ Blocks
    <2>1. UNCHANGED <<inbox, timestamps, echoes, failed>> /\ task' /= "handle"
      BY <1>7 DEF Connect, HandleOther, CommandsDone, Blocks, SendData, SendGenerated,
                  NotEnoughData, Handled
    <2> QED BY <2>1, QuietOrder DEF Handling
  <1>8. CASE Acquire \/ UNCHANGED vars
    <2>1. UNCHANGED <<inbox, timestamps, echoes, failed, task, dataPkg>>
      BY <1>8 DEF Acquire, vars
    <2> QED BY <2>1 DEF InOrder, Handling, Later
  <1> QED BY <1>1, <1>2, <1>3, <1>4, <1>5, <1>6, <1>7, <1>8, Steps DEF Commands

-----------------------------------------------------------------------------
(* The end of a measurement.                                               *)

\* Every step leaves a counting client less than a block ahead of its end.
LEMMA CountedStep ==
  ASSUME TypeOK, Counted, [Next]_vars
  PROVE  Counted'
  <1> USE DEF host, buffer, out, counting
  <1>n. /\ BUFFERSIZE \in Nat \ {0} /\ total_samples \in Nat /\ Len(sent) \in Nat
        /\ sent \in Seq(Nat)
    BY ClientAssumption, LenProperties DEF TypeOK
  <1>1. CASE Booted
    BY <1>1, BootedInv DEF IInv
  <1>2. CASE Host \/ Acquire \/ UNCHANGED vars
    <2>1. UNCHANGED <<firmware, task, sent, total_samples>>
      BY <1>2 DEF Host, HostPing, HostStart, HostTimestamp, HostStop, HostSends, Acquire, vars
    <2> QED BY <2>1 DEF Counted
  <1>3. CASE Connect \/ AwaitSettings
    <2>1. /\ UNCHANGED <<firmware, sent, total_samples>>
          /\ task \in {"boot", "waiting"} /\ task' = "waiting"
      BY <1>3 DEF Connect, AwaitSettings
    <2> QED BY <2>1 DEF Counted
  <1>4. CASE ApplySettings
    <2>1. UNCHANGED <<firmware, sent>> /\ task = "waiting" /\ task' = "loop"
      BY <1>4 DEF ApplySettings
    <2>2. TypeOK'
      BY TypeStep
    <2>3. total_samples' \in Nat
      BY <2>2 DEF TypeOK
    <2>4. counting => Len(sent) = 0
      BY <2>1 DEF Counted
    <2>5. 0 < total_samples' + BUFFERSIZE
      <3>1. \A n \in Nat : 0 < n + BUFFERSIZE
        BY ClientAssumption
      <3> QED BY <2>3, <3>1
    <2> QED BY <2>1, <2>4, <2>5 DEF Counted
  <1>5. CASE ReadCommand \/ CommandsDone
    <2>1. UNCHANGED <<firmware, sent, total_samples>> /\ task' \in {"handle", "data"} /\ Loop
      BY <1>5 DEF ReadCommand, CommandsDone, Handled
    <2>2. counting => Len(sent) < total_samples
      BY <2>1 DEF Loop, progress
    <2> QED BY <1>n, <2>1, <2>2 DEF Counted
  <1>6. CASE HandleTimestamp \/ EchoWithoutPayload \/ HandleOther \/ NotEnoughData
    <2>1. /\ UNCHANGED <<firmware, sent, total_samples>>
          /\ task' = "loop"
      BY <1>6 DEF HandleTimestamp, EchoWithoutPayload, HandleOther, NotEnoughData, Handled
    <2> QED BY <2>1 DEF Counted
  <1>7. CASE SendData
    <2>1. /\ UNCHANGED <<firmware, total_samples>> /\ task = "data" /\ task' = "loop"
          /\ sent' = sent \o SubSeq(queue, 1, BUFFERSIZE)
          /\ queue \in Seq(Nat) /\ BUFFERSIZE <= Len(queue)
      BY <1>7 DEF SendData, TypeOK
    <2>2. /\ SubSeq(queue, 1, BUFFERSIZE) \in Seq(Nat)
          /\ Len(SubSeq(queue, 1, BUFFERSIZE)) = BUFFERSIZE
      <3>1. Len(queue) \in Nat /\ \A i \in 1..Len(queue) : queue[i] \in Nat
        BY <2>1, LenProperties
      <3>2. 1 \in 1..(Len(queue) + 1) /\ BUFFERSIZE \in (1 - 1)..Len(queue)
        BY <1>n, <2>1, <3>1
      <3>3. BUFFERSIZE - 1 + 1 = BUFFERSIZE
        BY <1>n
      <3> QED BY <1>n, <2>1, <3>1, <3>2, <3>3, SubSeqProperties
    <2>3. Len(sent') = Len(sent) + BUFFERSIZE
      BY <1>n, <2>1, <2>2, ConcatProperties
    <2> QED BY <1>n, <2>1, <2>3 DEF Counted
  <1>8. CASE SendGenerated
    BY <1>8 DEF SendGenerated, Counted
  <1> QED BY <1>1, <1>2, <1>3, <1>4, <1>5, <1>6, <1>7, <1>8, Steps DEF Commands, Blocks

\* Every step leaves the client without a STOP that the host did not send.
LEMMA StopsStep ==
  ASSUME TypeOK, StopsAreSent, [Next]_vars
  PROVE  StopsAreSent'
  <1> USE DEF host, buffer, out
  <1>n. inbox \in Seq(Messages) /\ Len(inbox) \in Nat
    BY Numbers
  <1>1. CASE Booted
    BY <1>1, BootedInv DEF IInv
  <1>2. CASE Host
    <2>1. /\ UNCHANGED <<task, dataPkg, failed>>
          /\ \E package \in Messages :
               /\ inbox' = Append(inbox, package)
               /\ ~stopped' => ~stopped /\ package.type /= "STOP"
      <3>1. \A type \in Types, ts \in Nat :
              /\ Package(type, ts) \in Messages
              /\ Package(type, ts).type = type
        BY DEF Package, Messages
      <3>2. CASE HostPing
        BY <3>1, <3>2 DEF HostPing, HostSends, Types, Null
      <3>3. CASE HostStart
        BY <3>1, <3>3 DEF HostStart, HostSends, Types
      <3>4. CASE HostTimestamp
        <4>1. timestamps' \in Nat
          BY <3>4, Numbers DEF HostTimestamp
        <4> QED BY <3>1, <3>4, <4>1 DEF HostTimestamp, HostSends, Types
      <3>5. CASE HostStop
        BY <3>1, <3>5 DEF HostStop, HostSends, Types, Null
      <3> QED BY <1>2, <3>2, <3>3, <3>4, <3>5 DEF Host
    <2>2. PICK package \in Messages :
               /\ inbox' = Append(inbox, package)
               /\ ~stopped' => ~stopped /\ package.type /= "STOP"
      BY <2>1
    <2>3. /\ Len(inbox') = Len(inbox) + 1 /\ inbox'[Len(inbox) + 1] = package
          /\ \A i \in 1..Len(inbox) : inbox'[i] = inbox[i]
      BY <1>n, <2>2, AppendFacts
    <2>4. \A i \in 1..Len(inbox') : i \in 1..Len(inbox) \/ i = Len(inbox) + 1
      BY <1>n, <2>3
    <2> QED BY <2>1, <2>2, <2>3, <2>4 DEF StopsAreSent
  <1>3. CASE AwaitSettings \/ ReadCommand
    <2>1. /\ ReadPackage /\ UNCHANGED stopped
      BY <1>3 DEF AwaitSettings, ReadCommand
    <2>2. /\ inbox /= <<>> /\ inbox' = Tail(inbox)
          /\ ~failed' => ~failed /\ dataPkg' = inbox[1]
      BY <2>1, ReadFacts
    <2>3. /\ Len(inbox') = Len(inbox) - 1 /\ Len(inbox) \in Nat \ {0}
          /\ \A i \in 1..Len(inbox') : inbox'[i] = inbox[i + 1]
      BY <1>n, <2>2, TailFacts
    <2>4. 1 \in 1..Len(inbox) /\ \A i \in 1..Len(inbox') : i + 1 \in 1..Len(inbox)
      BY <2>3
    <2> QED BY <2>1, <2>2, <2>3, <2>4 DEF StopsAreSent
  <1>4. CASE ApplySettings
    <2>1. /\ UNCHANGED stopped /\ task' = "loop" /\ inbox /= <<>> /\ inbox' = Tail(inbox)
          /\ failed' = failed \/ failed' = TRUE
      BY <1>4, Zenon DEF ApplySettings
    <2>2. /\ Len(inbox') = Len(inbox) - 1 /\ Len(inbox) \in Nat \ {0}
          /\ \A i \in 1..Len(inbox') : inbox'[i] = inbox[i + 1]
      BY <1>n, <2>1, TailFacts
    <2>3. \A i \in 1..Len(inbox') : i + 1 \in 1..Len(inbox)
      BY <2>2
    <2> QED BY <2>1, <2>2, <2>3 DEF StopsAreSent
  <1>5. CASE \/ Connect \/ HandleTimestamp \/ EchoWithoutPayload \/ HandleOther
             \/ CommandsDone \/ Blocks
    <2>1. UNCHANGED <<stopped, failed, inbox>> /\ task' /= "handle"
      BY <1>5 DEF Connect, HandleTimestamp, EchoWithoutPayload, HandleOther, CommandsDone,
                  Handled, Blocks, SendData, SendGenerated, NotEnoughData
    <2> QED BY <2>1 DEF StopsAreSent
  <1>6. CASE Acquire \/ UNCHANGED vars
    <2>1. UNCHANGED <<stopped, failed, inbox, task, dataPkg>>
      BY <1>6 DEF Acquire, vars
    <2> QED BY <2>1 DEF StopsAreSent
  <1> QED BY <1>1, <1>2, <1>3, <1>4, <1>5, <1>6, Steps DEF Commands

-----------------------------------------------------------------------------
(* The theorems.                                                           *)

\* The inductive invariant of a client.
THEOREM Invariance == Spec => []IInv
  <1>1. IInv /\ [Next]_vars => IInv'
    BY TypeStep, OrderStep, SamplesStep, CountedStep, StopsStep DEF IInv
  <1> QED BY InitInv, <1>1, PTL DEF Spec

\* The variables of a client keep their types.
THEOREM TypeCorrect == Spec => []TypeOK
  <1>1. IInv => TypeOK
    BY DEF IInv
  <1> QED BY <1>1, Invariance, PTL

\* Samples are sent in order, none twice, and none is lost but to a full queue.
THEOREM SamplesAreAccounted == Spec => []SamplesAccounted
  <1>1. IInv => SamplesAccounted
    <2> SUFFICES ASSUME TypeOK, Accounted
                 PROVE  SamplesAccounted
      BY DEF IInv
    <2>1. /\ Len(kept) \in Nat /\ DOMAIN kept = 1..Len(kept)
          /\ acquired \in Nat /\ leaked \subseteq 1..acquired
      BY ConcatProperties, LenProperties DEF TypeOK, kept, Accounted
    <2>2. \A i \in 1..(Len(kept) - 1) : kept[i] < kept[i + 1]
      BY <2>1 DEF Accounted
    <2>3. {kept[i] : i \in DOMAIN kept} \cup leaked = 1..acquired
      BY <2>1 DEF Accounted
    <2>4. Len(kept) + Cardinality(leaked) = acquired
      BY DEF Accounted
    <2> QED BY <2>2, <2>3, <2>4 DEF SamplesAccounted, kept
  <1> QED BY <1>1, Invariance, PTL

\* While reads succeed, echoes carry timestamps of the host, in the order of the
\* requests, none twice, whichever of them were left unanswered.
THEOREM EchoesInOrder == Spec => []EchoesFollowRequests
  <1>1. IInv => EchoesFollowRequests
    <2>1. TypeOK => DOMAIN echoes = 1..Len(echoes)
      BY LenProperties DEF TypeOK
    <2> QED BY <2>1 DEF IInv, InOrder, EchoesFollowRequests
  <1> QED BY <1>1, Invariance, PTL

\* A counting client restarts of itself when its samples are sent, at most a block
\* late, whatever the block size.
THEOREM EndsWithSamples == Spec => EndsInTime
  <1> DEFINE Ends == (counting /\ task /= "boot" /\ task' = "boot" /\ ~stopped /\ ~failed) =>
                       Len(sent) \in total_samples..(total_samples + BUFFERSIZE - 1)
  <1>1. IInv /\ [Next]_vars => [Ends]_vars
    <2> SUFFICES ASSUME IInv, Next, counting, task /= "boot", task' = "boot", ~stopped, ~failed
                 PROVE  Len(sent) \in total_samples..(total_samples + BUFFERSIZE - 1)
      OBVIOUS
    <2>1. TypeOK /\ InOrder /\ Counted /\ StopsAreSent
      BY DEF IInv
    <2>2. CrashOnEcho \/ HandleStop \/ Finish
      <3>1. ~Host /\ ~Acquire
        BY DEF Host, HostPing, HostStart, HostTimestamp, HostStop, HostSends, Acquire
      <3>2. ~Connect /\ ~AwaitSettings /\ ~ApplySettings /\ ~ReadCommand
        BY DEF Connect, AwaitSettings, ApplySettings, ReadCommand
      <3>3. ~HandleTimestamp /\ ~EchoWithoutPayload /\ ~HandleOther /\ ~CommandsDone
        BY DEF HandleTimestamp, EchoWithoutPayload, HandleOther, CommandsDone
      <3>4. ~SendData /\ ~SendGenerated /\ ~NotEnoughData
        BY DEF SendData, SendGenerated, NotEnoughData
      <3> QED BY <3>1, <3>2, <3>3, <3>4 DEF Next, SendTask
    <2>3. ~HandleStop
      BY <2>1 DEF HandleStop, StopsAreSent
    <2>4. ~CrashOnEcho
      <3> SUFFICES ASSUME CrashOnEcho
                   PROVE  FALSE
        OBVIOUS
      <3>1. Handling /\ dataPkg.ts = 0
        BY DEF CrashOnEcho, Handling, Package, Null, IsTimestamp
      <3> QED BY <2>1, <3>1 DEF InOrder, Later
    <2>5. Len(sent) >= total_samples
      BY <2>2, <2>3, <2>4 DEF Finish, progress
    <2>6. Len(sent) < total_samples + BUFFERSIZE
      BY <2>1 DEF Counted
    <2>7. Len(sent) \in Nat /\ total_samples \in Nat /\ BUFFERSIZE \in Nat
      BY <2>1, ClientAssumption, LenProperties DEF TypeOK
    <2> QED BY <2>5, <2>6, <2>7
  <1> QED BY <1>1, Invariance, PTL DEF Spec, EndsInTime
=============================================================================
