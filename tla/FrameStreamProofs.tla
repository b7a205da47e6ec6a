--------------------------- MODULE FrameStreamProofs ---------------------------
(***************************************************************************)
(* The byte stream keeps the promise of PackageChannel, for any size of    *)
(* the payloads and any number of frames.  While nothing broke, what the   *)
(* reader has read of a frame and what is on the wire are, together, the   *)
(* bytes of the frames that were not delivered yet, from the beginning of  *)
(* the next one on.  Where each frame ends in these bytes is a function    *)
(* whose existence is part of the invariant.                               *)
(***************************************************************************)
EXTENDS FrameStream, SequenceTheorems, TLAPS

Frames == [type : Byte, payload : Seq(Byte)]

\* The bytes after the last delivered frame.
stream == (header \o buf) \o wire

\* The bytes that a send takes of those it is given.
Begins(x, bytes) == Len(x) <= Len(bytes) /\ \A i \in 1..Len(x) : x[i] = bytes[i]

\* r is what s has behind its first c elements.
Behind(s, c, r) == Len(s) = c + Len(r) /\ \A i \in 1..Len(r) : s[c + i] = r[i]

\* Byte j of frame k is where it should be, if it is there.
ByteInPlace(s, fs, end, k, j) ==
  end[k - 1] + j <= Len(s) => s[end[k - 1] + j] = Bytes(fs[k])[j]

\* The bytes s are those of the frames fs behind the m-th: the k-th ends at
\* end[k], and the last ones may not be there yet.
Framed(s, fs, m, end) ==
  /\ end \in [m..Len(fs) -> Int]
  /\ end[m] = 0
  /\ \A k, l \in m..Len(fs) : k <= l => end[k] <= end[l]
  /\ \A k \in (m + 1)..Len(fs) : end[k] = end[k - 1] + Len(Bytes(fs[k]))
  /\ \A k \in (m + 1)..Len(fs) : \A j \in 1..Len(Bytes(fs[k])) :
       ByteInPlace(s, fs, end, k, j)
  /\ Len(s) <= end[Len(fs)]

\* Of the last frame, f, the header was sent.
HeaderSent(s, fs, end, f) ==
  fs[Len(fs)] = f /\ Len(s) = end[Len(fs) - 1] + HeaderSize

\* The same with one more frame, whose bytes begin at e, or with the first
\* frame taken off, which had c bytes.
OneMore(t, gs, m, n, e, size) ==
  \E more \in [m..Len(gs) -> Int] :
    Framed(t, gs, m, more) /\ more[n] = e /\ more[n + 1] = e + size
OneLess(r, fs, m, end, c) ==
  \E less \in [(m + 1)..Len(fs) -> Int] :
    Framed(r, fs, m + 1, less) /\ \A k \in (m + 1)..Len(fs) : less[k] = end[k] - c

\* The frame that is sent in two parts.
Begun == IF direction = "to_client" THEN Ping ELSE Handshake

\* Nothing is missing of the frames that were begun, but for a payload to come.
UpToDate(end) ==
  /\ sending = "idle" => Len(stream) = end[Len(frames)]
  /\ sending = "payload" => /\ Len(packages) < Len(frames)
                            /\ HeaderSent(stream, frames, end, Begun)

InStep ==
  intact => /\ Len(packages) <= Len(frames)
            /\ \E end \in [Len(packages)..Len(frames) -> Int] :
                 /\ Framed(stream, frames, Len(packages), end)
                 /\ ~closed => UpToDate(end)

\* A reader of a payload has a whole header; only the host closes.
HeaderRead ==
  /\ part = "header" => header = NoHeader
  /\ part = "payload" => Len(header) = HeaderSize
  /\ direction = "to_host" => ~closed

IInv == TypeOK /\ HeaderRead /\ InStep
-----------------------------------------------------------------------------
(* Sequences.                                                              *)

\* The first n elements of a sequence, and the others.
LEMMA SplitFacts ==
  ASSUME NEW S, NEW s \in Seq(S), NEW n \in 0..Len(s)
  PROVE  /\ SubSeq(s, 1, n) \in Seq(S) /\ Len(SubSeq(s, 1, n)) = n
         /\ \A i \in 1..n : SubSeq(s, 1, n)[i] = s[i]
         /\ SubSeq(s, n + 1, Len(s)) \in Seq(S)
         /\ Len(SubSeq(s, n + 1, Len(s))) = Len(s) - n
         /\ SubSeq(s, 1, n) \o SubSeq(s, n + 1, Len(s)) = s
  <1>1. Len(s) \in Nat /\ \A i \in 1..Len(s) : s[i] \in S
    BY LenProperties
  <1>2. /\ SubSeq(s, 1, n) \in Seq(S)
        /\ Len(SubSeq(s, 1, n)) = IF 1 <= n THEN n - 1 + 1 ELSE 0
        /\ \A i \in 1..(n - 1 + 1) : SubSeq(s, 1, n)[i] = s[1 + i - 1]
    <2>1. \A i \in 1..n : s[i] \in S
      BY <1>1
    <2> QED BY <1>1, <2>1, SubSeqProperties
  <1>3. /\ SubSeq(s, n + 1, Len(s)) \in Seq(S)
        /\ Len(SubSeq(s, n + 1, Len(s))) =
             IF n + 1 <= Len(s) THEN Len(s) - (n + 1) + 1 ELSE 0
    <2>1. \A i \in (n + 1)..Len(s) : s[i] \in S
      BY <1>1
    <2> QED BY <1>1, <2>1, SubSeqProperties
  <1>4. \A i \in 1..n : SubSeq(s, 1, n)[i] = s[i]
    <2> SUFFICES ASSUME NEW i \in 1..n PROVE SubSeq(s, 1, n)[i] = s[i]
      OBVIOUS
    <2>1. i \in 1..(n - 1 + 1) /\ 1 + i - 1 = i
      BY <1>1
    <2> QED BY <1>2, <2>1
  <1>5. SubSeq(s, 1, n) \o SubSeq(s, n + 1, Len(s)) = s
    <2>1. 1 \in 1..(Len(s) + 1) /\ n \in (1 - 1)..Len(s) /\ Len(s) \in n..Len(s)
      BY <1>1
    <2>2. SubSeq(s, 1, n) \o SubSeq(s, n + 1, Len(s)) = SubSeq(s, 1, Len(s))
      BY <2>1, ConcatAdjacentSubSeq
    <2> QED BY <2>2, SubSeqFull
  <1>6. Len(SubSeq(s, 1, n)) = n /\ Len(SubSeq(s, n + 1, Len(s))) = Len(s) - n
    BY <1>1, <1>2, <1>3
  <1> QED BY <1>2, <1>3, <1>4, <1>5, <1>6

\* Two sequences, one behind the other.
LEMMA ConcatFacts ==
  ASSUME NEW S, NEW s \in Seq(S), NEW t \in Seq(S)
  PROVE  /\ s \o t \in Seq(S)
         /\ Len(s) \in Nat /\ Len(t) \in Nat /\ Len(s \o t) = Len(s) + Len(t)
         /\ \A i \in 1..Len(s) : (s \o t)[i] = s[i]
         /\ \A i \in 1..Len(t) : (s \o t)[Len(s) + i] = t[i]
  <1>1. Len(s) \in Nat /\ Len(t) \in Nat
    BY LenProperties
  <1>2. /\ s \o t \in Seq(S) /\ Len(s \o t) = Len(s) + Len(t)
        /\ \A i \in 1..(Len(s) + Len(t)) :
             (s \o t)[i] = IF i <= Len(s) THEN s[i] ELSE t[i - Len(s)]
    BY ConcatProperties
  <1>3. \A i \in 1..Len(s) : (s \o t)[i] = s[i]
    BY <1>1, <1>2
  <1>4. ASSUME NEW i \in 1..Len(t) PROVE (s \o t)[Len(s) + i] = t[i]
    <2>1. /\ Len(s) + i \in 1..(Len(s) + Len(t)) /\ ~(Len(s) + i <= Len(s))
          /\ Len(s) + i - Len(s) = i
      BY <1>1
    <2> QED BY <1>2, <2>1
  <1> QED BY <1>1, <1>2, <1>3, <1>4

LEMMA ConcatBytes ==
  \A s, t, u \in Seq(Byte) : (s \o t) \o u = s \o (t \o u)
  <1> TAKE s, t, u \in Seq(Byte)
  <1> QED BY ConcatAssociative, SMTT(30)

\* The empty sequence adds nothing.
LEMMA NothingFirst ==
  \A s \in Seq(Byte) : <<>> \o s = s
  BY ConcatEmptySeq, SMTT(30)

\* A sequence with one more element.
LEMMA AppendFacts ==
  ASSUME NEW S, NEW s \in Seq(S), NEW e \in S
  PROVE  /\ Append(s, e) \in Seq(S)
         /\ Len(s) \in Nat
         /\ Len(Append(s, e)) = Len(s) + 1
         /\ \A i \in 1..Len(s) : Append(s, e)[i] = s[i]
         /\ Append(s, e)[Len(s) + 1] = e
  BY AppendProperties

-----------------------------------------------------------------------------
(* Frames and their bytes.                                                 *)

LEMMA FrameBytes ==
  ASSUME NEW f \in Frames
  PROVE  /\ Header(f) \in Seq(Byte) /\ Len(Header(f)) = HeaderSize
         /\ f.payload \in Seq(Byte) /\ Len(f.payload) \in Nat
         /\ Bytes(f) \in Seq(Byte)
         /\ Len(Bytes(f)) = HeaderSize + Len(f.payload)
         /\ Bytes(f)[1] = f.type /\ Bytes(f)[2] = Len(f.payload)
         /\ \A i \in 1..HeaderSize : Bytes(f)[i] = Header(f)[i]
         /\ \A i \in 1..Len(f.payload) : Bytes(f)[HeaderSize + i] = f.payload[i]
  <1>1. f.type \in Byte /\ f.payload \in Seq(Byte) /\ Len(f.payload) \in Byte
    BY LenProperties DEF Frames, Byte
  <1>2. Header(f) \in Seq(Byte) /\ Len(Header(f)) = 2
    BY <1>1 DEF Header
  <1>3. Header(f)[1] = f.type /\ Header(f)[2] = Len(f.payload)
    BY DEF Header
  <1>4. 1 \in 1..Len(Header(f)) /\ 2 \in 1..Len(Header(f))
    BY <1>2
  <1>5. Len(f.payload) \in Nat
    BY <1>1 DEF Byte
  <1>6. PICK h \in Seq(Byte), q \in Seq(Byte) : h = Header(f) /\ q = f.payload
    BY <1>1, <1>2
  <1>7. /\ h \o q \in Seq(Byte) /\ Len(h \o q) = 2 + Len(q)
        /\ \A i \in 1..2 : (h \o q)[i] = h[i]
        /\ \A i \in 1..Len(q) : (h \o q)[2 + i] = q[i]
    <2>1. /\ h \o q \in Seq(Byte) /\ Len(h \o q) = Len(h) + Len(q)
          /\ \A i \in 1..Len(h) : (h \o q)[i] = h[i]
          /\ \A i \in 1..Len(q) : (h \o q)[Len(h) + i] = q[i]
      BY ConcatFacts
    <2>2. Len(h) = 2
      BY <1>2, <1>6
    <2> QED BY <2>1, <2>2, Zenon
  <1>8. Bytes(f) = h \o q
    BY <1>6 DEF Bytes
  <1>9. 1 \in 1..2 /\ 2 \in 1..2
    OBVIOUS
  <1>10. Bytes(f)[1] = h[1] /\ Bytes(f)[2] = h[2]
    BY <1>7, <1>8, <1>9
  <1> QED BY <1>1, <1>2, <1>3, <1>5, <1>6, <1>7, <1>8, <1>10 DEF HeaderSize

LEMMA FrameSize ==
  ASSUME NEW f \in Frames
  PROVE  Len(Bytes(f)) \in Nat /\ Len(Bytes(f)) >= 2
  <1>1. Len(f.payload) \in Nat /\ Len(Bytes(f)) = 2 + Len(f.payload)
    BY FrameBytes DEF HeaderSize
  <1> QED BY <1>1

LEMMA SameFrame ==
  \A f, g \in Frames : f.type = g.type /\ f.payload = g.payload => f = g
  BY DEF Frames

\* The frames that are sent.
LEMMA FramesSent ==
  /\ {Ping, Timestamp, Settings, Stop, Handshake, Echo, Data} \subseteq Frames
  /\ Len(Ping.payload) = PingSize /\ Len(Timestamp.payload) = TimestampSize
  /\ PingSize \in Nat \ {0} /\ TimestampSize \in Nat \ {0}
  /\ Stop.payload = <<>>
  /\ Len(Handshake.payload) = 2
  <1>0. PingSize \in Nat \ {0} /\ TimestampSize \in Nat \ {0}
    BY FrameAssumption
  <1>1. \A n \in Nat, b \in Byte : /\ [i \in 1..n |-> b] \in Seq(Byte)
                                  /\ Len([i \in 1..n |-> b]) = n
    <2> SUFFICES ASSUME NEW n \in Nat, NEW b \in Byte
                 PROVE  [i \in 1..n |-> b] \in Seq(Byte) /\ Len([i \in 1..n |-> b]) = n
      OBVIOUS
    <2> DEFINE s == [i \in 1..n |-> b]
    <2>1. s \in [1..n -> Byte]
      OBVIOUS
    <2>2. s \in Seq(Byte) /\ Len(s) \in Nat /\ DOMAIN s = 1..Len(s) /\ DOMAIN s = 1..n
      BY <2>1, SeqDef, LenProperties
    <2> HIDE DEF s
    <2>3. Len(s) = n
      <3>1. 1..Len(s) = 1..n /\ Len(s) \in Nat
        BY <2>2
      <3>2. Len(s) <= n
        BY <3>1
      <3>3. n <= Len(s)
        BY <3>1
      <3> QED BY <3>1, <3>2, <3>3
    <2> QED BY <2>2, <2>3 DEF s
  <1>2. /\ {PING, STOP, SETTINGS, DATA, TIMESTAMP, HANDSHAKE} \subseteq Byte
        /\ {0, 1, 2, 3, 4} \subseteq Byte
    BY DEF PING, STOP, SETTINGS, DATA, TIMESTAMP, HANDSHAKE, Byte
  <1>3. Ping \in Frames /\ Len(Ping.payload) = PingSize
    BY <1>0, <1>1, <1>2 DEF Ping, Frame, Frames
  <1>4. Timestamp \in Frames /\ Len(Timestamp.payload) = TimestampSize
    BY <1>0, <1>1, <1>2 DEF Timestamp, Frame, Frames
  <1>5. Settings \in Frames /\ Data \in Frames
    BY <1>2 DEF Settings, Data, Frame, Frames
  <1>6. Stop \in Frames /\ Stop.payload = <<>>
    BY <1>2, EmptySeq DEF Stop, Frame, Frames
  <1>7. Handshake \in Frames /\ Len(Handshake.payload) = 2
    BY <1>2 DEF Handshake, Frame, Frames
  <1>8. Echo \in Frames
    <2>1. Timestamp.payload \in Seq(Byte)
      BY <1>4 DEF Frames
    <2>2. Append(Timestamp.payload, 3) \in Seq(Byte)
      BY <2>1, <1>2, AppendFacts
    <2> QED BY <2>2, <1>2 DEF Echo, Frame, Frames
  <1> QED BY <1>0, <1>3, <1>4, <1>5, <1>6, <1>7, <1>8

-----------------------------------------------------------------------------
(* What a step may do to a stream of frames.                               *)

\* Indices, and where frames end.
LEMMA FramedFacts ==
  ASSUME NEW s \in Seq(Byte), NEW fs \in Seq(Frames), NEW m \in Nat, m <= Len(fs),
         NEW end, Framed(s, fs, m, end)
  PROVE  /\ Len(s) \in Nat /\ Len(fs) \in Nat
         /\ \A k \in m..Len(fs) : end[k] \in Int /\ 0 <= end[k] /\ end[k] <= end[Len(fs)]
         /\ \A k \in (m + 1)..Len(fs) :
              /\ k \in 1..Len(fs) /\ k \in m..Len(fs) /\ k - 1 \in m..Len(fs)
              /\ fs[k] \in Frames /\ Len(Bytes(fs[k])) \in Nat /\ Len(Bytes(fs[k])) >= 2
              /\ end[k] = end[k - 1] + Len(Bytes(fs[k]))
  <1>1. Len(s) \in Nat /\ Len(fs) \in Nat
    BY LenProperties
  <1>2. ASSUME NEW k \in m..Len(fs)
        PROVE  end[k] \in Int /\ 0 <= end[k] /\ end[k] <= end[Len(fs)]
    <2>1. m \in m..Len(fs) /\ Len(fs) \in m..Len(fs) /\ m <= k /\ k <= Len(fs)
      BY <1>1
    <2> QED BY <2>1 DEF Framed
  <1>3. ASSUME NEW k \in (m + 1)..Len(fs)
        PROVE  /\ k \in 1..Len(fs) /\ k \in m..Len(fs) /\ k - 1 \in m..Len(fs)
               /\ fs[k] \in Frames /\ Len(Bytes(fs[k])) \in Nat /\ Len(Bytes(fs[k])) >= 2
               /\ end[k] = end[k - 1] + Len(Bytes(fs[k]))
    <2>1. k \in 1..Len(fs) /\ k \in m..Len(fs) /\ k - 1 \in m..Len(fs)
      BY <1>1
    <2>2. fs[k] \in Frames
      BY <2>1, ElementOfSeq
    <2>3. Len(Bytes(fs[k])) \in Nat /\ Len(Bytes(fs[k])) >= 2
      BY <2>2, FrameSize
    <2>4. end[k] = end[k - 1] + Len(Bytes(fs[k]))
      BY DEF Framed
    <2> QED BY <2>1, <2>2, <2>3, <2>4
  <1> QED BY <1>1, <1>2, <1>3

\* A frame is begun, with its first bytes; with none unless the ones before it
\* are complete.
LEMMA FrameBegun ==
  ASSUME NEW s \in Seq(Byte), NEW fs \in Seq(Frames), NEW m \in Nat, m <= Len(fs),
         NEW end, Framed(s, fs, m, end),
         NEW f \in Frames, NEW x \in Seq(Byte), Begins(x, Bytes(f)),
         Len(x) = 0 \/ Len(s) = end[Len(fs)]
  PROVE  OneMore(s \o x, Append(fs, f), m, Len(fs), end[Len(fs)], Len(Bytes(f)))
  <1>1. PICK n \in Nat : n = Len(fs)
    BY LenProperties
  <1>2. PICK gs \in Seq(Frames) : /\ gs = Append(fs, f) /\ Len(gs) = n + 1
                                  /\ \A k \in 1..n : gs[k] = fs[k]
                                  /\ gs[n + 1] = f
    <2>1. /\ Append(fs, f) \in Seq(Frames)
          /\ Len(Append(fs, f)) = Len(fs) + 1
          /\ \A i \in 1..Len(fs) : Append(fs, f)[i] = fs[i]
          /\ Append(fs, f)[Len(fs) + 1] = f
      BY AppendFacts
    <2> QED BY <1>1, <2>1, Zenon
  <1>3. PICK size \in Nat : size = Len(Bytes(f))
    BY FrameSize
  <1>4. PICK t \in Seq(Byte) : /\ t = s \o x /\ Len(t) = Len(s) + Len(x)
                               /\ Len(s) \in Nat /\ Len(x) \in Nat
                               /\ \A i \in 1..Len(s) : t[i] = s[i]
                               /\ \A i \in 1..Len(x) : t[Len(s) + i] = x[i]
    <2>1. /\ s \o x \in Seq(Byte) /\ Len(s \o x) = Len(s) + Len(x)
          /\ Len(s) \in Nat /\ Len(x) \in Nat
          /\ \A i \in 1..Len(s) : (s \o x)[i] = s[i]
          /\ \A i \in 1..Len(x) : (s \o x)[Len(s) + i] = x[i]
      BY ConcatFacts
    <2> QED BY <2>1, Zenon
  <1>5. /\ \A k \in m..n : end[k] \in Int /\ 0 <= end[k] /\ end[k] <= end[n]
        /\ \A k \in (m + 1)..n :
             /\ k \in 1..n /\ k \in m..n /\ k - 1 \in m..n
             /\ Len(Bytes(fs[k])) \in Nat
             /\ end[k] = end[k - 1] + Len(Bytes(fs[k]))
    <2>1. \A k \in m..Len(fs) : end[k] \in Int /\ 0 <= end[k] /\ end[k] <= end[Len(fs)]
      BY FramedFacts
    <2>2. \A k \in (m + 1)..Len(fs) :
             /\ k \in 1..Len(fs) /\ k \in m..Len(fs) /\ k - 1 \in m..Len(fs)
             /\ Len(Bytes(fs[k])) \in Nat
             /\ end[k] = end[k - 1] + Len(Bytes(fs[k]))
      BY FramedFacts
    <2> QED BY <1>1, <2>1, <2>2, Zenon
  <1>6. m \in m..n /\ n \in m..n
    BY <1>1
  <1>7. end[n] \in Int /\ end[m] = 0 /\ Len(s) <= end[n]
    BY <1>1, <1>5, <1>6 DEF Framed
  <1>8. PICK more \in [m..(n + 1) -> Int] : /\ more[n + 1] = end[n] + size
                                           /\ \A k \in m..n : more[k] = end[k]
    <2> DEFINE g == [k \in m..(n + 1) |-> IF k = n + 1 THEN end[n] + size ELSE end[k]]
    <2>1. \A k \in m..(n + 1) : k = n + 1 \/ k \in m..n
      OBVIOUS
    <2>2. g \in [m..(n + 1) -> Int]
      BY <2>1, <1>5, <1>7
    <2>3. n + 1 \in m..(n + 1) /\ \A k \in m..n : k \in m..(n + 1) /\ k /= n + 1
      BY <1>1
    <2>4. g[n + 1] = end[n] + size /\ \A k \in m..n : g[k] = end[k]
      BY <2>3
    <2> HIDE DEF g
    <2> QED BY <2>2, <2>4
  <1>9. more[m] = 0 /\ more[n] = end[n]
    BY <1>6, <1>7, <1>8
  <1>10. \A k \in (m + 1)..(n + 1) : \/ k = n + 1 /\ k - 1 = n
                                     \/ k \in (m + 1)..n
    OBVIOUS
  <1>11. ASSUME NEW k \in (m + 1)..n
         PROVE  /\ more[k] = end[k] /\ more[k - 1] = end[k - 1]
                /\ gs[k] = fs[k]
                /\ end[k] \in Int /\ end[k - 1] \in Int /\ end[k] <= end[n]
    BY <1>2, <1>5, <1>8
  <1>12. \A k \in (m + 1)..(n + 1) : more[k] = more[k - 1] + Len(Bytes(gs[k]))
    <2>1. more[n + 1] = more[n] + Len(Bytes(gs[n + 1]))
      BY <1>2, <1>3, <1>8, <1>9
    <2>2. \A k \in (m + 1)..n : more[k] = more[k - 1] + Len(Bytes(gs[k]))
      BY <1>5, <1>11
    <2> QED BY <2>1, <2>2, <1>10
  <1>13. \A k \in (m + 1)..(n + 1) : \A j \in 1..Len(Bytes(gs[k])) :
           ByteInPlace(t, gs, more, k, j)
    <2>1. ASSUME NEW j \in 1..size
          PROVE  ByteInPlace(t, gs, more, n + 1, j)
      <3> SUFFICES ASSUME end[n] + j <= Len(t)
                   PROVE  t[end[n] + j] = Bytes(f)[j]
        BY <1>2, <1>9 DEF ByteInPlace
      <3>1. Len(x) > 0
        BY <1>3, <1>4, <1>7
      <3>2. Len(s) = end[n]
        BY <3>1, <1>1
      <3>3. j \in 1..Len(x)
        BY <3>2, <1>3, <1>4, <1>7
      <3> QED BY <3>2, <3>3, <1>4 DEF Begins
    <2>2. ASSUME NEW k \in (m + 1)..n, NEW j \in 1..Len(Bytes(fs[k]))
          PROVE  ByteInPlace(t, gs, more, k, j)
      <3>0. /\ k - 1 \in m..n /\ Len(Bytes(fs[k])) \in Nat
            /\ end[k] = end[k - 1] + Len(Bytes(fs[k]))
        BY <1>5
      <3>1. PICK a \in Nat : a = end[k - 1]
        <4>1. end[k - 1] \in Int /\ 0 <= end[k - 1]
          BY <3>0, <1>5
        <4> QED BY <4>1
      <3>2. PICK b \in Nat : b = Len(Bytes(fs[k])) /\ a + b <= end[n]
        <4>1. end[k] <= end[n]
          BY <1>11
        <4> QED BY <4>1, <3>0, <3>1
      <3>3. PICK c \in Nat : c = Len(s) /\ c <= end[n] /\ Len(t) = c + Len(x)
        BY <1>4, <1>7
      <3>4. j \in 1..b
        BY <3>2
      <3> SUFFICES ASSUME a + j <= Len(t)
                   PROVE  t[a + j] = Bytes(fs[k])[j]
        BY <3>1, <1>11 DEF ByteInPlace
      <3>5. a + j <= c
        <4>1. CASE Len(x) = 0
          BY <4>1, <3>3
        <4>2. CASE c = end[n]
          <5>1. a + b <= c
            BY <4>2, <3>2
          <5> QED BY <5>1, <3>4
        <4> QED BY <4>1, <4>2, <3>3, <1>1
      <3>6. a + j \in 1..c
        BY <3>4, <3>5
      <3>7. ByteInPlace(s, fs, end, k, j)
        BY <1>1 DEF Framed
      <3> QED BY <3>1, <3>3, <3>5, <3>6, <3>7, <1>4 DEF ByteInPlace
    <2> QED BY <2>1, <2>2, <1>2, <1>3, <1>10, <1>11
  <1>14. Len(t) <= more[n + 1]
    <2>1. Len(x) <= size
      BY <1>3 DEF Begins
    <2> QED BY <2>1, <1>4, <1>7, <1>8
  <1>15. ASSUME NEW k \in m..(n + 1), NEW l \in m..(n + 1), k <= l
         PROVE  more[k] <= more[l]
    <2>1. CASE l \in m..n
      <3>1. k \in m..n
        BY <1>15, <2>1
      <3>2. end[k] <= end[l]
        BY <1>15, <2>1, <3>1, <1>1 DEF Framed
      <3> QED BY <2>1, <3>1, <3>2, <1>8
    <2>2. CASE l = n + 1 /\ k \in m..n
      <3>1. more[k] = end[k] /\ end[k] \in Int /\ end[k] <= end[n]
        BY <2>2, <1>5, <1>8
      <3> QED BY <2>2, <3>1, <1>7, <1>8
    <2>3. CASE k = l
      <3>1. more[k] \in Int
        BY <1>8
      <3> QED BY <2>3, <3>1
    <2> QED BY <1>15, <2>1, <2>2, <2>3
  <1>16. Framed(t, gs, m, more)
    BY <1>2, <1>8, <1>9, <1>12, <1>13, <1>14, <1>15 DEF Framed
  <1>17. /\ more \in [m..Len(Append(fs, f)) -> Int]
         /\ Framed(s \o x, Append(fs, f), m, more)
         /\ more[Len(fs)] = end[Len(fs)]
         /\ more[Len(fs) + 1] = end[Len(fs)] + Len(Bytes(f))
    BY <1>1, <1>2, <1>3, <1>4, <1>8, <1>9, <1>16
  <1> QED BY <1>17 DEF OneMore

\* More of the bytes of a frame whose header was sent.
LEMMA FrameContinued ==
  ASSUME NEW s \in Seq(Byte), NEW fs \in Seq(Frames), NEW m \in Nat, m < Len(fs),
         NEW end, Framed(s, fs, m, end),
         NEW f \in Frames, HeaderSent(s, fs, end, f),
         NEW x \in Seq(Byte), Begins(x, f.payload)
  PROVE  /\ Framed(s \o x, fs, m, end)
         /\ end[Len(fs)] = Len(s) + Len(f.payload)
  <1>1. PICK n \in Nat : n = Len(fs)
    BY LenProperties
  <1>0. fs[n] = f /\ Len(s) = end[n - 1] + 2
    BY <1>1 DEF HeaderSent, HeaderSize
  <1>2. m <= Len(fs) /\ n \in m..n /\ n \in (m + 1)..n /\ n - 1 \in m..n
    BY <1>1
  <1>3. PICK size \in Nat : size = Len(f.payload) /\ Len(Bytes(f)) = 2 + size
    <2>1. Len(f.payload) \in Nat /\ Len(Bytes(f)) = 2 + Len(f.payload)
      BY FrameBytes DEF HeaderSize
    <2> QED BY <2>1
  <1>4. PICK t \in Seq(Byte) : /\ t = s \o x /\ Len(t) = Len(s) + Len(x)
                               /\ Len(s) \in Nat /\ Len(x) \in Nat
                               /\ \A i \in 1..Len(s) : t[i] = s[i]
                               /\ \A i \in 1..Len(x) : t[Len(s) + i] = x[i]
    <2>1. /\ s \o x \in Seq(Byte) /\ Len(s \o x) = Len(s) + Len(x)
          /\ Len(s) \in Nat /\ Len(x) \in Nat
          /\ \A i \in 1..Len(s) : (s \o x)[i] = s[i]
          /\ \A i \in 1..Len(x) : (s \o x)[Len(s) + i] = x[i]
      BY ConcatFacts
    <2> QED BY <2>1, Zenon
  <1>5. /\ \A k \in m..n : end[k] \in Int /\ 0 <= end[k] /\ end[k] <= end[n]
        /\ \A k \in (m + 1)..n :
             /\ k - 1 \in m..n /\ k \in m..n
             /\ Len(Bytes(fs[k])) \in Nat
             /\ end[k] = end[k - 1] + Len(Bytes(fs[k]))
    <2>1. \A k \in m..Len(fs) : end[k] \in Int /\ 0 <= end[k] /\ end[k] <= end[Len(fs)]
      BY <1>2, FramedFacts
    <2>2. \A k \in (m + 1)..Len(fs) :
             /\ k \in m..Len(fs) /\ k - 1 \in m..Len(fs)
             /\ Len(Bytes(fs[k])) \in Nat
             /\ end[k] = end[k - 1] + Len(Bytes(fs[k]))
      BY <1>2, FramedFacts
    <2> QED BY <1>1, <2>1, <2>2, Zenon
  <1>6. PICK a \in Nat : a = end[n - 1]
    <2>1. end[n - 1] \in Int /\ 0 <= end[n - 1]
      BY <1>2, <1>5
    <2> QED BY <2>1
  <1>7. Len(s) = a + 2 /\ Len(t) = (a + 2) + Len(x) /\ end[n] = (a + 2) + size
    <2>1. end[n] = a + Len(Bytes(fs[n]))
      BY <1>2, <1>5, <1>6
    <2>2. Len(Bytes(fs[n])) = 2 + size
      BY <1>0, <1>3
    <2>3. end[n] = a + (2 + size)
      BY <2>1, <2>2
    <2>4. Len(s) = a + 2
      BY <1>0, <1>6
    <2> QED BY <2>3, <2>4, <1>4
  <1>8. ASSUME NEW j \in 1..Len(Bytes(f))
        PROVE  ByteInPlace(t, fs, end, n, j)
    <2> SUFFICES ASSUME a + j <= Len(t)
                 PROVE  t[a + j] = Bytes(f)[j]
      BY <1>0, <1>6 DEF ByteInPlace
    <2>2. j \in 1..(2 + size)
      BY <1>3
    <2>3. CASE j <= 2
      <3>1. a + j \in 1..(a + 2) /\ a + j <= a + 2
        BY <2>2, <2>3
      <3>2. ByteInPlace(s, fs, end, n, j)
        BY <1>0, <1>1, <1>2 DEF Framed
      <3> QED BY <3>1, <3>2, <1>0, <1>4, <1>6, <1>7 DEF ByteInPlace
    <2>4. CASE j > 2
      <3>1. PICK i \in Nat : i = j - 2 /\ i \in 1..size /\ a + j = (a + 2) + i /\ j = 2 + i
        BY <2>2, <2>4
      <3>2. i \in 1..Len(x)
        <4>1. (a + 2) + i <= (a + 2) + Len(x) /\ Len(x) \in Nat
          BY <3>1, <1>4, <1>7
        <4> QED BY <4>1, <3>1
      <3>3. Bytes(f)[2 + i] = f.payload[i]
        BY <3>1, <1>3, FrameBytes DEF HeaderSize
      <3>4. t[(a + 2) + i] = x[i] /\ x[i] = f.payload[i]
        BY <3>2, <1>4, <1>7 DEF Begins
      <3> QED BY <3>1, <3>3, <3>4
    <2> QED BY <2>2, <2>3, <2>4
  <1>9. ASSUME NEW k \in (m + 1)..(n - 1), NEW j \in 1..Len(Bytes(fs[k]))
        PROVE  ByteInPlace(t, fs, end, k, j)
    <2>0. /\ k \in (m + 1)..n /\ k - 1 \in m..n /\ k \in m..n /\ k <= n - 1
      BY <1>1
    <2>1. PICK d \in Nat : d = end[k - 1]
      <3>1. end[k - 1] \in Int /\ 0 <= end[k - 1]
        BY <2>0, <1>5
      <3> QED BY <3>1
    <2>2. PICK b \in Nat : b = Len(Bytes(fs[k]))
      BY <2>0, <1>5
    <2>3. d + b <= a
      <3>1. end[k] <= end[n - 1]
        BY <2>0, <1>1, <1>2 DEF Framed
      <3>2. end[k] = d + b
        BY <2>0, <2>1, <2>2, <1>5
      <3> QED BY <3>1, <3>2, <1>6
    <2>4. j \in 1..b
      BY <2>2
    <2>5. d + j \in 1..(a + 2) /\ d + j <= a + 2
      BY <2>3, <2>4
    <2>6. ByteInPlace(s, fs, end, k, j)
      BY <2>0, <1>1 DEF Framed
    <2> QED BY <2>1, <2>5, <2>6, <1>4, <1>7 DEF ByteInPlace
  <1>10. \A k \in (m + 1)..n : k = n \/ k \in (m + 1)..(n - 1)
    OBVIOUS
  <1>11. \A k \in (m + 1)..n : \A j \in 1..Len(Bytes(fs[k])) : ByteInPlace(t, fs, end, k, j)
    BY <1>0, <1>8, <1>9, <1>10
  <1>12. Len(t) <= end[n]
    <2>1. Len(x) <= size
      BY <1>3 DEF Begins
    <2> QED BY <2>1, <1>4, <1>7
  <1>13. Framed(t, fs, m, end)
    BY <1>1, <1>11, <1>12 DEF Framed
  <1> QED BY <1>1, <1>3, <1>4, <1>7, <1>13

\* A whole header is the one of the next frame, and the payload follows it.
LEMMA FrontFrame ==
  ASSUME NEW s \in Seq(Byte), NEW fs \in Seq(Frames), NEW m \in Nat, m <= Len(fs),
         NEW end, Framed(s, fs, m, end), Len(s) >= 2
  PROVE  /\ m < Len(fs) /\ fs[m + 1] \in Frames
         /\ s[1] = fs[m + 1].type /\ s[2] = Len(fs[m + 1].payload)
         /\ \A i \in 1..Len(fs[m + 1].payload) :
              2 + i <= Len(s) => s[2 + i] = fs[m + 1].payload[i]
  <1>1. PICK n \in Nat : n = Len(fs)
    BY LenProperties
  <1>2. end[m] = 0 /\ Len(s) <= end[n] /\ Len(s) \in Nat
    BY <1>1, LenProperties DEF Framed
  <1>3. m < n
    <2>1. m /= n
      BY <1>2
    <2> QED BY <2>1, <1>1
  <1>4. m + 1 \in (m + 1)..n /\ m + 1 \in 1..n /\ m + 1 - 1 = m
    BY <1>3
  <1>5. fs[m + 1] \in Frames
    BY <1>1, <1>4, ElementOfSeq
  <1>6. PICK f \in Frames : f = fs[m + 1]
    BY <1>5
  <1>7. /\ Len(f.payload) \in Nat /\ Len(Bytes(f)) = 2 + Len(f.payload)
        /\ Bytes(f)[1] = f.type /\ Bytes(f)[2] = Len(f.payload)
        /\ \A i \in 1..Len(f.payload) : Bytes(f)[2 + i] = f.payload[i]
    BY FrameBytes DEF HeaderSize
  <1>8. PICK size \in Nat : size = Len(f.payload)
    BY <1>7
  <1>9. ASSUME NEW j \in 1..(2 + size), j <= Len(s)
        PROVE  s[j] = Bytes(f)[j]
    <2>1. j \in 1..Len(Bytes(fs[m + 1]))
      BY <1>6, <1>7, <1>8
    <2>2. ByteInPlace(s, fs, end, m + 1, j)
      BY <2>1, <1>1, <1>4 DEF Framed
    <2>3. end[m + 1 - 1] + j = j
      BY <1>2, <1>4
    <2> QED BY <2>2, <2>3, <1>6, <1>9 DEF ByteInPlace
  <1>10. s[1] = f.type /\ s[2] = Len(f.payload)
    <2>1. 1 \in 1..(2 + size) /\ 2 \in 1..(2 + size) /\ 1 <= Len(s)
      BY <1>2
    <2> QED BY <2>1, <1>7, <1>9
  <1>11. ASSUME NEW i \in 1..Len(f.payload), 2 + i <= Len(s)
         PROVE  s[2 + i] = f.payload[i]
    <2>1. 2 + i \in 1..(2 + size)
      BY <1>8
    <2> QED BY <2>1, <1>7, <1>9, <1>11
  <1> QED BY <1>1, <1>3, <1>6, <1>10, <1>11

\* The next frame is taken off.
LEMMA FrameDelivered ==
  ASSUME NEW t \in Seq(Byte), NEW fs \in Seq(Frames), NEW m \in Nat, m < Len(fs), NEW end,
         Framed(t, fs, m, end),
         NEW c \in Nat, c = Len(Bytes(fs[m + 1])), NEW r \in Seq(Byte), Behind(t, c, r)
  PROVE  OneLess(r, fs, m, end, c)
  <1>1. PICK n \in Nat : n = Len(fs)
    BY LenProperties
  <1>2. m <= Len(fs) /\ m + 1 \in (m + 1)..n /\ m + 1 - 1 = m /\ n \in (m + 1)..n
    BY <1>1
  <1>3. /\ Len(t) = c + Len(r) /\ Len(r) \in Nat
        /\ \A i \in 1..Len(r) : t[c + i] = r[i]
    BY LenProperties DEF Behind
  <1>5. /\ \A k \in m..n : end[k] \in Int
        /\ \A k \in (m + 1)..n :
             /\ k - 1 \in m..n /\ k \in m..n
             /\ Len(Bytes(fs[k])) \in Nat
             /\ end[k] = end[k - 1] + Len(Bytes(fs[k]))
    <2>2. \A k \in m..Len(fs) : end[k] \in Int
      BY <1>2, FramedFacts
    <2>3. \A k \in (m + 1)..Len(fs) :
             /\ k \in m..Len(fs) /\ k - 1 \in m..Len(fs)
             /\ Len(Bytes(fs[k])) \in Nat
             /\ end[k] = end[k - 1] + Len(Bytes(fs[k]))
      BY <1>2, FramedFacts
    <2> QED BY <1>1, <2>2, <2>3, Zenon
  <1>6. end[m + 1] = c
    <2>1. end[m + 1] = end[m] + Len(Bytes(fs[m + 1]))
      BY <1>2, <1>5
    <2>0. end[m] = 0
      BY DEF Framed
    <2>2. end[m + 1] = 0 + c
      BY <2>0, <2>1
    <2> QED BY <2>2
  <1>7. PICK less \in [(m + 1)..n -> Int] : \A k \in (m + 1)..n : less[k] = end[k] - c
    <2> DEFINE g == [k \in (m + 1)..n |-> end[k] - c]
    <2>1. \A k \in (m + 1)..n : end[k] \in Int /\ end[k] - c \in Int
      BY <1>5
    <2>2. g \in [(m + 1)..n -> Int]
      BY <2>1
    <2>3. \A k \in (m + 1)..n : g[k] = end[k] - c
      OBVIOUS
    <2> HIDE DEF g
    <2> QED BY <2>2, <2>3
  <1>8. less[m + 1] = 0
    BY <1>2, <1>6, <1>7
  <1>9. \A k, l \in (m + 1)..n : k <= l => less[k] <= less[l]
    <2> SUFFICES ASSUME NEW k \in (m + 1)..n, NEW l \in (m + 1)..n, k <= l
                 PROVE  less[k] <= less[l]
      OBVIOUS
    <2>1. k \in m..n /\ l \in m..n
      BY <1>5
    <2>2. end[k] <= end[l] /\ end[k] \in Int /\ end[l] \in Int
      BY <2>1, <1>1, <1>5 DEF Framed
    <2>3. PICK d \in Int : d = end[k] /\ less[k] = d - c
      BY <2>2, <1>7
    <2>4. PICK e \in Int : e = end[l] /\ less[l] = e - c
      BY <2>2, <1>7
    <2>5. d <= e
      BY <2>2, <2>3, <2>4
    <2>6. d - c <= e - c
      BY <2>5
    <2> QED BY <2>3, <2>4, <2>6, Zenon
  <1>10. ASSUME NEW k \in (m + 2)..n
         PROVE  /\ k \in (m + 1)..n /\ k - 1 \in (m + 1)..n
                /\ less[k] = end[k] - c /\ less[k - 1] = end[k - 1] - c
                /\ end[k - 1] \in Int /\ Len(Bytes(fs[k])) \in Nat
                /\ end[k] = end[k - 1] + Len(Bytes(fs[k]))
    <2>1. k \in (m + 1)..n /\ k - 1 \in (m + 1)..n
      OBVIOUS
    <2>2. k - 1 \in m..n
      BY <2>1, <1>5
    <2> QED BY <2>1, <2>2, <1>5, <1>7
  <1>11. ASSUME NEW k \in (m + 2)..n
         PROVE  less[k] = less[k - 1] + Len(Bytes(fs[k]))
    <2>1. PICK size \in Nat : size = Len(Bytes(fs[k]))
      BY <1>10
    <2>2. PICK d \in Int : d = end[k - 1]
      BY <1>10
    <2>3. less[k] = (d + size) - c /\ less[k - 1] = d - c
      BY <2>1, <2>2, <1>10
    <2>4. (d + size) - c = (d - c) + size
      OBVIOUS
    <2> QED BY <2>1, <2>3, <2>4
  <1>12. ASSUME NEW k \in (m + 2)..n, NEW j \in 1..Len(Bytes(fs[k]))
         PROVE  ByteInPlace(r, fs, less, k, j)
    <2>1. PICK d \in Int : d = end[k - 1] /\ less[k - 1] = d - c
      BY <1>10
    <2>2. PICK size \in Nat : size = Len(Bytes(fs[k]))
      BY <1>10
    <2>3. j \in 1..size
      BY <2>2
    <2>4. d - c \in Nat
      <3>1. m + 1 <= k - 1
        OBVIOUS
      <3>2. less[m + 1] <= less[k - 1]
        BY <3>1, <1>2, <1>9, <1>10
      <3> QED BY <3>2, <1>8, <2>1
    <2> SUFFICES ASSUME (d - c) + j <= Len(r)
                 PROVE  r[(d - c) + j] = Bytes(fs[k])[j]
      BY <2>1 DEF ByteInPlace
    <2>5. (d - c) + j \in 1..Len(r) /\ c + ((d - c) + j) = d + j
      BY <2>3, <2>4, <1>3
    <2>6. t[d + j] = r[(d - c) + j]
      BY <2>5, <1>3
    <2>7. d + j <= Len(t)
      <3>1. PICK l \in Nat : l = Len(r)
        BY <1>3
      <3>2. (d - c) + j <= l
        BY <3>1
      <3>3. d + j <= c + l
        BY <2>3, <3>2
      <3> QED BY <1>3, <3>1, <3>3
    <2>8. ByteInPlace(t, fs, end, k, j)
      BY <1>1, <1>10 DEF Framed
    <2> QED BY <2>1, <2>6, <2>7, <2>8 DEF ByteInPlace
  <1>13. Len(r) <= less[n]
    <2>1. Len(t) <= end[n]
      BY <1>1 DEF Framed
    <2>2. end[n] \in Int /\ less[n] = end[n] - c
      BY <1>2, <1>5, <1>7
    <2> QED BY <2>1, <2>2, <1>3
  <1>14. m + 1 + 1 = m + 2
    OBVIOUS
  <1>15. Framed(r, fs, m + 1, less)
    BY <1>1, <1>7, <1>8, <1>9, <1>11, <1>12, <1>13, <1>14 DEF Framed
  <1> QED BY <1>1, <1>7, <1>15 DEF OneLess

-----------------------------------------------------------------------------
(* The stream of the module.                                               *)

\* Bytes move from the wire to the reader, and the stream stays what it is.
LEMMA TakenFacts ==
  ASSUME TypeOK, NEW n \in Chunks
  PROVE  /\ n \in 1..Len(wire) /\ Len(wire) \in Nat
         /\ Taken(n) \in Seq(Byte) /\ Taken(n) /= <<>>
         /\ Rest(n) \in Seq(Byte)
         /\ (header \o Taken(n)) \o Rest(n) = stream
  <1>1. wire \in Seq(Byte) /\ buf \in Seq(Byte) /\ header \in Seq(Byte)
    BY DEF TypeOK
  <1>2. wire /= <<>> /\ Len(wire) \in Nat
    BY <1>1, LenProperties DEF Chunks
  <1>3. Len(wire) > 0
    BY <1>1, <1>2, EmptySeq
  <1>4. n \in 1..Len(wire)
    BY <1>2, <1>3 DEF Chunks
  <1>5. n \in 0..Len(wire)
    BY <1>4, <1>2
  <1> DEFINE a == SubSeq(wire, 1, n)
             b == SubSeq(wire, n + 1, Len(wire))
  <1>6. a \in Seq(Byte) /\ Len(a) = n /\ b \in Seq(Byte) /\ a \o b = wire
    BY <1>1, <1>5, SplitFacts
  <1>7. Taken(n) = buf \o a /\ Rest(n) = b
    BY DEF Taken, Rest
  <1> HIDE DEF a, b
  <1>8. /\ buf \o a \in Seq(Byte) /\ header \o buf \in Seq(Byte)
        /\ Len(buf) \in Nat /\ Len(buf \o a) = Len(buf) + n
    BY <1>1, <1>6, ConcatFacts
  <1>9. buf \o a /= <<>>
    BY <1>4, <1>8, <1>2
  <1>10. (header \o (buf \o a)) \o b = (header \o buf) \o wire
    <2>1. PICK h \in Seq(Byte), u \in Seq(Byte), v \in Seq(Byte), w \in Seq(Byte) :
            h = header /\ u = buf /\ v = a /\ w = b
      BY <1>1, <1>6
    <2>2. (h \o u) \o v = h \o (u \o v)
      BY ConcatBytes, ZenonT(30)
    <2>3. PICK hu \in Seq(Byte) : hu = h \o u
      <3>1. header \o buf = h \o u
        BY <2>1, Zenon
      <3>2. header \o buf \in Seq(Byte)
        BY <1>8
      <3> QED BY <3>1, <3>2, Zenon
    <2>4. (hu \o v) \o w = hu \o (v \o w)
      BY ConcatBytes, ZenonT(30)
    <2> QED BY <2>1, <2>2, <2>3, <2>4, <1>6
  <1> QED BY <1>2, <1>4, <1>6, <1>7, <1>8, <1>9, <1>10 DEF stream

\* What is sent comes behind what is there.
LEMMA StreamGrows ==
  ASSUME TypeOK, NEW x \in Seq(Byte), wire' = wire \o x, UNCHANGED <<header, buf>>
  PROVE  stream' = stream \o x /\ wire' \in Seq(Byte)
  <1>1. wire \in Seq(Byte) /\ buf \in Seq(Byte) /\ header \in Seq(Byte)
    BY DEF TypeOK
  <1>2. header \o buf \in Seq(Byte) /\ wire \o x \in Seq(Byte)
    BY <1>1, ConcatFacts
  <1>3. ((header \o buf) \o wire) \o x = (header \o buf) \o (wire \o x)
    <2>1. PICK w \in Seq(Byte) : w = wire
      BY <1>1
    <2>2. PICK h \in Seq(Byte) : h = header \o buf
      BY <1>2
    <2>3. (h \o w) \o x = h \o (w \o x)
      BY ConcatBytes, ZenonT(30)
    <2> QED BY <2>1, <2>2, <2>3
  <1> QED BY <1>2, <1>3 DEF stream

LEMMA StreamType ==
  ASSUME TypeOK
  PROVE  stream \in Seq(Byte) /\ Len(stream) \in Nat
  <1>1. wire \in Seq(Byte) /\ buf \in Seq(Byte) /\ header \in Seq(Byte)
    BY DEF TypeOK
  <1>2. header \o buf \in Seq(Byte)
    BY <1>1, ConcatFacts
  <1>3. stream \in Seq(Byte)
    BY <1>1, <1>2, ConcatFacts DEF stream
  <1> QED BY <1>3, LenProperties

\* Nothing of a package is read yet.
LEMMA StreamIsWire ==
  ASSUME NEW w \in Seq(Byte)
  PROVE  (<<>> \o <<>>) \o w = w
  <1>1. <<>> \in Seq(Byte)
    BY EmptySeq
  <1>2. <<>> \o <<>> = <<>> /\ <<>> \o w = w
    BY <1>1, NothingFirst
  <1> QED BY <1>2

LEMMA BegunFacts ==
  /\ Begun \in Frames /\ Len(Bytes(Begun)) \in Nat /\ Len(Bytes(Begun)) > HeaderSize
  /\ Begun.payload \in Seq(Byte) /\ Len(Begun.payload) \in Nat
  /\ Len(Bytes(Begun)) = HeaderSize + Len(Begun.payload)
  <1>1. Ping \in Frames /\ Handshake \in Frames
    BY FramesSent
  <1>2. Begun \in Frames
    BY <1>1 DEF Begun
  <1>3. /\ Begun.payload \in Seq(Byte) /\ Len(Begun.payload) \in Nat
        /\ Len(Bytes(Begun)) = HeaderSize + Len(Begun.payload)
    BY <1>2, FrameBytes
  <1>4. Len(Begun.payload) > 0
    <2>1. /\ Len(Ping.payload) = PingSize /\ PingSize \in Nat \ {0}
          /\ Len(Handshake.payload) = 2
      BY FramesSent
    <2>2. Begun = Ping \/ Begun = Handshake
      BY DEF Begun
    <2>3. CASE Begun = Ping
      <3>1. Len(Begun.payload) = PingSize
        BY <2>1, <2>3
      <3> QED BY <2>1, <3>1
    <2>4. CASE Begun = Handshake
      <3>1. Len(Begun.payload) = 2
        BY <2>1, <2>4
      <3> QED BY <3>1
    <2> QED BY <2>2, <2>3, <2>4
  <1> QED BY <1>2, <1>3, <1>4 DEF HeaderSize

-----------------------------------------------------------------------------
(* The four things that can happen to the stream.                          *)

LEMMA FramesType ==
  ASSUME TypeOK
  PROVE  /\ frames \in Seq(Frames) /\ Len(frames) \in Nat
         /\ packages \in Seq(Frames) /\ Len(packages) \in Nat
  BY LenProperties DEF TypeOK, Frames

\* Nothing, as far as frames are concerned.
LEMMA SameStream ==
  ASSUME InStep, UNCHANGED <<direction, frames, packages>>, stream' = stream,
         intact' => intact,
         intact' /\ ~closed' => ~closed /\ sending' = sending
  PROVE  InStep'
  <1> SUFFICES ASSUME intact'
               PROVE  /\ Len(packages) <= Len(frames)
                      /\ \E end \in [Len(packages)..Len(frames) -> Int] :
                           /\ Framed(stream, frames, Len(packages), end)
                           /\ ~closed' => UpToDate(end)'
    BY DEF InStep
  <1>1. PICK end \in [Len(packages)..Len(frames) -> Int] :
          Framed(stream, frames, Len(packages), end) /\ (~closed => UpToDate(end))
    BY DEF InStep
  <1>2. ~closed' => UpToDate(end)'
    BY <1>1 DEF UpToDate, Begun
  <1> QED BY <1>1, <1>2 DEF InStep

\* All of a frame was sent, or its header.
AfterBegin(f, x) ==
  \/ sending' = "idle" /\ Len(x) = Len(Bytes(f))
  \/ sending' = "payload" /\ f = Begun /\ Len(x) = HeaderSize

\* The frame read is the next one, and r is what follows.
ReadNext(f, r) ==
  /\ Len(packages) < Len(frames)
  /\ f = frames[Len(packages) + 1]
  /\ Behind(stream, Len(Bytes(f)), r)

\* A frame is begun.
LEMMA BeginStep ==
  ASSUME NEW f \in Frames, NEW x \in Seq(Byte)
  PROVE  /\ TypeOK
         /\ InStep
         /\ Begins(x, Bytes(f))
         /\ stream' = stream \o x
         /\ frames' = Append(frames, f)
         /\ UNCHANGED <<direction, packages>>
         /\ (intact' => intact /\ ~closed /\ (Len(x) = 0 \/ sending = "idle"))
         /\ (intact' /\ ~closed' => AfterBegin(f, x))
         => InStep'
  <1>1. ASSUME TypeOK,
               InStep,
               Begins(x, Bytes(f)),
               stream' = stream \o x,
               frames' = Append(frames, f),
               UNCHANGED <<direction, packages>>,
               (intact' => intact /\ ~closed /\ (Len(x) = 0 \/ sending = "idle")),
               (intact' /\ ~closed' => AfterBegin(f, x)),
               intact'
        PROVE  InStep'
    <2>0. intact /\ ~closed /\ (Len(x) = 0 \/ sending = "idle")
      BY <1>1
    <2>1. PICK m \in Nat : m = Len(packages)
      BY <1>1, FramesType
    <2>2. PICK n \in Nat : n = Len(frames)
      BY <1>1, FramesType
    <2>3. PICK end \in [m..n -> Int] : Framed(stream, frames, m, end) /\ UpToDate(end)
      BY <1>1, <2>0, <2>1, <2>2 DEF InStep
    <2>4. m <= n /\ stream \in Seq(Byte) /\ frames \in Seq(Frames) /\ Len(stream) \in Nat
      BY <1>1, <2>0, <2>1, <2>2, StreamType, FramesType DEF InStep
    <2>5. Len(x) = 0 \/ Len(stream) = end[n]
      BY <2>0, <2>2, <2>3 DEF UpToDate
    <2>6. PICK more \in [m..Len(frames') -> Int] :
            /\ Framed(stream', frames', m, more)
            /\ more[n] = end[n] /\ more[n + 1] = end[n] + Len(Bytes(f))
      <3>0. stream' = stream \o x /\ frames' = Append(frames, f)
        BY <1>1
      <3>1. PICK s \in Seq(Byte), fs \in Seq(Frames) : s = stream /\ fs = frames
        BY <2>4
      <3>2. OneMore(s \o x, Append(fs, f), m, Len(fs), end[Len(fs)], Len(Bytes(f)))
        <4>1. /\ m <= Len(fs) /\ Framed(s, fs, m, end)
              /\ Len(x) = 0 \/ Len(s) = end[Len(fs)]
          BY <2>2, <2>3, <2>4, <2>5, <3>1
        <4>2. Begins(x, Bytes(f))
          BY <1>1
        <4> QED BY <4>1, <4>2, FrameBegun, Zenon
      <3> QED BY <2>2, <3>0, <3>1, <3>2 DEF OneMore
    <2>7. Len(frames') = n + 1 /\ frames'[n + 1] = f
      BY <1>1, <2>2, <2>4, AppendFacts
    <2>8. Len(stream') = Len(stream) + Len(x) /\ Len(x) \in Nat
      BY <1>1, <2>4, ConcatFacts
    <2>9. ASSUME ~closed'
          PROVE  UpToDate(more)'
      <3>1. Len(x) /= 0 /\ Len(stream) = end[n]
        <4>1. PICK size \in Nat : size = Len(Bytes(f)) /\ size >= 2
          BY FrameSize
        <4>2. Len(x) = size \/ Len(x) = 2
          BY <1>1, <2>9, <4>1 DEF HeaderSize, AfterBegin
        <4>3. size /= 0 /\ 2 /= 0
          BY <4>1
        <4>4. Len(x) /= 0
          BY <4>2, <4>3, Zenon
        <4> QED BY <2>5, <4>4
      <3>2. CASE sending' = "idle" /\ Len(x) = Len(Bytes(f))
        BY <3>1, <3>2, <2>6, <2>7, <2>8 DEF UpToDate
      <3>3. CASE sending' = "payload" /\ f = Begun /\ Len(x) = HeaderSize
        <4>1. Begun' = Begun
          BY <1>1 DEF Begun
        <4>2. Len(packages') < Len(frames')
          BY <1>1, <2>1, <2>4, <2>7
        <4>3. Len(frames') - 1 = n
          BY <2>7
        <4>4. HeaderSent(stream', frames', more, Begun)
          BY <3>1, <3>3, <2>6, <2>7, <2>8, <4>3 DEF HeaderSent
        <4> QED BY <3>3, <4>1, <4>2, <4>4 DEF UpToDate
      <3> QED BY <1>1, <2>9, <3>2, <3>3 DEF AfterBegin
    <2>10. Len(packages') = m /\ m <= Len(frames')
      BY <1>1, <2>1, <2>4, <2>7
    <2> QED BY <2>6, <2>9, <2>10 DEF InStep
  <1> QED BY <1>1 DEF InStep

\* A frame that was begun goes on.
LEMMA ContinueStep ==
  ASSUME NEW x \in Seq(Byte)
  PROVE  /\ TypeOK
         /\ InStep
         /\ sending = "payload"
         /\ sending' = "idle"
         /\ ~closed
         /\ Begins(x, Begun.payload)
         /\ stream' = stream \o x
         /\ UNCHANGED <<direction, frames, packages>>
         /\ (intact' => intact)
         /\ (intact' /\ ~closed' => Len(x) = Len(Begun.payload))
         => InStep'
  <1>1. ASSUME TypeOK,
               InStep,
               sending = "payload",
               sending' = "idle",
               ~closed,
               Begins(x, Begun.payload),
               stream' = stream \o x,
               UNCHANGED <<direction, frames, packages>>,
               (intact' => intact),
               (intact' /\ ~closed' => Len(x) = Len(Begun.payload)),
               intact'
        PROVE  InStep'
    <2>1. PICK m \in Nat : m = Len(packages)
      BY <1>1, FramesType
    <2>2. PICK n \in Nat : n = Len(frames)
      BY <1>1, FramesType
    <2>3. PICK end \in [m..n -> Int] : Framed(stream, frames, m, end) /\ UpToDate(end)
      BY <1>1, <2>1, <2>2 DEF InStep
    <2>4. stream \in Seq(Byte) /\ frames \in Seq(Frames)
      BY <1>1, StreamType, FramesType
    <2>5. m < n /\ HeaderSent(stream, frames, end, Begun)
      BY <1>1, <2>1, <2>2, <2>3 DEF UpToDate
    <2>6. Framed(stream', frames, m, end) /\ end[n] = Len(stream) + Len(Begun.payload)
      <3>1. PICK s \in Seq(Byte), fs \in Seq(Frames), f \in Frames :
              s = stream /\ fs = frames /\ f = Begun
        BY <2>4, BegunFacts
      <3>2. Framed(s \o x, fs, m, end) /\ end[Len(fs)] = Len(s) + Len(f.payload)
        <4>1. m < Len(fs) /\ Framed(s, fs, m, end)
          BY <2>2, <2>3, <2>5, <3>1
        <4>2. HeaderSent(s, fs, end, f) /\ Begins(x, f.payload)
          BY <1>1, <2>5, <3>1
        <4> QED BY <4>1, <4>2, FrameContinued
      <3> QED BY <1>1, <2>2, <3>1, <3>2
    <2>7. Len(stream') = Len(stream) + Len(x)
      BY <1>1, <2>4, ConcatFacts
    <2>8. ~closed' => UpToDate(end)'
      BY <1>1, <2>2, <2>6, <2>7 DEF UpToDate
    <2> QED BY <1>1, <2>1, <2>2, <2>3, <2>5, <2>6, <2>8 DEF InStep
  <1> QED BY <1>1 DEF InStep

\* The next frame is read.
LEMMA DeliverStep ==
  ASSUME NEW f \in Frames, NEW r \in Seq(Byte)
  PROVE  /\ TypeOK
         /\ InStep
         /\ stream' = r
         /\ packages' = Append(packages, f)
         /\ UNCHANGED <<direction, frames, sending, closed>>
         /\ (intact' => intact)
         /\ (intact => ReadNext(f, r))
         => InStep'
  <1>1. ASSUME TypeOK,
               InStep,
               stream' = r,
               packages' = Append(packages, f),
               UNCHANGED <<direction, frames, sending, closed>>,
               (intact' => intact),
               (intact => ReadNext(f, r)),
               intact'
        PROVE  InStep'
    <2>1. PICK m \in Nat : m = Len(packages)
      BY <1>1, FramesType
    <2>2. PICK n \in Nat : n = Len(frames)
      BY <1>1, FramesType
    <2>3. PICK end \in [m..n -> Int] :
            Framed(stream, frames, m, end) /\ (~closed => UpToDate(end))
      BY <1>1, <2>1, <2>2 DEF InStep
    <2>4. stream \in Seq(Byte) /\ frames \in Seq(Frames)
      BY <1>1, StreamType, FramesType
    <2>5. PICK c \in Nat : c = Len(Bytes(f)) /\ c >= 2
      BY FrameSize
    <2>6. m < n /\ f = frames[m + 1] /\ Behind(stream, c, r)
      BY <1>1, <2>1, <2>2, <2>5 DEF ReadNext
    <2>7. PICK less \in [(m + 1)..n -> Int] :
            Framed(r, frames, m + 1, less) /\ \A k \in (m + 1)..n : less[k] = end[k] - c
      <3>1. PICK s \in Seq(Byte), fs \in Seq(Frames) : s = stream /\ fs = frames
        BY <2>4
      <3>2. OneLess(r, fs, m, end, c)
        <4>1. m < Len(fs) /\ Framed(s, fs, m, end) /\ c = Len(Bytes(fs[m + 1]))
          BY <2>2, <2>3, <2>5, <2>6, <3>1
        <4>2. Behind(s, c, r)
          BY <2>6, <3>1
        <4> QED BY <4>1, <4>2, FrameDelivered, Zenon
      <3> QED BY <2>2, <3>1, <3>2 DEF OneLess
    <2>8. Len(packages') = m + 1
      BY <1>1, <2>1, FramesType, AppendFacts
    <2>9. Len(stream) = c + Len(r) /\ Len(r) \in Nat
      BY <2>6, LenProperties DEF Behind
    <2>10. n \in (m + 1)..n /\ less[n] = end[n] - c /\ end[n] \in Int
      BY <2>6, <2>7
    <2>11. ASSUME ~closed', sending' = "idle"
           PROVE  UpToDate(less)'
      <3>1. Len(stream) = end[n]
        BY <1>1, <2>2, <2>3, <2>11 DEF UpToDate
      <3>2. Len(r) = less[n]
        <4>1. PICK e \in Int : e = end[n] /\ less[n] = e - c
          BY <2>10
        <4>2. e = c + Len(r)
          BY <3>1, <4>1, <2>9
        <4> QED BY <4>1, <4>2, <2>9
      <3> QED BY <1>1, <3>2, <2>2, <2>11 DEF UpToDate
    <2>12. ASSUME ~closed', sending' = "payload"
           PROVE  UpToDate(less)'
      <3>1. frames[n] = Begun /\ Len(stream) = end[n - 1] + 2
        BY <1>1, <2>2, <2>3, <2>12 DEF UpToDate, HeaderSent, HeaderSize
      <3>2. m + 1 < n
        <4> SUFFICES ASSUME n = m + 1
                     PROVE  FALSE
          BY <2>6
        <4>1. end[n - 1] = 0
          BY <2>3 DEF Framed
        <4>2. c > 2
          BY <2>5, <2>6, <3>1, BegunFacts DEF HeaderSize
        <4>3. Len(stream) = 2
          BY <3>1, <4>1
        <4>4. PICK l \in Nat : l = Len(r)
          BY <2>9
        <4>5. c + l = 2
          BY <4>3, <4>4, <2>9, Zenon
        <4> QED BY <4>2, <4>5
      <3>3. n - 1 \in (m + 1)..n /\ n - 1 \in m..n
        BY <3>2
      <3>4. less[n - 1] = end[n - 1] - c /\ end[n - 1] \in Int
        BY <3>3, <2>3, <2>7
      <3>5. Len(r) = less[n - 1] + 2
        <4>1. PICK e \in Int : e = end[n - 1] /\ less[n - 1] = e - c
          BY <3>4
        <4>2. e + 2 = c + Len(r)
          BY <3>1, <4>1, <2>9
        <4>3. PICK l \in Nat : l = Len(r)
          BY <2>9
        <4>4. l = (e - c) + 2
          BY <4>2, <4>3
        <4> QED BY <4>1, <4>3, <4>4
      <3>6. HeaderSent(r, frames, less, Begun)
        BY <3>1, <3>5, <2>2 DEF HeaderSent, HeaderSize
      <3>7. Begun' = Begun
        BY <1>1 DEF Begun
      <3> QED BY <1>1, <3>2, <3>6, <3>7, <2>2, <2>8, <2>12 DEF UpToDate
    <2>13. ~closed' => UpToDate(less)'
      BY <1>1, <2>11, <2>12 DEF TypeOK
    <2> QED BY <1>1, <2>2, <2>6, <2>7, <2>8, <2>13 DEF InStep
  <1> QED BY <1>1 DEF InStep

-----------------------------------------------------------------------------
(* The sending actions.                                                    *)

\* x, the first n of these bytes, went into the stream.
WentOut(x, bytes, n) ==
  x \in Seq(Byte) /\ Len(x) = n /\ Begins(x, bytes) /\ stream' = stream \o x

LEMMA SendFacts ==
  ASSUME TypeOK, NEW bytes \in Seq(Byte), NEW n \in 0..Len(bytes), Send(bytes, n),
         UNCHANGED <<header, buf>>
  PROVE  /\ wire' \in Seq(Byte)
         /\ \E x : WentOut(x, bytes, n)
         /\ n = 0 => stream' = stream
  <1> DEFINE x == SubSeq(bytes, 1, n)
  <1>1. x \in Seq(Byte) /\ Len(x) = n /\ \A i \in 1..n : x[i] = bytes[i]
    BY SplitFacts
  <1>2. Begins(x, bytes)
    BY <1>1, LenProperties DEF Begins
  <1>3. wire' = wire \o x
    BY DEF Send
  <1> HIDE DEF x
  <1>4. stream' = stream \o x /\ wire' \in Seq(Byte)
    BY <1>1, <1>3, StreamGrows
  <1>5. ASSUME n = 0 PROVE stream' = stream
    <2>1. x = <<>>
      BY <1>1, <1>5, EmptySeq
    <2>2. stream \o <<>> = stream
      BY StreamType, ConcatEmptySeq
    <2> QED BY <2>1, <2>2, <1>4
  <1> QED BY <1>1, <1>2, <1>4, <1>5 DEF WentOut

\* The first bytes of a header are those of the frame.
LEMMA HeaderBegins ==
  ASSUME NEW f \in Frames, NEW x, Begins(x, Header(f)), Len(x) \in Nat
  PROVE  Begins(x, Bytes(f))
  <1>1. Len(x) <= 2 /\ \A i \in 1..Len(x) : x[i] = Header(f)[i]
    BY FrameBytes DEF Begins, HeaderSize
  <1>2. Len(Bytes(f)) \in Nat /\ Len(Bytes(f)) >= 2
    BY FrameSize
  <1>3. \A i \in 1..2 : Bytes(f)[i] = Header(f)[i]
    BY FrameBytes DEF HeaderSize
  <1> QED BY <1>1, <1>2, <1>3 DEF Begins

LEMMA SendPingHeaderStep ==
  ASSUME IInv, SendPingHeader
  PROVE  InStep'
  <1>0. TypeOK /\ InStep
    BY DEF IInv
  <1>1. PICK n \in 0..HeaderSize :
          /\ Send(Header(Ping), n)
          /\ sending' = IF n = HeaderSize THEN "payload" ELSE "idle"
          /\ closed' = (n < HeaderSize)
    BY DEF SendPingHeader
  <1>2. Ping \in Frames /\ Header(Ping) \in Seq(Byte) /\ Len(Header(Ping)) = HeaderSize
    BY FramesSent, FrameBytes
  <1>3. /\ direction = "to_client" /\ sending = "idle" /\ ~closed
        /\ frames' = Append(frames, Ping)
        /\ UNCHANGED <<direction, split, cut, torn, packages, header, buf>>
    BY DEF SendPingHeader, NextFrame, reader
  <1>4. PICK x : WentOut(x, Header(Ping), n)
    BY <1>0, <1>1, <1>2, <1>3, SendFacts
  <1>5. x \in Seq(Byte) /\ Len(x) = n /\ n \in Nat /\ stream' = stream \o x
    BY <1>4 DEF WentOut, HeaderSize
  <1>6. Begins(x, Bytes(Ping))
    BY <1>2, <1>4, <1>5, HeaderBegins DEF WentOut
  <1>7. intact' => intact
    BY <1>3 DEF intact
  <1>8. ASSUME ~closed' PROVE AfterBegin(Ping, x)
    <2>1. ~(n < HeaderSize)
      BY <1>1, <1>8, Zenon
    <2>2. n = HeaderSize
      BY <2>1 DEF HeaderSize
    <2> QED BY <1>1, <1>3, <1>5, <2>2 DEF AfterBegin, Begun
  <1> QED BY <1>0, <1>2, <1>3, <1>5, <1>6, <1>7, <1>8, BeginStep

LEMMA SendPingPayloadStep ==
  ASSUME IInv, SendPingPayload
  PROVE  InStep'
  <1>0. TypeOK /\ InStep
    BY DEF IInv
  <1>1. PICK n \in 0..PingSize :
          (closed => n = 0) /\ Send(Ping.payload, n) /\ closed' = (n < PingSize)
    BY DEF SendPingPayload
  <1>2. /\ PingSize \in Nat \ {0} /\ Ping.payload \in Seq(Byte)
        /\ Len(Ping.payload) = PingSize
    BY FramesSent, FrameBytes
  <1>3. /\ direction = "to_client" /\ sending = "payload" /\ sending' = "idle"
        /\ UNCHANGED <<direction, frames, split, cut, torn, packages, header, buf>>
    BY DEF SendPingPayload, reader
  <1>4. (n = 0 => stream' = stream) /\ \E x : WentOut(x, Ping.payload, n)
    BY <1>0, <1>1, <1>2, <1>3, SendFacts
  <1>5. intact' => intact
    BY <1>3 DEF intact
  <1>6. CASE closed
    <2>1. n = 0 /\ n < PingSize
      BY <1>1, <1>2, <1>6
    <2>2. closed'
      BY <1>1, <2>1, Zenon
    <2> QED BY <1>0, <1>3, <1>4, <1>5, <2>1, <2>2, SameStream
  <1>7. CASE ~closed
    <2>1. PICK x : WentOut(x, Ping.payload, n)
      BY <1>4
    <2>2. x \in Seq(Byte) /\ Len(x) = n /\ stream' = stream \o x
      BY <2>1 DEF WentOut
    <2>3. Begun = Ping /\ Begins(x, Begun.payload)
      BY <1>3, <2>1 DEF Begun, WentOut
    <2>4. ASSUME ~closed' PROVE Len(x) = Len(Begun.payload)
      <3>1. ~(n < PingSize)
        BY <1>1, <2>4, Zenon
      <3>2. n = PingSize
        BY <1>2, <3>1
      <3> QED BY <1>2, <2>2, <2>3, <3>2
    <2> QED BY <1>0, <1>3, <1>5, <1>7, <2>2, <2>3, <2>4, ContinueStep
  <1> QED BY <1>6, <1>7

LEMMA SendTimestampStep ==
  ASSUME IInv, SendTimestamp
  PROVE  InStep'
  <1>0. TypeOK /\ InStep
    BY DEF IInv
  <1>1. PICK n \in 0..(HeaderSize + TimestampSize) :
          /\ Send(Bytes(Timestamp), n)
          /\ closed' = (n < HeaderSize + TimestampSize)
          /\ split' = (split \/ (sending = "payload" /\ n > 0))
    BY DEF SendTimestamp
  <1>2. /\ Timestamp \in Frames /\ TimestampSize \in Nat
        /\ Bytes(Timestamp) \in Seq(Byte)
        /\ Len(Bytes(Timestamp)) = HeaderSize + TimestampSize
    BY FramesSent, FrameBytes
  <1>3. /\ ~closed /\ frames' = Append(frames, Timestamp) /\ sending' = sending
        /\ UNCHANGED <<direction, cut, torn, packages, header, buf>>
    BY DEF SendTimestamp, NextFrame, reader
  <1>4. PICK x : WentOut(x, Bytes(Timestamp), n)
    BY <1>0, <1>1, <1>2, <1>3, SendFacts
  <1>5. /\ x \in Seq(Byte) /\ Len(x) = n /\ n \in Nat /\ stream' = stream \o x
        /\ Begins(x, Bytes(Timestamp))
    BY <1>2, <1>4 DEF WentOut, HeaderSize
  <1>6. ASSUME intact' PROVE intact /\ (n = 0 \/ sending = "idle")
    <2>1. sending = "idle" \/ sending = "payload"
      BY <1>0 DEF TypeOK
    <2>2. n = 0 \/ n > 0
      BY <1>5
    <2>3. ~split' /\ ~cut' /\ ~torn'
      BY <1>6 DEF intact
    <2>4. ~split /\ ~(sending = "payload" /\ n > 0)
      BY <1>1, <2>3, Zenon
    <2> QED BY <1>3, <2>1, <2>2, <2>3, <2>4 DEF intact
  <1>7. ASSUME intact', ~closed' PROVE AfterBegin(Timestamp, x)
    <2>0. ~(n < HeaderSize + TimestampSize)
      BY <1>1, <1>7, Zenon
    <2>1. n = HeaderSize + TimestampSize /\ n /= 0
      BY <1>2, <2>0 DEF HeaderSize
    <2>2. sending' = "idle"
      BY <1>3, <1>6, <1>7, <2>1
    <2> QED BY <1>2, <1>5, <2>1, <2>2 DEF AfterBegin
  <1> QED BY <1>0, <1>2, <1>3, <1>5, <1>6, <1>7, BeginStep

LEMMA SendStopStep ==
  ASSUME IInv, SendStop
  PROVE  InStep'
  <1>0. TypeOK /\ InStep
    BY DEF IInv
  <1>1. /\ Stop \in Frames /\ Bytes(Stop) \in Seq(Byte) /\ Len(Bytes(Stop)) = HeaderSize
    <2>1. Stop \in Frames /\ Stop.payload = <<>>
      BY FramesSent
    <2>2. Bytes(Stop) \in Seq(Byte) /\ Len(Bytes(Stop)) = 2 + Len(Stop.payload)
      BY <2>1, FrameBytes DEF HeaderSize
    <2>3. Len(Stop.payload) = 0
      BY <2>1
    <2> QED BY <2>1, <2>2, <2>3 DEF HeaderSize
  <1>2. PICK n \in 0..HeaderSize : Send(Bytes(Stop), n)
    BY DEF SendStop
  <1>3. /\ sending = "idle" /\ ~closed /\ closed' /\ frames' = Append(frames, Stop)
        /\ UNCHANGED <<direction, split, cut, torn, packages, header, buf>>
    BY DEF SendStop, NextFrame, reader
  <1>4. PICK x : WentOut(x, Bytes(Stop), n)
    BY <1>0, <1>1, <1>2, <1>3, SendFacts
  <1>5. x \in Seq(Byte) /\ stream' = stream \o x /\ Begins(x, Bytes(Stop))
    BY <1>4 DEF WentOut
  <1>6. intact' => intact
    BY <1>3 DEF intact
  <1> QED BY <1>0, <1>1, <1>3, <1>5, <1>6, BeginStep

LEMMA SendUnwatchedStep ==
  ASSUME IInv, NEW f \in Frames, SendUnwatched(f), direction' = direction
  PROVE  InStep'
  <1>0. TypeOK /\ InStep
    BY DEF IInv
  <1>1. PICK n \in 0..Len(Bytes(f)) :
          /\ Send(Bytes(f), n)
          /\ frames' = IF n > 0 THEN Append(frames, f) ELSE frames
          /\ cut' = (cut \/ n \in 1..(Len(Bytes(f)) - 1))
    BY DEF SendUnwatched
  <1>2. Bytes(f) \in Seq(Byte)
    BY FrameBytes
  <1>3. PICK size \in Nat : size = Len(Bytes(f))
    BY FrameSize
  <1>4. /\ sending = "idle" /\ sending' = "idle" /\ ~closed /\ ~closed'
        /\ UNCHANGED <<direction, closed, split, torn, packages, header, buf>>
    BY DEF SendUnwatched, reader
  <1>5. (n = 0 => stream' = stream) /\ \E x : WentOut(x, Bytes(f), n)
    BY <1>0, <1>1, <1>2, <1>4, SendFacts
  <1>6. ASSUME intact' PROVE intact /\ (n = 0 \/ n = size)
    <2>1. n \in 0..size /\ cut' = (cut \/ n \in 1..(size - 1))
      BY <1>1, <1>3
    <2>2. ~cut' /\ ~split' /\ ~torn'
      BY <1>6 DEF intact
    <2>3. ~cut /\ ~(n \in 1..(size - 1))
      BY <2>1, <2>2, Zenon
    <2>4. n = 0 \/ n = size
      BY <2>1, <2>3
    <2> QED BY <1>4, <2>2, <2>3, <2>4 DEF intact
  <1>7. CASE n = 0
    <2>1. frames' = frames
      BY <1>1, <1>7
    <2> QED BY <1>0, <1>4, <1>5, <1>6, <1>7, <2>1, SameStream
  <1>8. CASE n /= 0
    <2>1. n > 0
      BY <1>3, <1>8
    <2>2. frames' = Append(frames, f)
      BY <1>1, <2>1
    <2>3. PICK x : WentOut(x, Bytes(f), n)
      BY <1>5
    <2>4. x \in Seq(Byte) /\ Len(x) = n /\ stream' = stream \o x /\ Begins(x, Bytes(f))
      BY <2>3 DEF WentOut
    <2>5. intact' => AfterBegin(f, x)
      BY <1>3, <1>4, <1>6, <1>8, <2>4 DEF AfterBegin
    <2> QED BY <1>0, <1>4, <1>6, <2>2, <2>4, <2>5, BeginStep
  <1> QED BY <1>7, <1>8

LEMMA SendHandshakeHeaderStep ==
  ASSUME IInv, SendHandshakeHeader
  PROVE  InStep'
  <1>0. TypeOK /\ InStep
    BY DEF IInv
  <1>1. PICK n \in 0..HeaderSize : Send(Header(Handshake), n) /\ cut' = (cut \/ n < HeaderSize)
    BY DEF SendHandshakeHeader
  <1>2. /\ Handshake \in Frames /\ Header(Handshake) \in Seq(Byte)
        /\ Len(Header(Handshake)) = HeaderSize
    BY FramesSent, FrameBytes
  <1>3. /\ direction = "to_host" /\ sending = "idle" /\ sending' = "payload" /\ ~closed
        /\ frames = <<>> /\ frames' = Append(frames, Handshake)
        /\ UNCHANGED <<direction, split, torn, packages, header, buf>>
    BY DEF SendHandshakeHeader, NextFrame, reader
  <1>4. PICK x : WentOut(x, Header(Handshake), n)
    BY <1>0, <1>1, <1>2, <1>3, SendFacts
  <1>5. x \in Seq(Byte) /\ Len(x) = n /\ n \in Nat /\ stream' = stream \o x
    BY <1>4 DEF WentOut, HeaderSize
  <1>6. Begins(x, Bytes(Handshake))
    BY <1>2, <1>4, <1>5, HeaderBegins DEF WentOut
  <1>7. ASSUME intact' PROVE n = HeaderSize /\ intact
    <2>1. ~split' /\ ~cut' /\ ~torn'
      BY <1>7 DEF intact
    <2>2. ~cut /\ ~(n < HeaderSize)
      BY <1>1, <2>1, Zenon
    <2>3. n = HeaderSize
      BY <2>2 DEF HeaderSize
    <2> QED BY <1>3, <2>1, <2>2, <2>3 DEF intact
  <1>8. intact' => AfterBegin(Handshake, x)
    BY <1>3, <1>5, <1>7 DEF AfterBegin, Begun
  <1> QED BY <1>0, <1>2, <1>3, <1>5, <1>6, <1>7, <1>8, BeginStep

LEMMA SendHandshakePayloadStep ==
  ASSUME IInv, SendHandshakePayload
  PROVE  InStep'
  <1>0. TypeOK /\ InStep /\ HeaderRead
    BY DEF IInv
  <1>1. PICK n \in 0..Len(Handshake.payload) :
          Send(Handshake.payload, n) /\ cut' = (cut \/ n < Len(Handshake.payload))
    BY DEF SendHandshakePayload
  <1>2. Handshake.payload \in Seq(Byte) /\ Len(Handshake.payload) \in Nat
    BY FramesSent, FrameBytes
  <1>3. /\ direction = "to_host" /\ sending = "payload" /\ sending' = "idle" /\ ~closed
        /\ UNCHANGED <<direction, frames, split, torn, packages, header, buf>>
    BY <1>0 DEF SendHandshakePayload, reader, HeaderRead
  <1>4. PICK x : WentOut(x, Handshake.payload, n)
    BY <1>0, <1>1, <1>2, <1>3, SendFacts
  <1>5. x \in Seq(Byte) /\ Len(x) = n /\ stream' = stream \o x
    BY <1>4 DEF WentOut
  <1>6. Begun = Handshake /\ Begins(x, Begun.payload)
    BY <1>3, <1>4 DEF Begun, WentOut
  <1>7. ASSUME intact' PROVE intact /\ Len(x) = Len(Begun.payload)
    <2>1. ~split' /\ ~cut' /\ ~torn'
      BY <1>7 DEF intact
    <2>2. ~cut /\ ~(n < Len(Handshake.payload))
      BY <1>1, <2>1, Zenon
    <2>3. PICK size \in Nat : size = Len(Handshake.payload)
      BY <1>2
    <2>4. n = size
      BY <2>2, <2>3
    <2>5. intact
      BY <1>3, <2>1, <2>2 DEF intact
    <2> QED BY <1>5, <1>6, <2>3, <2>4, <2>5, Zenon
  <1> QED BY <1>0, <1>3, <1>5, <1>6, <1>7, ContinueStep

-----------------------------------------------------------------------------
(* The reading actions.                                                    *)

\* The header h gives the size of the payload p; r is what follows.
WasRead(h, p, r) == Len(h) = 2 /\ Len(p) = h[2] /\ stream = (h \o p) \o r

\* A header and its payload are the next frame, if nothing broke.
LEMMA ReadFacts ==
  ASSUME NEW h \in Seq(Byte), NEW p \in Seq(Byte), NEW r \in Seq(Byte),
         WasRead(h, p, r), TypeOK, InStep
  PROVE  /\ Frame(h[1], p) \in Frames
         /\ intact => ReadNext(Frame(h[1], p), r)
  <1>0. Len(h) = 2 /\ Len(p) = h[2] /\ stream = (h \o p) \o r
    BY DEF WasRead
  <1>1. h[1] \in Byte
    <2>1. 1 \in 1..Len(h)
      BY <1>0
    <2> QED BY <2>1, ElementOfSeq
  <1>2. PICK f \in Frames : f = Frame(h[1], p) /\ f.type = h[1] /\ f.payload = p
    <2>1. PICK b \in Byte : b = h[1]
      BY <1>1
    <2>2. Frame(b, p) \in Frames
      BY DEF Frame, Frames
    <2>3. Frame(b, p).type = b /\ Frame(b, p).payload = p
      BY DEF Frame
    <2> QED BY <2>1, <2>2, <2>3
  <1>3. PICK size \in Nat : size = Len(p)
    BY LenProperties
  <1>4. PICK c \in Nat : c = Len(Bytes(f)) /\ c = 2 + size
    <2>1. Len(Bytes(f)) = 2 + size
      BY <1>2, <1>3, FrameBytes DEF HeaderSize
    <2> QED BY <2>1
  <1>5. PICK q \in Seq(Byte) : /\ q = h \o p /\ Len(q) = 2 + size
                               /\ \A i \in 1..2 : q[i] = h[i]
                               /\ \A i \in 1..size : q[2 + i] = p[i]
    <2>1. /\ h \o p \in Seq(Byte) /\ Len(h \o p) = Len(h) + Len(p)
          /\ \A i \in 1..Len(h) : (h \o p)[i] = h[i]
          /\ \A i \in 1..Len(p) : (h \o p)[Len(h) + i] = p[i]
      BY ConcatFacts
    <2>2. Len(h) = 2 /\ Len(p) = size
      BY <1>0, <1>3
    <2>3. /\ h \o p \in Seq(Byte) /\ Len(h \o p) = 2 + size
          /\ \A i \in 1..2 : (h \o p)[i] = h[i]
          /\ \A i \in 1..size : (h \o p)[2 + i] = p[i]
      BY <2>1, <2>2, Zenon
    <2> QED BY <2>3, Zenon
  <1>6. PICK s \in Seq(Byte) : /\ s = stream /\ Len(r) \in Nat
                               /\ Len(s) = (2 + size) + Len(r)
                               /\ \A i \in 1..(2 + size) : s[i] = q[i]
                               /\ \A i \in 1..Len(r) : s[(2 + size) + i] = r[i]
    <2>1. /\ q \o r \in Seq(Byte) /\ Len(r) \in Nat /\ Len(q \o r) = Len(q) + Len(r)
          /\ \A i \in 1..Len(q) : (q \o r)[i] = q[i]
          /\ \A i \in 1..Len(r) : (q \o r)[Len(q) + i] = r[i]
      BY ConcatFacts
    <2>2. stream = q \o r /\ Len(q) = 2 + size
      BY <1>0, <1>5, Zenon
    <2>3. /\ q \o r \in Seq(Byte) /\ Len(r) \in Nat /\ Len(q \o r) = (2 + size) + Len(r)
          /\ \A i \in 1..(2 + size) : (q \o r)[i] = q[i]
          /\ \A i \in 1..Len(r) : (q \o r)[(2 + size) + i] = r[i]
      BY <2>1, <2>2, Zenon
    <2> QED BY <2>2, <2>3, Zenon
  <1>7. Behind(s, c, r)
    BY <1>4, <1>6 DEF Behind
  <1>8. Len(s) >= 2 /\ s[1] = h[1] /\ s[2] = size
    <2>1. Len(s) >= 2 /\ h[2] = size
      BY <1>0, <1>3, <1>6
    <2>2. 1 \in 1..2 /\ 2 \in 1..2 /\ 1 \in 1..(2 + size) /\ 2 \in 1..(2 + size)
      OBVIOUS
    <2> QED BY <2>1, <2>2, <1>5, <1>6
  <1>9. ASSUME intact PROVE ReadNext(Frame(h[1], p), r)
    <2>1. PICK m \in Nat, fs \in Seq(Frames) : m = Len(packages) /\ fs = frames
      BY FramesType
    <2>2. m <= Len(fs) /\ \E end : Framed(s, fs, m, end)
      BY <1>6, <1>9, <2>1 DEF InStep
    <2>3. PICK end : Framed(s, fs, m, end)
      BY <2>2
    <2>4. /\ m < Len(fs) /\ fs[m + 1] \in Frames
          /\ s[1] = fs[m + 1].type /\ s[2] = Len(fs[m + 1].payload)
          /\ \A i \in 1..Len(fs[m + 1].payload) :
               2 + i <= Len(s) => s[2 + i] = fs[m + 1].payload[i]
      BY <1>8, <2>2, <2>3, FrontFrame
    <2>5. PICK g \in Frames : g = fs[m + 1]
      BY <2>4
    <2>6. g.type = h[1] /\ g.payload \in Seq(Byte) /\ Len(g.payload) = size
      BY <1>3, <1>8, <2>4, <2>5 DEF Frames
    <2>7. ASSUME NEW i \in 1..size PROVE g.payload[i] = p[i]
      <3>1. 2 + i <= Len(s) /\ 2 + i \in 1..(2 + size)
        BY <1>6
      <3>2. s[2 + i] = g.payload[i]
        BY <2>4, <2>5, <2>6, <3>1
      <3>3. s[2 + i] = q[2 + i] /\ q[2 + i] = p[i]
        BY <1>5, <1>6, <3>1
      <3> QED BY <3>2, <3>3
    <2>8. g.payload = p
      <3>1. PICK u \in Seq(Byte) : u = g.payload /\ Len(u) = Len(p)
        BY <1>3, <2>6
      <3>2. \A i \in 1..Len(u) : u[i] = p[i]
        BY <1>3, <2>7, <3>1
      <3>3. u = p
        BY <3>1, <3>2, SeqEqual
      <3> QED BY <3>1, <3>3
    <2>9. g = f
      BY <1>2, <2>6, <2>8, SameFrame, Zenon
    <2> QED BY <1>2, <1>4, <1>6, <1>7, <2>1, <2>4, <2>5, <2>9 DEF ReadNext
  <1> QED BY <1>2, <1>9

\* What a reading step delivers, if anything, is the next frame.
InOrder ==
  \/ packages' = packages
  \/ \E f \in Frames, r \in Seq(Byte) :
       packages' = Append(packages, f) /\ (intact => ReadNext(f, r))

LEMMA TakeBytesStep ==
  ASSUME IInv, TakeBytes
  PROVE  InStep'
  <1>0. TypeOK /\ InStep
    BY DEF IInv
  <1>1. PICK n \in Chunks : buf' = Taken(n) /\ wire' = Rest(n)
    BY DEF TakeBytes
  <1>2. UNCHANGED <<direction, sending, closed, frames, split, cut, torn, packages, header>>
    BY DEF TakeBytes, sender
  <1>3. (header \o Taken(n)) \o Rest(n) = stream
    BY <1>0, TakenFacts
  <1>4. stream' = stream
    BY <1>1, <1>2, <1>3 DEF stream
  <1>5. intact' => intact
    BY <1>2 DEF intact
  <1> QED BY <1>0, <1>2, <1>4, <1>5, SameStream

LEMMA TakeHeaderStep ==
  ASSUME IInv, TakeHeader
  PROVE  InStep' /\ InOrder
  <1>0. TypeOK /\ InStep /\ part = "header" /\ header = <<>>
    BY DEF IInv, HeaderRead, NoHeader, TakeHeader
  <1>1. PICK n \in Chunks :
          /\ Len(Taken(n)) = Need
          /\ IF Taken(n)[2] = 0
               THEN Deliver(Taken(n)[1], <<>>)
               ELSE part' = "payload" /\ header' = Taken(n) /\ UNCHANGED packages
          /\ wire' = Rest(n)
    BY DEF TakeHeader
  <1>2. /\ UNCHANGED <<direction, sending, closed, frames, split, cut, torn>>
        /\ buf' = <<>>
    BY DEF TakeHeader, sender
  <1>3. PICK h \in Seq(Byte), r \in Seq(Byte) : h = Taken(n) /\ r = Rest(n) /\ Len(h) = 2
    BY <1>0, <1>1, TakenFacts DEF Need, HeaderSize
  <1>4. <<>> \in Seq(Byte) /\ stream = (h \o <<>>) \o r
    <2>1. (<<>> \o h) \o r = stream
      BY <1>0, <1>3, TakenFacts
    <2>2. <<>> \o h = h /\ h \o <<>> = h
      BY ConcatEmptySeq
    <2> QED BY <2>1, <2>2, EmptySeq
  <1>5. intact' => intact
    BY <1>2 DEF intact
  <1>6. CASE h[2] = 0
    <2>1. Len(<<>>) = h[2]
      BY <1>6
    <2>0. <<>> \in Seq(Byte) /\ WasRead(h, <<>>, r)
      BY <1>3, <1>4, <2>1 DEF WasRead
    <2>2. Frame(h[1], <<>>) \in Frames /\ (intact => ReadNext(Frame(h[1], <<>>), r))
      BY <1>0, <2>0, ReadFacts
    <2>3. packages' = Append(packages, Frame(h[1], <<>>)) /\ header' = <<>>
      BY <1>1, <1>3, <1>6 DEF Deliver, NoHeader
    <2>4. stream' = r
      <3>1. stream' = (<<>> \o <<>>) \o r
        BY <1>1, <1>2, <1>3, <2>3 DEF stream
      <3> QED BY <3>1, StreamIsWire
    <2>5. InStep'
      BY <1>0, <1>2, <1>5, <2>2, <2>3, <2>4, DeliverStep
    <2> QED BY <2>2, <2>3, <2>5 DEF InOrder
  <1>7. CASE h[2] /= 0
    <2>1. header' = h /\ packages' = packages
      BY <1>1, <1>3, <1>7
    <2>2. stream' = stream
      BY <1>1, <1>2, <1>3, <1>4, <2>1 DEF stream
    <2>3. InStep'
      BY <1>0, <1>2, <1>5, <2>1, <2>2, SameStream
    <2> QED BY <2>1, <2>3 DEF InOrder
  <1> QED BY <1>6, <1>7

LEMMA TakePayloadStep ==
  ASSUME IInv, TakePayload
  PROVE  InStep' /\ InOrder
  <1>0. TypeOK /\ InStep /\ part = "payload" /\ header \in Seq(Byte) /\ Len(header) = 2
    BY DEF IInv, HeaderRead, HeaderSize, TakePayload, TypeOK
  <1>1. PICK n \in Chunks :
          Len(Taken(n)) = Need /\ Deliver(header[1], Taken(n)) /\ wire' = Rest(n)
    BY DEF TakePayload
  <1>2. /\ UNCHANGED <<direction, sending, closed, frames, split, cut, torn>>
        /\ buf' = <<>>
    BY DEF TakePayload, sender
  <1>3. PICK h \in Seq(Byte), p \in Seq(Byte), r \in Seq(Byte) :
          h = header /\ p = Taken(n) /\ r = Rest(n) /\ Len(h) = 2 /\ Len(p) = h[2]
    BY <1>0, <1>1, TakenFacts DEF Need
  <1>4. stream = (h \o p) \o r
    BY <1>0, <1>3, TakenFacts
  <1>5. intact' => intact
    BY <1>2 DEF intact
  <1>6. Frame(h[1], p) \in Frames /\ (intact => ReadNext(Frame(h[1], p), r))
    <2>1. WasRead(h, p, r)
      BY <1>3, <1>4 DEF WasRead
    <2> QED BY <1>0, <2>1, ReadFacts
  <1>7. packages' = Append(packages, Frame(h[1], p)) /\ header' = <<>>
    BY <1>1, <1>3 DEF Deliver, NoHeader
  <1>8. stream' = r
    <2>1. stream' = (<<>> \o <<>>) \o r
      BY <1>1, <1>2, <1>3, <1>7 DEF stream
    <2> QED BY <2>1, StreamIsWire
  <1>9. InStep'
    BY <1>0, <1>2, <1>5, <1>6, <1>7, <1>8, DeliverStep
  <1> QED BY <1>6, <1>7, <1>9 DEF InOrder

LEMMA FailedStep ==
  ASSUME IInv, TimeoutWaiting \/ TimeoutAfterByte \/ AllocationFails
  PROVE  InStep'
  <1>0. TypeOK /\ InStep /\ HeaderRead
    BY DEF IInv
  <1>1. CASE TimeoutWaiting
    <2>1. /\ buf' = <<>> /\ header' = <<>> /\ torn' = (torn \/ part = "payload" \/ buf /= <<>>)
          /\ UNCHANGED <<wire, direction, sending, closed, frames, split, cut, packages>>
      BY <1>1 DEF TimeoutWaiting, Fail, NoHeader, sender
    <2>2. CASE torn'
      BY <2>2 DEF InStep, intact
    <2>3. CASE ~torn'
      <3>1. ~torn /\ part /= "payload" /\ buf = <<>>
        BY <2>1, <2>3, Zenon
      <3>2. header = <<>>
        BY <1>0, <3>1 DEF TypeOK, HeaderRead, NoHeader
      <3>3. stream' = stream
        BY <2>1, <3>1, <3>2 DEF stream
      <3>4. intact' => intact
        BY <2>1, <3>1 DEF intact
      <3> QED BY <1>0, <2>1, <3>3, <3>4, SameStream
    <2> QED BY <2>2, <2>3
  <1>2. CASE TimeoutAfterByte
    <2>1. PICK n \in Chunks : torn' = (torn \/ part = "payload" \/ Taken(n) /= <<>>)
      BY <1>2 DEF TimeoutAfterByte, Fail
    <2>2. Taken(n) /= <<>>
      BY <1>0, TakenFacts
    <2> QED BY <2>1, <2>2 DEF InStep, intact
  <1>3. CASE AllocationFails
    BY <1>3 DEF AllocationFails, Fail, InStep, intact
  <1> QED BY <1>1, <1>2, <1>3

-----------------------------------------------------------------------------
(* Types.                                                                  *)

LEMMA SenderTypes ==
  ASSUME TypeOK, NEW bytes \in Seq(Byte), NEW n \in 0..Len(bytes), Send(bytes, n),
         UNCHANGED <<direction, reader>>, sending' \in {"idle", "payload"},
         closed' \in BOOLEAN, split' \in BOOLEAN, cut' \in BOOLEAN,
         frames' = frames \/ \E f \in Frames : frames' = Append(frames, f)
  PROVE  TypeOK'
  <1>1. UNCHANGED <<part, buf, header, packages, torn>>
    BY DEF reader
  <1>2. wire' \in Seq(Byte)
    <2>1. SubSeq(bytes, 1, n) \in Seq(Byte) /\ wire \in Seq(Byte)
      BY SplitFacts DEF TypeOK
    <2> QED BY <2>1, ConcatFacts DEF Send
  <1>3. frames' \in Seq(Frames)
    <2>1. PICK fs \in Seq(Frames) : fs = frames
      BY FramesType
    <2>2. \A f \in Frames : Append(fs, f) \in Seq(Frames)
      BY AppendFacts
    <2> QED BY <2>1, <2>2
  <1> QED BY <1>1, <1>2, <1>3 DEF TypeOK, Frames

LEMMA UnwatchedTypes ==
  ASSUME TypeOK, NEW f \in Frames, SendUnwatched(f)
  PROVE  TypeOK'
  <1>1. PICK n \in 0..Len(Bytes(f)) :
          /\ Send(Bytes(f), n)
          /\ frames' = IF n > 0 THEN Append(frames, f) ELSE frames
          /\ cut' = (cut \/ n \in 1..(Len(Bytes(f)) - 1))
    BY DEF SendUnwatched
  <1>2. UNCHANGED <<direction, sending, closed, split, reader>>
    BY DEF SendUnwatched
  <1>3. sending \in {"idle", "payload"} /\ closed \in BOOLEAN /\ split \in BOOLEAN
    BY DEF TypeOK
  <1>4. frames' = frames \/ frames' = Append(frames, f)
    BY <1>1
  <1>5. cut' \in BOOLEAN
    BY <1>1, Zenon
  <1> QED BY <1>1, <1>2, <1>3, <1>4, <1>5, FrameBytes, SenderTypes

LEMMA HostTypes ==
  ASSUME TypeOK, Host
  PROVE  TypeOK'
  <1>0. \A f \in {Ping, Timestamp, Settings, Stop, Handshake, Echo, Data} :
          /\ f \in Frames /\ Bytes(f) \in Seq(Byte) /\ f.payload \in Seq(Byte)
          /\ Header(f) \in Seq(Byte) /\ Len(Header(f)) = HeaderSize
          /\ Len(Bytes(f)) = HeaderSize + Len(f.payload)
    BY FramesSent, FrameBytes
  <1>1. sending \in {"idle", "payload"} /\ {closed, split, cut} \subseteq BOOLEAN
    BY DEF TypeOK
  <1>2. CASE SendPingHeader
    <2>1. PICK n \in 0..HeaderSize :
            /\ Send(Header(Ping), n)
            /\ sending' = IF n = HeaderSize THEN "payload" ELSE "idle"
            /\ closed' = (n < HeaderSize)
      BY <1>2 DEF SendPingHeader
    <2>2. /\ frames' = Append(frames, Ping)
          /\ UNCHANGED <<direction, split, cut, reader>>
      BY <1>2 DEF SendPingHeader, NextFrame
    <2>3. closed' \in BOOLEAN /\ sending' \in {"idle", "payload"}
      BY <2>1
    <2> QED BY <1>0, <1>1, <2>1, <2>2, <2>3, SenderTypes
  <1>3. CASE SendPingPayload
    <2>1. PICK n \in 0..PingSize : Send(Ping.payload, n) /\ closed' = (n < PingSize)
      BY <1>3 DEF SendPingPayload
    <2>2. sending' = "idle" /\ UNCHANGED <<direction, frames, split, cut, reader>>
      BY <1>3 DEF SendPingPayload
    <2>3. closed' \in BOOLEAN
      BY <2>1
    <2> QED BY <1>0, <1>1, <2>1, <2>2, <2>3, FramesSent, SenderTypes
  <1>4. CASE SendTimestamp
    <2>1. PICK n \in 0..(HeaderSize + TimestampSize) :
            /\ Send(Bytes(Timestamp), n)
            /\ closed' = (n < HeaderSize + TimestampSize)
            /\ split' = (split \/ (sending = "payload" /\ n > 0))
      BY <1>4 DEF SendTimestamp
    <2>2. /\ frames' = Append(frames, Timestamp)
          /\ UNCHANGED <<direction, sending, cut, reader>>
      BY <1>4 DEF SendTimestamp, NextFrame
    <2>3. closed' \in BOOLEAN /\ split' \in BOOLEAN
      BY <2>1
    <2>4. Len(Bytes(Timestamp)) = HeaderSize + TimestampSize
      BY FramesSent, FrameBytes
    <2> QED BY <1>0, <1>1, <2>1, <2>2, <2>3, <2>4, SenderTypes
  <1>5. CASE SendSettings
    <2>1. SendUnwatched(Settings)
      BY <1>5 DEF SendSettings
    <2> QED BY <1>0, <2>1, UnwatchedTypes
  <1>6. CASE SendStop
    <2>1. PICK n \in 0..HeaderSize : Send(Bytes(Stop), n)
      BY <1>6 DEF SendStop
    <2>2. /\ frames' = Append(frames, Stop) /\ closed' = TRUE
          /\ UNCHANGED <<direction, sending, split, cut, reader>>
      BY <1>6 DEF SendStop, NextFrame
    <2>3. n \in 0..Len(Bytes(Stop))
      <3>1. Stop.payload = <<>>
        BY FramesSent
      <3>2. Len(Bytes(Stop)) = 2 + 0
        BY <1>0, <3>1 DEF HeaderSize
      <3> QED BY <3>2 DEF HeaderSize
    <2> QED BY <1>0, <1>1, <2>1, <2>2, <2>3, SenderTypes
  <1> QED BY <1>2, <1>3, <1>4, <1>5, <1>6 DEF Host

LEMMA ClientTypes ==
  ASSUME TypeOK, Client
  PROVE  TypeOK'
  <1>0. /\ Handshake \in Frames /\ Echo \in Frames /\ Data \in Frames
        /\ Handshake.payload \in Seq(Byte)
        /\ Header(Handshake) \in Seq(Byte) /\ Len(Header(Handshake)) = HeaderSize
    BY FramesSent, FrameBytes
  <1>1. sending \in {"idle", "payload"} /\ {closed, split, cut} \subseteq BOOLEAN
    BY DEF TypeOK
  <1>2. CASE SendHandshakeHeader
    <2>1. PICK n \in 0..HeaderSize :
            Send(Header(Handshake), n) /\ cut' = (cut \/ n < HeaderSize)
      BY <1>2 DEF SendHandshakeHeader
    <2>2. /\ frames' = Append(frames, Handshake) /\ sending' = "payload"
          /\ UNCHANGED <<direction, closed, split, reader>>
      BY <1>2 DEF SendHandshakeHeader, NextFrame
    <2>3. cut' \in BOOLEAN
      BY <2>1, Zenon
    <2> QED BY <1>0, <1>1, <2>1, <2>2, <2>3, SenderTypes
  <1>3. CASE SendHandshakePayload
    <2>1. PICK n \in 0..Len(Handshake.payload) :
            Send(Handshake.payload, n) /\ cut' = (cut \/ n < Len(Handshake.payload))
      BY <1>3 DEF SendHandshakePayload
    <2>2. sending' = "idle" /\ UNCHANGED <<direction, closed, frames, split, reader>>
      BY <1>3 DEF SendHandshakePayload
    <2>3. cut' \in BOOLEAN
      BY <2>1, Zenon
    <2> QED BY <1>0, <1>1, <2>1, <2>2, <2>3, SenderTypes
  <1>4. CASE SendEcho
    BY <1>0, <1>4, UnwatchedTypes DEF SendEcho
  <1>5. CASE SendData
    BY <1>0, <1>5, UnwatchedTypes DEF SendData
  <1> QED BY <1>2, <1>3, <1>4, <1>5 DEF Client

LEMMA ReaderTypes ==
  ASSUME IInv, Reader
  PROVE  TypeOK'
  <1>0. TypeOK /\ HeaderRead
    BY DEF IInv
  <1>1. \A n \in Chunks : Taken(n) \in Seq(Byte) /\ Rest(n) \in Seq(Byte)
    BY <1>0, TakenFacts
  <1>2. /\ wire \in Seq(Byte) /\ buf \in Seq(Byte) /\ header \in Seq(Byte)
        /\ packages \in Seq(Frames) /\ NoHeader \in Seq(Byte) /\ <<>> \in Seq(Byte)
    BY <1>0, FramesType, EmptySeq DEF TypeOK, NoHeader
  <1>3. CASE TakeBytes
    <2>1. buf' \in Seq(Byte) /\ wire' \in Seq(Byte)
      BY <1>1, <1>3 DEF TakeBytes
    <2>2. UNCHANGED <<direction, sending, closed, frames, split, cut,
                      part, header, packages, torn>>
      BY <1>3 DEF TakeBytes, sender
    <2> QED BY <1>0, <2>1, <2>2 DEF TypeOK
  <1>4. CASE TakeHeader
    <2>1. UNCHANGED <<direction, sending, closed, frames, split, cut, torn>> /\ buf' = <<>>
      BY <1>4 DEF TakeHeader, sender
    <2>2. PICK n \in Chunks :
            /\ Len(Taken(n)) = HeaderSize
            /\ IF Taken(n)[2] = 0
                 THEN Deliver(Taken(n)[1], <<>>)
                 ELSE part' = "payload" /\ header' = Taken(n) /\ UNCHANGED packages
            /\ wire' = Rest(n)
      BY <1>4 DEF TakeHeader, Need
    <2>3. PICK h \in Seq(Byte) : h = Taken(n) /\ Len(h) = 2
      BY <1>1, <2>2 DEF HeaderSize
    <2>4. Frame(h[1], <<>>) \in Frames
      <3>1. PICK b \in Byte : b = h[1]
        <4>1. 1 \in 1..Len(h)
          BY <2>3
        <4> QED BY <4>1, ElementOfSeq
      <3>2. Frame(b, <<>>) \in Frames
        BY <1>2 DEF Frame, Frames
      <3> QED BY <3>1, <3>2
    <2>5. /\ packages' \in Seq(Frames) /\ part' \in {"header", "payload"}
          /\ header' \in Seq(Byte) /\ wire' \in Seq(Byte)
      <3>1. wire' \in Seq(Byte)
        BY <1>1, <2>2
      <3>2. CASE h[2] = 0
        <4>1. /\ packages' = Append(packages, Frame(h[1], <<>>))
              /\ part' = "header" /\ header' = NoHeader
          BY <2>2, <2>3, <3>2 DEF Deliver
        <4> QED BY <1>2, <2>4, <3>1, <4>1, AppendFacts
      <3>3. CASE h[2] /= 0
        BY <1>2, <2>2, <2>3, <3>1, <3>3
      <3> QED BY <3>2, <3>3
    <2> QED BY <1>0, <1>2, <2>1, <2>5 DEF TypeOK, Frames
  <1>5. CASE TakePayload
    <2>1. UNCHANGED <<direction, sending, closed, frames, split, cut, torn>> /\ buf' = <<>>
      BY <1>5 DEF TakePayload, sender
    <2>2. PICK n \in Chunks : Deliver(header[1], Taken(n)) /\ wire' = Rest(n)
      BY <1>5 DEF TakePayload
    <2>3. PICK b \in Byte : b = header[1]
      <3>1. Len(header) = 2
        BY <1>0, <1>5 DEF TakePayload, HeaderRead, HeaderSize
      <3>2. 1 \in 1..Len(header)
        BY <3>1
      <3> QED BY <1>2, <3>2, ElementOfSeq
    <2>4. PICK p \in Seq(Byte) : p = Taken(n)
      BY <1>1
    <2>5. Frame(b, p) \in Frames
      BY DEF Frame, Frames
    <2>6. /\ packages' \in Seq(Frames) /\ part' \in {"header", "payload"}
          /\ header' \in Seq(Byte) /\ wire' \in Seq(Byte)
      BY <1>1, <1>2, <2>2, <2>3, <2>4, <2>5, AppendFacts DEF Deliver
    <2> QED BY <1>0, <1>2, <2>1, <2>6 DEF TypeOK, Frames
  <1>6. CASE TimeoutWaiting \/ TimeoutAfterByte \/ AllocationFails
    <2>1. /\ UNCHANGED <<direction, sending, closed, frames, split, cut, packages>>
          /\ part' = "header" /\ buf' = <<>> /\ header' = NoHeader /\ torn' \in BOOLEAN
      BY <1>6, Zenon DEF TimeoutWaiting, TimeoutAfterByte, AllocationFails, Fail, sender
    <2>2. wire' \in Seq(Byte)
      BY <1>1, <1>2, <1>6 DEF TimeoutWaiting, TimeoutAfterByte, AllocationFails
    <2> QED BY <1>0, <1>2, <2>1, <2>2 DEF TypeOK
  <1> QED BY <1>3, <1>4, <1>5, <1>6 DEF Reader

LEMMA HeaderReadStep ==
  ASSUME IInv, Next
  PROVE  HeaderRead'
  <1>0. TypeOK /\ HeaderRead
    BY DEF IInv
  <1>1. CASE Host
    <2>1. direction = "to_client" /\ UNCHANGED <<direction, part, header>>
      BY <1>1 DEF Host, SendPingHeader, SendPingPayload, SendTimestamp, SendSettings,
                  SendUnwatched, SendStop, reader
    <2> QED BY <1>0, <2>1 DEF HeaderRead
  <1>2. CASE Client
    <2>1. UNCHANGED <<direction, part, header, closed>>
      BY <1>2 DEF Client, SendHandshakeHeader, SendHandshakePayload, SendEcho, SendData,
                  SendUnwatched, reader
    <2> QED BY <1>0, <2>1 DEF HeaderRead
  <1>3. CASE Reader
    <2>1. UNCHANGED <<direction, closed>>
      BY <1>3 DEF Reader, TakeBytes, TakeHeader, TakePayload, TimeoutWaiting,
                  TimeoutAfterByte, AllocationFails, sender
    <2>2. \/ part' = "header" /\ header' = NoHeader
          \/ part' = "payload" /\ Len(header') = HeaderSize
          \/ UNCHANGED <<part, header>>
      BY <1>3 DEF Reader, TakeBytes, TakeHeader, TakePayload, TimeoutWaiting,
                  TimeoutAfterByte, AllocationFails, Fail, Deliver, Need
    <2> QED BY <1>0, <2>1, <2>2 DEF HeaderRead
  <1> QED BY <1>1, <1>2, <1>3 DEF Next

LEMMA InStepStep ==
  ASSUME IInv, Next
  PROVE  InStep'
  <1>1. ASSUME NEW f \in {Settings, Echo, Data}, SendUnwatched(f) PROVE InStep'
    <2>1. f \in Frames /\ direction' = direction
      BY <1>1, FramesSent DEF SendUnwatched
    <2> QED BY <1>1, <2>1, SendUnwatchedStep
  <1>2. CASE Host
    BY <1>1, <1>2, SendPingHeaderStep, SendPingPayloadStep, SendTimestampStep, SendStopStep
       DEF Host, SendSettings
  <1>3. CASE Client
    BY <1>1, <1>3, SendHandshakeHeaderStep, SendHandshakePayloadStep
       DEF Client, SendEcho, SendData
  <1>4. CASE Reader
    BY <1>4, TakeBytesStep, TakeHeaderStep, TakePayloadStep, FailedStep DEF Reader
  <1> QED BY <1>2, <1>3, <1>4 DEF Next

LEMMA Initially ==
  Init => IInv
  <1> SUFFICES ASSUME Init PROVE IInv
    OBVIOUS
  <1>1. /\ wire = <<>> /\ buf = <<>> /\ header = <<>> /\ frames = <<>> /\ packages = <<>>
        /\ sending = "idle" /\ part = "header" /\ direction \in Directions
        /\ closed = FALSE /\ split = FALSE /\ cut = FALSE /\ torn = FALSE
    BY DEF Init, NoHeader
  <1>2. TypeOK
    <2>1. <<>> \in Seq(Byte) /\ <<>> \in Seq(Frames)
      BY EmptySeq
    <2> QED BY <1>1, <2>1 DEF TypeOK, Frames
  <1>3. HeaderRead
    BY <1>1 DEF HeaderRead, NoHeader
  <1>4. InStep
    <2>1. stream = <<>>
      BY <1>1, StreamIsWire, EmptySeq DEF stream
    <2>2. PICK n \in Nat : n = 0 /\ n = Len(frames) /\ n = Len(packages) /\ n = Len(stream)
      BY <1>1, <2>1
    <2>3. PICK end \in [n..n -> Int] : end[n] = n
      <3>1. [k \in n..n |-> n] \in [n..n -> Int] /\ [k \in n..n |-> n][n] = n
        BY <2>2
      <3> QED BY <3>1
    <2>4. Framed(stream, frames, n, end)
      <3>1. \A k \in n..n : k = n
        OBVIOUS
      <3>2. (n + 1)..n = {}
        OBVIOUS
      <3> QED BY <2>2, <2>3, <3>1, <3>2 DEF Framed
    <2>5. UpToDate(end)
      BY <1>1, <2>2, <2>3 DEF UpToDate
    <2> QED BY <2>2, <2>4, <2>5 DEF InStep
  <1> QED BY <1>2, <1>3, <1>4 DEF IInv

LEMMA Inductive ==
  IInv /\ [Next]_vars => IInv'
  <1> SUFFICES ASSUME IInv, [Next]_vars PROVE IInv'
    OBVIOUS
  <1>1. CASE Next
    <2>1. TypeOK'
      BY <1>1, HostTypes, ClientTypes, ReaderTypes DEF Next, IInv
    <2> QED BY <1>1, <2>1, HeaderReadStep, InStepStep DEF IInv
  <1>2. CASE UNCHANGED vars
    <2>1. UNCHANGED <<direction, wire, sending, closed, part, buf, header, frames, packages,
                      split, cut, torn>>
      BY <1>2 DEF vars, sender, reader
    <2>2. TypeOK' /\ HeaderRead'
      BY <2>1 DEF IInv, TypeOK, HeaderRead
    <2>3. stream' = stream /\ (intact' => intact) /\ InStep
      BY <2>1 DEF stream, intact, IInv
    <2>4. InStep'
      BY <2>1, <2>3, SameStream
    <2> QED BY <2>2, <2>4 DEF IInv
  <1> QED BY <1>1, <1>2

-----------------------------------------------------------------------------
(* The promise of the channel.                                             *)

Sendable == {Ping, Timestamp, Settings, Stop, Handshake, Echo, Data}

\* A broken promise is never kept again.
LEMMA IntactFacts ==
  /\ intact \in BOOLEAN /\ intact' \in BOOLEAN
  /\ (intact' => intact) => intact' \in {intact, FALSE}
  BY Zenon DEF intact

LEMMA SenderStep ==
  ASSUME IInv, Host \/ Client
  PROVE  /\ packages' = packages
         /\ intact' => intact
         /\ frames' = frames \/ \E f \in Sendable : frames' = Append(frames, f)
  <1>1. UNCHANGED <<packages, torn>>
    <2>1. CASE Host
      BY <2>1 DEF Host, SendPingHeader, SendPingPayload, SendTimestamp, SendSettings,
                  SendUnwatched, SendStop, reader
    <2>2. CASE Client
      BY <2>2 DEF Client, SendHandshakeHeader, SendHandshakePayload, SendEcho, SendData,
                  SendUnwatched, reader
    <2> QED BY <2>1, <2>2
  <1>2. (split => split') /\ (cut => cut')
    <2>0. (split' = split => (split => split')) /\ (cut' = cut => (cut => cut'))
      BY Zenon
    <2>1. CASE Host
      <3>1. SendTimestamp => (split => split') /\ cut' = cut
        BY DEF SendTimestamp
      <3>2. SendSettings => split' = split /\ (cut => cut')
        BY DEF SendSettings, SendUnwatched
      <3>3. SendPingHeader \/ SendPingPayload \/ SendStop => split' = split /\ cut' = cut
        BY DEF SendPingHeader, SendPingPayload, SendStop
      <3> QED BY <2>0, <2>1, <3>1, <3>2, <3>3 DEF Host
    <2>2. CASE Client
      <3>1. SendHandshakeHeader => split' = split /\ (cut => cut')
        BY DEF SendHandshakeHeader
      <3>2. SendHandshakePayload => split' = split /\ (cut => cut')
        BY DEF SendHandshakePayload
      <3>3. SendEcho \/ SendData => split' = split /\ (cut => cut')
        BY DEF SendEcho, SendData, SendUnwatched
      <3> QED BY <2>0, <2>2, <3>1, <3>2, <3>3 DEF Client
    <2> QED BY <2>1, <2>2
  <1>3. ASSUME NEW f \in Sendable, SendUnwatched(f)
        PROVE  frames' = frames \/ frames' = Append(frames, f)
    BY <1>3 DEF SendUnwatched
  <1>4. frames' = frames \/ \E f \in Sendable : frames' = Append(frames, f)
    BY <1>3 DEF Host, Client, SendPingHeader, SendPingPayload, SendTimestamp, SendSettings,
           SendStop, SendHandshakeHeader, SendHandshakePayload, SendEcho, SendData,
           NextFrame, Sendable
  <1> QED BY <1>1, <1>2, <1>4 DEF intact

LEMMA ReaderStep ==
  ASSUME IInv, Reader
  PROVE  /\ frames' = frames
         /\ intact' => intact
         /\ InOrder
         /\ packages' = packages \/ intact' = intact
  <1>1. UNCHANGED <<frames, split, cut>>
    BY DEF Reader, TakeBytes, TakeHeader, TakePayload, TimeoutWaiting, TimeoutAfterByte,
           AllocationFails, sender
  <1>2. torn => torn'
    BY Zenon DEF Reader, TakeBytes, TakeHeader, TakePayload, TimeoutWaiting, TimeoutAfterByte,
           AllocationFails, Fail
  <1>3. CASE TakeHeader \/ TakePayload
    <2>1. torn' = torn
      BY <1>3 DEF TakeHeader, TakePayload
    <2> QED BY <1>1, <1>3, <2>1, TakeHeaderStep, TakePayloadStep DEF intact
  <1>4. CASE TakeBytes \/ TimeoutWaiting \/ TimeoutAfterByte \/ AllocationFails
    <2>1. packages' = packages
      BY <1>4 DEF TakeBytes, TimeoutWaiting, TimeoutAfterByte, AllocationFails, Fail
    <2> QED BY <1>1, <1>2, <2>1 DEF intact, InOrder
  <1> QED BY <1>3, <1>4 DEF Reader

LEMMA ChannelStep ==
  ASSUME IInv, [Next]_vars
  PROVE  [Channel!Next]_<<frames, packages, intact>>
  <1>1. CASE Host \/ Client
    <2>1. /\ packages' = packages /\ intact' \in {intact, FALSE}
          /\ frames' = frames \/ \E f \in Sendable : frames' = Append(frames, f)
      BY <1>1, SenderStep, IntactFacts
    <2>2. CASE frames' = frames
      BY <2>1, <2>2 DEF Channel!Next, Channel!Break
    <2>3. CASE \E f \in Sendable : frames' = Append(frames, f)
      BY <2>1, <2>3 DEF Channel!Next, Channel!Send, Sendable
    <2> QED BY <2>1, <2>2, <2>3
  <1>2. CASE Reader
    <2>1. /\ frames' = frames /\ intact' \in {intact, FALSE} /\ InOrder
          /\ packages' = packages \/ intact' = intact
      BY <1>2, ReaderStep, IntactFacts
    <2>2. CASE packages' = packages
      BY <2>1, <2>2 DEF Channel!Next, Channel!Break
    <2>3. ASSUME NEW f \in Frames, NEW r \in Seq(Byte),
                 packages' = Append(packages, f), intact => ReadNext(f, r)
          PROVE  [Channel!Next]_<<frames, packages, intact>>
      <3>1. packages' = Append(packages, f) /\ (intact => ReadNext(f, r))
        BY <2>3
      <3>0. packages' /= packages
        <4>1. packages \in Seq(Frames)
          BY FramesType DEF IInv
        <4>2. Len(Append(packages, f)) = Len(packages) + 1 /\ Len(packages) \in Nat
          BY <4>1, AppendFacts
        <4> QED BY <3>1, <4>2
      <3>2. intact' = intact
        BY <2>1, <3>0
      <3>3. CASE intact
        BY <2>1, <3>1, <3>2, <3>3 DEF Channel!Next, Channel!Deliver, ReadNext
      <3>4. CASE ~intact
        <4>1. Channel!Last(packages') = f
          <5>1. packages \in Seq(Frames)
            BY FramesType DEF IInv
          <5> QED BY <3>1, <5>1, AppendFacts DEF Channel!Last
        <4> QED BY <2>1, <3>1, <3>2, <3>4, <4>1 DEF Channel!Next, Channel!DeliverAnything
      <3> QED BY <3>3, <3>4
    <2> QED BY <2>1, <2>2, <2>3 DEF InOrder
  <1>3. CASE UNCHANGED vars
    BY <1>3 DEF vars, sender, reader, intact
  <1> QED BY <1>1, <1>2, <1>3 DEF Next

-----------------------------------------------------------------------------
(* The results.                                                            *)

\* The bytes between the last package read and the last byte sent are those of
\* the frames between them, unless the stream broke.
THEOREM Invariance == Spec => []IInv
  BY Initially, Inductive, PTL DEF Spec

\* The variables of the stream keep their types.
THEOREM TypeCorrect == Spec => []TypeOK
  <1>1. IInv => TypeOK
    BY DEF IInv
  <1> QED BY <1>1, Invariance, PTL

\* Packages arrive whole, in order and once, whatever the sizes of the payloads
\* and however the bytes are grouped, until a ping is split, a frame is cut, or
\* a read fails half-way.
THEOREM Refinement == Spec => ImplementsChannel
  <1>1. Init => Channel!Init
    BY Zenon DEF Init, Channel!Init, intact
  <1>2. IInv /\ [Next]_vars => [Channel!Next]_<<frames, packages, intact>>
    BY ChannelStep
  <1> QED BY <1>1, <1>2, Invariance, PTL DEF Spec, ImplementsChannel, Channel!Spec
=============================================================================
