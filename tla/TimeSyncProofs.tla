---------------------------- MODULE TimeSyncProofs ----------------------------
(***************************************************************************)
(* Proofs about TimeBuffer for every number of echoes, rows and starts,    *)
(* and about TimeFit, the export on top of it, for all times at which      *)
(* timestamps are sent, every set of delays and every rate and offset of   *)
(* the client's clock.                                                     *)
(*                                                                         *)
(* The sums of the regression are loops: what holds of them is shown by    *)
(* induction over the loop, as a set of numbers that holds 0 and with each *)
(* number the next.                                                        *)
(***************************************************************************)
EXTENDS TimeFit, FiniteSetTheorems, FunctionTheorems,
        WellFoundedInduction, TLAPS

LEMMA InitEstablishes == Init => IInv
  <1> SUFFICES ASSUME Init PROVE IInv
    OBVIOUS
  <1>1. TypeOK
    <2>1. client_time_sync \in [0..(allocated_client_times - 1) -> Nat]
      BY DEF Init, Buffer, Zeroed
    <2> QED BY <2>1 DEF Init, TypeOK
  <1>2. EntriesAreEchoes /\ OnlyLastEchoLost /\ SafeToWrite
    BY DEF Init, EntriesAreEchoes, OnlyLastEchoLost, SafeToWrite
  <1> QED BY <1>1, <1>2 DEF Init, IInv

LEMMA StartStep ==
  ASSUME IInv, Start
  PROVE  IInv'
  <1>1. TypeOK'
    <2>1. client_time_sync' \in [0..1 -> Nat]
      BY DEF Start, Buffer, Zeroed
    <2>2. thread' \in {"running", "ended"}
      BY DEF Start
    <2> QED BY <2>1, <2>2 DEF IInv, TypeOK, Start
  <1>2. starts \in Nat /\ starts' = starts + 1
    BY DEF IInv, TypeOK, Start
  <1>3. starts' <= 1 => starts = 0 /\ starts' = 1 /\ time_write_index = 0
    BY <1>2 DEF IInv, TypeOK, EntriesAreEchoes
  <1>4. EntriesAreEchoes'
    BY <1>3 DEF EntriesAreEchoes, Start
  <1>5. OnlyLastEchoLost'
    BY <1>2, <1>3 DEF IInv, TypeOK, OnlyLastEchoLost, Start
  <1>6. SafeToWrite'
    BY <1>2, <1>3 DEF IInv, SafeToWrite, Start
  <1> QED BY <1>1, <1>2, <1>3, <1>4, <1>5, <1>6 DEF IInv, Start

\* An echo goes behind the earlier ones, in the old buffer or in one of twice
\* the size.
LEMMA EchoStep ==
  ASSUME IInv, Echo
  PROVE  IInv'
  <1> DEFINE full == time_write_index >= allocated_client_times
             n == IF full THEN 2 * allocated_client_times
                          ELSE allocated_client_times
             buffer == IF full THEN Grown(2 * allocated_client_times)
                               ELSE client_time_sync
  <1>1. StoreEcho(buffer, n) /\ echoes' = echoes + 1 /\ thread = "running"
        /\ thread' = thread /\ starts' = starts /\ lost' = lost
        /\ conn' = conn /\ write_index' = write_index
    BY DEF Echo, EchoArrives
  <1>2. n \in Nat /\ n >= allocated_client_times
    BY DEF IInv, TypeOK
  <1>3. buffer \in [0..(n - 1) -> Nat]
    BY DEF IInv, TypeOK, Grown, Zeroed
  <1>4. \A i \in 0..(allocated_client_times - 1) : buffer[i] = client_time_sync[i]
    <2> TAKE i \in 0..(allocated_client_times - 1)
    <2>1. CASE full
      <3>1. i \in 0..(2 * allocated_client_times - 1) /\ i < allocated_client_times
        BY DEF IInv, TypeOK
      <3> QED BY <2>1, <3>1 DEF Grown
    <2> QED BY <2>1
  <1>5. starts <= 1 => starts = 1 /\ allocated_client_times >= 2
    BY <1>1 DEF IInv, TypeOK
  <1>6. starts <= 1 => time_write_index < n
    BY <1>5 DEF IInv, TypeOK, EntriesAreEchoes
  <1>7. starts <= 1 => echoes = time_write_index
    BY <1>1 DEF IInv, TypeOK, OnlyLastEchoLost
  <1>8. starts <= 1 =>
          \A i \in 0..(time_write_index - 1) :
            i \in 0..(n - 1) /\ buffer[i] = i + 1
    BY <1>2, <1>4, <1>6 DEF IInv, TypeOK, EntriesAreEchoes
  <1> HIDE DEF full, n, buffer
  <1>9. time_write_index \in Nat /\ echoes \in Nat /\ starts \in Nat /\ lost \in Nat
         /\ overrun \in BOOLEAN
    BY DEF IInv, TypeOK
  <1>10. allocated_client_times' = n /\ time_write_index' = time_write_index + 1
    BY <1>1 DEF StoreEcho
  <1>11. client_time_sync' \in [0..(n - 1) -> Nat]
    BY <1>1, <1>3, <1>9 DEF StoreEcho
  <1>12. TypeOK'
    <2>1. overrun' \in BOOLEAN
      BY <1>1, <1>9 DEF StoreEcho
    <2>2. time_write_index' \in Nat /\ echoes' \in Nat
      BY <1>1, <1>9, <1>10
    <2> QED BY <1>1, <1>2, <1>10, <1>11, <2>1, <2>2 DEF IInv, TypeOK
  <1>13. starts <= 1 =>
           client_time_sync' = [buffer EXCEPT ![time_write_index] = echoes + 1]
           /\ overrun' = overrun
    BY <1>1, <1>6 DEF StoreEcho
  <1>14. EntriesAreEchoes'
    <2> SUFFICES ASSUME starts <= 1
                 PROVE  /\ time_write_index + 1 <= n
                        /\ \A i \in 0..time_write_index : client_time_sync'[i] = i + 1
      BY <1>1, <1>9, <1>10 DEF EntriesAreEchoes
    <2>1. time_write_index + 1 <= n
      BY <1>2, <1>6, <1>9
    <2>2. ASSUME NEW i \in 0..time_write_index
          PROVE  client_time_sync'[i] = i + 1
      <3>1. CASE i = time_write_index
        <4>1. time_write_index \in 0..(n - 1)
          BY <1>2, <1>6, <1>9
        <4> QED BY <1>3, <1>7, <1>13, <3>1, <4>1
      <3>2. CASE i /= time_write_index
        <4>1. i \in 0..(time_write_index - 1)
          BY <1>9, <3>2
        <4> QED BY <1>3, <1>8, <1>13, <3>2, <4>1
      <3> QED BY <3>1, <3>2
    <2> QED BY <2>1, <2>2
  <1>15. OnlyLastEchoLost'
    BY <1>1, <1>7, <1>9, <1>10 DEF IInv, OnlyLastEchoLost
  <1>16. SafeToWrite'
    BY <1>1, <1>13 DEF IInv, SafeToWrite
  <1>17. (starts = 0 => thread = "none" /\ allocated_client_times = 0)'
    BY <1>1, <1>5, <1>9
  <1>18. (starts = 1 => allocated_client_times >= 2)'
    BY <1>1, <1>2, <1>5, <1>10 DEF IInv, TypeOK
  <1> QED BY <1>12, <1>14, <1>15, <1>16, <1>17, <1>18 DEF IInv

\* The steps that leave the buffer alone.
LEMMA OtherStep ==
  ASSUME IInv, EchoWithoutMemory \/ StoreRow \/ Disconnect \/ UNCHANGED vars
  PROVE  IInv'
  <1>1. UNCHANGED <<client_time_sync, allocated_client_times, time_write_index,
                    starts, overrun>>
    BY DEF EchoWithoutMemory, StoreRow, Disconnect, vars
  <1>2. EntriesAreEchoes' /\ SafeToWrite'
    BY <1>1 DEF IInv, EntriesAreEchoes, SafeToWrite
  <1>3. CASE EchoWithoutMemory
    <2>1. echoes' = echoes + 1 /\ lost' = lost + 1 /\ thread' = "ended"
          /\ thread = "running" /\ conn' = conn /\ write_index' = write_index
      BY <1>3 DEF EchoWithoutMemory, EchoArrives
    <2>2. TypeOK'
      BY <1>1, <2>1 DEF IInv, TypeOK
    <2>3. OnlyLastEchoLost'
      BY <1>1, <2>1 DEF IInv, TypeOK, OnlyLastEchoLost
    <2> QED BY <1>1, <1>2, <2>1, <2>2, <2>3 DEF IInv
  <1>4. CASE StoreRow
    <2>1. TypeOK'
      BY <1>1, <1>4 DEF IInv, TypeOK, StoreRow
    <2>2. OnlyLastEchoLost'
      BY <1>1, <1>4 DEF IInv, OnlyLastEchoLost, StoreRow
    <2> QED BY <1>1, <1>2, <1>4, <2>1, <2>2 DEF IInv, StoreRow
  <1>5. CASE Disconnect
    <2>1. TypeOK'
      BY <1>1, <1>5 DEF IInv, TypeOK, Disconnect
    <2>2. OnlyLastEchoLost'
      BY <1>1, <1>5 DEF IInv, OnlyLastEchoLost, Disconnect
    <2> QED BY <1>1, <1>2, <1>5, <2>1, <2>2 DEF IInv, Disconnect
  <1>6. CASE UNCHANGED vars
    <2>1. TypeOK' /\ OnlyLastEchoLost'
      BY <1>6 DEF IInv, TypeOK, OnlyLastEchoLost, vars
    <2> QED BY <1>1, <1>2, <1>6, <2>1 DEF IInv, vars
  <1> QED BY <1>3, <1>4, <1>5, <1>6

LEMMA Inductive == IInv /\ [Next]_vars => IInv'
  BY StartStep, EchoStep, OtherStep DEF Next

-----------------------------------------------------------------------------
\* The inductive invariant of the time buffer.
THEOREM Invariance == Spec => []IInv
  BY InitEstablishes, Inductive, PTL DEF Spec

\* The variables of the time buffer keep their types.
THEOREM TypeCorrect == Spec => []TypeOK
  BY Invariance, PTL DEF IInv

\* What the export reads in a first measurement are the echoes in order.
THEOREM EchoesInOrder == Spec => []EntriesAreEchoes
  BY Invariance, PTL DEF IInv

\* A first measurement loses at most the echo for which there was no memory.
THEOREM LossIsLast == Spec => []OnlyLastEchoLost
  BY Invariance, PTL DEF IInv

\* In a first measurement no echo is ever written outside the buffer.
THEOREM EchoInBuffer == Spec => []SafeToWrite
  BY Invariance, PTL DEF IInv

-----------------------------------------------------------------------------
(* Induction, and the sums of the export.                                  *)

\* A nonempty set of naturals has a least member.
LEMMA LeastNatural ==
  ASSUME NEW S, S \subseteq Nat, S /= {}
  PROVE  \E m \in S : \A n \in S : m <= n
  <1>1. PICK m \in S : \A n \in S : <<n, m>> \notin OpToRel(<, Nat)
    BY NatLessThanWellFounded, WFMin, Zenon
  <1>2. \A n \in S : <<n, m>> \in Nat \X Nat /\ <<n, m>>[1] = n /\ <<n, m>>[2] = m
    OBVIOUS
  <1>3. \A n \in S : ~ (n < m)
    BY <1>1, <1>2, Zenon DEF OpToRel
  <1> QED BY <1>3

LEMMA Induct ==
  ASSUME NEW S, 0 \in S, \A n \in Nat : n \in S => n + 1 \in S
  PROVE  Nat \subseteq S
  <1> DEFINE T == {n \in Nat : n \notin S}
  <1>1. SUFFICES ASSUME T /= {} PROVE FALSE
    OBVIOUS
  <1>2. PICK m \in T : \A n \in T : m <= n
    BY <1>1, LeastNatural
  <1>3. m - 1 \in Nat /\ m - 1 \notin T
    BY <1>2
  <1> QED BY <1>2, <1>3

\* The terms of a sum over S.
Term(f, S, i) == IF i \in S THEN f[i] ELSE 0

\* The loop that sums up has a value after every round.
LEMMA LoopExists ==
  ASSUME NEW n \in Nat, NEW f \in [1..n -> Int], NEW S
  PROVE  \E sum \in [0..n -> Int] :
           /\ sum[0] = 0
           /\ \A i \in 1..n : sum[i] = sum[i - 1] + Term(f, S, i)
  <1> DEFINE Loop(sum, k) == /\ sum \in [0..k -> Int] /\ sum[0] = 0
                             /\ \A i \in 1..k : sum[i] = sum[i - 1] + Term(f, S, i)
             U == {k \in Nat : k <= n => \E sum : Loop(sum, k)}
  <1>0. \A i \in 1..n : Term(f, S, i) \in Int
    BY DEF Term
  <1>1. 0 \in U
    <2> DEFINE s == [i \in 0..0 |-> 0]
    <2>1. s \in [0..0 -> Int] /\ s[0] = 0 /\ 1..0 = {}
      OBVIOUS
    <2> HIDE DEF s
    <2>2. Loop(s, 0)
      BY <2>1
    <2>3. \E sum : Loop(sum, 0)
      BY <2>2, Zenon
    <2> HIDE DEF Loop
    <2> QED BY <2>3
  <1>2. ASSUME NEW k \in Nat, k \in U
        PROVE  k + 1 \in U
    <2> HIDE DEF Loop
    <2> SUFFICES ASSUME k + 1 <= n
                 PROVE  \E sum : Loop(sum, k + 1)
      OBVIOUS
    <2>1. PICK s : Loop(s, k)
      BY <1>2
    <2> USE DEF Loop
    <2>2. Term(f, S, k + 1) \in Int
      BY <1>0
    <2> DEFINE t == [i \in 0..(k + 1) |-> IF i = k + 1 THEN s[k] + Term(f, S, k + 1) ELSE s[i]]
    <2>3. t \in [0..(k + 1) -> Int]
      BY <2>1, <2>2
    <2>4. t[0] = 0
      BY <2>1
    <2>5. ASSUME NEW i \in 1..(k + 1)
          PROVE  t[i] = t[i - 1] + Term(f, S, i)
      <3>1. CASE i = k + 1
        BY <2>1, <3>1
      <3>2. CASE i /= k + 1
        <4>1. i \in 1..k /\ i - 1 \in 0..k /\ i \in 0..(k + 1) /\ i - 1 /= k + 1
          BY <3>2
        <4>2. t[i] = s[i] /\ t[i - 1] = s[i - 1]
          BY <3>2, <4>1
        <4> QED BY <2>1, <4>1, <4>2
      <3> QED BY <3>1, <3>2
    <2> HIDE DEF t
    <2> QED BY <2>3, <2>4, <2>5
  <1> HIDE DEF U
  <1>3. n \in U
    BY <1>1, <1>2, Induct
  <1> QED BY <1>3 DEF U

\* Sum is what the loop has summed up after the last round.
LEMMA SumIsLoop ==
  ASSUME NEW n \in Nat, NEW f \in [1..n -> Int], NEW S \in SUBSET (1..n)
  PROVE  \E sum \in [0..n -> Int] :
           /\ sum[0] = 0
           /\ \A i \in 1..n : sum[i] = sum[i - 1] + Term(f, S, i)
           /\ Sum(f, S, n) = sum[n]
  <1> DEFINE Is(sum) == sum = [i \in 0..n |->
                          IF i = 0 THEN 0 ELSE sum[i - 1] + (IF i \in S THEN f[i] ELSE 0)]
             s == CHOOSE sum : Is(sum)
  <1>1. \E sum : Is(sum)
    <2>1. PICK sum \in [0..n -> Int] :
                 /\ sum[0] = 0
                 /\ \A i \in 1..n : sum[i] = sum[i - 1] + Term(f, S, i)
      BY LoopExists
    <2>2. Is(sum)
      BY <2>1 DEF Term
    <2> QED BY <2>2, Zenon
  <1>2. Is(s)
    BY <1>1, Zenon
  <1>3. Sum(f, S, n) = s[n]
    BY DEF Sum
  <1> HIDE DEF s
  <1>4. s[0] = 0 /\ \A i \in 1..n : s[i] = s[i - 1] + Term(f, S, i)
    BY <1>2 DEF Term
  <1>5. s \in [0..n -> Int]
    <2> DEFINE U == {k \in Nat : k <= n => s[k] \in Int}
    <2>1. 0 \in U
      BY <1>4
    <2>2. ASSUME NEW k \in Nat, k \in U
          PROVE  k + 1 \in U
      <3> SUFFICES ASSUME k + 1 <= n PROVE s[k + 1] \in Int
        OBVIOUS
      <3>1. k + 1 \in 1..n /\ s[k + 1] = s[(k + 1) - 1] + Term(f, S, k + 1) /\ s[k] \in Int
        BY <1>4, <2>2
      <3> QED BY <3>1 DEF Term
    <2> HIDE DEF U
    <2>3. Nat \subseteq U
      BY <2>1, <2>2, Induct
    <2>4. \A k \in 0..n : s[k] \in Int
      BY <2>3 DEF U
    <2> QED BY <1>2, <2>4
  <1> QED BY <1>3, <1>4, <1>5

\* The number of points is such a sum, too.
LEMMA CountIsLoop ==
  ASSUME NEW n \in Nat, NEW S \in SUBSET (1..n)
  PROVE  \E count \in [0..n -> Nat] :
           /\ count[0] = 0
           /\ \A i \in 1..n : count[i] = count[i - 1] + (IF i \in S THEN 1 ELSE 0)
           /\ Cardinality(S) = count[n]
  <1> DEFINE c == [k \in 0..n |-> Cardinality(S \cap (1..k))]
  <1>1. \A k \in 0..n : IsFiniteSet(S \cap (1..k)) /\ Cardinality(S \cap (1..k)) \in Nat
    <2> SUFFICES ASSUME NEW k \in 0..n
                 PROVE  IsFiniteSet(S \cap (1..k)) /\ Cardinality(S \cap (1..k)) \in Nat
      OBVIOUS
    <2>1. IsFiniteSet(1..k)
      BY FS_Interval
    <2>2. IsFiniteSet(S \cap (1..k))
      BY <2>1, FS_Subset
    <2> QED BY <2>2, FS_CardinalityType
  <1>2. c \in [0..n -> Nat]
    BY <1>1
  <1>3. c[0] = 0
    <2>1. S \cap (1..0) = {}
      OBVIOUS
    <2>2. c[0] = Cardinality(S \cap (1..0))
      OBVIOUS
    <2> HIDE DEF c
    <2> QED BY <2>1, <2>2, FS_EmptySet
  <1>4. ASSUME NEW i \in 1..n
        PROVE  c[i] = c[i - 1] + (IF i \in S THEN 1 ELSE 0)
    <2> DEFINE before == S \cap (1..(i - 1))
    <2>1. i - 1 \in 0..n /\ i \in 0..n /\ i \notin before
      OBVIOUS
    <2>2. S \cap (1..i) = IF i \in S THEN before \cup {i} ELSE before
      OBVIOUS
    <2>3. IsFiniteSet(before) /\ Cardinality(before) \in Nat
      BY <1>1, <2>1
    <2>4. c[i] = Cardinality(S \cap (1..i)) /\ c[i - 1] = Cardinality(before)
      BY <2>1
    <2> HIDE DEF before, c
    <2>5. Cardinality(before \cup {i}) = Cardinality(before) + 1
      BY <2>1, <2>3, FS_AddElement
    <2>6. CASE i \in S
      BY <2>2, <2>4, <2>5, <2>6
    <2>7. CASE i \notin S
      <3>1. Cardinality(S \cap (1..i)) = Cardinality(before)
        BY <2>2, <2>7
      <3> QED BY <2>3, <2>4, <2>7, <3>1
    <2> QED BY <2>6, <2>7
  <1>5. Cardinality(S) = c[n]
    <2>1. S \cap (1..n) = S
      OBVIOUS
    <2> QED BY <2>1
  <1> HIDE DEF c
  <1> QED BY <1>2, <1>3, <1>4, <1>5

-----------------------------------------------------------------------------
(* The line through points that rise.                                      *)

\* The sums of a regression through the points (x[i], y[i]) of S, round by round.
Sums(n, x, y, S, m, sx, sy, sxy) ==
  /\ m \in [0..n -> Nat]
  /\ sx \in [0..n -> Int] /\ sy \in [0..n -> Int] /\ sxy \in [0..n -> Int]
  /\ m[0] = 0 /\ sx[0] = 0 /\ sy[0] = 0 /\ sxy[0] = 0
  /\ \A i \in (1..n) \cap S :
       /\ m[i] = m[i - 1] + 1
       /\ sx[i] = sx[i - 1] + x[i]
       /\ sy[i] = sy[i - 1] + y[i]
       /\ sxy[i] = sxy[i - 1] + x[i] * y[i]
  /\ \A i \in (1..n) \ S :
       /\ m[i] = m[i - 1] /\ sx[i] = sx[i - 1]
       /\ sy[i] = sy[i - 1] /\ sxy[i] = sxy[i - 1]

SumsOfLoop(n, x, y, xy, S) ==
  \E m, sx, sy, sxy :
    /\ Sums(n, x, y, S, m, sx, sy, sxy)
    /\ Cardinality(S) = m[n]
    /\ Sum(x, S, n) = sx[n] /\ Sum(y, S, n) = sy[n] /\ Sum(xy, S, n) = sxy[n]

LEMMA SumsExist ==
  ASSUME NEW n \in Nat, NEW x \in [1..n -> Int], NEW y \in [1..n -> Int],
         NEW S \in SUBSET (1..n), NEW xy, xy = [i \in 1..n |-> x[i] * y[i]]
  PROVE  SumsOfLoop(n, x, y, xy, S)
  <1>1. xy \in [1..n -> Int] /\ \A i \in 1..n : xy[i] = x[i] * y[i]
    OBVIOUS
  <1>2. PICK m \in [0..n -> Nat] :
               /\ m[0] = 0
               /\ \A i \in 1..n : m[i] = m[i - 1] + (IF i \in S THEN 1 ELSE 0)
               /\ Cardinality(S) = m[n]
    BY CountIsLoop, ZenonT(60)
  <1>3. PICK sx \in [0..n -> Int] :
               /\ sx[0] = 0
               /\ \A i \in 1..n : sx[i] = sx[i - 1] + Term(x, S, i)
               /\ Sum(x, S, n) = sx[n]
    BY SumIsLoop
  <1>4. PICK sy \in [0..n -> Int] :
               /\ sy[0] = 0
               /\ \A i \in 1..n : sy[i] = sy[i - 1] + Term(y, S, i)
               /\ Sum(y, S, n) = sy[n]
    BY SumIsLoop
  <1>5. PICK sxy \in [0..n -> Int] :
               /\ sxy[0] = 0
               /\ \A i \in 1..n : sxy[i] = sxy[i - 1] + Term(xy, S, i)
               /\ Sum(xy, S, n) = sxy[n]
    BY <1>1, SumIsLoop
  <1>6. ASSUME NEW i \in (1..n) \cap S
        PROVE  /\ m[i] = m[i - 1] + 1
               /\ sx[i] = sx[i - 1] + x[i]
               /\ sy[i] = sy[i - 1] + y[i]
               /\ sxy[i] = sxy[i - 1] + x[i] * y[i]
    BY <1>1, <1>2, <1>3, <1>4, <1>5 DEF Term
  <1>7. ASSUME NEW i \in (1..n) \ S
        PROVE  /\ m[i] = m[i - 1] /\ sx[i] = sx[i - 1]
               /\ sy[i] = sy[i - 1] /\ sxy[i] = sxy[i - 1]
    <2>1. i - 1 \in 0..n /\ i \in 1..n /\ i \notin S
      OBVIOUS
    <2>2. m[i - 1] \in Int
      BY <1>2, <2>1
    <2>3. sx[i - 1] \in Int /\ sy[i - 1] \in Int /\ sxy[i - 1] \in Int
      BY <1>3, <1>4, <1>5, <2>1
    <2>4. m[i] = m[i - 1]
      BY <1>2, <2>1, <2>2
    <2> QED BY <1>3, <1>4, <1>5, <2>1, <2>3, <2>4 DEF Term
  <1>8. Sums(n, x, y, S, m, sx, sy, sxy)
    BY <1>2, <1>3, <1>4, <1>5, <1>6, <1>7 DEF Sums
  <1>9. /\ Sums(n, x, y, S, m, sx, sy, sxy)
        /\ Cardinality(S) = m[n]
        /\ Sum(x, S, n) = sx[n] /\ Sum(y, S, n) = sy[n] /\ Sum(xy, S, n) = sxy[n]
    BY <1>2, <1>3, <1>4, <1>5, <1>8
  <1> QED BY <1>9, Zenon DEF SumsOfLoop

LEMMA ProductType ==
  ASSUME NEW a \in Int, NEW b \in Int
  PROVE  a * b \in Int
  OBVIOUS

LEMMA NaturalProduct ==
  ASSUME NEW a \in Int, NEW b \in Int, a > 0, b >= 0
  PROVE  a * b \in Nat /\ (b > 0 => a * b > 0)
  OBVIOUS

\* Left of X and not above Y every point adds to the sum of the cross terms what is
\* not negative, and more than 0 below Y.
LEMMA CrossIsPositive ==
  ASSUME NEW n \in Nat, NEW x \in [1..n -> Int], NEW y \in [1..n -> Int],
         NEW S, NEW m, NEW sx, NEW sy, NEW sxy, Sums(n, x, y, S, m, sx, sy, sxy),
         NEW k \in 0..n, NEW X \in Int, NEW Y \in Int,
         \A i \in 1..k : x[i] < X /\ y[i] <= Y
  PROVE  /\ m[k] * (X * Y) + sxy[k] - X * sy[k] - Y * sx[k] \in Nat
         /\ (\E i \in (1..k) \cap S : y[i] < Y)
              => m[k] * (X * Y) + sxy[k] - X * sy[k] - Y * sx[k] > 0
  <1> DEFINE D(j) == m[j] * (X * Y) + sxy[j] - X * sy[j] - Y * sx[j]
             Below(j) == \E i \in (1..j) \cap S : y[i] < Y
             Good(j) == D(j) \in Nat /\ (Below(j) => D(j) > 0)
             U == {j \in Nat : j <= k => Good(j)}
  <1>1. 0 \in U
    <2>1. m[0] = 0 /\ sx[0] = 0 /\ sy[0] = 0 /\ sxy[0] = 0 /\ X * Y \in Int
      BY DEF Sums
    <2>2. D(0) = 0 /\ ~Below(0)
      BY <2>1
    <2> QED BY <2>1, <2>2
  <1>2. ASSUME NEW j \in Nat, j \in U, j + 1 <= k
        PROVE  Good(j + 1)
    <2>1. Good(j)
      BY <1>2
    <2>2. j + 1 \in 1..n /\ j \in 0..n /\ (j + 1) - 1 = j /\ j + 1 \in 1..k
      BY <1>2
    <2>3. m[j] \in Nat /\ m[j] \in Int /\ sx[j] \in Int /\ sy[j] \in Int /\ sxy[j] \in Int
      <3>1. /\ m \in [0..n -> Nat] /\ sx \in [0..n -> Int]
            /\ sy \in [0..n -> Int] /\ sxy \in [0..n -> Int]
        BY DEF Sums
      <3> QED BY <2>2, <3>1
    <2> DEFINE a == x[j + 1]
               b == y[j + 1]
               p == (X - a) * (Y - b)
    <2>4. a \in Int /\ b \in Int /\ X - a > 0 /\ Y - b >= 0
      BY <2>2
    <2>5. CASE j + 1 \in S
      <3>1. /\ m[j + 1] = m[j] + 1 /\ sx[j + 1] = sx[j] + a
            /\ sy[j + 1] = sy[j] + b /\ sxy[j + 1] = sxy[j] + a * b
        BY <2>2, <2>5 DEF Sums
      <3>2. Below(j + 1) => Below(j) \/ b < Y
        <4> SUFFICES ASSUME NEW i \in (1..(j + 1)) \cap S, y[i] < Y
                     PROVE  Below(j) \/ b < Y
          OBVIOUS
        <4>1. i = j + 1 \/ i \in (1..j) \cap S
          BY <1>2
        <4> QED BY <4>1
      <3> HIDE DEF a, b
      <3>3. D(j + 1) = D(j) + p
        <4>1. (m[j] + 1) * (X * Y) + (sxy[j] + a * b) - X * (sy[j] + b) - Y * (sx[j] + a)
                = (m[j] * (X * Y) + sxy[j] - X * sy[j] - Y * sx[j]) + (X - a) * (Y - b)
          <5> DEFINE c == m[j]
                     u == sx[j]
                     v == sy[j]
                     w == sxy[j]
          <5>1. c \in Int /\ u \in Int /\ v \in Int /\ w \in Int /\ a \in Int /\ b \in Int
            BY <2>3, <2>4
          <5> HIDE DEF c, u, v, w
          <5>2. (c + 1) * (X * Y) + (w + a * b) - X * (v + b) - Y * (u + a)
                  = (c * (X * Y) + w - X * v - Y * u) + (X - a) * (Y - b)
            BY <5>1
          <5> QED BY <5>2 DEF c, u, v, w
        <4> QED BY <3>1, <4>1, Zenon
      <3>4. p \in Nat /\ (b < Y => p > 0)
        <4>1. X - a \in Int /\ Y - b \in Int /\ (b < Y => Y - b > 0)
          BY <2>4
        <4> QED BY <2>4, <4>1, NaturalProduct
      <3> HIDE DEF D, Below, p
      <3> QED BY <2>1, <3>2, <3>3, <3>4
    <2>6. CASE j + 1 \notin S
      <3>1. /\ m[j + 1] = m[j] /\ sx[j + 1] = sx[j]
            /\ sy[j + 1] = sy[j] /\ sxy[j + 1] = sxy[j]
        BY <2>2, <2>6 DEF Sums
      <3>2. (1..(j + 1)) \cap S = (1..j) \cap S
        <4>1. \A i : i \in 1..(j + 1) <=> i \in 1..j \/ i = j + 1
          OBVIOUS
        <4> QED BY <2>6, <4>1, Zenon
      <3> QED BY <2>1, <3>1, <3>2
    <2> QED BY <2>5, <2>6
  <1>3. \A j \in Nat : j \in U => j + 1 \in U
    <2> HIDE DEF Good
    <2> QED BY <1>2
  <1> HIDE DEF U
  <1>4. k \in U
    <2>1. Nat \subseteq U
      BY <1>1, <1>3, Induct
    <2> QED BY <2>1
  <1>5. Good(k)
    <2> HIDE DEF Good
    <2> QED BY <1>4 DEF U
  <1> QED BY <1>5

\* From left to right the points do not fall.
Rising(n, x, y) == \A i, j \in 1..n : i < j => x[i] < x[j] /\ y[i] <= y[j]

\* The slope through points that do not fall is not negative, and positive when two of
\* them differ in height.
LEMMA SlopeIsPositive ==
  ASSUME NEW n \in Nat, NEW x \in [1..n -> Int], NEW y \in [1..n -> Int],
         NEW S, NEW m, NEW sx, NEW sy, NEW sxy, Sums(n, x, y, S, m, sx, sy, sxy),
         Rising(n, x, y)
  PROVE  /\ m[n] * sxy[n] - sx[n] * sy[n] \in Nat
         /\ (\E i, l \in (1..n) \cap S : y[i] < y[l]) => m[n] * sxy[n] - sx[n] * sy[n] > 0
  <1> DEFINE C(j) == m[j] * sxy[j] - sx[j] * sy[j]
             Differ(j) == \E i, l \in (1..j) \cap S : y[i] < y[l]
             Good(j) == C(j) \in Nat /\ (Differ(j) => C(j) > 0)
             U == {j \in Nat : j <= n => Good(j)}
  <1>1. 0 \in U
    <2>1. m[0] = 0 /\ sx[0] = 0 /\ sy[0] = 0 /\ sxy[0] = 0
      BY DEF Sums
    <2>2. C(0) = 0 /\ ~Differ(0)
      BY <2>1
    <2> QED BY <2>1, <2>2
  <1>2. ASSUME NEW j \in Nat, j \in U, j + 1 <= n
        PROVE  Good(j + 1)
    <2>1. Good(j)
      BY <1>2
    <2>2. j + 1 \in 1..n /\ j \in 0..n /\ (j + 1) - 1 = j
      BY <1>2
    <2>3. m[j] \in Nat /\ m[j] \in Int /\ sx[j] \in Int /\ sy[j] \in Int /\ sxy[j] \in Int
      <3>1. /\ m \in [0..n -> Nat] /\ sx \in [0..n -> Int]
            /\ sy \in [0..n -> Int] /\ sxy \in [0..n -> Int]
        BY DEF Sums
      <3> QED BY <2>2, <3>1
    <2> DEFINE a == x[j + 1]
               b == y[j + 1]
               d == m[j] * (a * b) + sxy[j] - a * sy[j] - b * sx[j]
               Below(k) == \E i \in (1..k) \cap S : y[i] < b
    <2>4. a \in Int /\ b \in Int /\ \A i \in 1..j : x[i] < a /\ y[i] <= b
      BY <2>2 DEF Rising
    <2>5. CASE j + 1 \in S
      <3>1. /\ m[j + 1] = m[j] + 1 /\ sx[j + 1] = sx[j] + a
            /\ sy[j + 1] = sy[j] + b /\ sxy[j + 1] = sxy[j] + a * b
        BY <2>2, <2>5 DEF Sums
      <3>2. Differ(j + 1) => Differ(j) \/ Below(j)
        <4> SUFFICES ASSUME NEW i \in (1..(j + 1)) \cap S, NEW l \in (1..(j + 1)) \cap S,
                            y[i] < y[l]
                     PROVE  Differ(j) \/ Below(j)
          OBVIOUS
        <4>1. /\ i = j + 1 \/ i \in (1..j) \cap S
              /\ l = j + 1 \/ l \in (1..j) \cap S
          BY <1>2
        <4>2. y[i] \in Int /\ y[l] \in Int /\ i /= l
          BY <2>2
        <4>3. ASSUME i = j + 1 PROVE FALSE
          <5>1. l \in 1..j /\ y[i] = b
            BY <4>1, <4>2, <4>3
          <5>2. y[l] <= b
            BY <2>4, <5>1
          <5> QED BY <2>4, <4>2, <5>1, <5>2
        <4> QED BY <4>1, <4>3
      <3> HIDE DEF a, b
      <3>3. C(j + 1) = C(j) + d
        <4>1. (m[j] + 1) * (sxy[j] + a * b) - (sx[j] + a) * (sy[j] + b)
                = (m[j] * sxy[j] - sx[j] * sy[j])
                    + (m[j] * (a * b) + sxy[j] - a * sy[j] - b * sx[j])
          <5> DEFINE c == m[j]
                     u == sx[j]
                     v == sy[j]
                     w == sxy[j]
          <5>1. c \in Int /\ u \in Int /\ v \in Int /\ w \in Int /\ a \in Int /\ b \in Int
            BY <2>3, <2>4
          <5> HIDE DEF c, u, v, w
          <5>2. (c + 1) * (w + a * b) - (u + a) * (v + b)
                  = (c * w - u * v) + (c * (a * b) + w - a * v - b * u)
            BY <5>1
          <5> QED BY <5>2 DEF c, u, v, w
        <4> QED BY <3>1, <4>1, Zenon
      <3>4. d \in Nat /\ (Below(j) => d > 0)
        BY <2>2, <2>4, CrossIsPositive, ZenonT(60)
      <3> HIDE DEF C, Differ, Below, d
      <3> QED BY <2>1, <3>2, <3>3, <3>4
    <2>6. CASE j + 1 \notin S
      <3>1. /\ m[j + 1] = m[j] /\ sx[j + 1] = sx[j]
            /\ sy[j + 1] = sy[j] /\ sxy[j + 1] = sxy[j]
        BY <2>2, <2>6 DEF Sums
      <3>2. (1..(j + 1)) \cap S = (1..j) \cap S
        <4>1. \A i : i \in 1..(j + 1) <=> i \in 1..j \/ i = j + 1
          OBVIOUS
        <4> QED BY <2>6, <4>1, Zenon
      <3> QED BY <2>1, <3>1, <3>2
    <2> QED BY <2>5, <2>6
  <1>3. \A j \in Nat : j \in U => j + 1 \in U
    <2> HIDE DEF Good
    <2> QED BY <1>2
  <1> HIDE DEF U
  <1>4. n \in U
    BY <1>1, <1>3, Induct
  <1>5. Good(n)
    <2> HIDE DEF Good
    <2> QED BY <1>4 DEF U
  <1> QED BY <1>5

\* The numerator of the slope of a regression, and with y = x its denominator.
CrossPositive(x, y, xy, S, n) ==
  LET cross == Cardinality(S) * Sum(xy, S, n) - Sum(x, S, n) * Sum(y, S, n)
  IN  cross \in Nat /\ ((\E i, j \in S : y[i] < y[j]) => cross > 0)

LEMMA CrossOfPoints ==
  ASSUME NEW n \in Nat, NEW x \in [1..n -> Int], NEW y \in [1..n -> Int],
         NEW S \in SUBSET (1..n), NEW xy, xy = [i \in 1..n |-> x[i] * y[i]],
         Rising(n, x, y)
  PROVE  CrossPositive(x, y, xy, S, n)
  <1>1. PICK m, sx, sy, sxy :
               /\ Sums(n, x, y, S, m, sx, sy, sxy)
               /\ Cardinality(S) = m[n]
               /\ Sum(x, S, n) = sx[n] /\ Sum(y, S, n) = sy[n] /\ Sum(xy, S, n) = sxy[n]
    <2>1. SumsOfLoop(n, x, y, xy, S)
      BY SumsExist
    <2> QED BY <2>1, Zenon DEF SumsOfLoop
  <1>2. /\ m[n] * sxy[n] - sx[n] * sy[n] \in Nat
        /\ (\E i, j \in (1..n) \cap S : y[i] < y[j]) => m[n] * sxy[n] - sx[n] * sy[n] > 0
    BY <1>1, SlopeIsPositive
  <1>3. (1..n) \cap S = S
    OBVIOUS
  <1> QED BY <1>1, <1>2, <1>3 DEF CrossPositive

-----------------------------------------------------------------------------
(* Sums of terms, and of ones.                                             *)

\* f is half of r * g + c * h, term by term.
Combined(S, f, g, h, r, c) == \A i \in S : 2 * f[i] = r * g[i] + c * h[i]

SumsCombined(n, f, g, h, r, c, S) ==
  2 * Sum(f, S, n) = r * Sum(g, S, n) + c * Sum(h, S, n)

\* What holds of the terms holds of the sums.
LEMMA LinearSums ==
  ASSUME NEW n \in Nat, NEW f \in [1..n -> Int], NEW g \in [1..n -> Int],
         NEW h \in [1..n -> Int], NEW S \in SUBSET (1..n), NEW r \in Int, NEW c \in Int,
         Combined(S, f, g, h, r, c)
  PROVE  SumsCombined(n, f, g, h, r, c, S)
  <1>1. PICK sf \in [0..n -> Int] :
               /\ sf[0] = 0
               /\ \A i \in 1..n : sf[i] = sf[i - 1] + Term(f, S, i)
               /\ Sum(f, S, n) = sf[n]
    BY SumIsLoop
  <1>2. PICK sg \in [0..n -> Int] :
               /\ sg[0] = 0
               /\ \A i \in 1..n : sg[i] = sg[i - 1] + Term(g, S, i)
               /\ Sum(g, S, n) = sg[n]
    BY SumIsLoop
  <1>3. PICK sh \in [0..n -> Int] :
               /\ sh[0] = 0
               /\ \A i \in 1..n : sh[i] = sh[i - 1] + Term(h, S, i)
               /\ Sum(h, S, n) = sh[n]
    BY SumIsLoop
  <1> DEFINE Good(k) == 2 * sf[k] = r * sg[k] + c * sh[k]
             U == {k \in Nat : k <= n => Good(k)}
  <1>4. 0 \in U
    BY <1>1, <1>2, <1>3
  <1>5. ASSUME NEW k \in Nat, k \in U, k + 1 <= n
        PROVE  Good(k + 1)
    <2>1. k + 1 \in 1..n /\ k \in 0..n /\ (k + 1) - 1 = k
      BY <1>5
    <2> DEFINE tf == Term(f, S, k + 1)
               tg == Term(g, S, k + 1)
               th == Term(h, S, k + 1)
               uf == sf[k]
               ug == sg[k]
               uh == sh[k]
    <2>2. /\ tf \in Int /\ tg \in Int /\ th \in Int
          /\ 2 * tf = r * tg + c * th
      <3>1. CASE k + 1 \in S
        BY <2>1, <3>1 DEF Term, Combined
      <3>2. CASE k + 1 \notin S
        BY <3>2 DEF Term
      <3> QED BY <3>1, <3>2
    <2>3. sf[k + 1] = uf + tf /\ sg[k + 1] = ug + tg /\ sh[k + 1] = uh + th
      BY <1>1, <1>2, <1>3, <2>1
    <2>4. uf \in Int /\ ug \in Int /\ uh \in Int /\ 2 * uf = r * ug + c * uh
      BY <1>5, <2>1
    <2> HIDE DEF tf, tg, th, uf, ug, uh
    <2>5. 2 * (uf + tf) = r * (ug + tg) + c * (uh + th)
      <3>1. 2 * (uf + tf) = 2 * uf + 2 * tf
        BY <2>2, <2>4
      <3>2. (r * ug + c * uh) + (r * tg + c * th) = r * (ug + tg) + c * (uh + th)
        BY <2>2, <2>4
      <3> QED BY <2>2, <2>4, <3>1, <3>2, Zenon
    <2> QED BY <2>3, <2>5
  <1>6. \A k \in Nat : k \in U => k + 1 \in U
    <2> HIDE DEF Good
    <2> QED BY <1>5
  <1> HIDE DEF U
  <1>7. n \in U
    BY <1>4, <1>6, Induct
  <1>8. Good(n)
    <2> HIDE DEF Good
    <2> QED BY <1>7 DEF U
  <1> QED BY <1>1, <1>2, <1>3, <1>8 DEF SumsCombined

\* A sum of integers is one, and a sum of ones counts.
LEMMA SumType ==
  ASSUME NEW n \in Nat, NEW f \in [1..n -> Int], NEW S \in SUBSET (1..n)
  PROVE  Sum(f, S, n) \in Int
  <1>1. PICK s \in [0..n -> Int] : Sum(f, S, n) = s[n]
    BY SumIsLoop
  <1> QED BY <1>1

LEMMA SumOfOnes ==
  ASSUME NEW n \in Nat, NEW S \in SUBSET (1..n)
  PROVE  Sum([i \in 1..n |-> 1], S, n) = Cardinality(S) /\ Cardinality(S) \in Nat
  <1> DEFINE one == [i \in 1..n |-> 1]
  <1>1. one \in [1..n -> Int] /\ \A i \in 1..n : one[i] = 1
    OBVIOUS
  <1> HIDE DEF one
  <1>2. PICK s \in [0..n -> Int] :
               /\ s[0] = 0
               /\ \A i \in 1..n : s[i] = s[i - 1] + Term(one, S, i)
               /\ Sum(one, S, n) = s[n]
    BY <1>1, SumIsLoop
  <1>3. PICK m \in [0..n -> Nat] :
               /\ m[0] = 0
               /\ \A i \in 1..n : m[i] = m[i - 1] + (IF i \in S THEN 1 ELSE 0)
               /\ Cardinality(S) = m[n]
    BY CountIsLoop, ZenonT(60)
  <1> DEFINE U == {k \in Nat : k <= n => s[k] = m[k]}
  <1>4. 0 \in U
    BY <1>2, <1>3
  <1>5. ASSUME NEW k \in Nat, k \in U
        PROVE  k + 1 \in U
    <2> SUFFICES ASSUME k + 1 <= n PROVE s[k + 1] = m[k + 1]
      OBVIOUS
    <2>1. k + 1 \in 1..n /\ k \in 0..n /\ (k + 1) - 1 = k /\ s[k] = m[k]
      BY <1>5
    <2>2. s[k + 1] = s[k] + Term(one, S, k + 1)
      BY <1>2, <2>1
    <2>3. m[k + 1] = m[k] + (IF k + 1 \in S THEN 1 ELSE 0)
      BY <1>3, <2>1
    <2>4. Term(one, S, k + 1) = IF k + 1 \in S THEN 1 ELSE 0
      BY <1>1, <2>1 DEF Term
    <2> QED BY <2>1, <2>2, <2>3, <2>4
  <1> HIDE DEF U
  <1>6. n \in U
    BY <1>4, <1>5, Induct
  <1>7. s[n] = m[n]
    BY <1>6 DEF U
  <1> QED BY <1>2, <1>3, <1>7 DEF one

-----------------------------------------------------------------------------
(* The line through points near a line.                                    *)

\* Terms that are half of r * g + c * h + d * k, and their sum.
Combined3(S, f, g, h, k, r, c, d) ==
  \A i \in S : 2 * f[i] = r * g[i] + c * h[i] + d * k[i]

SumsCombined3(n, f, g, h, k, r, c, d, S) ==
  2 * Sum(f, S, n) = r * Sum(g, S, n) + c * Sum(h, S, n) + d * Sum(k, S, n)

LEMMA LinearSums3 ==
  ASSUME NEW n \in Nat, NEW f \in [1..n -> Int], NEW g \in [1..n -> Int],
         NEW h \in [1..n -> Int], NEW k \in [1..n -> Int], NEW S \in SUBSET (1..n),
         NEW r \in Int, NEW c \in Int, NEW d \in Int, Combined3(S, f, g, h, k, r, c, d)
  PROVE  SumsCombined3(n, f, g, h, k, r, c, d, S)
  <1> DEFINE flat == [i \in 1..n |-> 2 * f[i] - d * k[i]]
             r2   == 2 * r
             c2   == 2 * c
             d2   == -(2 * d)
  <1>1. /\ r2 \in Int /\ c2 \in Int /\ d2 \in Int /\ 4 \in Int
        /\ flat \in [1..n -> Int] /\ \A i \in 1..n : flat[i] = 2 * f[i] - d * k[i]
    <2>1. \A i \in 1..n : 2 * f[i] - d * k[i] \in Int
      <3> SUFFICES ASSUME NEW i \in 1..n PROVE 2 * f[i] - d * k[i] \in Int
        OBVIOUS
      <3> DEFINE a == f[i]
                 b == k[i]
      <3>1. a \in Int /\ b \in Int
        OBVIOUS
      <3> HIDE DEF a, b
      <3>2. 2 * a - d * b \in Int
        BY <3>1
      <3> QED BY <3>2 DEF a, b
    <2>2. flat \in [1..n -> Int]
      BY <2>1, Zenon
    <2> QED BY <2>2
  <1>2. ASSUME NEW i \in S
        PROVE  /\ 2 * flat[i] = 4 * f[i] + d2 * k[i]
               /\ 2 * flat[i] = r2 * g[i] + c2 * h[i]
    <2> DEFINE F == f[i]
               G == g[i]
               H == h[i]
               K == k[i]
               p == r * G
               q == c * H
               o == d * K
    <2>1. F \in Int /\ G \in Int /\ H \in Int /\ K \in Int
      OBVIOUS
    <2>2. flat[i] = 2 * F - o
      BY <1>1
    <2>3. 2 * F = p + q + o
      BY DEF Combined3
    <2> HIDE DEF F, G, H, K, flat
    <2>4. p \in Int /\ q \in Int /\ o \in Int
      BY <2>1, ProductType
    <2>5. r2 * G = 2 * p /\ c2 * H = 2 * q /\ d2 * K = -(2 * o)
      BY <2>1
    <2> HIDE DEF p, q, o, r2, c2, d2
    <2>6. 2 * flat[i] = 2 * p + 2 * q /\ 2 * flat[i] = 4 * F + (-(2 * o))
      BY <2>1, <2>2, <2>3, <2>4
    <2> QED BY <2>5, <2>6 DEF F, G, H, K
  <1> HIDE DEF flat, r2, c2, d2
  <1>3. 2 * Sum(flat, S, n) = 4 * Sum(f, S, n) + d2 * Sum(k, S, n)
    <2>1. Combined(S, flat, f, k, 4, d2)
      BY <1>2 DEF Combined
    <2>2. SumsCombined(n, flat, f, k, 4, d2, S)
      BY <1>1, <2>1, LinearSums
    <2> QED BY <2>2 DEF SumsCombined
  <1>4. 2 * Sum(flat, S, n) = r2 * Sum(g, S, n) + c2 * Sum(h, S, n)
    <2>1. Combined(S, flat, g, h, r2, c2)
      BY <1>2 DEF Combined
    <2>2. SumsCombined(n, flat, g, h, r2, c2, S)
      BY <1>1, <2>1, LinearSums
    <2> QED BY <2>2 DEF SumsCombined
  <1> DEFINE u == Sum(f, S, n)
             v == Sum(g, S, n)
             w == Sum(h, S, n)
             t == Sum(k, S, n)
             s == Sum(flat, S, n)
             p == r * v
             q == c * w
             o == d * t
  <1>5. u \in Int /\ v \in Int /\ w \in Int /\ t \in Int /\ s \in Int
    BY <1>1, SumType
  <1>6. 2 * s = 4 * u + d2 * t /\ 2 * s = r2 * v + c2 * w
    BY <1>3, <1>4
  <1> HIDE DEF u, v, w, t, s
  <1>7. r2 * v = 2 * p /\ c2 * w = 2 * q /\ d2 * t = -(2 * o)
    BY <1>5 DEF r2, c2, d2
  <1>8. p \in Int /\ q \in Int /\ o \in Int
    BY <1>5, ProductType
  <1>9. 2 * s = 4 * u + (-(2 * o)) /\ 2 * s = 2 * p + 2 * q
    BY <1>6, <1>7, Zenon
  <1> HIDE DEF p, q, o
  <1>10. 2 * u = p + q + o
    BY <1>5, <1>8, <1>9
  <1> QED BY <1>10 DEF p, q, o, u, v, w, t, SumsCombined3

LEMMA BoundedProduct ==
  ASSUME NEW L \in Int, NEW W \in Nat, NEW z \in Int, z <= W, -W <= z
  PROVE  L * z \in Int /\ L * z <= Abs(L) * W /\ -(Abs(L) * W) <= L * z
  <1>1. CASE L >= 0
    <2>1. Abs(L) = L
      BY <1>1 DEF Abs
    <2>2. L * z <= L * W /\ L * (-W) <= L * z
      BY <1>1
    <2>3. L * (-W) = -(L * W)
      OBVIOUS
    <2> QED BY <2>1, <2>2, <2>3
  <1>2. CASE L < 0
    <2> DEFINE g == -L
    <2>1. Abs(L) = g /\ g \in Nat /\ L = -g
      BY <1>2 DEF Abs
    <2> HIDE DEF g
    <2>2. g * z <= g * W /\ g * (-W) <= g * z
      BY <2>1
    <2>3. g * (-W) = -(g * W) /\ (-g) * z = -(g * z) /\ g * z \in Int /\ g * W \in Int
      BY <2>1
    <2>4. L * z = -(g * z) /\ L * z \in Int
      BY <2>1, <2>3
    <2> DEFINE u == g * z
               v == g * W
               t == L * z
    <2>5. u <= v /\ -v <= u /\ u \in Int /\ v \in Int /\ t = -u
      BY <2>2, <2>3, <2>4
    <2> HIDE DEF u, v, t
    <2>6. t <= v /\ -v <= t
      BY <2>5
    <2>7. t <= g * W /\ -(g * W) <= t
      BY <2>6 DEF v
    <2> QED BY <2>1, <2>4, <2>7 DEF t
  <1> QED BY <1>1, <1>2

\* No further than B from 0.
Inside(v, B) == -B <= v /\ v <= B

LEMMA ProductInside ==
  ASSUME NEW a \in Int, NEW b \in Int, NEW A \in Nat, NEW B \in Nat,
         Inside(a, A), Inside(b, B)
  PROVE  a * b \in Int /\ A * B \in Nat /\ Inside(a * b, A * B)
  <1> DEFINE g == Abs(a)
             u == a * b
             v == g * B
             w == A * B
  <1>1. g \in Nat /\ g <= A
    BY DEF Abs, Inside
  <1>2. u \in Int /\ u <= v /\ -v <= u
    BY BoundedProduct DEF Inside
  <1>3. v \in Int /\ w \in Nat /\ v <= w
    <2> HIDE DEF g
    <2> QED BY <1>1
  <1> HIDE DEF u, v, w
  <1>4. Inside(u, w)
    BY <1>2, <1>3 DEF Inside
  <1> QED BY <1>2, <1>3, <1>4 DEF u, w

\* A sum of terms that far from 0.
Bounded(S, f, B) == \A i \in S : Inside(f[i], B)

LEMMA BoundedSum ==
  ASSUME NEW n \in Nat, NEW f \in [1..n -> Int], NEW S \in SUBSET (1..n), NEW B \in Nat,
         Bounded(S, f, B)
  PROVE  Sum(f, S, n) \in Int /\ Inside(Sum(f, S, n), Cardinality(S) * B)
  <1>1. PICK s \in [0..n -> Int] :
               /\ s[0] = 0
               /\ \A i \in 1..n : s[i] = s[i - 1] + Term(f, S, i)
               /\ Sum(f, S, n) = s[n]
    BY SumIsLoop
  <1>2. PICK m \in [0..n -> Nat] :
               /\ m[0] = 0
               /\ \A i \in 1..n : m[i] = m[i - 1] + (IF i \in S THEN 1 ELSE 0)
               /\ Cardinality(S) = m[n]
    BY CountIsLoop, ZenonT(60)
  <1> DEFINE Good(j) == -(m[j] * B) <= s[j] /\ s[j] <= m[j] * B
             U == {j \in Nat : j <= n => Good(j)}
  <1>3. 0 \in U
    <2>1. 0 * B = 0
      OBVIOUS
    <2> QED BY <1>1, <1>2, <2>1
  <1>4. ASSUME NEW j \in Nat, j \in U
        PROVE  j + 1 \in U
    <2> SUFFICES ASSUME j + 1 <= n PROVE Good(j + 1)
      OBVIOUS
    <2>1. j + 1 \in 1..n /\ j \in 0..n /\ (j + 1) - 1 = j /\ Good(j)
      BY <1>4
    <2> DEFINE p == s[j]
               c == m[j]
               q == Term(f, S, j + 1)
               T == c * B
    <2>2. p \in Int /\ c \in Nat /\ s[j + 1] = p + q
      BY <1>1, <1>2, <2>1
    <2>3. -T <= p /\ p <= T
      BY <2>1
    <2>4. CASE j + 1 \in S
      <3>1. q \in Int /\ -B <= q /\ q <= B
        BY <2>1, <2>4 DEF Term, Bounded, Inside
      <3>2. m[j + 1] = c + 1
        BY <1>2, <2>1, <2>4
      <3>3. (c + 1) * B = T + B /\ T \in Int
        <4>1. c \in Int
          BY <2>2
        <4> HIDE DEF c
        <4> QED BY <4>1
      <3> HIDE DEF p, c, q, T
      <3>4. -(T + B) <= p + q /\ p + q <= T + B
        BY <2>2, <2>3, <3>1, <3>3
      <3> QED BY <2>2, <3>2, <3>3, <3>4
    <2>5. CASE j + 1 \notin S
      <3>1. q = 0
        BY <2>5 DEF Term
      <3>2. m[j + 1] = c
        BY <1>2, <2>1, <2>5
      <3> HIDE DEF p, c, q
      <3>3. s[j + 1] = p
        BY <2>2, <3>1
      <3> QED BY <2>3, <3>2, <3>3
    <2> QED BY <2>4, <2>5
  <1> HIDE DEF U
  <1>5. n \in U
    BY <1>3, <1>4, Induct
  <1>6. Good(n)
    BY <1>5 DEF U
  <1> QED BY <1>1, <1>2, <1>6 DEF Inside

\* A linear combination of two sums with the terms h weighs each h[j] by a * x[j] + b.
LEMMA WeightedSum ==
  ASSUME NEW n \in Nat, NEW x \in [1..n -> Int], NEW h \in [1..n -> Int],
         NEW xh, xh = [i \in 1..n |-> x[i] * h[i]], NEW S \in SUBSET (1..n),
         NEW a \in Int, NEW b \in Int, NEW E \in Nat, NEW B \in Nat,
         Bounded(S, h, E), \A j \in S : Inside(a * x[j] + b, B)
  PROVE  Inside(a * Sum(xh, S, n) + b * Sum(h, S, n), Cardinality(S) * (E * B))
  <1> DEFINE f  == [i \in 1..n |-> h[i] * (a * x[i] + b)]
             a2 == 2 * a
             b2 == 2 * b
  <1>1. ASSUME NEW i \in 1..n
        PROVE  /\ x[i] \in Int /\ h[i] \in Int /\ a * x[i] + b \in Int
               /\ x[i] * h[i] \in Int /\ h[i] * (a * x[i] + b) \in Int
               /\ 2 * (h[i] * (a * x[i] + b)) = a2 * (x[i] * h[i]) + b2 * h[i]
    <2> DEFINE u == x[i]
               v == h[i]
    <2>1. u \in Int /\ v \in Int
      OBVIOUS
    <2> HIDE DEF u, v
    <2>2. a * u + b \in Int /\ u * v \in Int
      BY <2>1
    <2>3. v * (a * u + b) \in Int
      BY <2>1, <2>2, ProductType
    <2>4. 2 * (v * (a * u + b)) = a2 * (u * v) + b2 * v
      BY <2>1
    <2> QED BY <2>1, <2>2, <2>3, <2>4 DEF u, v
  <1>2. /\ f \in [1..n -> Int] /\ xh \in [1..n -> Int]
        /\ \A i \in 1..n : f[i] = h[i] * (a * x[i] + b) /\ xh[i] = x[i] * h[i]
    BY <1>1
  <1>3. a2 \in Int /\ b2 \in Int
    OBVIOUS
  <1> HIDE DEF f
  <1>4. Combined(S, f, xh, h, a2, b2)
    <2> SUFFICES ASSUME NEW i \in S PROVE 2 * f[i] = a2 * xh[i] + b2 * h[i]
      BY DEF Combined
    <2>1. i \in 1..n
      OBVIOUS
    <2> QED BY <1>1, <1>2, <2>1, Zenon
  <1> HIDE DEF a2, b2
  <1>5. 2 * Sum(f, S, n) = a2 * Sum(xh, S, n) + b2 * Sum(h, S, n)
    <2>1. SumsCombined(n, f, xh, h, a2, b2, S)
      BY <1>2, <1>3, <1>4, LinearSums
    <2> QED BY <2>1 DEF SumsCombined
  <1>6. Bounded(S, f, E * B) /\ E * B \in Nat
    <2> SUFFICES ASSUME NEW i \in S PROVE Inside(f[i], E * B)
      BY DEF Bounded
    <2>1. i \in 1..n /\ Inside(h[i], E) /\ Inside(a * x[i] + b, B)
      BY DEF Bounded
    <2>2. Inside(h[i] * (a * x[i] + b), E * B)
      BY <1>1, <2>1, ProductInside
    <2> QED BY <1>2, <2>1, <2>2
  <1>7. Inside(Sum(f, S, n), Cardinality(S) * (E * B))
    BY <1>2, <1>6, BoundedSum
  <1> DEFINE u == Sum(xh, S, n)
             v == Sum(h, S, n)
             w == Sum(f, S, n)
             p == a * u
             q == b * v
  <1>8. u \in Int /\ v \in Int /\ w \in Int
    BY <1>2, SumType
  <1>9. 2 * w = a2 * u + b2 * v
    BY <1>5
  <1> HIDE DEF u, v, w
  <1>10. a2 * u = 2 * p /\ b2 * v = 2 * q /\ p \in Int /\ q \in Int
    BY <1>8 DEF a2, b2
  <1>11. 2 * w = 2 * p + 2 * q
    BY <1>9, <1>10, Zenon
  <1> HIDE DEF p, q
  <1>12. w = p + q
    BY <1>8, <1>10, <1>11
  <1> QED BY <1>7, <1>12 DEF p, q, u, v, w

\* A sum of n-fold differences, and of products of differences.
LEMMA DifferenceSums ==
  ASSUME NEW n \in Nat, NEW x \in [1..n -> Int], NEW S \in SUBSET (1..n),
         NEW xx, xx = [i \in 1..n |-> x[i] * x[i]],
         NEW X \in Int, NEW z \in Int, NEW W \in Nat,
         \A i \in S : Inside(X - x[i], W) /\ Inside(z - x[i], W)
  PROVE  LET M   == Cardinality(S)
             Sx  == Sum(x, S, n)
             Sxx == Sum(xx, S, n)
         IN  /\ Inside(M * X - Sx, M * W)
             /\ Inside((z * M - Sx) * X + (Sxx - z * Sx), M * (W * W))
  <1> DEFINE one == [i \in 1..n |-> 1]
             f   == [i \in 1..n |-> X - x[i]]
             g   == [i \in 1..n |-> (z - x[i]) * (X - x[i])]
             M   == Cardinality(S)
             Sx  == Sum(x, S, n)
             Sxx == Sum(xx, S, n)
             X2  == 2 * X
             s   == -(2 * (z + X))
             d   == 2 * (z * X)
  <1>1. ASSUME NEW i \in 1..n
        PROVE  /\ x[i] \in Int /\ x[i] * x[i] \in Int
               /\ X - x[i] \in Int /\ (z - x[i]) * (X - x[i]) \in Int
               /\ 2 * (X - x[i]) = X2 * 1 + (-2) * x[i]
               /\ 2 * ((z - x[i]) * (X - x[i])) = 2 * (x[i] * x[i]) + s * x[i] + d * 1
    <2> DEFINE u == x[i]
    <2>1. u \in Int
      OBVIOUS
    <2> HIDE DEF u
    <2>2. u * u \in Int /\ X - u \in Int /\ z - u \in Int
      BY <2>1
    <2>3. (z - u) * (X - u) \in Int
      BY <2>2, ProductType
    <2>4. 2 * (X - u) = X2 * 1 + (-2) * u
      BY <2>1
    <2>5. 2 * ((z - u) * (X - u)) = 2 * (u * u) + s * u + d * 1
      BY <2>1
    <2> QED BY <2>1, <2>2, <2>3, <2>4, <2>5 DEF u
  <1>2. /\ one \in [1..n -> Int] /\ f \in [1..n -> Int] /\ g \in [1..n -> Int]
        /\ xx \in [1..n -> Int]
        /\ \A i \in 1..n : /\ one[i] = 1 /\ f[i] = X - x[i] /\ xx[i] = x[i] * x[i]
                           /\ g[i] = (z - x[i]) * (X - x[i])
    BY <1>1
  <1>3. X2 \in Int /\ s \in Int /\ d \in Int /\ 2 \in Int /\ -2 \in Int /\ W * W \in Nat
    BY ProductType
  <1>4. Sum(one, S, n) = M /\ M \in Nat
    BY SumOfOnes
  <1> HIDE DEF one, f, g
  <1>5. Combined(S, f, one, x, X2, -2)
    <2> SUFFICES ASSUME NEW i \in S PROVE 2 * f[i] = X2 * one[i] + (-2) * x[i]
      BY DEF Combined
    <2>1. i \in 1..n
      OBVIOUS
    <2> QED BY <1>1, <1>2, <2>1, Zenon
  <1>6. Combined3(S, g, xx, x, one, 2, s, d)
    <2> SUFFICES ASSUME NEW i \in S
                 PROVE  2 * g[i] = 2 * xx[i] + s * x[i] + d * one[i]
      BY DEF Combined3
    <2>1. i \in 1..n
      OBVIOUS
    <2> QED BY <1>1, <1>2, <2>1, Zenon
  <1>7. Bounded(S, f, W) /\ Bounded(S, g, W * W)
    <2> SUFFICES ASSUME NEW i \in S PROVE Inside(f[i], W) /\ Inside(g[i], W * W)
      BY DEF Bounded
    <2>1. i \in 1..n /\ Inside(X - x[i], W) /\ Inside(z - x[i], W)
      OBVIOUS
    <2>2. X - x[i] \in Int /\ z - x[i] \in Int
      BY <1>1, <2>1
    <2>3. Inside((z - x[i]) * (X - x[i]), W * W)
      BY <2>1, <2>2, ProductInside
    <2> QED BY <1>2, <2>1, <2>3
  <1> HIDE DEF X2, s, d
  <1>8. /\ 2 * Sum(f, S, n) = X2 * M + (-2) * Sx
        /\ 2 * Sum(g, S, n) = 2 * Sxx + s * Sx + d * M
    <2>1. SumsCombined(n, f, one, x, X2, -2, S)
      BY <1>2, <1>3, <1>5, LinearSums
    <2>2. SumsCombined3(n, g, xx, x, one, 2, s, d, S)
      BY <1>2, <1>3, <1>6, LinearSums3
    <2> QED BY <1>4, <2>1, <2>2 DEF SumsCombined, SumsCombined3
  <1>9. Inside(Sum(f, S, n), M * W) /\ Inside(Sum(g, S, n), M * (W * W))
    BY <1>2, <1>3, <1>7, BoundedSum
  <1>10. Sum(f, S, n) \in Int /\ Sum(g, S, n) \in Int /\ Sx \in Int /\ Sxx \in Int
    BY <1>2, SumType
  <1> DEFINE F == Sum(f, S, n)
             G == Sum(g, S, n)
  <1>11. F \in Int /\ G \in Int /\ 2 * F = X2 * M + (-2) * Sx /\ 2 * G = 2 * Sxx + s * Sx + d * M
    BY <1>8, <1>10
  <1> HIDE DEF M, Sx, Sxx, F, G
  <1>12. F = M * X - Sx
    <2> DEFINE p == M * X
    <2>1. X2 * M = 2 * p /\ p \in Int
      BY <1>4 DEF X2
    <2> HIDE DEF p
    <2>2. F = p - Sx
      BY <1>10, <1>11, <2>1
    <2> QED BY <2>2 DEF p
  <1>13. G = (z * M - Sx) * X + (Sxx - z * Sx)
    <2> DEFINE p == z * Sx
               q == X * Sx
               r == (z * X) * M
    <2>1. s * Sx = -(2 * p) - 2 * q /\ d * M = 2 * r /\ p \in Int /\ q \in Int /\ r \in Int
      <3>1. z * X \in Int
        BY ProductType
      <3>2. s * Sx = -(2 * p) - 2 * q /\ d * M = 2 * r
        BY <1>4, <1>10 DEF s, d
      <3> QED BY <1>4, <1>10, <3>1, <3>2, ProductType
    <2>2. (z * M - Sx) * X = r - q
      BY <1>4, <1>10
    <2>3. 2 * G = 2 * Sxx + (-(2 * p) - 2 * q) + 2 * r
      BY <1>11, <2>1, Zenon
    <2> HIDE DEF p, q, r
    <2>4. G = (r - q) + (Sxx - p)
      BY <1>10, <1>11, <2>1, <2>3
    <2> QED BY <2>2, <2>4 DEF p
  <1>14. Inside(M * X - Sx, M * W) /\ Inside((z * M - Sx) * X + (Sxx - z * Sx), M * (W * W))
    BY <1>9, <1>12, <1>13 DEF F, G
  <1> QED BY <1>14 DEF M, Sx, Sxx

\* The points of S lie h / 2 above the line 2 * y = r * x + c.
Near(S, x, y, h, r, c) == \A i \in S : 2 * y[i] = r * x[i] + c + h[i]

SumsNear(M, Sx, Sy, Sxx, Sxy, Sh, Sxh, r, c) ==
  2 * Sy = r * Sx + c * M + Sh /\ 2 * Sxy = r * Sxx + c * Sx + Sxh

LEMMA NearSums ==
  ASSUME NEW n \in Nat, NEW x \in [1..n -> Int], NEW y \in [1..n -> Int],
         NEW h \in [1..n -> Int], NEW S \in SUBSET (1..n), NEW r \in Int, NEW c \in Int,
         Near(S, x, y, h, r, c),
         NEW xx, xx = [i \in 1..n |-> x[i] * x[i]],
         NEW xy, xy = [i \in 1..n |-> x[i] * y[i]],
         NEW xh, xh = [i \in 1..n |-> x[i] * h[i]]
  PROVE  SumsNear(Cardinality(S), Sum(x, S, n), Sum(y, S, n), Sum(xx, S, n), Sum(xy, S, n),
                  Sum(h, S, n), Sum(xh, S, n), r, c)
  <1> DEFINE one == [i \in 1..n |-> 1]
             M   == Cardinality(S)
  <1>1. ASSUME NEW i \in 1..n
        PROVE  /\ x[i] \in Int /\ y[i] \in Int /\ h[i] \in Int
               /\ x[i] * x[i] \in Int /\ x[i] * y[i] \in Int /\ x[i] * h[i] \in Int
    <2> DEFINE u == x[i]
               v == y[i]
               w == h[i]
    <2>1. u \in Int /\ v \in Int /\ w \in Int
      OBVIOUS
    <2> HIDE DEF u, v, w
    <2>2. u * u \in Int /\ u * v \in Int /\ u * w \in Int
      BY <2>1, ProductType
    <2> QED BY <2>1, <2>2 DEF u, v, w
  <1>2. /\ one \in [1..n -> Int] /\ xx \in [1..n -> Int] /\ xy \in [1..n -> Int]
        /\ xh \in [1..n -> Int]
        /\ \A i \in 1..n : /\ one[i] = 1 /\ xx[i] = x[i] * x[i]
                           /\ xy[i] = x[i] * y[i] /\ xh[i] = x[i] * h[i]
    BY <1>1
  <1>3. Sum(one, S, n) = M /\ M \in Nat /\ 1 \in Int
    <2>1. Sum(one, S, n) = M /\ M \in Nat
      BY SumOfOnes
    <2> QED BY <2>1
  <1> HIDE DEF one
  <1>4. Combined3(S, y, x, one, h, r, c, 1)
    <2> SUFFICES ASSUME NEW i \in S
                 PROVE  2 * y[i] = r * x[i] + c * one[i] + 1 * h[i]
      BY DEF Combined3
    <2>1. i \in 1..n
      OBVIOUS
    <2>2. c * one[i] = c /\ 1 * h[i] = h[i]
      <3>1. one[i] = 1 /\ h[i] \in Int
        BY <1>1, <1>2, <2>1
      <3>2. c * 1 = c
        OBVIOUS
      <3> QED BY <3>1, <3>2
    <2>3. 2 * y[i] = r * x[i] + c + h[i]
      BY DEF Near
    <2> QED BY <2>2, <2>3, Zenon
  <1>5. Combined3(S, xy, xx, x, xh, r, c, 1)
    <2> SUFFICES ASSUME NEW i \in S
                 PROVE  2 * xy[i] = r * xx[i] + c * x[i] + 1 * xh[i]
      BY DEF Combined3
    <2>1. i \in 1..n
      OBVIOUS
    <2> DEFINE u == x[i]
               v == y[i]
               w == h[i]
    <2>2. u \in Int /\ v \in Int /\ w \in Int
      BY <1>1, <2>1
    <2>3. 2 * v = r * u + c + w
      BY DEF Near
    <2> HIDE DEF u, v, w
    <2>4. 2 * (u * v) = u * (2 * v)
      BY <2>2
    <2>5. u * (r * u + c + w) = r * (u * u) + c * u + 1 * (u * w)
      BY <2>2
    <2>6. 2 * (u * v) = r * (u * u) + c * u + 1 * (u * w)
      BY <2>3, <2>4, <2>5, Zenon
    <2>7. xy[i] = u * v /\ xx[i] = u * u /\ xh[i] = u * w
      BY <1>2, <2>1 DEF u, v, w
    <2> QED BY <2>6, <2>7, Zenon DEF u
  <1>6. /\ 2 * Sum(y, S, n) = r * Sum(x, S, n) + c * M + 1 * Sum(h, S, n)
        /\ 2 * Sum(xy, S, n) = r * Sum(xx, S, n) + c * Sum(x, S, n) + 1 * Sum(xh, S, n)
    <2>1. SumsCombined3(n, y, x, one, h, r, c, 1, S)
      BY <1>2, <1>3, <1>4, LinearSums3
    <2>2. SumsCombined3(n, xy, xx, x, xh, r, c, 1, S)
      BY <1>2, <1>3, <1>5, LinearSums3
    <2> QED BY <1>3, <2>1, <2>2 DEF SumsCombined3
  <1>7. 1 * Sum(h, S, n) = Sum(h, S, n) /\ 1 * Sum(xh, S, n) = Sum(xh, S, n)
    <2>1. Sum(h, S, n) \in Int /\ Sum(xh, S, n) \in Int
      BY <1>2, SumType
    <2> QED BY <2>1
  <1> QED BY <1>6, <1>7, Zenon DEF SumsNear

\* How far the points turn the line of the regression, and move it at z.
Turn(M, Sx, Sh, Sxh) == M * Sxh - Sx * Sh

Move(M, Sx, Sxx, Sh, Sxh, z) == (z * M - Sx) * Sxh + (Sxx - z * Sx) * Sh

LineNear(a, b, den, r, c, z, turn, move) ==
  2 * a = r * den + turn /\ 2 * (a * z + b) = den * (r * z + c) + move

LEMMA NearAlgebra ==
  ASSUME NEW M \in Int, NEW Sx \in Int, NEW Sy \in Int, NEW Sxx \in Int, NEW Sxy \in Int,
         NEW Sh \in Int, NEW Sxh \in Int, NEW r \in Int, NEW c \in Int, NEW z \in Int,
         SumsNear(M, Sx, Sy, Sxx, Sxy, Sh, Sxh, r, c)
  PROVE  LineNear(M * Sxy - Sx * Sy, Sy * Sxx - Sx * Sxy, M * Sxx - Sx * Sx, r, c, z,
                  Turn(M, Sx, Sh, Sxh), Move(M, Sx, Sxx, Sh, Sxh, z))
  <1> DEFINE p == r * Sx + c * M + Sh
             q == r * Sxx + c * Sx + Sxh
  <1>0. 2 * Sy = p /\ 2 * Sxy = q
    BY DEF SumsNear
  <1>1. 2 * (M * Sxy - Sx * Sy) = M * (2 * Sxy) - Sx * (2 * Sy)
    OBVIOUS
  <1>2. M * q - Sx * p = r * (M * Sxx - Sx * Sx) + (M * Sxh - Sx * Sh)
    OBVIOUS
  <1>3. 2 * ((M * Sxy - Sx * Sy) * z + (Sy * Sxx - Sx * Sxy))
          = (z * M - Sx) * (2 * Sxy) + (Sxx - z * Sx) * (2 * Sy)
    OBVIOUS
  <1>4. (z * M - Sx) * q + (Sxx - z * Sx) * p
          = (M * Sxx - Sx * Sx) * (r * z + c) + ((z * M - Sx) * Sxh + (Sxx - z * Sx) * Sh)
    OBVIOUS
  <1> HIDE DEF p, q
  <1>5. 2 * (M * Sxy - Sx * Sy) = r * (M * Sxx - Sx * Sx) + (M * Sxh - Sx * Sh)
    BY <1>0, <1>1, <1>2, Zenon
  <1>6. 2 * ((M * Sxy - Sx * Sy) * z + (Sy * Sxx - Sx * Sxy))
          = (M * Sxx - Sx * Sx) * (r * z + c) + ((z * M - Sx) * Sxh + (Sxx - z * Sx) * Sh)
    BY <1>0, <1>3, <1>4, Zenon
  <1> QED BY <1>5, <1>6, Zenon DEF LineNear, Turn, Move

\* Neither is far, when every point is within E / 2 of the line, and they and z are
\* within W of each other.
LEMMA NearBounds ==
  ASSUME NEW n \in Nat, NEW x \in [1..n -> Int], NEW h \in [1..n -> Int],
         NEW S \in SUBSET (1..n), NEW E \in Nat, Bounded(S, h, E),
         NEW xx, xx = [i \in 1..n |-> x[i] * x[i]],
         NEW xh, xh = [i \in 1..n |-> x[i] * h[i]],
         NEW z \in Int, NEW W \in Nat,
         \A i \in S : Inside(z - x[i], W), \A i, j \in S : Inside(x[j] - x[i], W)
  PROVE  LET M   == Cardinality(S)
             Sx  == Sum(x, S, n)
             Sxx == Sum(xx, S, n)
             Sh  == Sum(h, S, n)
             Sxh == Sum(xh, S, n)
         IN  /\ Inside(Turn(M, Sx, Sh, Sxh), M * (E * (M * W)))
             /\ Inside(Move(M, Sx, Sxx, Sh, Sxh, z), M * (E * (M * (W * W))))
  <1> DEFINE M   == Cardinality(S)
             Sx  == Sum(x, S, n)
             Sxx == Sum(xx, S, n)
             Sh  == Sum(h, S, n)
             Sxh == Sum(xh, S, n)
             A   == z * M - Sx
             B   == Sxx - z * Sx
  <1>1. ASSUME NEW i \in 1..n
        PROVE  x[i] \in Int /\ h[i] \in Int /\ x[i] * x[i] \in Int /\ x[i] * h[i] \in Int
    <2> DEFINE u == x[i]
               w == h[i]
    <2>1. u \in Int /\ w \in Int
      OBVIOUS
    <2> HIDE DEF u, w
    <2>2. u * u \in Int /\ u * w \in Int
      BY <2>1, ProductType
    <2> QED BY <2>1, <2>2 DEF u, w
  <1>2. xx \in [1..n -> Int] /\ xh \in [1..n -> Int]
    BY <1>1
  <1>3. M \in Nat /\ Sx \in Int /\ Sxx \in Int /\ Sh \in Int /\ Sxh \in Int
    BY <1>2, SumType, SumOfOnes
  <1>4. ASSUME NEW j \in S
        PROVE  Inside(M * x[j] + (-Sx), M * W) /\ Inside(A * x[j] + B, M * (W * W))
    <2> DEFINE X == x[j]
    <2>1. X \in Int /\ \A i \in S : Inside(X - x[i], W) /\ Inside(z - x[i], W)
      BY <1>1
    <2> HIDE DEF X, M, Sx, Sxx
    <2>2. Inside(M * X - Sx, M * W) /\ Inside((z * M - Sx) * X + (Sxx - z * Sx), M * (W * W))
      BY <2>1, DifferenceSums DEF M, Sx, Sxx
    <2>3. M * X - Sx = M * X + (-Sx)
      <3>1. M * X \in Int
        BY <1>3, <2>1, ProductType
      <3> QED BY <1>3, <3>1
    <2>4. Inside(M * X + (-Sx), M * W)
      BY <2>2, <2>3, Zenon
    <2> QED BY <2>2, <2>4 DEF X
  <1> HIDE DEF M, Sx, Sxx
  <1>5. /\ A \in Int /\ B \in Int /\ -Sx \in Int /\ M \in Int
        /\ M * W \in Nat /\ M * (W * W) \in Nat
    <2>1. z * M \in Int /\ z * Sx \in Int /\ M * W \in Nat /\ W * W \in Nat
      BY <1>3, ProductType
    <2>2. M * (W * W) \in Nat
      <3> DEFINE w == W * W
      <3>1. w \in Nat
        BY <2>1
      <3> HIDE DEF w
      <3>2. M * w \in Nat
        BY <1>3, <3>1
      <3> QED BY <3>2 DEF w
    <2> QED BY <1>3, <2>1, <2>2
  <1>6. Inside(M * Sxh + (-Sx) * Sh, M * (E * (M * W)))
    BY <1>4, <1>5, WeightedSum DEF M
  <1>7. Inside(A * Sxh + B * Sh, M * (E * (M * (W * W))))
    <2> HIDE DEF A, B
    <2> QED BY <1>4, <1>5, WeightedSum DEF M
  <1>8. M * Sxh + (-Sx) * Sh = M * Sxh - Sx * Sh
    <2> HIDE DEF Sh, Sxh
    <2> DEFINE p == Sx * Sh
               q == M * Sxh
    <2>1. (-Sx) * Sh = -p /\ p \in Int /\ q \in Int
      BY <1>3, ProductType
    <2> HIDE DEF p, q
    <2>2. q + (-Sx) * Sh = q - p
      BY <2>1
    <2> QED BY <2>2 DEF p, q
  <1>9. /\ Inside(Turn(M, Sx, Sh, Sxh), M * (E * (M * W)))
        /\ Inside(Move(M, Sx, Sxx, Sh, Sxh, z), M * (E * (M * (W * W))))
    BY <1>6, <1>7, <1>8 DEF Turn, Move
  <1> QED BY <1>9 DEF M, Sx, Sxx

-----------------------------------------------------------------------------
(* The line through points near a line, but for one.                       *)

\* Some values are close together, and the k-th is far above or far below them all.
Apart(r, n, k, D) ==
  /\ \A i, j \in (1..n) \ {k} : 2 * (r[i] - r[j]) <= D
  /\ \/ \A i \in (1..n) \ {k} : 4 * (r[k] - r[i]) > 3 * D
     \/ \A i \in (1..n) \ {k} : 4 * (r[i] - r[k]) > 3 * D

\* The residuals of a line through points near a line, but for the k-th, which lies e / 2
\* from it: L is the leverage of the k-th point, W the width of the points, den the
\* denominator of the regression.  The others do no more than R.
NearResiduals(n, x, q, k, e, den, L, K, R) ==
  \A i \in 1..n : \E rho \in Int :
    /\ Inside(rho, R)
    /\ 2 * q[i] = rho + (IF i = k THEN e * den ELSE 0) - e * (L * x[i] + K)

Within(n, x, W) == \A i, j \in 1..n : x[i] - x[j] <= W

\* What the k-th point does to its own residual outweighs all else.
Dominant(e, L, W, den, R) ==
  10 * R < 2 * (Abs(e) * den) - 5 * (Abs(e) * (Abs(L) * W))

\* A sum with one term.
LEMMA SumOfSingle ==
  ASSUME NEW n \in Nat, NEW k \in 1..n, NEW f \in [1..n -> Int],
         f = [i \in 1..n |-> IF i = k THEN 1 ELSE 0]
  PROVE  Sum(f, 1..n, n) = 1
  <1>1. 1..n \in SUBSET (1..n)
    OBVIOUS
  <1>2. PICK s \in [0..n -> Int] :
               /\ s[0] = 0
               /\ \A i \in 1..n : s[i] = s[i - 1] + Term(f, 1..n, i)
               /\ Sum(f, 1..n, n) = s[n]
    BY <1>1, SumIsLoop
  <1> DEFINE U == {j \in Nat : j <= n => s[j] = IF j >= k THEN 1 ELSE 0}
  <1>3. 0 \in U
    BY <1>2
  <1>4. ASSUME NEW j \in Nat, j \in U
        PROVE  j + 1 \in U
    <2> SUFFICES ASSUME j + 1 <= n PROVE s[j + 1] = IF j + 1 >= k THEN 1 ELSE 0
      OBVIOUS
    <2>1. j + 1 \in 1..n /\ (j + 1) - 1 = j /\ s[j] = IF j >= k THEN 1 ELSE 0
      BY <1>4
    <2>2. s[j + 1] = s[j] + Term(f, 1..n, j + 1)
      BY <1>2, <2>1
    <2>3. Term(f, 1..n, j + 1) = IF j + 1 = k THEN 1 ELSE 0
      BY <2>1 DEF Term
    <2> QED BY <2>1, <2>2, <2>3
  <1> HIDE DEF U
  <1>5. n \in U
    BY <1>3, <1>4, Induct
  <1>6. s[n] = 1
    BY <1>5 DEF U
  <1> QED BY <1>2, <1>6

\* A sum and what it is without its k-th term.
Without(n, f, k) == [i \in 1..n |-> IF i = k THEN 0 ELSE f[i]]

LEMMA SumWithout ==
  ASSUME NEW n \in Nat, NEW k \in 1..n, NEW f \in [1..n -> Int]
  PROVE  /\ Without(n, f, k) \in [1..n -> Int]
         /\ Sum(f, 1..n, n) = Sum(Without(n, f, k), 1..n, n) + f[k]
  <1> DEFINE g  == Without(n, f, k)
             s  == [i \in 1..n |-> IF i = k THEN 1 ELSE 0]
             e  == f[k]
             e2 == 2 * e
             S  == 1..n
  <1>1. /\ g \in [1..n -> Int] /\ s \in [1..n -> Int] /\ e \in Int /\ e2 \in Int
        /\ S \in SUBSET (1..n) /\ 2 \in Int
        /\ \A i \in S : 2 * f[i] = 2 * g[i] + e2 * s[i]
    <2>1. /\ g \in [1..n -> Int] /\ s \in [1..n -> Int] /\ e \in Int
          /\ \A i \in S : g[i] = (IF i = k THEN 0 ELSE f[i]) /\ s[i] = IF i = k THEN 1 ELSE 0
      BY DEF Without
    <2>2. ASSUME NEW i \in S
          PROVE  2 * f[i] = 2 * g[i] + e2 * s[i]
      <3> HIDE DEF g, s
      <3>1. CASE i = k
        BY <2>1, <3>1
      <3>2. CASE i /= k
        BY <2>1, <3>2
      <3> QED BY <3>1, <3>2
    <2> HIDE DEF g, s, e
    <2> QED BY <2>1, <2>2
  <1>2. Sum(s, S, n) = 1
    <2>1. s = [i \in 1..n |-> IF i = k THEN 1 ELSE 0]
      OBVIOUS
    <2> HIDE DEF s
    <2> QED BY <1>1, <2>1, SumOfSingle
  <1> HIDE DEF g, s, e2
  <1>3. Combined(S, f, g, s, 2, e2)
    BY <1>1 DEF Combined
  <1>4. 2 * Sum(f, S, n) = 2 * Sum(g, S, n) + e2 * Sum(s, S, n)
    <2> HIDE DEF S, e
    <2>1. SumsCombined(n, f, g, s, 2, e2, S)
      BY <1>1, <1>3, LinearSums
    <2> QED BY <2>1 DEF SumsCombined
  <1> DEFINE u == Sum(f, S, n)
             v == Sum(g, S, n)
  <1>5. u \in Int /\ v \in Int /\ 2 * u = 2 * v + e2 * 1
    <2>1. u \in Int /\ v \in Int
      <3> HIDE DEF S
      <3> QED BY <1>1, SumType
    <2> QED BY <1>2, <1>4, <2>1
  <1> HIDE DEF u, v, e
  <1>6. u = v + e
    BY <1>1, <1>5 DEF e2
  <1> QED BY <1>1, <1>6 DEF u, v, e, g

\* The regression through all points, and how far they lie from a line.
Regressed(n, x, y, a, b, den) ==
  LET Sx  == Sum(x, 1..n, n)
      Sy  == Sum(y, 1..n, n)
      Sxx == Sum([i \in 1..n |-> x[i] * x[i]], 1..n, n)
      Sxy == Sum([i \in 1..n |-> x[i] * y[i]], 1..n, n)
  IN a = n * Sxy - Sx * Sy /\ b = Sy * Sxx - Sx * Sxy /\ den = n * Sxx - Sx * Sx

Residue(n, x, y, a, b, den, q) == \A i \in 1..n : q[i] = den * y[i] - (a * x[i] + b)

\* The residuals of the regression through points all but one of which are near a line.
LEMMA OutlierResiduals ==
  ASSUME NEW n \in Nat, NEW x \in [1..n -> Int], NEW y \in [1..n -> Int],
         NEW f \in [1..n -> Int], NEW k \in 1..n, NEW r \in Int, NEW c \in Int,
         NEW E \in Nat, NEW W \in Nat,
         Near(1..n, x, y, f, r, c), Bounded((1..n) \ {k}, f, E), Within(n, x, W),
         NEW a \in Int, NEW b \in Int, NEW den \in Nat, Regressed(n, x, y, a, b, den),
         NEW q \in [1..n -> Int], Residue(n, x, y, a, b, den, q)
  PROVE  \E K \in Int : NearResiduals(n, x, q, k, f[k], den, n * x[k] - Sum(x, 1..n, n), K,
                                     den * E + n * (E * (n * (W * W))))
  <1> DEFINE S   == 1..n
             h   == Without(n, f, k)
             e   == f[k]
             p   == x[k]
             xx  == [i \in 1..n |-> x[i] * x[i]]
             xy  == [i \in 1..n |-> x[i] * y[i]]
             xf  == [i \in 1..n |-> x[i] * f[i]]
             xh  == [i \in 1..n |-> x[i] * h[i]]
             Sx  == Sum(x, S, n)
             Sy  == Sum(y, S, n)
             Sxx == Sum(xx, S, n)
             Sxy == Sum(xy, S, n)
             Sf  == Sum(f, S, n)
             Sxf == Sum(xf, S, n)
             Sh  == Sum(h, S, n)
             Sxh == Sum(xh, S, n)
             K   == Sxx - Sx * p
             T   == n * (E * (n * (W * W)))
  <1>1. S \in SUBSET (1..n) /\ Cardinality(S) = n
    BY FS_Interval
  <1>2. /\ h \in [1..n -> Int] /\ Sf = Sh + e
        /\ \A i \in 1..n : h[i] = IF i = k THEN 0 ELSE f[i]
    <2>1. \A i \in 1..n : h[i] = IF i = k THEN 0 ELSE f[i]
      BY DEF Without
    <2> HIDE DEF h
    <2>2. h \in [1..n -> Int] /\ Sf = Sh + e
      BY SumWithout DEF h
    <2> QED BY <2>1, <2>2
  <1>line. /\ a = n * Sxy - Sx * Sy
           /\ b = Sy * Sxx - Sx * Sxy
           /\ den = n * Sxx - Sx * Sx
    BY DEF Regressed
  <1> HIDE DEF h, Sx, Sy, Sxx, Sxy, Sf, Sxf, Sh, Sxh
  <1>3. ASSUME NEW i \in 1..n
        PROVE  /\ x[i] \in Int /\ y[i] \in Int /\ f[i] \in Int /\ h[i] \in Int
               /\ x[i] * x[i] \in Int /\ x[i] * y[i] \in Int
               /\ x[i] * f[i] \in Int /\ x[i] * h[i] \in Int
    <2> DEFINE u == x[i]
               v == y[i]
               w == f[i]
               o == h[i]
    <2>1. u \in Int /\ v \in Int /\ w \in Int /\ o \in Int
      BY <1>2
    <2> HIDE DEF u, v, w, o
    <2>2. u * u \in Int /\ u * v \in Int /\ u * w \in Int /\ u * o \in Int
      BY <2>1, ProductType
    <2> QED BY <2>1, <2>2 DEF u, v, w, o
  <1>4. /\ xx \in [1..n -> Int] /\ xy \in [1..n -> Int]
        /\ xf \in [1..n -> Int] /\ xh \in [1..n -> Int]
        /\ \A i \in 1..n : xf[i] = x[i] * f[i] /\ xh[i] = x[i] * h[i]
    BY <1>3
  <1>5. /\ Sx \in Int /\ Sy \in Int /\ Sxx \in Int /\ Sxy \in Int
        /\ Sf \in Int /\ Sxf \in Int /\ Sh \in Int /\ Sxh \in Int /\ e \in Int /\ p \in Int
    <2> HIDE DEF S, xx, xy, xf, xh
    <2>1. Sf \in Int /\ Sxf \in Int /\ Sh \in Int /\ Sxh \in Int
      BY <1>1, <1>2, <1>4, SumType DEF Sf, Sxf, Sh, Sxh
    <2>2. Sx \in Int /\ Sy \in Int /\ Sxx \in Int /\ Sxy \in Int
      BY <1>1, <1>4, SumType DEF Sx, Sy, Sxx, Sxy
    <2> QED BY <2>1, <2>2
  <1>6. Sxf = Sxh + p * e
    <2>1. Without(n, xf, k) = xh
      <3>1. \A i \in 1..n : xh[i] = IF i = k THEN 0 ELSE xf[i]
        <4> SUFFICES ASSUME NEW i \in 1..n PROVE xh[i] = IF i = k THEN 0 ELSE xf[i]
          OBVIOUS
        <4>1. CASE i = k
          <5>1. x[i] * 0 = 0
            BY <1>3
          <5> QED BY <1>2, <1>4, <4>1, <5>1
        <4>2. CASE i /= k
          BY <1>2, <1>4, <4>2
        <4> QED BY <4>1, <4>2
      <3> HIDE DEF xh, xf
      <3>2. xh = [i \in 1..n |-> IF i = k THEN 0 ELSE xf[i]]
        BY <1>4, <3>1
      <3> QED BY <3>2 DEF Without
    <2>2. Sxf = Sum(Without(n, xf, k), S, n) + xf[k]
      <3> HIDE DEF xf
      <3> QED BY <1>4, SumWithout DEF Sxf
    <2>3. xf[k] = p * e
      BY <1>4
    <2> QED BY <2>1, <2>2, <2>3, Zenon DEF Sxh
  <1>7. Bounded(S, h, E)
    <2> SUFFICES ASSUME NEW i \in S PROVE Inside(h[i], E)
      BY DEF Bounded
    <2>1. CASE i = k
      <3>1. h[i] = 0
        BY <1>2, <2>1
      <3> QED BY <3>1 DEF Inside
    <2>2. CASE i /= k
      <3>1. h[i] = f[i] /\ i \in (1..n) \ {k}
        BY <1>2, <2>2
      <3> QED BY <3>1 DEF Bounded
    <2> QED BY <2>1, <2>2
  <1>8. \A i, j \in S : Inside(x[j] - x[i], W)
    <2> SUFFICES ASSUME NEW i \in S, NEW j \in S PROVE Inside(x[j] - x[i], W)
      OBVIOUS
    <2> DEFINE u == x[i]
               v == x[j]
    <2>1. u \in Int /\ v \in Int
      BY <1>3
    <2>2. u - v <= W /\ v - u <= W
      BY DEF Within
    <2> HIDE DEF u, v
    <2>3. Inside(v - u, W)
      BY <2>1, <2>2 DEF Inside
    <2> QED BY <2>3 DEF u, v
  <1>9. SumsNear(n, Sx, Sy, Sxx, Sxy, Sf, Sxf, r, c)
    <2> HIDE DEF S
    <2>1. SumsNear(Cardinality(S), Sx, Sy, Sxx, Sxy, Sf, Sxf, r, c)
      BY <1>1, NearSums DEF Sx, Sy, Sxx, Sxy, Sf, Sxf, S
    <2> QED BY <1>1, <2>1
  <1>10. T \in Nat /\ den * E \in Nat
    <2> DEFINE w == W * W
               u == n * w
               v == E * u
    <2>1. w \in Nat
      OBVIOUS
    <2> HIDE DEF w
    <2>2. u \in Nat
      BY <2>1
    <2> HIDE DEF u
    <2>3. v \in Nat
      BY <2>2
    <2> HIDE DEF v
    <2>4. n * v \in Nat
      BY <2>3
    <2> QED BY <2>4 DEF v, u, w
  <1> HIDE DEF K
  <1>k. K \in Int
    <2>1. Sx * p \in Int
      BY <1>5, ProductType
    <2> QED BY <1>5, <2>1 DEF K
  <1>r. ASSUME NEW i \in 1..n
        PROVE  \E rho \in Int : /\ Inside(rho, den * E + T)
                                /\ 2 * q[i] = rho + (IF i = k THEN e * den ELSE 0)
                                                - e * ((n * p - Sx) * x[i] + K)
    <2> DEFINE z    == x[i]
               v    == y[i]
               move == Move(n, Sx, Sxx, Sh, Sxh, z)
               bend == e * ((n * p - Sx) * z + K)
               dh   == den * h[i]
               rho  == dh - move
    <2>1. z \in Int /\ v \in Int
      BY <1>3
    <2>2. Inside(move, T) /\ move \in Int
      <3>1. \A j \in S : Inside(z - x[j], W)
        BY <1>8
      <3>2. Inside(Move(Cardinality(S), Sx, Sxx, Sh, Sxh, z),
                   Cardinality(S) * (E * (Cardinality(S) * (W * W))))
        <4> HIDE DEF z, S
        <4> QED BY <1>1, <1>2, <1>7, <1>8, <2>1, <3>1, NearBounds DEF Sx, Sxx, Sh, Sxh
      <3>3. Inside(move, T)
        BY <1>1, <3>2
      <3>4. move \in Int
        <4> HIDE DEF z
        <4>1. z * n - Sx \in Int /\ Sxx - z * Sx \in Int
          BY <1>5, <2>1
        <4> DEFINE A == z * n - Sx
                   B == Sxx - z * Sx
        <4>2. A \in Int /\ B \in Int
          BY <4>1
        <4> HIDE DEF A, B
        <4>3. A * Sxh \in Int /\ B * Sh \in Int
          BY <1>5, <4>2, ProductType
        <4>4. A * Sxh + B * Sh \in Int
          BY <4>3
        <4> QED BY <4>4 DEF A, B, Move
      <3> QED BY <3>3, <3>4
    <2>3. Inside(dh, den * E) /\ dh \in Int
      <3> DEFINE w == h[i]
      <3>1. Inside(den, den) /\ Inside(w, E) /\ w \in Int
        <4>1. Inside(den, den)
          BY DEF Inside
        <4>2. Inside(w, E) /\ w \in Int
          BY <1>3, <1>7 DEF Bounded
        <4> QED BY <4>1, <4>2
      <3> HIDE DEF w
      <3>2. Inside(den * w, den * E) /\ den * w \in Int
        BY <3>1, ProductInside
      <3> QED BY <3>2 DEF w
    <2>4. 2 * (a * z + b) = den * (r * z + c) + (move + bend)
      <3> HIDE DEF z, e, p
      <3>0. LineNear(n * Sxy - Sx * Sy, Sy * Sxx - Sx * Sxy, n * Sxx - Sx * Sx, r, c, z,
                     Turn(n, Sx, Sf, Sxf), Move(n, Sx, Sxx, Sf, Sxf, z))
        BY <1>5, <1>9, <2>1, NearAlgebra
      <3>1. LineNear(a, b, den, r, c, z, Turn(n, Sx, Sf, Sxf), Move(n, Sx, Sxx, Sf, Sxf, z))
        BY <1>line, <3>0, Zenon
      <3>2. 2 * (a * z + b) = den * (r * z + c) + Move(n, Sx, Sxx, Sf, Sxf, z)
        BY <3>1 DEF LineNear
      <3>3. Move(n, Sx, Sxx, Sf, Sxf, z) = move + bend
        <4>1. n \in Int
          OBVIOUS
        <4>2. Sf = Sh + e /\ Sxf = Sxh + p * e /\ K = Sxx - Sx * p
          BY <1>2, <1>6 DEF e, p, K
        <4>3. Sf \in Int /\ Sxf \in Int /\ Sh \in Int /\ Sxh \in Int /\ z \in Int
              /\ Sx \in Int /\ Sxx \in Int /\ e \in Int /\ p \in Int /\ K \in Int
          BY <1>5, <1>k, <2>1
        <4>4. (z * n - Sx) * (Sxh + p * e) + (Sxx - z * Sx) * (Sh + e)
                = ((z * n - Sx) * Sxh + (Sxx - z * Sx) * Sh)
                    + e * ((n * p - Sx) * z + (Sxx - Sx * p))
          <5> HIDE DEF K
          <5> QED BY <4>1, <4>3
        <4> QED BY <4>2, <4>4, Zenon DEF Move
      <3> QED BY <3>2, <3>3, Zenon
    <2>5. 2 * v = r * z + c + f[i]
      BY DEF Near
    <2>6. f[i] = h[i] + (IF i = k THEN e ELSE 0)
      <3>1. CASE i = k
        BY <1>2, <1>5, <3>1
      <3>2. CASE i /= k
        <4>1. h[i] = f[i] /\ f[i] \in Int
          BY <1>2, <1>3, <3>2
        <4> QED BY <3>2, <4>1
      <3> QED BY <3>1, <3>2
    <2> DEFINE g  == IF i = k THEN e ELSE 0
               w  == h[i]
               rz == r * z + c
    <2>7. /\ g \in Int /\ w \in Int /\ rz \in Int /\ bend \in Int
          /\ a * z + b \in Int
      <3>1. g \in Int /\ w \in Int
        <4>1. w \in Int
          BY <1>3
        <4>2. e \in Int /\ 0 \in Int
          BY <1>5
        <4> HIDE DEF e
        <4> QED BY <4>1, <4>2
      <3>2. r * z \in Int /\ a * z \in Int /\ n * p \in Int
        <4> HIDE DEF z, p
        <4> QED BY <1>5, <2>1, ProductType
      <3>3. rz \in Int /\ a * z + b \in Int
        <4> DEFINE A == r * z
                   B == a * z
        <4>1. A \in Int /\ B \in Int
          BY <3>2
        <4> HIDE DEF A, B
        <4>2. A + c \in Int /\ B + b \in Int
          BY <4>1
        <4> QED BY <4>2 DEF A, B
      <3>4. bend \in Int
        <4> DEFINE A == n * p - Sx
                   N1 == n * p
        <4>0. N1 \in Int /\ Sx \in Int
          BY <1>5, <3>2
        <4> HIDE DEF N1
        <4>1. A \in Int
          BY <4>0 DEF N1
        <4> HIDE DEF A, z, e
        <4>2. A * z \in Int
          BY <2>1, <4>1, ProductType
        <4>3. A * z + K \in Int
          BY <1>k, <4>2
        <4>4. e * (A * z + K) \in Int
          BY <1>5, <4>3, ProductType
        <4> QED BY <4>4 DEF A
      <3> QED BY <3>1, <3>3, <3>4
    <2>8. 2 * q[i] = den * (2 * v) - 2 * (a * z + b)
      <3> DEFINE t == a * z + b
      <3>1. t \in Int /\ q[i] = den * v - t
        BY <2>7 DEF Residue
      <3> HIDE DEF t, v
      <3>2. 2 * (den * v - t) = den * (2 * v) - 2 * t
        BY <2>1, <3>1
      <3> QED BY <3>1, <3>2 DEF t
    <2>9. den * (rz + (w + g)) - (den * rz + (move + bend)) = (den * w - move) + den * g - bend
      <3> DEFINE A == den * rz
                 B == den * w
                 C == den * g
      <3>1. A \in Int /\ B \in Int /\ C \in Int
        <4> HIDE DEF rz, w, g
        <4> QED BY <2>7, ProductType
      <3>2. den * (rz + (w + g)) = A + (B + C)
        <4> HIDE DEF rz, w, g
        <4> QED BY <2>7
      <3> HIDE DEF A, B, C, move, bend
      <3>3. (A + (B + C)) - (A + (move + bend)) = (B - move) + C - bend
        BY <2>2, <2>7, <3>1
      <3> QED BY <3>2, <3>3, Zenon DEF A, B, C
    <2>10. 2 * q[i] = rho + den * g - bend
      <3>1. 2 * v = rz + (w + g)
        <4>1. 2 * v = rz + f[i]
          BY <2>5
        <4> QED BY <2>6, <4>1, Zenon
      <3>2. 2 * (a * z + b) = den * rz + (move + bend)
        BY <2>4
      <3> HIDE DEF rz, move, bend, w, g, v, z
      <3> QED BY <2>8, <2>9, <3>1, <3>2, Zenon DEF w
    <2>11. den * g = IF i = k THEN e * den ELSE 0
      <3>1. den * e = e * den /\ den * 0 = 0
        BY <1>5
      <3> QED BY <3>1
    <2>12. rho \in Int /\ Inside(rho, den * E + T)
      <3> HIDE DEF dh, move, T
      <3> QED BY <1>10, <2>2, <2>3 DEF Inside
    <2> QED BY <2>10, <2>11, <2>12, Zenon
  <1> QED BY <1>k, <1>r DEF NearResiduals, Sx

LEMMA ResidualsApart ==
  ASSUME NEW n \in Nat, NEW x \in [1..n -> Int], NEW q \in [1..n -> Int], NEW k \in 1..n,
         NEW e \in Int, NEW den \in Int, NEW L \in Int, NEW K \in Int, NEW W \in Nat,
         NEW R \in Nat, Within(n, x, W), NearResiduals(n, x, q, k, e, den, L, K, R),
         Dominant(e, L, W, den, R)
  PROVE  \E D \in Nat : Apart(q, n, k, D)
  <1> DEFINE E == Abs(e)
             G == Abs(L)
             H == G * W
             D == E * H
             D2 == D + 2 * R
             Ed == E * den
  <1>1. E \in Nat /\ G \in Nat
    BY DEF Abs
  <1>2. H \in Nat
    <2> HIDE DEF G
    <2> QED BY <1>1
  <1>3. D \in Nat /\ D2 \in Nat
    <2>1. D \in Nat
      <3> HIDE DEF E, H
      <3> QED BY <1>1, <1>2
    <2> HIDE DEF D
    <2> QED BY <2>1
  <1>4. Ed \in Int /\ 10 * R < 2 * Ed - 5 * D
    <2>1. Ed \in Int
      <3> HIDE DEF E
      <3> QED BY <1>1
    <2> QED BY <2>1 DEF Dominant
  <1>5. \A u \in Int : (u <= H => E * u <= D) /\ (-H <= u => -D <= E * u)
    <2> HIDE DEF E, H
    <2> SUFFICES ASSUME NEW u \in Int
                 PROVE  (u <= H => E * u <= D) /\ (-H <= u => -D <= E * u)
      OBVIOUS
    <2>1. u <= H => E * u <= E * H
      BY <1>1, <1>2
    <2>2. -H <= u => E * (-H) <= E * u
      BY <1>1, <1>2
    <2>3. E * (-H) = -(E * H)
      BY <1>1, <1>2
    <2> QED BY <2>1, <2>2, <2>3
  <1>6. \A u \in Int : e * u = E * u \/ e * u = -(E * u)
    <2> SUFFICES ASSUME NEW u \in Int
                 PROVE  e * u = E * u \/ e * u = -(E * u)
      OBVIOUS
    <2>1. CASE e >= 0
      BY <2>1 DEF Abs
    <2>2. CASE e < 0
      <3>1. E = -e
        BY <2>2 DEF Abs
      <3>2. (-e) * u = -(e * u) /\ e * u \in Int
        OBVIOUS
      <3> QED BY <3>1, <3>2
    <2> QED BY <2>1, <2>2
  <1>7. ASSUME NEW i \in (1..n) \ {k}, NEW j \in (1..n) \ {k}
        PROVE  2 * (q[i] - q[j]) <= D2
    <2> DEFINE a  == x[i]
               b  == x[j]
               qi == q[i]
               qj == q[j]
               z  == L * (b - a)
    <2>1. /\ a \in Int /\ b \in Int /\ qi \in Int /\ qj \in Int
          /\ b - a <= W /\ -W <= b - a
      <3>1. a \in Int /\ b \in Int /\ qi \in Int /\ qj \in Int
        OBVIOUS
      <3>2. b - a <= W /\ a - b <= W
        BY DEF Within
      <3> HIDE DEF a, b
      <3> QED BY <3>1, <3>2
    <2>2. /\ \E rho \in Int : Inside(rho, R) /\ 2 * qi = rho + 0 - e * (L * a + K)
          /\ \E rho \in Int : Inside(rho, R) /\ 2 * qj = rho + 0 - e * (L * b + K)
      BY DEF NearResiduals
    <2> HIDE DEF a, b, qi, qj, E, H, D, D2
    <2>3. PICK ri \in Int : Inside(ri, R) /\ 2 * qi = ri + 0 - e * (L * a + K)
      BY <2>2
    <2>4. PICK rj \in Int : Inside(rj, R) /\ 2 * qj = rj + 0 - e * (L * b + K)
      BY <2>2
    <2>5. z \in Int /\ z <= H /\ -H <= z
      <3> DEFINE d == b - a
      <3>1. d \in Int /\ d <= W /\ -W <= d
        BY <2>1
      <3> HIDE DEF d
      <3>2. L * d \in Int /\ L * d <= Abs(L) * W /\ -(Abs(L) * W) <= L * d
        BY <3>1, BoundedProduct
      <3> QED BY <3>2 DEF d, H
    <2>6. E * z <= D /\ -D <= E * z
      BY <1>5, <2>5
    <2>7. e * z <= D
      <3>1. e * z = E * z \/ e * z = -(E * z)
        BY <1>6, <2>5
      <3>2. E * z \in Int
        BY <1>1, <2>5, ProductType
      <3> DEFINE ez == e * z
                 Ez == E * z
      <3>3. /\ Ez \in Int /\ Ez <= D /\ -D <= Ez
            /\ ez = Ez \/ ez = -Ez
        BY <2>6, <3>1, <3>2
      <3> HIDE DEF ez, Ez
      <3>4. ez <= D
        BY <1>3, <3>3
      <3> QED BY <3>4 DEF ez
    <2>8. e * z = e * (L * b + K) - e * (L * a + K)
      BY <2>1
    <2>9. e * (L * b + K) \in Int /\ e * (L * a + K) \in Int /\ D \in Int
      BY <1>3, <2>1
    <2> DEFINE ua == e * (L * a + K)
               ub == e * (L * b + K)
               ez == e * z
    <2>10. /\ ua \in Int /\ ub \in Int
           /\ 2 * qi = ri + 0 - ua /\ 2 * qj = rj + 0 - ub /\ ez = ub - ua /\ ez <= D
      BY <2>3, <2>4, <2>7, <2>8, <2>9
    <2>11. ri <= R /\ -R <= rj /\ D2 = D + 2 * R
      BY <2>3, <2>4 DEF Inside, D2
    <2> HIDE DEF ua, ub, ez
    <2>12. 2 * (qi - qj) <= D2
      BY <1>3, <2>1, <2>10, <2>11
    <2> QED BY <2>12 DEF qi, qj
  \* The k-th residual is E * m away from any other, on the side of the sign of e, but
  \* for what the others do.
  <1>8. ASSUME NEW i \in (1..n) \ {k}
        PROVE  \E m, d \in Int : /\ 2 * (q[k] - q[i]) = e * m + d
                                 /\ Inside(d, 2 * R)
                                 /\ 2 * (E * m) - 4 * R > 3 * D2
    <2> DEFINE a  == x[i]
               b  == x[k]
               qi == q[i]
               qk == q[k]
               z  == L * (a - b)
               m  == den + z
    <2>1. /\ a \in Int /\ b \in Int /\ qi \in Int /\ qk \in Int
          /\ a - b <= W /\ -W <= a - b
      <3>1. a \in Int /\ b \in Int /\ qi \in Int /\ qk \in Int
        OBVIOUS
      <3>2. b - a <= W /\ a - b <= W
        BY DEF Within
      <3> HIDE DEF a, b
      <3> QED BY <3>1, <3>2
    <2>2. /\ \E rho \in Int : Inside(rho, R) /\ 2 * qi = rho + 0 - e * (L * a + K)
          /\ \E rho \in Int : Inside(rho, R) /\ 2 * qk = rho + e * den - e * (L * b + K)
      BY DEF NearResiduals
    <2> HIDE DEF a, b, qi, qk, E, H, D, D2, Ed
    <2>3. PICK ri \in Int : Inside(ri, R) /\ 2 * qi = ri + 0 - e * (L * a + K)
      BY <2>2
    <2>4. PICK rk \in Int : Inside(rk, R) /\ 2 * qk = rk + e * den - e * (L * b + K)
      BY <2>2
    <2>5. z \in Int /\ -H <= z
      <3> DEFINE d == a - b
      <3>1. d \in Int /\ d <= W /\ -W <= d
        BY <2>1
      <3> HIDE DEF d
      <3>2. L * d \in Int /\ L * d <= Abs(L) * W /\ -(Abs(L) * W) <= L * d
        BY <3>1, BoundedProduct
      <3> QED BY <3>2 DEF d, H
    <2>6. m \in Int /\ 2 * (E * m) - 4 * R > 3 * D2
      <3> HIDE DEF z
      <3>1. m \in Int
        BY <2>5
      <3>2. E * m = Ed + E * z /\ E * z \in Int /\ E * m \in Int
        BY <1>1, <2>5 DEF Ed
      <3>3. -D <= E * z
        BY <1>5, <2>5
      <3> DEFINE Ez == E * z
                 Em == E * m
      <3>4. /\ Em = Ed + Ez /\ Ez \in Int /\ Em \in Int /\ -D <= Ez
            /\ Ed \in Int /\ 10 * R < 2 * Ed - 5 * D
        BY <1>4, <3>2, <3>3 DEF D
      <3> HIDE DEF Ez, Em
      <3>5. 2 * Em - 4 * R > 3 * (D + 2 * R)
        BY <1>3, <3>4
      <3> QED BY <3>1, <3>5 DEF Em, D2
    <2> DEFINE d == rk - ri
    <2>7. d \in Int /\ Inside(d, 2 * R)
      <3>1. ri \in Int /\ rk \in Int /\ Inside(ri, R) /\ Inside(rk, R)
        BY <2>3, <2>4, Zenon
      <3> QED BY <3>1 DEF Inside
    <2>8. 2 * (qk - qi) = e * m + d
      <3>1. e * (den + L * (a - b)) = e * den - e * (L * b + K) + e * (L * a + K)
        BY <2>1
      <3> DEFINE ua == e * (L * a + K)
                 ub == e * (L * b + K)
                 ed == e * den
                 em == e * (den + L * (a - b))
      <3>2. /\ ua \in Int /\ ub \in Int /\ ed \in Int
            /\ 2 * qi = ri + 0 - ua /\ 2 * qk = rk + ed - ub
            /\ em = ed - ub + ua
        BY <2>1, <2>3, <2>4, <3>1
      <3> HIDE DEF ua, ub, ed, em
      <3>3. em \in Int
        BY <3>2
      <3>4. 2 * (qk - qi) = em + d
        BY <2>1, <2>3, <2>4, <3>2, <3>3
      <3> QED BY <3>4 DEF em
    <2> HIDE DEF m, d
    <2>9. \E v, w \in Int : /\ 2 * (qk - qi) = e * v + w
                            /\ Inside(w, 2 * R)
                            /\ 2 * (E * v) - 4 * R > 3 * D2
      BY <2>6, <2>7, <2>8
    <2> QED BY <2>9 DEF qk, qi
  <1>9. \/ \A i \in (1..n) \ {k} : 4 * (q[k] - q[i]) > 3 * D2
        \/ \A i \in (1..n) \ {k} : 4 * (q[i] - q[k]) > 3 * D2
    <2>1. CASE e >= 0
      <3> SUFFICES ASSUME NEW i \in (1..n) \ {k} PROVE 4 * (q[k] - q[i]) > 3 * D2
        OBVIOUS
      <3> DEFINE qi == q[i]
                 qk == q[k]
      <3>1. qi \in Int /\ qk \in Int
        OBVIOUS
      <3>2. E = e
        BY <2>1 DEF Abs
      <3> HIDE DEF E, D2
      <3>3. PICK m \in Int, d \in Int : /\ 2 * (qk - qi) = e * m + d
                                        /\ Inside(d, 2 * R)
                                        /\ 2 * (E * m) - 4 * R > 3 * D2
        BY <1>8
      <3> HIDE DEF qi, qk
      <3> DEFINE em == e * m
      <3>4. em \in Int /\ 2 * em - 4 * R > 3 * D2 /\ 2 * (qk - qi) = em + d /\ -(2 * R) <= d
        BY <3>2, <3>3, ProductType DEF Inside
      <3> HIDE DEF em
      <3>5. 4 * (qk - qi) > 3 * D2
        BY <1>3, <3>1, <3>4
      <3> QED BY <3>5 DEF qi, qk
    <2>2. CASE e < 0
      <3> SUFFICES ASSUME NEW i \in (1..n) \ {k} PROVE 4 * (q[i] - q[k]) > 3 * D2
        OBVIOUS
      <3> DEFINE qi == q[i]
                 qk == q[k]
      <3>1. qi \in Int /\ qk \in Int
        OBVIOUS
      <3>2. E = -e
        BY <2>2 DEF Abs
      <3> HIDE DEF E, D2
      <3>3. PICK m \in Int, d \in Int : /\ 2 * (qk - qi) = e * m + d
                                        /\ Inside(d, 2 * R)
                                        /\ 2 * (E * m) - 4 * R > 3 * D2
        BY <1>8
      <3> HIDE DEF qi, qk
      <3>4. e * m \in Int /\ E * m = -(e * m)
        BY <3>2, <3>3, ProductType
      <3> DEFINE em == e * m
      <3>5. em \in Int /\ 2 * (-em) - 4 * R > 3 * D2 /\ 2 * (qk - qi) = em + d /\ d <= 2 * R
        BY <3>3, <3>4 DEF Inside
      <3> HIDE DEF em
      <3>6. 4 * (qi - qk) > 3 * D2
        BY <1>3, <3>1, <3>5
      <3> QED BY <3>6 DEF qi, qk
    <2> QED BY <2>1, <2>2
  <1> HIDE DEF D2
  <1>10. Apart(q, n, k, D2)
    BY <1>7, <1>9 DEF Apart
  <1> QED BY <1>3, <1>10

-----------------------------------------------------------------------------
(* The quartiles of the residuals.                                         *)

\* Of some points one has the least value, and one the greatest.
LEMMA LeastPoint ==
  ASSUME NEW n \in Nat, NEW r \in [1..n -> Int], NEW T \in SUBSET (1..n), T /= {}
  PROVE  \E i \in T : \A j \in T : r[i] <= r[j]
  <1> DEFINE Least(k) == \E i \in T \cap (1..k) : \A j \in T \cap (1..k) : r[i] <= r[j]
             Good(k) == T \cap (1..k) = {} \/ Least(k)
             U == {k \in Nat : k <= n => Good(k)}
  <1>1. 0 \in U
    BY DEF Least
  <1>2. ASSUME NEW k \in Nat, k \in U, k + 1 <= n
        PROVE  Good(k + 1)
    <2>1. T \cap (1..(k + 1)) = IF k + 1 \in T THEN (T \cap (1..k)) \cup {k + 1}
                                              ELSE T \cap (1..k)
      BY <1>2
    <2>2. CASE k + 1 \notin T
      <3>1. T \cap (1..(k + 1)) = T \cap (1..k)
        BY <2>1, <2>2
      <3>2. T \cap (1..k) = {} \/ Least(k)
        BY <1>2
      <3> QED BY <3>1, <3>2
    <2>3. CASE k + 1 \in T /\ T \cap (1..k) = {}
      <3>1. T \cap (1..(k + 1)) = {k + 1} /\ r[k + 1] \in Int
        BY <1>2, <2>1, <2>3
      <3>2. k + 1 \in T \cap (1..(k + 1)) /\ \A j \in T \cap (1..(k + 1)) : r[k + 1] <= r[j]
        BY <3>1
      <3>3. Least(k + 1)
        BY <3>2, Zenon
      <3> QED BY <3>3, Zenon
    <2>4. CASE k + 1 \in T /\ T \cap (1..k) /= {}
      <3>1. PICK i \in T \cap (1..k) : \A j \in T \cap (1..k) : r[i] <= r[j]
        BY <1>2, <2>4
      <3>2. r[i] \in Int /\ r[k + 1] \in Int
        BY <1>2
      <3>3. CASE r[i] <= r[k + 1]
        <4>1. i \in T \cap (1..(k + 1)) /\ \A j \in T \cap (1..(k + 1)) : r[i] <= r[j]
          BY <2>1, <2>4, <3>1, <3>3
        <4>2. Least(k + 1)
          BY <4>1, Zenon
        <4> QED BY <4>2, Zenon
      <3>4. CASE r[k + 1] < r[i]
        <4>1. k + 1 \in T \cap (1..(k + 1))
          BY <1>2, <2>4
        <4>2. ASSUME NEW j \in T \cap (1..(k + 1))
              PROVE  r[k + 1] <= r[j]
          <5>1. CASE j = k + 1
            BY <3>2, <5>1
          <5>2. CASE j \in T \cap (1..k)
            <6>1. r[i] <= r[j] /\ r[j] \in Int
              BY <3>1, <5>2
            <6> QED BY <3>2, <3>4, <6>1
          <5> QED BY <2>1, <5>1, <5>2
        <4>3. Least(k + 1)
          BY <4>1, <4>2, Zenon
        <4> QED BY <4>3, Zenon
      <3> HIDE DEF Good
      <3> QED BY <3>2, <3>3, <3>4
    <2> QED BY <2>2, <2>3, <2>4
  <1>3. \A k \in Nat : k \in U => k + 1 \in U
    <2> HIDE DEF Good
    <2> QED BY <1>2
  <1> HIDE DEF U
  <1>4. n \in U
    BY <1>1, <1>3, Induct
  <1>5. T \cap (1..n) = T
    OBVIOUS
  <1>6. Good(n)
    <2> HIDE DEF Good
    <2> QED BY <1>4 DEF U
  <1> QED BY <1>5, <1>6

LEMMA GreatestPoint ==
  ASSUME NEW n \in Nat, NEW r \in [1..n -> Int], NEW T \in SUBSET (1..n), T /= {}
  PROVE  \E i \in T : \A j \in T : r[j] <= r[i]
  <1> DEFINE s == [i \in 1..n |-> -r[i]]
  <1>1. s \in [1..n -> Int] /\ \A i \in 1..n : s[i] = -r[i] /\ r[i] \in Int
    OBVIOUS
  <1> HIDE DEF s
  <1>2. PICK i \in T : \A j \in T : s[i] <= s[j]
    BY <1>1, LeastPoint
  <1>3. \A j \in T : r[j] <= r[i]
    BY <1>1, <1>2
  <1> QED BY <1>3

\* How many points lie below a value, or not above it.
Below(r, n, v) == {i \in 1..n : r[i] < v}
UpTo(r, n, v)  == {i \in 1..n : r[i] <= v}

Between(r, n, v, w) == {i \in 1..n : v <= r[i] /\ r[i] <= w}

LEMMA FinitePoints ==
  ASSUME NEW n \in Nat, NEW T \in SUBSET (1..n)
  PROVE  IsFiniteSet(T) /\ Cardinality(T) \in Nat /\ Cardinality(T) <= n
  <1>1. IsFiniteSet(1..n) /\ Cardinality(1..n) = n
    BY FS_Interval
  <1>2. IsFiniteSet(T) /\ Cardinality(T) <= Cardinality(1..n)
    BY <1>1, FS_Subset
  <1> QED BY <1>1, <1>2, FS_CardinalityType

\* There is a k-th value.
LEMMA RankedValue ==
  ASSUME NEW n \in Nat, NEW r \in [1..n -> Int], NEW k \in 1..n
  PROVE  \E i \in 1..n : /\ Cardinality(Below(r, n, r[i])) < k
                         /\ Cardinality(UpTo(r, n, r[i])) >= k
  <1> DEFINE T == {i \in 1..n : Cardinality(UpTo(r, n, r[i])) >= k}
  <1>1. T /= {}
    <2>1. 1..n /= {} /\ 1..n \in SUBSET (1..n)
      OBVIOUS
    <2>2. PICK i \in 1..n : \A j \in 1..n : r[j] <= r[i]
      BY <2>1, GreatestPoint
    <2>3. UpTo(r, n, r[i]) = 1..n
      BY <2>2 DEF UpTo
    <2>4. Cardinality(UpTo(r, n, r[i])) = n
      BY <2>3, FS_Interval
    <2> QED BY <2>4
  <1>2. PICK i \in T : \A j \in T : r[i] <= r[j]
    <2>1. T \in SUBSET (1..n)
      OBVIOUS
    <2> HIDE DEF T
    <2> QED BY <1>1, <2>1, LeastPoint
  <1>3. i \in 1..n /\ Cardinality(UpTo(r, n, r[i])) >= k
    BY <1>2
  <1> DEFINE B == Below(r, n, r[i])
  <1>4. B \in SUBSET (1..n)
    BY DEF Below
  <1>5. CASE B = {}
    <2>1. Cardinality(B) = 0
      BY <1>5, FS_EmptySet
    <2> QED BY <1>3, <2>1
  <1>6. CASE B /= {}
    <2>1. PICK j \in B : \A l \in B : r[l] <= r[j]
      <3> HIDE DEF B
      <3> QED BY <1>4, <1>6, GreatestPoint
    <2>2. j \in 1..n /\ r[j] < r[i] /\ r[i] \in Int /\ r[j] \in Int
      BY <1>3, <2>1 DEF Below
    <2>3. B = UpTo(r, n, r[j])
      <3>1. \A l \in 1..n : r[l] \in Int
        OBVIOUS
      <3>2. \A l \in 1..n : l \in B <=> r[l] <= r[j]
        BY <2>1, <2>2, <3>1 DEF Below
      <3> QED BY <1>4, <3>2 DEF UpTo
    <2>4. j \notin T
      BY <1>2, <2>2
    <2>5. ~ (Cardinality(UpTo(r, n, r[j])) >= k)
      BY <2>2, <2>4
    <2>6. Cardinality(B) \in Nat
      BY <1>4, FinitePoints
    <2> QED BY <1>3, <2>3, <2>5, <2>6
  <1> QED BY <1>5, <1>6

\* Between the values of two ranks lie as many points as between the ranks.
LEMMA PointsBetween ==
  ASSUME NEW n \in Nat, NEW r \in [1..n -> Int], NEW k \in 1..n, NEW l \in k..n,
         NEW v \in Int, NEW w \in Int,
         Cardinality(Below(r, n, v)) < k, Cardinality(UpTo(r, n, w)) >= l
  PROVE  /\ v <= w
         /\ Cardinality(Between(r, n, v, w)) >= l - k + 1
  <1> DEFINE B == Below(r, n, v)
             W == UpTo(r, n, w)
             I == Between(r, n, v, w)
  <1>1. /\ B \in SUBSET (1..n) /\ W \in SUBSET (1..n) /\ I \in SUBSET (1..n)
        /\ W \subseteq B \cup I
        /\ w < v => W \subseteq B
    BY DEF Below, UpTo, Between
  <1>2. /\ IsFiniteSet(B) /\ IsFiniteSet(W) /\ IsFiniteSet(I)
        /\ Cardinality(B) \in Nat /\ Cardinality(W) \in Nat /\ Cardinality(I) \in Nat
    <2> HIDE DEF B, W, I
    <2> QED BY <1>1, FinitePoints
  <1>3. Cardinality(B) < k /\ Cardinality(W) >= l
    OBVIOUS
  <1> HIDE DEF B, W, I
  <1>4. v <= w
    <2> SUFFICES ASSUME w < v PROVE FALSE
      OBVIOUS
    <2>1. Cardinality(W) <= Cardinality(B)
      BY <1>1, <1>2, FS_Subset
    <2> QED BY <1>2, <1>3, <2>1
  <1>5. Cardinality(W) <= Cardinality(B) + Cardinality(I)
    <2>1. /\ IsFiniteSet(B \cup I)
          /\ Cardinality(B \cup I) = Cardinality(B) + Cardinality(I) - Cardinality(B \cap I)
      BY <1>2, FS_Union
    <2>2. Cardinality(B \cap I) \in Nat
      <3>1. B \cap I \in SUBSET (1..n)
        BY <1>1
      <3> QED BY <3>1, FinitePoints
    <2>3. Cardinality(W) <= Cardinality(B \cup I)
      BY <1>1, <2>1, FS_Subset
    <2> DEFINE w0 == Cardinality(W)
               u0 == Cardinality(B \cup I)
               b0 == Cardinality(B)
               i0 == Cardinality(I)
               c0 == Cardinality(B \cap I)
    <2>4. /\ w0 \in Nat /\ b0 \in Nat /\ i0 \in Nat /\ c0 \in Nat
          /\ u0 = b0 + i0 - c0 /\ w0 <= u0
      BY <1>2, <2>1, <2>2, <2>3
    <2> HIDE DEF w0, u0, b0, i0, c0
    <2>5. w0 <= b0 + i0
      BY <2>4
    <2> QED BY <2>5 DEF w0, b0, i0
  <1>6. Cardinality(I) >= l - k + 1
    BY <1>2, <1>3, <1>5
  <1> QED BY <1>4, <1>6 DEF I

\* The value of rank k in the model's order.
LEMMA SortedFacts ==
  ASSUME N \in Nat, NEW r \in [Points -> Int], NEW k \in 1..N
  PROVE  /\ Sorted(r, k) \in Int
         /\ \E i \in Points : Sorted(r, k) = r[i]
         /\ Cardinality(Below(r, N, Sorted(r, k))) < k
         /\ Cardinality(UpTo(r, N, Sorted(r, k))) >= k
  <1> DEFINE n == N
             V == {r[i] : i \in Points}
             Ranked(v) == Cardinality(Below(r, n, v)) < k /\ Cardinality(UpTo(r, n, v)) >= k
  <1>1. Points = 1..n /\ r \in [1..n -> Int]
    BY DEF Points
  <1>2. Sorted(r, k) = CHOOSE v \in V : Ranked(v)
    BY DEF Sorted, Below, UpTo, Points
  <1>3. \E v \in V : Ranked(v)
    <2> HIDE DEF n
    <2>1. n \in Nat /\ k \in 1..n
      BY DEF n
    <2>2. PICK i \in 1..n : Ranked(r[i])
      BY <1>1, <2>1, RankedValue
    <2> QED BY <1>1, <2>2
  <1>4. V \subseteq Int
    BY <1>1
  <1> HIDE DEF V
  <1>5. Sorted(r, k) \in V /\ Ranked(Sorted(r, k))
    <2> HIDE DEF Ranked
    <2> QED BY <1>2, <1>3
  <1>6. \E i \in Points : Sorted(r, k) = r[i]
    BY <1>5 DEF V
  <1> QED BY <1>4, <1>5, <1>6

\* Half of the points lie between the quartiles, and so among the inliers.
LEMMA HalfAreInliers ==
  ASSUME N \in Nat, N >= 1, NEW r \in [Points -> Int]
  PROVE  Inliers(r) \in SUBSET Points /\ 2 * Cardinality(Inliers(r)) >= N
  <1> DEFINE n  == N
             k  == n \div 4 + 1
             l  == (3 * n) \div 4 + 1
             Q1 == Sorted(r, k)
             Q3 == Sorted(r, l)
             I  == Between(r, n, Q1, Q3)
             J  == Inliers(r)
  <1>1. n \in Nat /\ n >= 1 /\ Points = 1..n /\ r \in [1..n -> Int]
    BY DEF Points
  <1>2. k \in 1..n /\ l \in k..n /\ l \in 1..n /\ 2 * (l - k + 1) >= n
    <2> HIDE DEF n
    <2> QED BY <1>1
  <1>3. /\ Q1 \in Int /\ Cardinality(Below(r, n, Q1)) < k
        /\ Q3 \in Int /\ Cardinality(UpTo(r, n, Q3)) >= l
    <2> HIDE DEF k, l
    <2> QED BY <1>2, SortedFacts
  <1>4. J = {i \in Points : 2 * r[i] \in (2 * Q1 - 3 * (Q3 - Q1))..(2 * Q3 + 3 * (Q3 - Q1))}
    BY DEF Inliers
  <1> HIDE DEF n, k, l, Q1, Q3, J
  <1>5. Q1 <= Q3 /\ Cardinality(I) >= l - k + 1
    BY <1>1, <1>2, <1>3, PointsBetween
  <1>6. I \subseteq J /\ J \in SUBSET (1..n)
    <2>1. J \in SUBSET (1..n)
      BY <1>1, <1>4
    <2>2. ASSUME NEW i \in I
          PROVE  i \in J
      <3>1. i \in 1..n /\ r[i] \in Int /\ Q1 <= r[i] /\ r[i] <= Q3
        BY <1>1 DEF Between
      <3>2. 2 * r[i] \in (2 * Q1 - 3 * (Q3 - Q1))..(2 * Q3 + 3 * (Q3 - Q1))
        BY <1>3, <1>5, <3>1
      <3> QED BY <1>1, <1>4, <3>1, <3>2
    <2> QED BY <2>1, <2>2
  <1>7. Cardinality(I) <= Cardinality(J) /\ Cardinality(J) \in Nat /\ Cardinality(I) \in Nat
    <2>1. I \in SUBSET (1..n)
      BY DEF Between
    <2> HIDE DEF I
    <2> QED BY <1>1, <1>6, <2>1, FinitePoints, FS_Subset
  <1>8. 2 * Cardinality(J) >= n
    <2> HIDE DEF I
    <2> QED BY <1>1, <1>2, <1>5, <1>7
  <1> QED BY <1>1, <1>6, <1>8 DEF J, n

\* A value that lies above all others, or below them, has an outer rank.
LEMMA ExtremeRank ==
  ASSUME NEW n \in Nat, NEW r \in [1..n -> Int], NEW k \in 1..n, NEW p \in 2..(n - 1),
         Cardinality(Below(r, n, r[k])) < p, Cardinality(UpTo(r, n, r[k])) >= p
  PROVE  /\ ~ \A i \in (1..n) \ {k} : r[i] < r[k]
         /\ ~ \A i \in (1..n) \ {k} : r[k] < r[i]
  <1>1. \A i \in 1..n : r[i] \in Int
    OBVIOUS
  <1>2. ASSUME \A i \in (1..n) \ {k} : r[i] < r[k]
        PROVE  FALSE
    <2>1. Below(r, n, r[k]) = (1..n) \ {k}
      BY <1>1, <1>2 DEF Below
    <2>2. Cardinality((1..n) \ {k}) = n - 1
      <3>1. IsFiniteSet(1..n) /\ Cardinality(1..n) = n
        BY FS_Interval
      <3> QED BY <3>1, FS_RemoveElement
    <2> QED BY <2>1, <2>2
  <1>3. ASSUME \A i \in (1..n) \ {k} : r[k] < r[i]
        PROVE  FALSE
    <2>1. UpTo(r, n, r[k]) = {k}
      <3>1. \A i \in 1..n : r[i] <= r[k] <=> i = k
        BY <1>1, <1>3
      <3> QED BY <3>1 DEF UpTo
    <2>2. Cardinality({k}) = 1
      BY FS_Singleton
    <2> QED BY <2>1, <2>2
  <1> QED BY <1>2, <1>3

\* The quartiles of five values or more are not the one that lies apart, and it lies
\* outside of them by more than 1.5 times their distance.
LEMMA OutsideQuartiles ==
  ASSUME N \in Nat, N >= 5, NEW r \in [Points -> Int], NEW k \in Points,
         NEW D \in Nat, Apart(r, N, k, D)
  PROVE  k \notin Inliers(r)
  <1> DEFINE n  == N
             p  == n \div 4 + 1
             l  == (3 * n) \div 4 + 1
             Q1 == Sorted(r, p)
             Q3 == Sorted(r, l)
  <1>1. n \in Nat /\ n >= 5 /\ Points = 1..n /\ r \in [1..n -> Int] /\ k \in 1..n
    BY DEF Points
  <1>2. p \in 2..(n - 1) /\ l \in 2..(n - 1) /\ p \in 1..n /\ l \in 1..n
    <2> HIDE DEF n
    <2> QED BY <1>1
  <1>3. k \in Inliers(r) => 2 * r[k] \in (2 * Q1 - 3 * (Q3 - Q1))..(2 * Q3 + 3 * (Q3 - Q1))
    BY DEF Inliers
  <1>4. Apart(r, n, k, D)
    OBVIOUS
  <1>5. \A i \in 1..n : r[i] \in Int
    BY <1>1
  <1>7. \/ \A i \in (1..n) \ {k} : r[i] < r[k]
        \/ \A i \in (1..n) \ {k} : r[k] < r[i]
    <2> HIDE DEF n
    <2>1. ASSUME \A i \in (1..n) \ {k} : 4 * (r[k] - r[i]) > 3 * D
          PROVE  \A i \in (1..n) \ {k} : r[i] < r[k]
      <3> SUFFICES ASSUME NEW i \in (1..n) \ {k} PROVE r[i] < r[k]
        OBVIOUS
      <3>1. r[i] \in Int /\ r[k] \in Int /\ 4 * (r[k] - r[i]) > 3 * D
        BY <1>1, <1>5, <2>1
      <3> QED BY <3>1
    <2>2. ASSUME \A i \in (1..n) \ {k} : 4 * (r[i] - r[k]) > 3 * D
          PROVE  \A i \in (1..n) \ {k} : r[k] < r[i]
      <3> SUFFICES ASSUME NEW i \in (1..n) \ {k} PROVE r[k] < r[i]
        OBVIOUS
      <3>1. r[i] \in Int /\ r[k] \in Int /\ 4 * (r[i] - r[k]) > 3 * D
        BY <1>1, <1>5, <2>2
      <3> QED BY <3>1
    <2> QED BY <1>4, <2>1, <2>2 DEF Apart
  <1>8. ASSUME NEW m \in 2..(n - 1), m \in 1..n
        PROVE  \E i \in (1..n) \ {k} : Sorted(r, m) = r[i]
    <2>1. PICK i \in 1..n : Sorted(r, m) = r[i]
      BY <1>1, <1>8, SortedFacts
    <2>2. Cardinality(Below(r, n, r[i])) < m /\ Cardinality(UpTo(r, n, r[i])) >= m
      BY <1>1, <1>8, <2>1, SortedFacts
    <2> HIDE DEF n
    <2>3. i /= k
      <3> SUFFICES ASSUME i = k PROVE FALSE
        OBVIOUS
      <3>1. Cardinality(Below(r, n, r[k])) < m /\ Cardinality(UpTo(r, n, r[k])) >= m
        BY <2>2
      <3> QED BY <1>1, <1>7, <1>8, <3>1, ExtremeRank
    <2> QED BY <2>1, <2>3
  <1>9. PICK i \in (1..n) \ {k} : Q1 = r[i]
    <2> HIDE DEF p, n
    <2> QED BY <1>2, <1>8
  <1>10. PICK j \in (1..n) \ {k} : Q3 = r[j]
    <2> HIDE DEF l, n
    <2> QED BY <1>2, <1>8
  <1> DEFINE v == r[k]
  <1>11. Q1 \in Int /\ Q3 \in Int /\ v \in Int /\ 2 * (Q3 - Q1) <= D
    <2> HIDE DEF n, Q1, Q3
    <2> QED BY <1>1, <1>4, <1>5, <1>9, <1>10 DEF Apart
  <1>12. 4 * (v - Q3) > 3 * D \/ 4 * (Q1 - v) > 3 * D
    <2> HIDE DEF n, Q1, Q3
    <2> QED BY <1>4, <1>9, <1>10 DEF Apart
  <1> HIDE DEF n, Q1, Q3, v
  <1>13. 2 * v \notin (2 * Q1 - 3 * (Q3 - Q1))..(2 * Q3 + 3 * (Q3 - Q1))
    BY <1>11, <1>12
  <1> QED BY <1>3, <1>13 DEF v

-----------------------------------------------------------------------------
(* The floats of the client's clock.                                       *)

LEMMA FitConstants ==
  /\ Rate \in Nat \ {0} /\ Offset \in Nat
  /\ Mantissa \in Nat \ {0} /\ Mantissa % 2 = 0 /\ MaxEchoes \in Nat
  /\ Gaps \subseteq Nat \ {0} /\ Delays \subseteq Nat /\ Horizon \in Nat
  BY TimeFitAssumption, TimeBufferAssumption, Zenon

\* 2^n is the number of sets of n bits.
LEMMA PowerIsCardinality ==
  ASSUME NEW n \in Nat
  PROVE  IsFiniteSet(SUBSET (1..n)) /\ Cardinality(SUBSET (1..n)) = 2^n
  <1>1. IsFiniteSet(1..n) /\ Cardinality(1..n) = n
    BY FS_Interval
  <1> QED BY <1>1, FS_SUBSET

\* A power of two is a positive number.
LEMMA PowerIsPositive ==
  ASSUME NEW n \in Nat
  PROVE  2^n \in Nat \ {0}
  <1>1. IsFiniteSet(SUBSET (1..n)) /\ Cardinality(SUBSET (1..n)) = 2^n
    BY PowerIsCardinality
  <1>2. {} \in SUBSET (1..n)
    OBVIOUS
  <1>3. Cardinality(SUBSET (1..n)) /= 0
    BY <1>1, <1>2, FS_EmptySet
  <1> QED BY <1>1, <1>3, FS_CardinalityType

\* x is written with e bits less than it has.
Scale(x, e) ==
  /\ e \in 0..20
  /\ x < Mantissa * 2^e
  /\ e = 0 \/ x >= Mantissa * 2^(e - 1)

LEMMA ScaleExists ==
  ASSUME NEW x \in Nat, x < Mantissa * 2^20
  PROVE  \E e \in 0..20 : Resolution(x) = 2^e /\ Scale(x, e)
  <1> DEFINE E == {e \in 0..20 : x < Mantissa * 2^e}
  <1>1. PICK e \in E : \A k \in E : e <= k
    <2>1. E \subseteq Nat /\ 20 \in E
      OBVIOUS
    <2> HIDE DEF E
    <2> QED BY <2>1, LeastNatural
  <1>2. e \in 0..20 /\ x < Mantissa * 2^e
    OBVIOUS
  <1>3. e = 0 \/ x >= Mantissa * 2^(e - 1)
    <2> SUFFICES ASSUME e /= 0
                 PROVE  x >= Mantissa * 2^(e - 1)
      OBVIOUS
    <2>1. e - 1 \in 0..20 /\ e - 1 \notin E
      <3> HIDE DEF E
      <3> QED BY <1>1, <1>2
    <2>2. ~ (x < Mantissa * 2^(e - 1))
      BY <2>1
    <2> DEFINE p == Mantissa * 2^(e - 1)
    <2>3. p \in Nat
      <3>1. e - 1 \in Nat
        BY <2>1
      <3>2. 2^(e - 1) \in Nat
        BY <3>1, PowerIsPositive
      <3> QED BY <3>2, FitConstants
    <2> HIDE DEF p
    <2>4. ~ (x < p)
      BY <2>2 DEF p
    <2> QED BY <2>3, <2>4 DEF p
  <1>4. \E k \in 0..20 : Scale(x, k)
    BY <1>2, <1>3 DEF Scale
  <1> DEFINE c == CHOOSE k \in 0..20 : /\ x < Mantissa * 2^k
                                       /\ k = 0 \/ x >= Mantissa * 2^(k - 1)
  <1>5. Scale(x, c) /\ c \in 0..20
    BY <1>4 DEF Scale
  <1>6. Resolution(x) = 2^c
    BY DEF Resolution
  <1> HIDE DEF c
  <1> QED BY <1>5, <1>6

LEMMA ResolutionIsPositive ==
  ASSUME NEW x \in Nat, x < Mantissa * 2^20
  PROVE  Resolution(x) \in Nat \ {0}
  <1>1. PICK e \in 0..20 : Resolution(x) = 2^e
    BY ScaleExists
  <1>2. e \in Nat
    OBVIOUS
  <1> QED BY <1>1, <1>2, PowerIsPositive

LEMMA Quotient ==
  ASSUME NEW a \in Nat, NEW b \in Nat \ {0}
  PROVE  a \div b \in Nat /\ b * (a \div b) <= a /\ a < b * (a \div b) + b
  OBVIOUS

\* A float lies within half a step of the number.
LEMMA FloatIsNear ==
  ASSUME NEW x \in Nat, Resolution(x) \in Nat \ {0}
  PROVE  /\ Float(x) \in Nat
         /\ 2 * Float(x) <= 2 * x + Resolution(x)
         /\ 2 * x <= 2 * Float(x) + Resolution(x)
         /\ Float(x) >= Resolution(x) * (x \div Resolution(x))
  <1> DEFINE ulp  == Resolution(x)
             down == x \div ulp
             low  == ulp * down
             rest == x - low
             up   == ulp * (down + 1)
  <1>1. /\ ulp \in Nat \ {0} /\ down \in Nat /\ low \in Nat /\ rest \in Nat
        /\ x = low + rest /\ rest < ulp
    <2>1. ulp \in Nat \ {0}
      OBVIOUS
    <2>2. down \in Nat /\ low <= x /\ x < low + ulp
      <3> HIDE DEF ulp
      <3> QED BY <2>1, Quotient
    <2>3. low \in Nat
      <3> HIDE DEF ulp, down
      <3> QED BY <2>1, <2>2
    <2> HIDE DEF ulp, low, down
    <2> QED BY <2>1, <2>2, <2>3
  <1>2. Float(x) = IF 2 * rest > ulp \/ (2 * rest = ulp /\ down % 2 = 1) THEN up ELSE low
    BY DEF Float
  <1> HIDE DEF ulp, down, rest
  <1>3. low \in Nat /\ up = low + ulp /\ up \in Nat
    BY <1>1
  <1> HIDE DEF up, low
  <1>4. CASE 2 * rest >= ulp /\ Float(x) = up
    BY <1>1, <1>3, <1>4 DEF ulp, low, down
  <1>5. CASE 2 * rest <= ulp /\ Float(x) = low
    BY <1>1, <1>3, <1>5 DEF ulp, low, down
  <1>6. (2 * rest >= ulp /\ Float(x) = up) \/ (2 * rest <= ulp /\ Float(x) = low)
    BY <1>1, <1>2
  <1> QED BY <1>4, <1>5, <1>6

-----------------------------------------------------------------------------
(* The points of an export.                                                *)

\* The echoes that arrived, each with its times, in order: sent one after the other, read
\* by the client and by the host no later than the next.
StampSet == [sent : Nat, received : Nat, local_time : Nat]

InSequence(s, n) ==
  \A i, j \in 1..n : i < j => /\ s[i].sent < s[j].sent
                              /\ s[i].received <= s[j].received
                              /\ s[i].local_time <= s[j].local_time

\* An echo of a timestamp that the client read at some instant before Horizon.
ReadInBetween(echo) ==
  \E d1, d2 \in Nat :
    /\ echo = [sent |-> echo.sent, received |-> echo.sent + d1 + d2,
               local_time |-> Clock(echo.sent + d1)]
    /\ echo.received <= Horizon

StampsAreEchoes ==
  /\ echoes \in 0..MaxEchoes
  /\ stamps \in Seq(StampSet)
  /\ Len(stamps) = echoes
  /\ \A i \in 1..echoes : ReadInBetween(stamps[i])
  /\ InSequence(stamps, echoes)

\* Until the last echo arrives a reading has an exponent that Resolution finds.
LEMMA InHorizon ==
  ASSUME NEW t \in Nat, t <= Horizon
  PROVE  /\ Rate * t + Offset \in Nat
         /\ Rate * t + Offset < Mantissa * 2^20
  <1>1. Rate * Horizon + Offset < Mantissa * 2^20 /\ Horizon \in Nat
    BY TimeFitAssumption, SMT
  <1>2. Rate * t \in Nat /\ Rate * Horizon \in Nat /\ Rate * t <= Rate * Horizon
    BY <1>1, FitConstants
  <1>3. Mantissa * 2^20 \in Nat
    <2>1. 2^20 \in Nat
      BY PowerIsPositive
    <2> DEFINE p == 2^20
    <2>2. p \in Nat
      BY <2>1
    <2> HIDE DEF p
    <2>3. Mantissa * p \in Nat
      BY <2>2, FitConstants
    <2> QED BY <2>3 DEF p
  <1> DEFINE top == Mantissa * 2^20
             u   == Rate * t
             v   == Rate * Horizon
  <1>4. u \in Nat /\ v \in Nat /\ u <= v /\ top \in Nat /\ v + Offset < top /\ Offset \in Nat
    BY <1>1, <1>2, <1>3, FitConstants
  <1> HIDE DEF top, u, v
  <1>5. u + Offset \in Nat /\ u + Offset < top
    BY <1>4
  <1> QED BY <1>5 DEF u, top

\* A reading of the clock is its time, rounded by no more than half a step.
LEMMA ClockFacts ==
  ASSUME NEW t \in Nat, t <= Horizon
  PROVE  LET u   == Rate * t + Offset
             ulp == Resolution(u)
         IN  /\ u \in Nat /\ ulp \in Nat \ {0} /\ Clock(t) \in Nat
             /\ 2 * Clock(t) <= 2 * u + ulp /\ 2 * u <= 2 * Clock(t) + ulp
  <1> DEFINE u   == Rate * t + Offset
             ulp == Resolution(u)
  <1>1. u \in Nat /\ u < Mantissa * 2^20
    BY InHorizon
  <1>2. Clock(t) = Float(u)
    BY DEF Clock
  <1> HIDE DEF u
  <1>3. ulp \in Nat \ {0}
    BY <1>1, ResolutionIsPositive
  <1>4. Float(u) \in Nat /\ 2 * Float(u) <= 2 * u + ulp /\ 2 * u <= 2 * Float(u) + ulp
    BY <1>1, <1>3, FloatIsNear
  <1> QED BY <1>1, <1>2, <1>3, <1>4 DEF u

LEMMA EchoedFacts ==
  ASSUME NEW sent \in Nat, NEW d1 \in Delays, NEW d2 \in Delays,
         Echoed(sent, d1, d2).received <= Horizon
  PROVE  /\ Echoed(sent, d1, d2) \in StampSet
         /\ ReadInBetween(Echoed(sent, d1, d2))
  <1> DEFINE echo == Echoed(sent, d1, d2)
  <1>1. /\ echo = [sent |-> sent, received |-> sent + d1 + d2, local_time |-> Clock(sent + d1)]
        /\ echo.sent = sent /\ echo.received = sent + d1 + d2
        /\ d1 \in Nat /\ d2 \in Nat /\ Horizon \in Nat
    BY FitConstants DEF Echoed
  <1> HIDE DEF echo
  <1>2. sent + d1 \in Nat /\ sent + d1 <= Horizon /\ sent + d1 + d2 \in Nat
    BY <1>1 DEF echo
  <1>3. Clock(sent + d1) \in Nat
    BY <1>2, ClockFacts
  <1>4. echo \in StampSet
    BY <1>1, <1>2, <1>3 DEF StampSet
  <1>5. echo.received <= Horizon
    BY DEF echo
  <1> QED BY <1>1, <1>4, <1>5 DEF ReadInBetween, echo

\* In the first measurement the points of the export are the stored echoes.
FirstExport ==
  /\ IInv
  /\ StampsAreEchoes
  /\ starts <= 1
  /\ N >= 2

LEMMA PointFacts ==
  ASSUME FirstExport
  PROVE  /\ N \in Nat /\ N <= echoes /\ 1 \in Points
         /\ \A i \in Points : i \in 1..MaxEchoes /\ Times(i) = stamps[i]
  <1>1. N \in Nat /\ echoes \in Nat /\ starts \in Nat
    BY DEF FirstExport, IInv, TypeOK, N
  <1>2. N <= echoes
    BY <1>1 DEF FirstExport, IInv, TypeOK, OnlyLastEchoLost, N
  <1>3. 1 \in Points
    BY <1>1 DEF FirstExport, Points
  <1>4. ASSUME NEW i \in Points
        PROVE  i \in 1..MaxEchoes /\ Times(i) = stamps[i]
    <2>1. i - 1 \in 0..(N - 1)
      BY <1>1 DEF Points
    <2>2. client_time_sync[i - 1] = (i - 1) + 1
      BY <2>1 DEF FirstExport, IInv, EntriesAreEchoes, N
    <2>3. i \in Nat /\ i >= 1 /\ i <= N
      BY <1>1 DEF Points
    <2>4. client_time_sync[i - 1] = i /\ i /= Zeroed
      BY <2>2, <2>3 DEF Zeroed
    <2>5. i \in 1..MaxEchoes
      BY <1>1, <1>2, <2>3, FitConstants DEF FirstExport, StampsAreEchoes
    <2> QED BY <2>4, <2>5 DEF Times
  <1> QED BY <1>1, <1>2, <1>3, <1>4

LEMMA StampFacts ==
  ASSUME FirstExport, NEW i \in Points
  PROVE  /\ Times(i) = stamps[i] /\ ReadInBetween(stamps[i])
         /\ stamps[i].sent \in Nat /\ stamps[i].received \in Nat /\ stamps[i].local_time \in Nat
  <1>1. i \in 1..echoes /\ Times(i) = stamps[i]
    BY PointFacts DEF Points, FirstExport, StampsAreEchoes
  <1>2. stamps[i] \in StampSet /\ ReadInBetween(stamps[i])
    BY <1>1 DEF FirstExport, StampsAreEchoes
  <1> QED BY <1>1, <1>2 DEF StampSet

\* The points rise: a later timestamp has a later midpoint and no earlier local time.
LEMMA PointsRise ==
  ASSUME FirstExport
  PROVE  /\ t_mid2 \in [Points -> Int] /\ lt \in [Points -> Int]
         /\ Rising(N, t_mid2, lt) /\ Rising(N, t_mid2, t_mid2)
  <1>1. ASSUME NEW i \in Points
        PROVE  /\ Times(i).sent \in Nat /\ Times(i).received \in Nat
               /\ Times(i).local_time \in Nat
    BY StampFacts
  <1>2. first.sent \in Nat /\ first.local_time \in Nat
    BY <1>1, PointFacts DEF first
  <1> DEFINE s == first.sent
             l == first.local_time
  <1>3. ASSUME NEW i \in Points
        PROVE  /\ t_mid2[i] = Times(i).sent + Times(i).received - 2 * s
               /\ lt[i] = Times(i).local_time - l
    BY DEF t_mid2, lt
  <1> HIDE DEF s, l
  <1>4. t_mid2 \in [Points -> Int] /\ lt \in [Points -> Int]
    BY <1>1, <1>2 DEF t_mid2, lt
  <1>5. ASSUME NEW i \in Points, NEW j \in Points, i < j
        PROVE  t_mid2[i] < t_mid2[j] /\ lt[i] <= lt[j]
    <2>1. i \in 1..echoes /\ j \in 1..echoes /\ Times(i) = stamps[i] /\ Times(j) = stamps[j]
      BY PointFacts DEF Points, FirstExport, StampsAreEchoes
    <2>2. /\ Times(i).sent < Times(j).sent
          /\ Times(i).received <= Times(j).received
          /\ Times(i).local_time <= Times(j).local_time
      BY <1>5, <2>1 DEF FirstExport, StampsAreEchoes, InSequence
    <2>3. /\ Times(i).sent \in Nat /\ Times(i).received \in Nat /\ Times(i).local_time \in Nat
          /\ Times(j).sent \in Nat /\ Times(j).received \in Nat /\ Times(j).local_time \in Nat
          /\ s \in Nat /\ l \in Nat
      BY <1>1, <1>2 DEF s, l
    <2>4. /\ t_mid2[i] = Times(i).sent + Times(i).received - 2 * s
          /\ t_mid2[j] = Times(j).sent + Times(j).received - 2 * s
          /\ lt[i] = Times(i).local_time - l /\ lt[j] = Times(j).local_time - l
      BY <1>3
    <2> QED BY <2>2, <2>3, <2>4
  <1>6. \A i \in Points : t_mid2[i] \in Int
    BY <1>4
  <1>7. ASSUME NEW i \in Points, NEW j \in Points, i < j
        PROVE  t_mid2[i] <= t_mid2[j]
    BY <1>5, <1>6, <1>7
  <1> QED BY <1>4, <1>5, <1>7 DEF Rising, Points

-----------------------------------------------------------------------------
(* The line of an export.                                                  *)

\* Whatever points the regression uses: with two of them it finds a line, which does
\* not fall, and rises when the client's clock did.
LineOf(line, S) ==
  /\ line = Regression(S)
  /\ line \in [a : Int, b : Int, den : Int]
  /\ line.a >= 0 /\ line.den >= 0
  /\ Cardinality(S) >= 2 => line.den > 0
  /\ line.a > 0 \/ \A i, j \in S : lt[i] = lt[j]

LEMMA RegressionRises ==
  ASSUME FirstExport, NEW S \in SUBSET Points
  PROVE  LineOf(Regression(S), S)
  <1> DEFINE n  == N
             x  == t_mid2
             y  == lt
             xx == Product(x, x)
             xy == Product(x, y)
             M   == Cardinality(S)
             Sx  == Sum(x, S, n)
             Sy  == Sum(y, S, n)
             Sxx == Sum(xx, S, n)
             Sxy == Sum(xy, S, n)
  <1>1. /\ n \in Nat /\ S \in SUBSET (1..n)
        /\ x \in [1..n -> Int] /\ y \in [1..n -> Int]
        /\ Rising(n, x, y) /\ Rising(n, x, x)
    BY PointFacts, PointsRise DEF Points
  <1>2. Regression(S) = [a   |-> M * Sxy - Sx * Sy,
                         b   |-> Sy * Sxx - Sx * Sxy,
                         den |-> M * Sxx - Sx * Sx]
    BY DEF Regression
  <1>3. xx = [i \in 1..n |-> x[i] * x[i]] /\ xy = [i \in 1..n |-> x[i] * y[i]]
    BY DEF Product, Points
  <1>4. M >= 2 => \E i, j \in S : x[i] < x[j]
    <2> SUFFICES ASSUME M >= 2 PROVE \E i, j \in S : x[i] < x[j]
      OBVIOUS
    <2>1. PICK i \in S, j \in S : i /= j
      <3>1. IsFiniteSet(S)
        BY <1>1, FinitePoints
      <3> SUFFICES ASSUME \A i, j \in S : i = j PROVE FALSE
        OBVIOUS
      <3>2. S /= {}
        BY FS_EmptySet
      <3>3. PICK k \in S : S = {k}
        BY <3>2
      <3>4. M = 1
        BY <3>3, FS_Singleton
      <3> QED BY <3>4
    <2>2. i \in 1..n /\ j \in 1..n
      BY <1>1, <2>1
    <2>3. i < j \/ j < i
      BY <2>1, <2>2
    <2> QED BY <1>1, <2>1, <2>2, <2>3 DEF Rising
  <1>5. \A i \in S : y[i] \in Int
    BY <1>1
  <1> HIDE DEF n, x, y, xx, xy
  <1>6. xx \in [1..n -> Int] /\ xy \in [1..n -> Int]
    <2>1. \A i \in 1..n : x[i] \in Int /\ y[i] \in Int
      BY <1>1
    <2>2. \A i \in 1..n : x[i] * x[i] \in Int /\ x[i] * y[i] \in Int
      BY <2>1, ProductType, Zenon
    <2> QED BY <1>3, <2>2
  <1>7. M \in Nat /\ Sx \in Int /\ Sy \in Int /\ Sxx \in Int /\ Sxy \in Int
    BY <1>1, <1>6, SumType, FinitePoints
  <1>8. CrossPositive(x, y, xy, S, n) /\ CrossPositive(x, x, xx, S, n)
    BY <1>1, <1>3, CrossOfPoints
  <1> DEFINE a   == M * Sxy - Sx * Sy
             b   == Sy * Sxx - Sx * Sxy
             den == M * Sxx - Sx * Sx
  <1>9. a \in Int /\ b \in Int /\ den \in Int
    <2> HIDE DEF M, Sx, Sy, Sxx, Sxy
    <2> QED BY <1>7
  <1>10. /\ a \in Nat /\ ((\E i, j \in S : y[i] < y[j]) => a > 0)
         /\ den \in Nat /\ ((\E i, j \in S : x[i] < x[j]) => den > 0)
    BY <1>8 DEF CrossPositive
  <1>11. Regression(S) = [a |-> a, b |-> b, den |-> den]
    BY <1>2
  <1> HIDE DEF a, b, den, M
  <1>12. a > 0 \/ \A i, j \in S : y[i] = y[j]
    BY <1>5, <1>10
  <1> QED BY <1>4, <1>9, <1>10, <1>11, <1>12 DEF LineOf, y, M

\* The first pass finds a line.
LEMMA FirstLine ==
  ASSUME FirstExport
  PROVE  /\ LineOf(FirstPass, Points)
         /\ FirstPass \in [a : Int, b : Int, den : Int] /\ FirstPass.den > 0
         /\ Residuals(FirstPass) \in [Points -> Int]
  <1> DEFINE line1 == FirstPass
             r     == Residuals(line1)
  <1>1. N \in Nat /\ N >= 2 /\ Points = 1..N
    BY PointFacts DEF FirstExport, Points
  <1>2. Cardinality(Points) = N
    BY <1>1, FS_Interval
  <1>3. line1 = Regression(Points)
    <2>1. Regression(Points).den > 0 /\ Regression(Points).den \in Int
      BY <1>1, <1>2, RegressionRises DEF LineOf
    <2> QED BY <2>1 DEF FirstPass
  <1>4. LineOf(line1, Points) /\ line1 \in [a : Int, b : Int, den : Int] /\ line1.den > 0
    BY <1>1, <1>2, <1>3, RegressionRises DEF LineOf
  <1> HIDE DEF line1
  <1>5. r \in [Points -> Int]
    <2>1. line1.a \in Int /\ line1.b \in Int /\ line1.den \in Int
      BY <1>4
    <2> DEFINE a == line1.a
               b == line1.b
               den == line1.den
    <2>2. a \in Int /\ b \in Int /\ den \in Int
      BY <2>1
    <2>3. r = [i \in Points |-> den * lt[i] - (a * t_mid2[i] + b)]
      BY DEF Residuals
    <2> HIDE DEF a, b, den, r
    <2>4. \A i \in Points : den * lt[i] - (a * t_mid2[i] + b) \in Int
      <3> SUFFICES ASSUME NEW i \in Points
                   PROVE  den * lt[i] - (a * t_mid2[i] + b) \in Int
        OBVIOUS
      <3> DEFINE p == lt[i]
                 q == t_mid2[i]
      <3>1. p \in Int /\ q \in Int
        BY PointsRise
      <3> HIDE DEF p, q
      <3>2. den * p - (a * q + b) \in Int
        BY <2>2, <3>1
      <3> QED BY <3>2 DEF p, q
    <2> QED BY <2>3, <2>4
  <1> QED BY <1>3, <1>4, <1>5 DEF line1

\* The export has a line: the one through the inliers, unless there is only one.
LEMMA ExportedLine ==
  ASSUME FirstExport
  PROVE  LET inliers == Inliers(Residuals(FirstPass))
             line    == SecondPass(FirstPass, inliers)
         IN  /\ inliers \in SUBSET Points
             /\ 2 * Cardinality(inliers) >= N
             /\ line \in [a : Int, b : Int, den : Int]
             /\ line.a >= 0 /\ line.den > 0
             /\ line.a > 0 \/ \A i, j \in inliers : lt[i] = lt[j]
             /\ Cardinality(inliers) >= 2 => line = Regression(inliers)
  <1> DEFINE line1   == FirstPass
             r       == Residuals(line1)
             inliers == Inliers(r)
             line    == SecondPass(line1, inliers)
             M       == Cardinality(inliers)
  <1>1. N \in Nat /\ N >= 2 /\ Points = 1..N
    BY PointFacts DEF FirstExport, Points
  <1>2. /\ LineOf(line1, Points) /\ line1 \in [a : Int, b : Int, den : Int] /\ line1.den > 0
        /\ r \in [Points -> Int]
    BY FirstLine
  <1> HIDE DEF line1, r
  <1>3. inliers \in SUBSET Points /\ 2 * M >= N
    BY <1>1, <1>2, HalfAreInliers
  <1> HIDE DEF inliers
  <1>4. LineOf(Regression(inliers), inliers) /\ M \in Nat
    BY <1>1, <1>3, RegressionRises, FinitePoints
  <1>5. line = IF M >= 2 /\ Regression(inliers).den /= 0 THEN Regression(inliers) ELSE line1
    BY DEF SecondPass
  <1> HIDE DEF line, M
  <1>6. CASE M >= 2
    <2>1. line = Regression(inliers)
      BY <1>4, <1>5, <1>6 DEF LineOf, M
    <2> QED BY <1>3, <1>4, <1>6, <2>1 DEF LineOf, line, inliers, r, line1, M
  <1>7. CASE ~(M >= 2)
    <2>1. line = line1
      BY <1>5, <1>7
    <2>2. line1.a > 0 \/ \A i, j \in inliers : lt[i] = lt[j]
      BY <1>2, <1>3 DEF LineOf
    <2> QED BY <1>2, <1>3, <1>7, <2>1, <2>2 DEF LineOf, line, inliers, r, line1, M
  <1> QED BY <1>6, <1>7

\* Twice the height of the line of the client's clock at the first timestamp.
Start2 == 2 * (Rate * stamps[1].sent + Offset - stamps[1].local_time)

Offs == [i \in Points |-> Off(i)]

\* Off is how far a point lies from that line.
LEMMA OffTheClock ==
  ASSUME FirstExport, NEW i \in Points
  PROVE  /\ Start2 \in Int /\ Off(i) \in Int
         /\ 2 * lt[i] = Rate * t_mid2[i] + Start2 + Off(i)
  <1> DEFINE p  == stamps[i].sent
             v  == stamps[i].received
             l  == stamps[i].local_time
             s1 == stamps[1].sent
             l1 == stamps[1].local_time
  <1>1. 1 \in Points
    BY PointFacts
  <1>2. p \in Int /\ v \in Int /\ l \in Int /\ s1 \in Int /\ l1 \in Int
    BY <1>1, StampFacts
  <1>3. Rate \in Int /\ Offset \in Int
    BY FitConstants
  <1>4. t_mid2[i] = p + v - 2 * s1 /\ lt[i] = l - l1
    BY <1>1, StampFacts DEF t_mid2, lt, first
  <1>5. Start2 = 2 * (Rate * s1 + Offset - l1) /\ Off(i) = 2 * l - (Rate * (p + v) + 2 * Offset)
    BY DEF Start2, Off
  <1> HIDE DEF p, v, l, s1, l1
  <1> DEFINE A == Rate * (p + v)
             B == Rate * s1
  <1>6. A \in Int /\ B \in Int
    <2>1. p + v \in Int
      BY <1>2
    <2> QED BY <1>2, <1>3, <2>1, ProductType
  <1>7. Rate * (p + v - 2 * s1) = A - 2 * B
    BY <1>2, <1>3
  <1>8. Start2 = 2 * (B + Offset - l1) /\ Off(i) = 2 * l - (A + 2 * Offset)
    BY <1>5
  <1>9. Rate * t_mid2[i] = A - 2 * B
    BY <1>4, <1>7
  <1> HIDE DEF A, B
  <1> DEFINE t == Rate * t_mid2[i]
             o == Off(i)
             w == lt[i]
  <1>10. t = A - 2 * B /\ o = 2 * l - (A + 2 * Offset) /\ w = l - l1
    BY <1>4, <1>8, <1>9
  <1> HIDE DEF t, o, w
  <1>11. Start2 \in Int /\ o \in Int /\ 2 * w = t + Start2 + o
    BY <1>2, <1>3, <1>6, <1>8, <1>10
  <1> QED BY <1>11 DEF t, o, w

-----------------------------------------------------------------------------
(* One outlier.                                                            *)

LEMMA LeverageType ==
  ASSUME FirstExport, NEW k \in Points
  PROVE  Leverage(k) \in Int /\ Width \in Int /\ N \in Nat
  <1>1. N \in Nat /\ 1 \in Points /\ N \in Points /\ Points \in SUBSET (1..N)
    BY PointFacts DEF Points
  <1>2. /\ t_mid2[1] \in Int /\ t_mid2[N] \in Int /\ t_mid2[k] \in Int
        /\ t_mid2 \in [1..N -> Int]
    BY <1>1, PointsRise DEF Points
  <1>3. Sum(t_mid2, Points, N) \in Int
    BY <1>1, <1>2, SumType
  <1>4. N * t_mid2[k] \in Int
    BY <1>1, <1>2, ProductType
  <1> QED BY <1>1, <1>2, <1>3, <1>4 DEF Leverage, Width

LEMMA OutlierIsOutside ==
  ASSUME FirstExport, N >= 5, NEW k \in Points, NEW E \in Nat,
         Bounded(Points \ {k}, Offs, E),
         Dominant(Off(k), Leverage(k), Width, Regression(Points).den, Noise(E))
  PROVE  k \notin Inliers(Residuals(FirstPass))
  <1> DEFINE n   == N
             x   == t_mid2
             y   == lt
             a   == Regression(Points).a
             b   == Regression(Points).b
             den == Regression(Points).den
             q   == Residuals(FirstPass)
             L   == Leverage(k)
             W   == Width
             c   == Start2
             f   == Offs
             R   == den * E + n * (E * (n * (W * W)))
  <1>1. /\ n \in Nat /\ Points = 1..n /\ 1 \in 1..n /\ n \in 1..n
        /\ x \in [1..n -> Int] /\ y \in [1..n -> Int]
        /\ \A i, j \in 1..n : i < j => x[i] < x[j]
    BY PointFacts, PointsRise DEF Points, Rising
  <1>2. FirstPass = Regression(Points) /\ q \in [1..n -> Int]
    BY <1>1, FirstLine DEF LineOf
  <1>3. a \in Int /\ b \in Int /\ den \in Int
    BY <1>2, FirstLine
  <1>4. Regressed(n, x, y, a, b, den)
    <2>1. Cardinality(Points) = n
      BY <1>1, FS_Interval
    <2>2. Product(x, x) = [i \in 1..n |-> x[i] * x[i]] /\ Product(x, y) = [i \in 1..n |-> x[i] * y[i]]
      BY <1>1 DEF Product
    <2> QED BY <1>1, <2>1, <2>2 DEF Regression, Regressed
  <1>5. L = n * x[k] - Sum(x, 1..n, n)
    BY <1>1 DEF Leverage
  <1>6. L \in Int
    BY LeverageType
  <1>7. Residue(n, x, y, a, b, den, q)
    BY <1>1, <1>2 DEF Residuals, Residue
  <1>8. den > 0 /\ den \in Nat
    BY <1>2, <1>3, FirstLine
  <1>9. f \in [1..n -> Int] /\ c \in Int /\ f[k] = Off(k) /\ k \in 1..n /\ Rate \in Int
    BY <1>1, OffTheClock, FitConstants DEF Offs
  <1>10. Near(1..n, x, y, f, Rate, c)
    <2> SUFFICES ASSUME NEW i \in 1..n PROVE 2 * y[i] = Rate * x[i] + c + f[i]
      BY DEF Near
    <2>1. f[i] = Off(i) /\ i \in Points
      BY <1>1 DEF Offs
    <2> QED BY <2>1, OffTheClock
  <1>11. W \in Nat /\ Within(n, x, W)
    <2>1. W = x[n] - x[1]
      BY DEF Width
    <2>2. \A i \in 1..n : x[i] \in Int
      BY <1>1
    <2> HIDE DEF n, x, W
    <2>3. ASSUME NEW i \in 1..n
          PROVE  x[i] <= x[n] /\ x[1] <= x[i]
      <3>1. i = n \/ x[i] < x[n]
        BY <1>1
      <3>2. i = 1 \/ x[1] < x[i]
        BY <1>1
      <3>3. x[i] \in Int /\ x[1] \in Int /\ x[n] \in Int
        BY <1>1, <2>2
      <3> QED BY <3>1, <3>2, <3>3
    <2>4. ASSUME NEW i \in 1..n, NEW j \in 1..n
          PROVE  x[i] - x[j] <= W
      <3>1. /\ x[i] \in Int /\ x[j] \in Int /\ x[1] \in Int /\ x[n] \in Int
            /\ x[i] <= x[n] /\ x[1] <= x[j]
        BY <1>1, <2>2, <2>3
      <3> QED BY <2>1, <3>1
    <2>5. x[1] \in Int /\ x[n] \in Int /\ x[1] <= x[n]
      BY <1>1, <2>2, <2>3
    <2>6. W \in Nat
      BY <2>1, <2>5
    <2> QED BY <2>4, <2>6 DEF Within
  <1>12. Bounded((1..n) \ {k}, f, E) /\ Dominant(f[k], L, W, den, R) /\ n >= 5
    BY <1>1, <1>9 DEF Noise
  <1> HIDE DEF n, x, y, c, f, a, b, den, q, L, W
  <1>13. PICK K \in Int : NearResiduals(n, x, q, k, f[k], den, n * x[k] - Sum(x, 1..n, n), K, R)
    BY <1>1, <1>2, <1>3, <1>4, <1>7, <1>8, <1>9, <1>10, <1>11, <1>12, OutlierResiduals
  <1>14. NearResiduals(n, x, q, k, f[k], den, L, K, R)
    BY <1>5, <1>13
  <1>18. R \in Nat
    <2> DEFINE w == W * W
               u == n * w
               v == E * u
    <2>1. w \in Nat
      BY <1>11
    <2> HIDE DEF w
    <2>2. u \in Nat
      BY <1>1, <2>1
    <2> HIDE DEF u
    <2>3. v \in Nat
      BY <2>2
    <2> HIDE DEF v
    <2>4. n * v \in Nat /\ den * E \in Nat
      BY <1>1, <1>8, <2>3
    <2> QED BY <2>4 DEF v, u, w
  <1> DEFINE e == f[k]
  <1>19. e \in Int
    BY <1>9
  <1> HIDE DEF R, e
  <1>20. PICK D \in Nat : Apart(q, n, k, D)
    <2>1. NearResiduals(n, x, q, k, e, den, L, K, R) /\ Dominant(e, L, W, den, R)
      BY <1>12, <1>14 DEF e
    <2>2. n \in Nat /\ x \in [1..n -> Int] /\ q \in [1..n -> Int] /\ k \in 1..n
      BY <1>1, <1>2, <1>9
    <2>3. den \in Int /\ L \in Int /\ W \in Nat /\ Within(n, x, W)
      BY <1>3, <1>6, <1>11
    <2>4. e \in Int /\ K \in Int /\ R \in Nat
      BY <1>18, <1>19
    <2> QED BY <2>1, <2>2, <2>3, <2>4, ResidualsApart
  <1>21. k \notin Inliers(q)
    BY <1>1, <1>2, <1>9, <1>12, <1>20, OutsideQuartiles DEF n
  <1> QED BY <1>21 DEF q

-----------------------------------------------------------------------------
(* The invariant of the export.                                            *)

\* What holds of a fit.  Nothing can move behind it: the thread has ended with the
\* connection, and a tab with rows is not started again.
FitGood ==
  /\ ~conn /\ write_index > 0
  /\ starts <= 1 =>
       /\ N >= 2
       /\ fit.inliers = Inliers(Residuals(FirstPass))
       /\ fit.line = SecondPass(FirstPass, fit.inliers)

\* The inductive invariant of the export.
SyncIInv ==
  /\ IInv
  /\ StampsAreEchoes
  /\ ~conn => thread /= "running"
  /\ fit /= NoFit => FitGood

LEMMA SyncInitEstablishes == SyncInit => SyncIInv
  <1> SUFFICES ASSUME SyncInit PROVE SyncIInv
    OBVIOUS
  <1>1. Init /\ stamps = <<>> /\ fit = NoFit
    BY DEF SyncInit
  <1>2. IInv
    BY <1>1, InitEstablishes
  <1>3. StampsAreEchoes
    <2>1. echoes = 0 /\ echoes \in 0..MaxEchoes /\ 1..echoes = {}
      BY <1>1, FitConstants DEF Init
    <2>2. stamps \in Seq(StampSet) /\ Len(stamps) = 0
      BY <1>1
    <2> QED BY <2>1, <2>2 DEF StampsAreEchoes, InSequence
  <1> QED BY <1>1, <1>2, <1>3 DEF Init, SyncIInv

\* The steps of the buffer that no echo takes: none is possible once there is a fit.
LEMMA SyncBufferStep ==
  ASSUME SyncIInv, SyncBuffer
  PROVE  SyncIInv'
  <1>1. (Start \/ StoreRow \/ Disconnect) /\ stamps' = stamps /\ fit' = fit
    BY DEF SyncBuffer
  <1>2. IInv'
    BY <1>1, StartStep, OtherStep DEF SyncIInv
  <1>3. echoes' = echoes /\ (~conn' => thread' /= "running")
    <2>1. CASE Start
      BY <2>1 DEF Start
    <2>2. CASE StoreRow
      BY <2>2 DEF StoreRow, SyncIInv
    <2>3. CASE Disconnect
      BY <2>3 DEF Disconnect
    <2> QED BY <1>1, <2>1, <2>2, <2>3
  <1>4. StampsAreEchoes'
    BY <1>1, <1>3 DEF SyncIInv, StampsAreEchoes, ReadInBetween, InSequence, Clock, StampSet
  <1>5. fit = NoFit
    <2> SUFFICES ASSUME fit /= NoFit PROVE FALSE
      OBVIOUS
    <2>1. ~conn /\ write_index > 0 /\ thread /= "running"
      BY DEF SyncIInv, FitGood
    <2>2. ~Start
      BY <2>1 DEF Start
    <2>3. ~StoreRow /\ ~Disconnect
      BY <2>1 DEF StoreRow, Disconnect
    <2> QED BY <1>1, <2>2, <2>3
  <1>6. fit' = NoFit'
    BY <1>1, <1>5 DEF NoFit
  <1> QED BY <1>2, <1>3, <1>4, <1>6 DEF SyncIInv

\* An echo is stamped when it arrives, and arrives before the export.
LEMMA SyncEchoStep ==
  ASSUME SyncIInv, SyncEcho
  PROVE  SyncIInv'
  <1>1. (Echo \/ EchoWithoutMemory) /\ fit' = fit
    BY DEF SyncEcho
  <1>2. IInv'
    BY <1>1, EchoStep, OtherStep DEF SyncIInv
  <1>3. thread = "running" /\ conn' = conn /\ echoes < MaxEchoes /\ echoes' = echoes + 1
    BY <1>1 DEF Echo, EchoWithoutMemory, EchoArrives
  <1>4. conn /\ conn' /\ fit = NoFit
    BY <1>3 DEF SyncIInv, FitGood
  <1>5. StampsAreEchoes'
    <2>1. /\ echoes \in 0..MaxEchoes /\ echoes' \in 1..MaxEchoes
          /\ stamps \in Seq(StampSet) /\ Len(stamps) = echoes
          /\ InSequence(stamps, echoes) /\ \A i \in 1..echoes : ReadInBetween(stamps[i])
      BY <1>3, FitConstants DEF SyncIInv, StampsAreEchoes
    <2> DEFINE last == LastEcho
    <2>2. /\ last \in StampSet
          /\ \A i \in 1..echoes : /\ stamps[i].sent <= last.sent
                                  /\ stamps[i].received <= last.received
                                  /\ stamps[i].local_time <= last.local_time
      <3>1. CASE stamps = <<>>
        <4>1. last = Before /\ 1..echoes = {}
          BY <2>1, <3>1 DEF LastEcho
        <4>2. last \in StampSet
          BY <4>1 DEF Before, StampSet
        <4> QED BY <4>1, <4>2
      <3>2. CASE stamps /= <<>>
        <4>1. echoes \in 1..echoes /\ last = stamps[echoes]
          BY <2>1, <3>2 DEF LastEcho
        <4>2. \A i \in 1..echoes : stamps[i] \in StampSet
          BY <2>1
        <4> HIDE DEF last
        <4>3. ASSUME NEW i \in 1..echoes
              PROVE  /\ stamps[i].sent <= last.sent
                     /\ stamps[i].received <= last.received
                     /\ stamps[i].local_time <= last.local_time
          <5>1. CASE i = echoes
            BY <4>1, <4>2, <5>1 DEF StampSet
          <5>2. CASE i < echoes
            BY <2>1, <4>1, <4>2, <5>2 DEF InSequence, StampSet
          <5> QED BY <2>1, <5>1, <5>2
        <4> QED BY <4>1, <4>2, <4>3
      <3> QED BY <3>1, <3>2
    <2>3. PICK gap \in Gaps, d1 \in Delays, d2 \in Delays :
                 LET echo == Echoed(last.sent + gap, d1, d2)
                 IN  /\ last.local_time <= echo.local_time
                     /\ last.received <= echo.received /\ echo.received <= Horizon
                     /\ stamps' = Append(stamps, echo)
      BY DEF SyncEcho
    <2> DEFINE sent == last.sent + gap
               echo == Echoed(sent, d1, d2)
    <2>4. sent \in Nat /\ last.sent < sent
      BY <2>2, FitConstants DEF StampSet
    <2>5. echo \in StampSet /\ ReadInBetween(echo) /\ echo.sent = sent
      BY <2>3, <2>4, EchoedFacts DEF Echoed
    <2> HIDE DEF echo, sent, last
    <2>6. /\ stamps' = Append(stamps, echo)
          /\ last.sent < echo.sent /\ last.received <= echo.received
          /\ last.local_time <= echo.local_time
      BY <2>3, <2>4, <2>5 DEF echo, sent
    <2>7. /\ stamps' \in Seq(StampSet) /\ Len(stamps') = echoes'
          /\ stamps'[echoes'] = echo
          /\ \A i \in 1..echoes : stamps'[i] = stamps[i]
      BY <1>3, <2>1, <2>5, <2>6
    <2>8. \A i \in 1..echoes' : i = echoes' \/ i \in 1..echoes
      BY <1>3, <2>1
    <2>9. \A i \in 1..echoes' : ReadInBetween(stamps'[i])
      BY <2>1, <2>5, <2>7, <2>8
    <2>10. InSequence(stamps', echoes')
      <3> SUFFICES ASSUME NEW i \in 1..echoes', NEW j \in 1..echoes', i < j
                   PROVE  /\ stamps'[i].sent < stamps'[j].sent
                          /\ stamps'[i].received <= stamps'[j].received
                          /\ stamps'[i].local_time <= stamps'[j].local_time
        BY DEF InSequence
      <3>1. i \in 1..echoes /\ stamps'[i] = stamps[i] /\ stamps[i] \in StampSet
        BY <1>3, <2>1, <2>7
      <3>2. CASE j = echoes'
        <4>1. /\ stamps[i].sent <= last.sent /\ stamps[i].received <= last.received
              /\ stamps[i].local_time <= last.local_time /\ last \in StampSet
          BY <2>2, <3>1
        <4>2. /\ stamps[i].sent < echo.sent /\ stamps[i].received <= echo.received
              /\ stamps[i].local_time <= echo.local_time
          <5>1. /\ stamps[i].sent \in Nat /\ stamps[i].received \in Nat /\ stamps[i].local_time \in Nat
                /\ last.sent \in Nat /\ last.received \in Nat /\ last.local_time \in Nat
                /\ echo.sent \in Nat /\ echo.received \in Nat /\ echo.local_time \in Nat
            BY <2>5, <3>1, <4>1 DEF StampSet
          <5>2. stamps[i].sent < echo.sent
            BY <2>6, <4>1, <5>1
          <5>3. stamps[i].received <= echo.received
            BY <2>6, <4>1, <5>1
          <5>4. stamps[i].local_time <= echo.local_time
            BY <2>6, <4>1, <5>1
          <5> QED BY <5>2, <5>3, <5>4
        <4> QED BY <2>7, <3>1, <3>2, <4>2
      <3>3. CASE j \in 1..echoes
        BY <2>1, <2>7, <3>1, <3>3 DEF InSequence
      <3> QED BY <2>8, <3>2, <3>3
    <2>11. StampSet' = StampSet
      BY DEF StampSet
    <2>12. echoes' \in 0..MaxEchoes
      BY <2>1
    <2>13. \A i \in 1..echoes' : ReadInBetween(stamps[i])'
      BY <2>9 DEF ReadInBetween, Clock
    <2>14. InSequence(stamps, echoes)'
      BY <2>10 DEF InSequence
    <2> QED BY <2>7, <2>11, <2>12, <2>13, <2>14 DEF StampsAreEchoes
  <1>6. fit' = NoFit'
    BY <1>1, <1>4 DEF NoFit
  <1> QED BY <1>2, <1>4, <1>5, <1>6 DEF SyncIInv

\* What is said of the echoes says nothing of anything else.
LEMMA SameEchoes ==
  ASSUME client_time_sync' = client_time_sync, time_write_index' = time_write_index,
         stamps' = stamps
  PROVE  /\ N' = N /\ FirstPass' = FirstPass
         /\ Inliers(Residuals(FirstPass))' = Inliers(Residuals(FirstPass))
         /\ \A S : Regression(S)' = Regression(S)
  <1>1. N' = N /\ Points' = Points
    BY DEF N, Points
  <1>2. t_mid2' = t_mid2 /\ lt' = lt
    BY <1>1 DEF t_mid2, lt, first, Times
  <1>3. \A S : Regression(S)' = Regression(S)
    BY <1>1, <1>2 DEF Regression, Sum, Product
  <1>4. FirstPass' = FirstPass
    BY <1>1, <1>3 DEF FirstPass, ZeroLine
  <1>5. Residuals(FirstPass)' = Residuals(FirstPass)
    BY <1>1, <1>2, <1>4 DEF Residuals
  <1>6. Inliers(Residuals(FirstPass))' = Inliers(Residuals(FirstPass))
    BY <1>1, <1>5 DEF Inliers, Sorted
  <1> QED BY <1>1, <1>3, <1>4, <1>6

\* The export fits the line.
LEMMA ExportStep ==
  ASSUME SyncIInv, Export
  PROVE  SyncIInv'
  <1> DEFINE inliers == Inliers(Residuals(FirstPass))
             line    == SecondPass(FirstPass, inliers)
  <1>1. /\ ~conn /\ write_index > 0 /\ N >= 2
        /\ fit' = [export |-> TRUE, inliers |-> inliers, line |-> line]
        /\ UNCHANGED <<vars, stamps>>
    BY DEF Export
  <1>2. IInv' /\ StampsAreEchoes'
    <2>1. IInv'
      BY <1>1, OtherStep DEF SyncIInv
    <2>2. StampsAreEchoes'
      BY <1>1 DEF SyncIInv, StampsAreEchoes, ReadInBetween, InSequence, Clock, StampSet, vars
    <2> QED BY <2>1, <2>2
  <1>3. /\ conn' = conn /\ thread' = thread /\ write_index' = write_index
        /\ starts' = starts /\ time_write_index' = time_write_index /\ stamps' = stamps
    BY <1>1 DEF vars
  <1> HIDE DEF line, inliers
  <1>4. fit'.inliers = inliers /\ fit'.line = line
    BY <1>1
  <1>5. /\ N' = N /\ Inliers(Residuals(FirstPass))' = inliers
        /\ SecondPass(FirstPass, fit.inliers)' = line
    <2>1. /\ N' = N /\ FirstPass' = FirstPass
          /\ Inliers(Residuals(FirstPass))' = Inliers(Residuals(FirstPass))
          /\ \A S : Regression(S)' = Regression(S)
      BY <1>1, <1>3, SameEchoes DEF vars
    <2>2. SecondPass(FirstPass, fit.inliers)' = line
      BY <1>4, <2>1 DEF SecondPass, line
    <2> QED BY <2>1, <2>2 DEF inliers
  <1>6. FitGood'
    BY <1>1, <1>3, <1>4, <1>5 DEF FitGood
  <1> QED BY <1>1, <1>2, <1>3, <1>6 DEF SyncIInv

LEMMA SyncStutter ==
  ASSUME SyncIInv, UNCHANGED syncVars
  PROVE  SyncIInv'
  <1>1. UNCHANGED vars /\ stamps' = stamps /\ fit' = fit
    BY DEF syncVars
  <1>2. IInv'
    BY <1>1, OtherStep DEF SyncIInv
  <1>3. StampsAreEchoes' /\ (~conn' => thread' /= "running")
    <2>1. echoes' = echoes /\ conn' = conn /\ thread' = thread
      BY <1>1 DEF vars
    <2>2. StampsAreEchoes' = StampsAreEchoes
      BY <1>1, <2>1 DEF StampsAreEchoes, ReadInBetween, InSequence, Clock, StampSet
    <2> QED BY <2>1, <2>2 DEF SyncIInv
  <1>4. FitGood' = FitGood /\ NoFit' = NoFit
    <2>1. /\ N' = N /\ FirstPass' = FirstPass
          /\ Inliers(Residuals(FirstPass))' = Inliers(Residuals(FirstPass))
          /\ SecondPass(FirstPass, fit.inliers)' = SecondPass(FirstPass, fit.inliers)
      BY <1>1, SameEchoes DEF vars, SecondPass
    <2> QED BY <1>1, <2>1 DEF FitGood, NoFit, vars
  <1> QED BY <1>1, <1>2, <1>3, <1>4 DEF SyncIInv

LEMMA SyncInductive == SyncIInv /\ [SyncNext]_syncVars => SyncIInv'
  BY SyncBufferStep, SyncEchoStep, ExportStep, SyncStutter DEF SyncNext

\* What a fit of the first measurement is.
LEMMA FitFacts ==
  ASSUME SyncIInv, Exported
  PROVE  /\ FirstExport
         /\ fit.inliers = Inliers(Residuals(FirstPass))
         /\ fit.inliers \in SUBSET Points
         /\ 2 * Cardinality(fit.inliers) >= N
         /\ fit.line \in [a : Int, b : Int, den : Int]
         /\ fit.line.a >= 0 /\ fit.line.den > 0
         /\ fit.line.a > 0 \/ \A i, j \in fit.inliers : lt[i] = lt[j]
         /\ Cardinality(fit.inliers) >= 2 => fit.line = Regression(fit.inliers)
  <1>1. /\ FirstExport
        /\ fit.inliers = Inliers(Residuals(FirstPass))
        /\ fit.line = SecondPass(FirstPass, fit.inliers)
    BY DEF Exported, SyncIInv, FitGood, FirstExport
  <1>2. LET inliers == Inliers(Residuals(FirstPass))
            line    == SecondPass(FirstPass, inliers)
        IN  /\ inliers \in SUBSET Points
            /\ 2 * Cardinality(inliers) >= N
            /\ line \in [a : Int, b : Int, den : Int]
            /\ line.a >= 0 /\ line.den > 0
            /\ line.a > 0 \/ \A i, j \in inliers : lt[i] = lt[j]
            /\ Cardinality(inliers) >= 2 => line = Regression(inliers)
    BY <1>1, ExportedLine
  <1> QED BY <1>1, <1>2, Zenon

-----------------------------------------------------------------------------
(* The time of a row.                                                      *)

\* An instant of the measurement, what the client's clock reads then, and where the
\* points lie between the first and the last of them.
LEMMA InstantFacts ==
  ASSUME SyncIInv, Exported, NEW t \in Instants
  PROVE  /\ t \in Nat /\ first = stamps[1] /\ Duration2 \in Nat
         /\ stamps[1].sent \in Nat /\ stamps[1].local_time \in Nat
         /\ 0 <= 2 * (t - stamps[1].sent) /\ 2 * (t - stamps[1].sent) <= Duration2
         /\ \A i \in Points : 0 <= t_mid2[i] /\ t_mid2[i] <= Duration2
         /\ Resolution(Rate * t + Offset) \in Nat \ {0}
         /\ Clock(t) \in Nat
         /\ 2 * Clock(t) <= 2 * (Rate * t + Offset) + Resolution(Rate * t + Offset)
         /\ 2 * (Rate * t + Offset) <= 2 * Clock(t) + Resolution(Rate * t + Offset)
  <1> DEFINE last == stamps[Len(stamps)]
             s1   == stamps[1].sent
  <1>1. /\ FirstExport /\ 1 \in Points /\ first = stamps[1]
        /\ Len(stamps) = echoes /\ 1 \in 1..echoes /\ echoes \in 1..echoes
        /\ \A i \in Points : i \in 1..echoes
    <2>1. FirstExport
      BY FitFacts
    <2>2. 1 \in Points /\ first = stamps[1] /\ N \in Nat /\ N <= echoes
      BY <2>1, PointFacts DEF first
    <2>3. Len(stamps) = echoes /\ echoes \in Nat
      BY DEF SyncIInv, StampsAreEchoes
    <2> QED BY <2>1, <2>2, <2>3 DEF Points
  <1>2. ASSUME NEW i \in 1..echoes
        PROVE  /\ stamps[i].sent \in Nat /\ stamps[i].received \in Nat
               /\ stamps[i].local_time \in Nat
               /\ s1 <= stamps[i].sent /\ stamps[i].sent <= stamps[i].received
               /\ stamps[i].sent <= last.sent /\ stamps[i].received <= last.received
               /\ stamps[i].received <= Horizon
    <2>1. \A j \in 1..echoes : stamps[j] \in StampSet
      BY DEF SyncIInv, StampsAreEchoes
    <2>2. stamps[i].sent \in Nat /\ stamps[i].received \in Nat /\ stamps[i].local_time \in Nat
      BY <2>1 DEF StampSet
    <2>3. PICK d1 \in Nat, d2 \in Nat :
                 /\ stamps[i] = [sent |-> stamps[i].sent,
                                 received |-> stamps[i].sent + d1 + d2,
                                 local_time |-> Clock(stamps[i].sent + d1)]
                 /\ stamps[i].received <= Horizon
      BY DEF SyncIInv, StampsAreEchoes, ReadInBetween
    <2>4. stamps[i].received = stamps[i].sent + d1 + d2
      BY <2>3
    <2>5. stamps[i].sent <= stamps[i].received
      BY <2>2, <2>4
    <2>6. s1 <= stamps[i].sent
      <3>1. CASE i = 1
        BY <2>2, <3>1
      <3>2. CASE i /= 1
        <4>1. 1 < i /\ s1 \in Nat
          BY <1>1, <2>1, <3>2 DEF StampSet
        <4>2. s1 < stamps[i].sent
          BY <1>1, <4>1 DEF SyncIInv, StampsAreEchoes, InSequence
        <4> QED BY <2>2, <4>1, <4>2
      <3> QED BY <3>1, <3>2
    <2>7. stamps[i].sent <= last.sent /\ stamps[i].received <= last.received
      <3>1. CASE i = echoes
        BY <1>1, <2>2, <3>1
      <3>2. CASE i /= echoes
        <4>1. i < echoes /\ last = stamps[echoes] /\ last \in StampSet
          BY <1>1, <2>1, <3>2
        <4>2. stamps[i].sent < last.sent /\ stamps[i].received <= last.received
          BY <1>1, <4>1 DEF SyncIInv, StampsAreEchoes, InSequence
        <4> QED BY <2>2, <4>1, <4>2 DEF StampSet
      <3> QED BY <3>1, <3>2
    <2> QED BY <2>2, <2>3, <2>5, <2>6, <2>7
  <1>3. /\ s1 \in Nat /\ stamps[1].local_time \in Nat /\ s1 <= last.sent
        /\ last.sent \in Nat /\ last.received \in Nat
        /\ last.sent <= last.received /\ last.received <= Horizon
    BY <1>1, <1>2
  <1>4. t \in Nat /\ s1 <= t /\ t <= last.sent
    BY <1>3 DEF Instants
  <1>5. ASSUME NEW i \in Points
        PROVE  0 <= t_mid2[i] /\ t_mid2[i] <= Duration2
    <2>1. t_mid2[i] = stamps[i].sent + stamps[i].received - 2 * s1
      BY <1>1, StampFacts DEF t_mid2
    <2>2. Duration2 = 2 * (last.received - s1)
      BY DEF Duration2
    <2> DEFINE p == stamps[i].sent
               v == stamps[i].received
    <2>3. /\ p \in Nat /\ v \in Nat /\ s1 <= p /\ p <= v /\ v <= last.received
      BY <1>1, <1>2
    <2> HIDE DEF p, v, s1, last
    <2>4. 0 <= p + v - 2 * s1 /\ p + v - 2 * s1 <= 2 * (last.received - s1)
      BY <1>3, <2>3
    <2> QED BY <2>1, <2>2, <2>4 DEF p, v
  <1>6. Duration2 = 2 * (last.received - s1)
    BY DEF Duration2
  <1> HIDE DEF s1, last
  <1>7. /\ Duration2 \in Nat
        /\ 0 <= 2 * (t - s1) /\ 2 * (t - s1) <= Duration2 /\ t <= Horizon
    BY <1>3, <1>4, <1>6, FitConstants
  <1>8. /\ Resolution(Rate * t + Offset) \in Nat \ {0}
        /\ Clock(t) \in Nat
        /\ 2 * Clock(t) <= 2 * (Rate * t + Offset) + Resolution(Rate * t + Offset)
        /\ 2 * (Rate * t + Offset) <= 2 * Clock(t) + Resolution(Rate * t + Offset)
    BY <1>4, <1>7, ClockFacts
  <1> QED BY <1>1, <1>3, <1>4, <1>5, <1>7, <1>8 DEF s1

\* Near the clock's line it is, up to that rounding, as exact as the points are near.
LEMMA ErrorNearClock ==
  ASSUME NEW a \in Int, NEW b \in Int, NEW den \in Nat, NEW r \in Nat, NEW o \in Nat,
         NEW s1 \in Nat, NEW l1 \in Nat, NEW t \in Nat, NEW C \in Nat, NEW ulp \in Nat,
         NEW K \in Nat, NEW c, c = 2 * (r * s1 + o - l1), NEW z, z = 2 * (t - s1),
         NEW turn \in Int, NEW move \in Int, LineNear(a, b, den, r, c, z, turn, move),
         NEW T \in Nat, Inside(turn, T), 2 * T <= r * den,
         NEW V \in Nat, Inside(move, V), V <= K * den,
         2 * C <= 2 * (r * t + o) + ulp, 2 * (r * t + o) <= 2 * C + ulp
  PROVE  r * ((den * (C - l1) - b) - 2 * (t - s1) * a)
           \in -(2 * (K + ulp) * a)..(2 * (K + ulp) * a)
  <1> DEFINE u     == r * t + o
             eta   == 2 * C - 2 * u
             error == (den * (C - l1) - b) - 2 * (t - s1) * a
             e2    == 2 * error
             B     == K + ulp
             rd    == r * den
             dB    == den * B
  <1>1. eta \in Int /\ Inside(eta, ulp)
    <2>1. u \in Nat
      OBVIOUS
    <2> HIDE DEF u
    <2>2. 2 * C <= 2 * u + ulp /\ 2 * u <= 2 * C + ulp
      BY DEF u
    <2> QED BY <2>1, <2>2 DEF Inside
  <1>2. error \in Int /\ e2 = den * eta - move
    <2> DEFINE A == a * z + b
               D == den * (2 * (C - l1))
               G == den * (r * z + c)
    <2>1. 2 * A = G + move
      BY DEF LineNear
    <2>2. D = G + den * eta
      OBVIOUS
    <2>3. e2 = D - 2 * A
      OBVIOUS
    <2>4. A \in Int /\ D \in Int /\ G \in Int /\ den * eta \in Int /\ error \in Int
      <3>1. z \in Int /\ c \in Int
        OBVIOUS
      <3>2. a * z \in Int /\ r * z \in Int /\ den * eta \in Int
        <4> HIDE DEF eta
        <4> QED BY <1>1, <3>1, ProductType
      <3>3. A \in Int /\ r * z + c \in Int
        <4> DEFINE k == a * z
                   l == r * z
        <4>1. k \in Int /\ l \in Int
          BY <3>2
        <4> HIDE DEF k, l
        <4>2. k + b \in Int /\ l + c \in Int
          BY <3>1, <4>1
        <4> QED BY <4>2 DEF k, l
      <3>4. D \in Int /\ den * (C - l1) \in Int
        OBVIOUS
      <3>5. 2 * (t - s1) * a \in Int
        OBVIOUS
      <3>6. G \in Int
        <4> DEFINE k == r * z + c
        <4>1. k \in Int
          BY <3>3
        <4> HIDE DEF k
        <4>2. den * k \in Int
          BY <4>1
        <4> QED BY <4>2 DEF k
      <3>7. error \in Int
        <4> DEFINE k == den * (C - l1)
                   l == 2 * (t - s1) * a
        <4>1. k \in Int /\ l \in Int
          BY <3>4, <3>5
        <4> HIDE DEF k, l
        <4>2. (k - b) - l \in Int
          BY <4>1
        <4> QED BY <4>2 DEF k, l
      <3> QED BY <3>2, <3>3, <3>4, <3>6, <3>7
    <2> DEFINE de == den * eta
    <2>5. D = G + de /\ de \in Int
      BY <2>2, <2>4
    <2> HIDE DEF A, D, G, de, e2, error
    <2>6. e2 = de - move
      BY <2>1, <2>3, <2>4, <2>5
    <2> QED BY <2>4, <2>6 DEF de
  <1> HIDE DEF eta, error
  <1>3. e2 \in Int /\ Inside(e2, dB) /\ dB \in Nat
    <2> DEFINE v == den * eta
               w == den * ulp
               y == K * den
    <2>1. Inside(den, den)
      BY DEF Inside
    <2>2. v \in Int /\ w \in Nat /\ Inside(v, w)
      BY <1>1, <2>1, ProductInside
    <2>3. dB = w + y /\ y \in Nat
      OBVIOUS
    <2>4. e2 = v - move /\ V <= y
      BY <1>2
    <2> HIDE DEF v, w, y, dB, e2
    <2> QED BY <2>2, <2>3, <2>4 DEF Inside
  <1>4. B \in Nat /\ rd \in Nat /\ rd <= 4 * a
    <2>1. 2 * a = rd + turn
      BY DEF LineNear
    <2>2. 2 * T <= rd /\ rd \in Nat
      OBVIOUS
    <2> HIDE DEF rd
    <2>3. rd <= 4 * a
      BY <2>1, <2>2 DEF Inside
    <2> QED BY <2>2, <2>3
  <1> DEFINE re == r * error
  <1>5. re \in Int /\ Inside(2 * re, rd * B)
    <2>1. Inside(r, r)
      BY DEF Inside
    <2> HIDE DEF e2, dB
    <2>2. Inside(r * e2, r * dB)
      BY <1>3, <2>1, ProductInside
    <2>3. r * e2 = 2 * (r * error) /\ r * error \in Int
      BY <1>2 DEF e2
    <2>4. r * dB = rd * B
      <3> HIDE DEF B
      <3>1. r * (den * B) = (r * den) * B
        BY <1>4
      <3> QED BY <3>1 DEF dB
    <2> QED BY <2>2, <2>3, <2>4
  <1>6. rd * B <= 2 * (2 * B * a) /\ 2 * B * a \in Int /\ rd * B \in Int
    <2> HIDE DEF rd, B
    <2>1. rd * B <= (4 * a) * B
      BY <1>4
    <2>2. (4 * a) * B = 2 * (2 * B * a)
      BY <1>4
    <2>3. 2 * B * a \in Int /\ rd * B \in Int
      BY <1>4
    <2> QED BY <2>1, <2>2, <2>3
  <1> DEFINE bound == 2 * B * a
             rB    == rd * B
  <1>7. re \in -bound..bound
    <2>1. /\ Inside(2 * re, rB) /\ rB <= 2 * bound
          /\ re \in Int /\ bound \in Int /\ rB \in Int
      BY <1>5, <1>6
    <2> HIDE DEF re, bound, rB
    <2> QED BY <2>1 DEF Inside
  <1> QED BY <1>7 DEF error

LEMMA NearInliersSynchronise ==
  ASSUME SyncIInv, Exported, N >= 3, NEW E \in Nat, OffBy(fit.inliers, E),
         2 * Turned(E) <= Rate * fit.line.den
  PROVE  SynchronisedTo(Moved(E))
  <1> DEFINE n   == N
             x   == t_mid2
             y   == lt
             f   == Offs
             S   == fit.inliers
             M   == Cardinality(S)
             xx  == [i \in 1..n |-> x[i] * x[i]]
             xy  == [i \in 1..n |-> x[i] * y[i]]
             xf  == [i \in 1..n |-> x[i] * f[i]]
             Sx  == Sum(x, S, n)
             Sy  == Sum(y, S, n)
             Sxx == Sum(xx, S, n)
             Sxy == Sum(xy, S, n)
             Sf  == Sum(f, S, n)
             Sxf == Sum(xf, S, n)
             a   == fit.line.a
             b   == fit.line.b
             den == fit.line.den
             s1  == stamps[1].sent
             l1  == stamps[1].local_time
             c   == Start2
             W   == Duration2
             K   == Moved(E)
  <1>1. /\ FirstExport /\ n \in Nat /\ Points = 1..n /\ S \in SUBSET (1..n)
        /\ x \in [1..n -> Int] /\ y \in [1..n -> Int]
    BY FitFacts, PointFacts, PointsRise DEF Points
  <1>2. M \in Nat /\ M >= 2 /\ fit.line = Regression(S)
    <2>1. M \in Nat /\ 2 * M >= n
      BY <1>1, FitFacts, FinitePoints
    <2>2. M >= 2
      BY <1>1, <2>1
    <2> QED BY <2>1, <2>2, FitFacts
  <1>3. a \in Int /\ b \in Int /\ den \in Nat
    <2>1. fit.line \in [a : Int, b : Int, den : Int] /\ fit.line.den > 0
      BY FitFacts
    <2> QED BY <2>1
  <1>4. f \in [1..n -> Int] /\ c \in Int /\ Rate \in Nat /\ Offset \in Nat /\ 1 \in 1..n
    BY <1>1, PointFacts, OffTheClock, FitConstants DEF Offs
  <1>5. Near(S, x, y, f, Rate, c) /\ Bounded(S, f, E)
    <2> SUFFICES ASSUME NEW i \in S
                 PROVE  2 * y[i] = Rate * x[i] + c + f[i] /\ Inside(f[i], E)
      BY DEF Near, Bounded
    <2>1. i \in Points /\ f[i] = Off(i)
      BY <1>1 DEF Offs
    <2>2. Off(i) \in Int /\ 2 * y[i] = Rate * x[i] + c + f[i]
      BY <1>1, <2>1, OffTheClock
    <2>3. Inside(Off(i), E)
      BY <2>2 DEF OffBy, Abs, Inside
    <2> QED BY <2>1, <2>2, <2>3
  <1>6. a = M * Sxy - Sx * Sy /\ b = Sy * Sxx - Sx * Sxy /\ den = M * Sxx - Sx * Sx
    <2>1. xx = Product(x, x) /\ xy = Product(x, y)
      BY <1>1 DEF Product
    <2> HIDE DEF xx, xy
    <2> QED BY <1>2, <2>1 DEF Regression
  <1>7. K = (M * (E * (M * (W * W)))) \div den + 1 /\ 2 * (M * (E * (M * W))) <= Rate * den
    BY DEF Moved, Turned
  <1> SUFFICES ASSUME NEW t \in Instants
               PROVE  Rate * (GlobalNum(Clock(t)) - 2 * (t - stamps[1].sent) * GlobalDen)
                        \in -(2 * (K + Resolution(Rate * t + Offset)) * GlobalDen)
                              ..(2 * (K + Resolution(Rate * t + Offset)) * GlobalDen)
    BY DEF SynchronisedTo
  <1> DEFINE ulp  == Resolution(Rate * t + Offset)
             C    == Clock(t)
             z    == 2 * (t - s1)
             turn == Turn(M, Sx, Sf, Sxf)
             move == Move(M, Sx, Sxx, Sf, Sxf, z)
             T    == M * (E * (M * W))
             V    == M * (E * (M * (W * W)))
  <1>8. /\ t \in Nat /\ s1 \in Nat /\ l1 \in Nat /\ ulp \in Nat /\ C \in Nat /\ W \in Nat
        /\ 2 * C <= 2 * (Rate * t + Offset) + ulp /\ 2 * (Rate * t + Offset) <= 2 * C + ulp
        /\ 0 <= z /\ z <= W /\ \A i \in 1..n : 0 <= x[i] /\ x[i] <= W
    BY <1>1, InstantFacts
  <1>9. GlobalNum(Clock(t)) = den * (C - l1) - b /\ GlobalDen = a
    BY InstantFacts DEF GlobalNum, GlobalDen
  <1>10. c = 2 * (Rate * s1 + Offset - l1)
    BY DEF Start2
  <1> HIDE DEF n, x, y, f, S, M, xx, xy, xf, a, b, den, s1, l1, c, W, K, ulp, C
  <1>11. /\ z \in Int /\ W \in Nat
         /\ \A i \in S : Inside(z - x[i], W)
         /\ \A i, j \in S : Inside(x[j] - x[i], W)
    <2>1. z \in Int
      BY <1>8
    <2> HIDE DEF z
    <2>2. ASSUME NEW i \in S, NEW v \in Int, 0 <= v, v <= W
          PROVE  Inside(v - x[i], W)
      <3>1. x[i] \in Int /\ 0 <= x[i] /\ x[i] <= W
        BY <1>1, <1>8
      <3> QED BY <1>8, <2>2, <3>1 DEF Inside
    <2> QED BY <1>1, <1>8, <2>1, <2>2
  <1>12. /\ xx \in [1..n -> Int] /\ xy \in [1..n -> Int] /\ xf \in [1..n -> Int]
    <2>1. \A i \in 1..n : x[i] \in Int /\ y[i] \in Int /\ f[i] \in Int
      BY <1>1, <1>4
    <2>2. \A i \in 1..n : x[i] * x[i] \in Int /\ x[i] * y[i] \in Int /\ x[i] * f[i] \in Int
      BY <2>1, ProductType, Zenon
    <2> QED BY <2>2 DEF xx, xy, xf
  <1>13. /\ Sx \in Int /\ Sy \in Int /\ Sxx \in Int /\ Sxy \in Int /\ Sf \in Int /\ Sxf \in Int
    BY <1>1, <1>4, <1>12, SumType
  <1>14. SumsNear(M, Sx, Sy, Sxx, Sxy, Sf, Sxf, Rate, c)
    <2>1. Rate \in Int
      BY <1>4
    <2>2. /\ xx = [i \in 1..n |-> x[i] * x[i]] /\ xy = [i \in 1..n |-> x[i] * y[i]]
          /\ xf = [i \in 1..n |-> x[i] * f[i]]
      BY DEF xx, xy, xf
    <2> HIDE DEF xx, xy, xf
    <2> QED BY <1>1, <1>4, <1>5, <2>1, <2>2, NearSums DEF M
  <1>15. Inside(turn, T) /\ Inside(move, V)
    <2> HIDE DEF z, W
    <2> QED BY <1>1, <1>4, <1>5, <1>11, NearBounds DEF M, xx, xf
  <1> HIDE DEF Sx, Sy, Sxx, Sxy, Sf, Sxf
  <1>16. LineNear(a, b, den, Rate, c, z, turn, move)
    <2> HIDE DEF z
    <2>1. LineNear(M * Sxy - Sx * Sy, Sy * Sxx - Sx * Sxy, M * Sxx - Sx * Sx, Rate, c, z, turn, move)
      <3>1. M \in Int /\ Rate \in Int /\ z \in Int
        BY <1>2, <1>4, <1>11
      <3> HIDE DEF turn, move
      <3>2. LineNear(M * Sxy - Sx * Sy, Sy * Sxx - Sx * Sxy, M * Sxx - Sx * Sx, Rate, c, z,
                     Turn(M, Sx, Sf, Sxf), Move(M, Sx, Sxx, Sf, Sxf, z))
        BY <1>4, <1>13, <1>14, <3>1, NearAlgebra
      <3> QED BY <3>2 DEF turn, move
    <2> QED BY <1>6, <2>1, Zenon
  <1>18. T \in Nat /\ V \in Nat /\ turn \in Int /\ move \in Int
    <2> HIDE DEF W, z
    <2>1. W * W \in Nat /\ M * W \in Nat
      BY <1>2, <1>11
    <2> DEFINE u == W * W
               v == M * W
    <2> HIDE DEF u, v
    <2>2. M * u \in Nat /\ E * v \in Nat
      BY <1>2, <2>1 DEF u, v
    <2> DEFINE k == M * u
               l == E * v
    <2> HIDE DEF k, l
    <2>3. E * k \in Nat /\ M * l \in Nat
      BY <1>2, <2>2 DEF k, l
    <2> DEFINE o == E * k
    <2> HIDE DEF o
    <2>4. M * o \in Nat
      BY <1>2, <2>3 DEF o
    <2>5. turn \in Int
      <3>1. M * Sxf \in Int /\ Sx * Sf \in Int
        BY <1>2, <1>13, ProductType
      <3> QED BY <3>1 DEF Turn
    <2>6. move \in Int
      <3> DEFINE A == z * M - Sx
                 B == Sxx - z * Sx
      <3>0. z * M \in Int /\ z * Sx \in Int /\ M \in Int
        BY <1>2, <1>11, <1>13, ProductType
      <3>1. A \in Int /\ B \in Int
        BY <1>13, <3>0
      <3> HIDE DEF A, B
      <3>2. A * Sxf \in Int /\ B * Sf \in Int
        BY <1>13, <3>1, ProductType
      <3>3. A * Sxf + B * Sf \in Int
        BY <3>2
      <3> QED BY <3>3 DEF Move, A, B
    <2> QED BY <2>3, <2>4, <2>5, <2>6 DEF o, l, k, u, v
  <1>17. V <= K * den /\ K \in Nat /\ 2 * T <= Rate * den
    <2>1. den \in Nat \ {0}
      BY <1>3, FitFacts DEF den
    <2>2. K = V \div den + 1
      BY <1>7
    <2> HIDE DEF V
    <2>3. V \div den \in Nat /\ V < den * (V \div den) + den
      BY <1>18, <2>1, Quotient
    <2> DEFINE q == V \div den
    <2>4. q \in Nat /\ K = q + 1 /\ V < den * q + den
      BY <2>2, <2>3
    <2> HIDE DEF q
    <2>5. (q + 1) * den = den * q + den /\ den * q \in Nat
      BY <2>1, <2>4
    <2>6. V <= K * den /\ K \in Nat
      BY <1>18, <2>1, <2>4, <2>5
    <2> QED BY <1>7, <2>6
  <1> HIDE DEF turn, move, T, V
  <1>19. Rate * ((den * (C - l1) - b) - 2 * (t - s1) * a)
           \in -(2 * (K + ulp) * a)..(2 * (K + ulp) * a)
    BY <1>3, <1>4, <1>8, <1>10, <1>15, <1>16, <1>17, <1>18, ErrorNearClock, ZenonT(60)
  <1> QED BY <1>9, <1>19 DEF s1, ulp

-----------------------------------------------------------------------------
\* The inductive invariant of the export.
THEOREM SyncInvariance == SyncSpec => []SyncIInv
  BY SyncInitEstablishes, SyncInductive, PTL DEF SyncSpec

\* The export is a reader of the buffer: with it the buffer behaves as without it,
\* and every theorem above holds of the two together.
THEOREM ExportLeavesBuffer == SyncSpec => Spec
  <1>1. SyncInit => Init
    BY DEF SyncInit
  <1>2. [SyncNext]_syncVars => [Next]_vars
    BY DEF SyncNext, SyncBuffer, SyncEcho, Export, Next, syncVars
  <1> QED BY <1>1, <1>2, PTL DEF SyncSpec, Spec

\* Whatever the delays and however many echoes arrive, the quartile filter of the
\* export keeps at least half of them.
THEOREM HalfIsKept == SyncSpec => []KeepsHalf
  <1>1. SyncIInv => KeepsHalf
    BY FitFacts DEF KeepsHalf
  <1> QED BY <1>1, SyncInvariance, PTL

\* The export's times rise with the local times, and it divides by zero only when the
\* client read one and the same float for all echoes that were kept.
THEOREM TimesAdvance == SyncSpec => []TimeAdvances
  <1>1. ASSUME SyncIInv, Exported
        PROVE  /\ fit.line.den > 0 /\ GlobalDen >= 0
               /\ GlobalDen > 0 \/ \A i, j \in fit.inliers : lt[i] = lt[j]
    BY <1>1, FitFacts DEF GlobalDen
  <1>2. SyncIInv => TimeAdvances
    BY <1>1 DEF TimeAdvances
  <1> QED BY <1>2, SyncInvariance, PTL

\* What the echoes may be off by, in ErrorIsBounded and OutlierRejected: an echo is off
\* the client's clock by no more than its round trip, which the host knows, and the step
\* of the client's floats at the instant at which it was read.
OffByRoundTrip(i) ==
  \E t \in stamps[i].sent..stamps[i].received :
    Abs(Off(i)) <= Rate * (stamps[i].received - stamps[i].sent) + Resolution(Rate * t + Offset)

THEOREM RoundTripBounds == SyncSpec => [](\A i \in 1..echoes : OffByRoundTrip(i))
  <1>1. ASSUME SyncIInv, NEW i \in 1..echoes
        PROVE  OffByRoundTrip(i)
    <2> DEFINE p == stamps[i].sent
               v == stamps[i].received
               l == stamps[i].local_time
    <2>1. stamps[i] \in StampSet /\ ReadInBetween(stamps[i])
      BY <1>1 DEF SyncIInv, StampsAreEchoes
    <2>2. p \in Nat /\ v \in Nat /\ l \in Nat
      BY <2>1 DEF StampSet
    <2>3. PICK d1 \in Nat, d2 \in Nat :
                 v = p + d1 + d2 /\ l = Clock(p + d1) /\ v <= Horizon
      BY <2>1 DEF ReadInBetween
    <2> DEFINE t   == p + d1
               u   == Rate * t + Offset
               ulp == Resolution(u)
    <2>4. Off(i) = 2 * l - (Rate * (p + v) + 2 * Offset)
      BY DEF Off
    <2>5. t \in Nat /\ t <= Horizon /\ t \in p..v /\ v - p = d1 + d2 /\ p + v = 2 * t - d1 + d2
      BY <2>2, <2>3, FitConstants
    <2> HIDE DEF p, v, l, t
    <2>6. /\ u \in Nat /\ ulp \in Nat
          /\ 2 * l <= 2 * u + ulp /\ 2 * u <= 2 * l + ulp
      BY <2>3, <2>5, ClockFacts DEF t
    <2> DEFINE r  == Rate * t
               r1 == Rate * d1
               r2 == Rate * d2
    <2>7. r \in Nat /\ r1 \in Nat /\ r2 \in Nat /\ u = r + Offset /\ Offset \in Nat
      BY <2>3, <2>5, FitConstants
    <2>8. Rate * (2 * t - d1 + d2) = 2 * r - r1 + r2 /\ Rate * (d1 + d2) = r1 + r2
      BY <2>3, <2>5, FitConstants
    <2>9. Rate * (p + v) = 2 * r - r1 + r2 /\ Rate * (v - p) = r1 + r2
      BY <2>5, <2>8
    <2> HIDE DEF u, ulp, r, r1, r2
    <2>10. Abs(Off(i)) <= Rate * (v - p) + ulp
      BY <2>2, <2>4, <2>6, <2>7, <2>9 DEF Abs
    <2> QED BY <2>5, <2>10 DEF OffByRoundTrip, p, v, ulp, u
  <1>2. SyncIInv => \A i \in 1..echoes : OffByRoundTrip(i)
    BY <1>1
  <1> QED BY <1>2, SyncInvariance, PTL

\* However the readings were rounded and the two ways differed, the exported times are
\* off by no more than what the echoes that the filter kept can move the line.
THEOREM ErrorBounded == SyncSpec => []ErrorIsBounded
  <1>1. ASSUME SyncIInv, Exported, N >= 3, NEW E \in {Abs(Off(i)) : i \in Points},
               OffBy(fit.inliers, E), 2 * Turned(E) <= Rate * fit.line.den
        PROVE  SynchronisedTo(Moved(E))
    <2>1. E \in Nat
      BY <1>1, FitFacts, OffTheClock DEF Abs
    <2> QED BY <1>1, <2>1, NearInliersSynchronise
  <1>2. SyncIInv => ErrorIsBounded
    BY <1>1 DEF ErrorIsBounded
  <1> QED BY <1>2, SyncInvariance, PTL

\* An echo that stands out is set aside, whatever its delays were and whatever was rounded.
THEOREM OutlierIsRejected == SyncSpec => []OutlierRejected
  <1>1. ASSUME SyncIInv, Exported, N >= 5, NEW k \in Points,
               NEW E \in {Abs(Off(i)) : i \in Points \ {k}},
               OffBy(Points \ {k}, E), StandsOut(k, E)
        PROVE  k \notin fit.inliers
    <2>1. FirstExport
      BY <1>1, FitFacts
    <2>2. E \in Nat /\ \A i \in Points : Off(i) \in Int
      BY <1>1, <2>1, OffTheClock DEF Abs
    <2>3. Bounded(Points \ {k}, Offs, E)
      <3> SUFFICES ASSUME NEW i \in Points \ {k} PROVE Inside(Offs[i], E)
        BY DEF Bounded
      <3>1. Off(i) \in Int /\ Abs(Off(i)) <= E
        BY <1>1, <2>2 DEF OffBy
      <3> QED BY <2>2, <3>1 DEF Abs, Inside, Offs
    <2>4. Dominant(Off(k), Leverage(k), Width, Regression(Points).den, Noise(E))
      BY <1>1 DEF StandsOut, Dominant
    <2>5. k \notin Inliers(Residuals(FirstPass))
      BY <1>1, <2>1, <2>2, <2>3, <2>4, OutlierIsOutside
    <2> QED BY <1>1, <2>5, FitFacts
  <1>2. SyncIInv => OutlierRejected
    BY <1>1 DEF OutlierRejected
  <1> QED BY <1>2, SyncInvariance, PTL
=============================================================================
