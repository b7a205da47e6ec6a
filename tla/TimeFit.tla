------------------------------ MODULE TimeFit ------------------------------
(***************************************************************************)
(* The time synchronisation of the CSV export, on top of the buffer of     *)
(* TimeBuffer: a line lt = a * t_mid + b is fitted through the echoes in   *)
(* the buffer, echoes whose residual lies far outside the quartiles are    *)
(* set aside, the line is fitted again, and each row's local time is       *)
(* mapped back to global time with it.                                     *)
(*                                                                         *)
(* The doubles of the code are exact fractions here: a fit is a record of  *)
(* numerators with a common positive denominator, and t_mid is kept        *)
(* doubled, in half ticks, so that the midpoint is an integer.  The local  *)
(* times are floats: a clock reading keeps its leading bits only.          *)
(***************************************************************************)
EXTENDS TimeBuffer, Sequences, FiniteSets

CONSTANTS
  Gaps,        \* ticks between the TIMESTAMP_PACKAGEs of two echoes in a row
  Delays,      \* one-way delays of a package
  Horizon,     \* bound: the last tick at which an echo arrives
  Rate,        \* the client's clock: Rate * t + Offset at global time t
  Offset,
  Mantissa     \* 2^24: the integers below it are floats

\* Resolution looks for a reading's exponent up to 20: with 24 bits and
\* microseconds, in the first 200 days of a client.
ASSUME TimeFitAssumption ==
  /\ Gaps \subseteq Nat \ {0} /\ Delays \subseteq Nat /\ Horizon \in Nat
  /\ Rate \in Nat \ {0} /\ Offset \in Nat
  /\ Mantissa \in Nat \ {0} /\ Mantissa % 2 = 0
  /\ Rate * Horizon + Offset < Mantissa * 2 ^ 20

\* The distance of two floats around x, and (float) x: to nearest, ties to even.
Resolution(x) ==
  2 ^ (CHOOSE e \in 0..20 : /\ x < Mantissa * 2 ^ e
                            /\ e = 0 \/ x >= Mantissa * 2 ^ (e - 1))

Float(x) ==
  LET ulp  == Resolution(x)
      down == x \div ulp
      rest == x - ulp * down
  IN  IF 2 * rest > ulp \/ (2 * rest = ulp /\ down % 2 = 1)
      THEN ulp * (down + 1) ELSE ulp * down

\* (float) esp_timer_get_time() at global time t.
Clock(t) == Float(Rate * t + Offset)

VARIABLES
  stamps,      \* the echoes that arrived: sequence of [sent, received, local_time]
  fit          \* the fit of the export, or NoFit

NoFit == [export |-> FALSE]

syncVars == <<vars, stamps, fit>>

\* A timestamp takes d1 ticks to the client, which appends its clock, and the
\* echo d2 ticks back.
Echoed(sent, d1, d2) ==
  [sent |-> sent, received |-> sent + d1 + d2, local_time |-> Clock(sent + d1)]

Before == [sent |-> 0, received |-> 0, local_time |-> 0]
LastEcho == IF stamps = <<>> THEN Before ELSE stamps[Len(stamps)]

SyncInit == Init /\ stamps = <<>> /\ fit = NoFit

\* An echo arrives with its three times; whether it is stored, and where, is
\* up to the buffer.  It belongs to any later timestamp: the thread sends one
\* five seconds or more after the other, whenever its read returns, and the
\* client may leave one unanswered.  A connection keeps the order of what it
\* carries, so neither side reads an echo before the one in front of it.
SyncEcho ==
  /\ Echo \/ EchoWithoutMemory
  /\ \E gap \in Gaps, d1, d2 \in Delays :
       LET echo == Echoed(LastEcho.sent + gap, d1, d2)
       IN  /\ LastEcho.local_time <= echo.local_time
           /\ LastEcho.received <= echo.received /\ echo.received <= Horizon
           /\ stamps' = Append(stamps, echo)
  /\ UNCHANGED fit

SyncBuffer ==
  /\ Start \/ StoreRow \/ Disconnect
  /\ UNCHANGED <<stamps, fit>>

-----------------------------------------------------------------------------
(* on_export_csv_clicked.                                                  *)

N == time_write_index
Points == 1..N

\* The times in the i-th entry of the buffer.
Times(i) ==
  LET echo == client_time_sync[i - 1]
  IN  IF echo = Zeroed THEN [sent |-> 0, received |-> 0, local_time |-> 0] ELSE stamps[echo]

first == Times(1)

\* Mutation: the time of the echo in place of the midpoint.
t_received2 == [i \in Points |-> 2 * (Times(i).received - first.sent)]

\* Twice t_mid[i], and lt[i]; both relative to the first timestamp.
t_mid2 == [i \in Points |-> Times(i).sent + Times(i).received - 2 * first.sent]
lt     == [i \in Points |-> Times(i).local_time - first.local_time]

\* A loop over 1..n that passes over what is not in S.
Sum(f, S, n) ==
  LET sum[i \in 0..n] ==
        IF i = 0 THEN 0 ELSE sum[i - 1] + (IF i \in S THEN f[i] ELSE 0)
  IN  sum[n]

Product(f, g) == [i \in Points |-> f[i] * g[i]]

\* Mutation: the numerator of the slope the wrong way round.
RegressionNegated(S) ==
  LET M   == Cardinality(S)
      Sx  == Sum(t_mid2, S, N)
      Sy  == Sum(lt, S, N)
      Sxx == Sum(Product(t_mid2, t_mid2), S, N)
      Sxy == Sum(Product(t_mid2, lt), S, N)
  IN [a |-> Sx * Sy - M * Sxy, b |-> Sy * Sxx - Sx * Sxy, den |-> M * Sxx - Sx * Sx]

\* The least-squares line through the points of S: slope a / den, intercept
\* b / den.  den is 0 when the points do not determine a line.
Regression(S) ==
  LET M   == Cardinality(S)
      Sx  == Sum(t_mid2, S, N)
      Sy  == Sum(lt, S, N)
      Sxx == Sum(Product(t_mid2, t_mid2), S, N)
      Sxy == Sum(Product(t_mid2, lt), S, N)
  IN [a |-> M * Sxy - Sx * Sy, b |-> Sy * Sxx - Sx * Sxy, den |-> M * Sxx - Sx * Sx]

ZeroLine == [a |-> 0, b |-> 0, den |-> 1]

FirstPass == LET line == Regression(Points) IN IF line.den /= 0 THEN line ELSE ZeroLine

\* The distances of the points to a line, times its denominator.
Residuals(line) ==
  [i \in Points |-> line.den * lt[i] - (line.a * t_mid2[i] + line.b)]

\* residual_sorted[k], counted from 1: so many points lie below it, and so many
\* do not lie above it.
Sorted(residual, k) ==
  CHOOSE v \in {residual[i] : i \in Points} :
    /\ Cardinality({i \in Points : residual[i] < v}) < k
    /\ Cardinality({i \in Points : residual[i] <= v}) >= k

\* Mutation: the interquartile range the wrong way round.
InliersOfNegativeRange(residual) ==
  LET Q1  == Sorted(residual, N \div 4 + 1)
      Q3  == Sorted(residual, (3 * N) \div 4 + 1)
      IQR == Q1 - Q3
  IN {i \in Points : 2 * residual[i] \in (2 * Q1 - 3 * IQR)..(2 * Q3 + 3 * IQR)}

\* Mutation: 15 IQR in place of 1.5.
InliersOfWideRange(residual) ==
  LET Q1  == Sorted(residual, N \div 4 + 1)
      Q3  == Sorted(residual, (3 * N) \div 4 + 1)
      IQR == Q3 - Q1
  IN {i \in Points : 2 * residual[i] \in (2 * Q1 - 30 * IQR)..(2 * Q3 + 30 * IQR)}

\* The points within 1.5 IQR of the quartiles.
Inliers(residual) ==
  LET Q1  == Sorted(residual, N \div 4 + 1)
      Q3  == Sorted(residual, (3 * N) \div 4 + 1)
      IQR == Q3 - Q1
  IN {i \in Points : 2 * residual[i] \in (2 * Q1 - 3 * IQR)..(2 * Q3 + 3 * IQR)}

\* The line through the inliers, or the first one if they determine none.
SecondPass(line, inliers) ==
  LET again == Regression(inliers)
  IN IF Cardinality(inliers) >= 2 /\ again.den /= 0 THEN again ELSE line

\* Behind the buffer the export would read whatever memory holds.
EntriesInBuffer == N <= allocated_client_times

Export ==
  /\ fit = NoFit
  /\ ~conn
  /\ write_index > 0
  /\ N >= 2
  /\ EntriesInBuffer
  /\ LET line    == FirstPass
         inliers == Inliers(Residuals(line))
     IN fit' = [export |-> TRUE, inliers |-> inliers, line |-> SecondPass(line, inliers)]
  /\ UNCHANGED <<vars, stamps>>

\* GLOBAL_TIME of a row's local time, doubled and relative to the first
\* timestamp, is GlobalNum(local_time) / GlobalDen.
GlobalNum(local_time) == fit.line.den * (local_time - first.local_time) - fit.line.b
GlobalDen == fit.line.a

SyncNext == SyncBuffer \/ SyncEcho \/ Export

SyncSpec == SyncInit /\ [][SyncNext]_syncVars

-----------------------------------------------------------------------------
\* The export of the first measurement of a tab; after a second Start entries
\* of the buffer may be zero.
Exported == fit /= NoFit /\ starts <= 1

\* The quartile filter keeps at least half of the echoes, so that the second
\* pass is never starved.
KeepsHalf == Exported => 2 * Cardinality(fit.inliers) >= N

\* Later local times get later global times, and the export does not divide by
\* zero, unless the client read one and the same float for all echoes that the
\* filter kept (gui.c:1237 divides by the slope without a look at it).
TimeAdvances ==
  Exported =>
    /\ fit.line.den > 0 /\ GlobalDen >= 0
    /\ GlobalDen > 0 \/ \A i, j \in fit.inliers : lt[i] = lt[j]

-----------------------------------------------------------------------------
(* How exact the exported times are depends on how far the echoes are off  *)
(* the client's clock, and on how well they determine a line.              *)

Abs(z) == IF z < 0 THEN -z ELSE z

\* Twice what the client read for an echo above what its clock showed at the
\* midpoint: what the reading was rounded by, and half of what the two ways
\* differed by, whatever the delays were.
Off(i) == 2 * stamps[i].local_time - (Rate * (stamps[i].sent + stamps[i].received) + 2 * Offset)

OffBy(S, E) == \A i \in S : Abs(Off(i)) <= E

\* The instants of the measurement, from the first timestamp to the last, and
\* its length in half ticks.
Instants == stamps[1].sent..stamps[Len(stamps)].sent
Duration2 == 2 * (stamps[Len(stamps)].received - stamps[1].sent)

\* How far points that are off by E may turn the line and move it.  The
\* denominator of the fit is the spread of the midpoints: when M points are
\* evenly spread over the measurement, Moved is about 12 * E.
Turned(E) == Cardinality(fit.inliers) * (E * (Cardinality(fit.inliers) * Duration2))
Moved(E) == (Cardinality(fit.inliers) * (E * (Cardinality(fit.inliers) * (Duration2 * Duration2))))
              \div fit.line.den + 1

\* The exported time of everything the client measured is the global time, to
\* within error / Rate half ticks, and the step of the client's floats there.
SynchronisedTo(error) ==
  \A t \in Instants :
    LET off   == GlobalNum(Clock(t)) - 2 * (t - stamps[1].sent) * GlobalDen
        bound == 2 * (error + Resolution(Rate * t + Offset)) * GlobalDen
    IN  Rate * off \in -bound..bound

\* The synchronisation of README.md:13 and 337: from three echoes on, whatever
\* the rate and the offset of the client's clock, however it was rounded and
\* however the two ways differed, the exported times are off by no more than
\* what the echoes that the filter kept, off by E or less, can move the line;
\* unless they can turn it by half its slope.  The fit reads them from a buffer
\* that grew in between and may have lost the last one.
ErrorIsBounded ==
  (Exported /\ N >= 3) =>
    \A E \in {Abs(Off(i)) : i \in Points} :
      OffBy(fit.inliers, E) /\ 2 * Turned(E) <= Rate * fit.line.den => SynchronisedTo(Moved(E))

\* How much the k-th point bends the first pass, and the width of the points.
Leverage(k) == N * t_mid2[k] - Sum(t_mid2, Points, N)
Width == t_mid2[N] - t_mid2[1]

\* What points that are off by E contribute to the residuals of the first pass.
Noise(E) == LET den == Regression(Points).den IN den * E + N * (E * (N * (Width * Width)))

\* The k-th echo is so far off that what its residual keeps of that, after it
\* has bent the line towards itself, outweighs the noise of the others.
StandsOut(k, E) ==
  10 * Noise(E) < 2 * (Abs(Off(k)) * Regression(Points).den)
                    - 5 * (Abs(Off(k)) * (Abs(Leverage(k)) * Width))

\* From five echoes on, an echo that stands out is set aside (of fewer than
\* five, the upper quartile is the largest residual).
OutlierRejected ==
  (Exported /\ N >= 5) =>
    \A k \in Points : \A E \in {Abs(Off(i)) : i \in Points \ {k}} :
      OffBy(Points \ {k}, E) /\ StandsOut(k, E) => k \notin fit.inliers
=============================================================================
