---------------------------- MODULE SettingProofs ----------------------------
(***************************************************************************)
(* Proofs about Setting for every width of the integers, every resolution  *)
(* of the floats and every set of values and options.  The powers of two   *)
(* are counted as sets of bits: the prover knows nothing else of 2^n.      *)
(***************************************************************************)
EXTENDS Setting, FiniteSetTheorems, FunctionTheorems, TLAPS

\* What holds besides the types.  The text of an entry and the value behind
\* it agree while the text spells a value of the datatype.
TextIsValue ==
  /\ type = "combo" => datatype /= "float"
  /\ type = "entry" => shown /= None
  /\ default_value = Null => datatype = "uint8_hex"
  /\ (/\ type = "entry"
      /\ datatype /= "float"
      /\ default_value /= Null
      /\ InRange(shown.number, datatype)) => default_value = shown.number

IInv == TypeOK /\ TextIsValue

-----------------------------------------------------------------------------
(* Powers of two.                                                          *)

\* 2^n is the number of sets of n bits.
LEMMA PowerIsCardinality ==
  ASSUME NEW n \in Nat
  PROVE  IsFiniteSet(SUBSET (1..n)) /\ Cardinality(SUBSET (1..n)) = 2^n
  <1>1. IsFiniteSet(1..n) /\ Cardinality(1..n) = n
    BY FS_Interval
  <1> QED BY <1>1, FS_SUBSET

\* A power of two is a positive number.
LEMMA PowerIsPositive ==
  ASSUME NEW n \in Nat
  PROVE  2^n \in Nat \ {0}
  <1>1. IsFiniteSet(SUBSET (1..n)) /\ Cardinality(SUBSET (1..n)) = 2^n
    BY PowerIsCardinality
  <1>2. {} \in SUBSET (1..n)
    OBVIOUS
  <1>3. Cardinality(SUBSET (1..n)) /= 0
    BY <1>1, <1>2, FS_EmptySet
  <1> QED BY <1>1, <1>3, FS_CardinalityType

\* More bits have no fewer values.
LEMMA PowerGrows ==
  ASSUME NEW n \in Nat, NEW m \in 0..n
  PROVE  2^m <= 2^n
  <1>1. SUBSET (1..m) \subseteq SUBSET (1..n)
    OBVIOUS
  <1>2. m \in Nat
    OBVIOUS
  <1>3. /\ IsFiniteSet(SUBSET (1..n)) /\ Cardinality(SUBSET (1..n)) = 2^n
        /\ Cardinality(SUBSET (1..m)) = 2^m
    BY <1>2, PowerIsCardinality
  <1>4. Cardinality(SUBSET (1..m)) <= Cardinality(SUBSET (1..n))
    BY <1>1, <1>3, FS_Subset, Zenon
  <1> QED BY <1>3, <1>4

\* The sets of n bits are those without bit n and those with it.
LEMMA PowerDoubles ==
  ASSUME NEW n \in Nat \ {0}
  PROVE  2^n = 2 * 2^(n - 1)
  <1> DEFINE A == SUBSET (1..(n - 1))
             B == {s \in SUBSET (1..n) : n \in s}
             f == [s \in A |-> s \cup {n}]
  <1>1. IsFiniteSet(A) /\ Cardinality(A) = 2^(n - 1)
    BY PowerIsCardinality
  <1>2. f \in Bijection(A, B)
    <2>1. f \in [A -> B]
      OBVIOUS
    <2>2. \A s, t \in A : f[s] = f[t] => s = t
      OBVIOUS
    <2>3. \A b \in B : \E s \in A : f[s] = b
      <3> SUFFICES ASSUME NEW b \in B PROVE \E s \in A : f[s] = b
        OBVIOUS
      <3>1. b \ {n} \in A /\ (b \ {n}) \cup {n} = b
        OBVIOUS
      <3> QED BY <3>1
    <2> HIDE DEF f, A, B
    <2> QED BY <2>1, <2>2, <2>3, Fun_IsBij DEF Injection, IsInjective, Surjection, Bijection
  <1>3. IsFiniteSet(B) /\ Cardinality(B) = 2^(n - 1)
    <2> HIDE DEF A, B, f
    <2>1. ExistsBijection(A, B)
      BY <1>2 DEF ExistsBijection
    <2> QED BY <1>1, <2>1, FS_Bijection
  <1>4. A \cap B = {} /\ A \cup B = SUBSET (1..n)
    OBVIOUS
  <1>5. Cardinality(SUBSET (1..n)) = 2^(n - 1) + 2^(n - 1) - 0
    <2> HIDE DEF A, B
    <2>1. Cardinality(A \cap B) = 0
      BY <1>4, FS_EmptySet
    <2>2. Cardinality(A \cup B) = Cardinality(A) + Cardinality(B) - Cardinality(A \cap B)
      BY <1>1, <1>3, FS_Union
    <2> QED BY <1>1, <1>3, <1>4, <2>1, <2>2
  <1>6. 2^(n - 1) \in Nat
    BY PowerIsPositive
  <1>7. Cardinality(SUBSET (1..n)) = 2^n
    BY PowerIsCardinality
  <1> QED BY <1>5, <1>6, <1>7

\* The widths are positive, and none is above 64 bits.
LEMMA Widths ==
  ASSUME NEW t \in IntTypes
  PROVE  /\ Bits[t] \in Nat \ {0}
         /\ Bits[t] \in 0..Bits["uint64"]
         /\ Bits[t] - 1 \in 0..(Bits["uint64"] - 1)
         /\ Bits["uint64"] \in Nat \ {0}
  <1>1. "uint64" \in IntTypes
    BY DEF IntTypes
  <1>2. Bits \in [IntTypes -> Nat \ {0}] /\ Bits[t] <= Bits["uint64"]
    BY SettingAssumption
  <1>3. Bits[t] \in Nat \ {0} /\ Bits["uint64"] \in Nat \ {0}
    BY <1>1, <1>2
  <1> QED BY <1>2, <1>3

\* The powers of two that bound the integers of a datatype.
LEMMA Bounds ==
  ASSUME NEW t \in IntTypes
  PROVE  /\ 2^Bits[t] \in Nat /\ 2^(Bits[t] - 1) \in Nat \ {0}
         /\ 2^Bits[t] = 2 * 2^(Bits[t] - 1)
         /\ 2^Bits[t] <= 2^Bits["uint64"]
         /\ 2^(Bits[t] - 1) <= 2^(Bits["uint64"] - 1)
         /\ 2^Bits["uint64"] \in Nat /\ 2^(Bits["uint64"] - 1) \in Nat \ {0}
  <1>1. /\ Bits[t] \in Nat \ {0} /\ Bits[t] - 1 \in Nat
        /\ Bits["uint64"] \in Nat \ {0} /\ Bits["uint64"] - 1 \in Nat
        /\ Bits[t] \in 0..Bits["uint64"]
        /\ Bits[t] - 1 \in 0..(Bits["uint64"] - 1)
    BY Widths
  <1>2. /\ 2^Bits[t] \in Nat /\ 2^(Bits[t] - 1) \in Nat \ {0}
        /\ 2^Bits["uint64"] \in Nat /\ 2^(Bits["uint64"] - 1) \in Nat \ {0}
    BY <1>1, PowerIsPositive
  <1>3. 2^Bits[t] = 2 * 2^(Bits[t] - 1)
    BY <1>1, PowerDoubles
  <1>4. /\ 2^Bits[t] <= 2^Bits["uint64"]
        /\ 2^(Bits[t] - 1) <= 2^(Bits["uint64"] - 1)
    BY <1>1, PowerGrows
  <1> QED BY <1>2, <1>3, <1>4

\* strtoull and strtoll of a number are numbers, and leave alone what fits.
LEMMA Strto ==
  ASSUME NEW n \in Int
  PROVE  /\ strtoull(n) \in Int /\ strtoll(n) \in Int
         /\ n < 2^Bits["uint64"] => strtoull(n) = n
         /\ n \in (-(2^(Bits["uint64"] - 1)))..(2^(Bits["uint64"] - 1) - 1)
              => strtoll(n) = n
  <1> DEFINE all  == 2^Bits["uint64"]
             half == 2^(Bits["uint64"] - 1)
  <1>1. all \in Nat /\ half \in Nat
    BY Bounds DEF IntTypes
  <1>2. strtoull(n) = IF n < all THEN n ELSE all - 1
    BY DEF strtoull
  <1>3. strtoll(n) = IF n >= half THEN half - 1 ELSE IF n < -half THEN -half ELSE n
    BY DEF strtoll
  <1> HIDE DEF all, half
  <1>4. /\ strtoull(n) \in Int /\ strtoll(n) \in Int
        /\ n < all => strtoull(n) = n
        /\ n \in (-half)..(half - 1) => strtoll(n) = n
    BY <1>1, <1>2, <1>3
  <1> QED BY <1>4 DEF all, half

-----------------------------------------------------------------------------
(* Conversions.                                                            *)

\* The remainder of a division by a positive number.
LEMMA Remainder ==
  ASSUME NEW n \in Int, NEW m \in Nat \ {0}
  PROVE  n % m \in 0..(m - 1) /\ (n \in 0..(m - 1) => n % m = n)
  OBVIOUS

\* A negative number that the modulus lifts above zero.
LEMMA RemainderOfNegative ==
  ASSUME NEW m \in Nat \ {0}, NEW n \in (-m)..(-1)
  PROVE  n % m = n + m
  OBVIOUS

\* An unsigned conversion stays below 2^w and changes nothing below it.
LEMMA UnsignedInRange ==
  ASSUME NEW n \in Int, NEW t \in IntTypes
  PROVE  /\ Unsigned(n, Bits[t]) \in 0..(2^Bits[t] - 1)
         /\ n \in 0..(2^Bits[t] - 1) => Unsigned(n, Bits[t]) = n
  <1>1. 2^Bits[t] \in Nat \ {0}
    BY Widths, PowerIsPositive
  <1> QED BY <1>1, Remainder DEF Unsigned

\* A signed one stays within the signed range, and changes nothing there.
LEMMA SignedInRange ==
  ASSUME NEW n \in Int, NEW t \in IntTypes
  PROVE  /\ Signed(n, Bits[t]) \in (-(2^(Bits[t] - 1)))..(2^(Bits[t] - 1) - 1)
         /\ n \in (-(2^(Bits[t] - 1)))..(2^(Bits[t] - 1) - 1)
              => Signed(n, Bits[t]) = n
  <1> DEFINE m == 2^Bits[t]
             h == 2^(Bits[t] - 1)
  <1>1. h \in Nat \ {0} /\ m = 2 * h
    BY Bounds
  <1>2. Signed(n, Bits[t]) = IF n % m >= h THEN (n % m) - m ELSE n % m
    BY DEF Signed
  <1> HIDE DEF m, h
  <1>3. n % m \in 0..(m - 1) /\ (n \in 0..(m - 1) => n % m = n)
    BY <1>1, Remainder
  <1>4. n \in (-m)..(-1) => n % m = n + m
    BY <1>1, RemainderOfNegative
  <1>5. /\ Signed(n, Bits[t]) \in (-h)..(h - 1)
        /\ n \in (-h)..(h - 1) => Signed(n, Bits[t]) = n
    BY <1>1, <1>2, <1>3, <1>4
  <1> QED BY <1>5 DEF h

\* What is assumed of the constants that describe floats.
LEMMA FloatConstants ==
  /\ Res \in Nat /\ Res % 2 = 1
  /\ Frac \in Nat \ {0}
  BY SettingAssumption, Zenon

\* Cutting off the decimal places gives a number.
LEMMA WholeIsNumber ==
  ASSUME NEW n \in Int
  PROVE  Whole(n) \in Int
  <1>1. Frac \in Nat /\ Frac > 0
    BY FloatConstants
  <1>2. n >= 0 => (n \div Frac) * Frac \in Int
    BY <1>1
  <1>3. n < 0 => -(((-n) \div Frac) * Frac) \in Int
    BY <1>1
  <1> QED BY <1>2, <1>3 DEF Whole

\* What a text of a value becomes is a value of the datatype.
LEMMA ParsedInRange ==
  ASSUME NEW text, text.number \in Int,
         datatype \in IntTypes \cup {"float", "char[256]"}
  PROVE  string_to_variant(text) \in Int /\ InRange(string_to_variant(text), datatype)
  <1> DEFINE n == text.number
  <1>1. CASE datatype = "char[256]"
    BY <1>1 DEF string_to_variant, InRange, IntTypes
  <1>2. CASE datatype = "float"
    <2>1. Whole(n) \in Int
      BY WholeIsNumber
    <2>2. Res \in Int
      BY FloatConstants
    <2> DEFINE places == IF text.separator = "," THEN Whole(n) ELSE n
    <2>3. string_to_variant(text) = Res * places
      BY <1>2 DEF string_to_variant
    <2>4. datatype \notin IntTypes
      BY <1>2 DEF IntTypes
    <2>5. string_to_variant(text) \in Int
      <3>1. places \in Int
        BY <2>1
      <3> HIDE DEF places
      <3>2. Res * places \in Int
        BY <2>2, <3>1
      <3> QED BY <2>3, <3>2, Zenon
    <2> QED BY <2>4, <2>5 DEF InRange
  <1>3. CASE datatype = "int32"
    <2>1. datatype \in IntTypes /\ datatype = "int32"
      BY <1>3 DEF IntTypes
    <2>2. strtoll(n) \in Int
      BY Strto
    <2>3. string_to_variant(text) = Signed(strtoll(n), Bits[datatype])
      BY <1>3 DEF string_to_variant
    <2>4. 2^(Bits[datatype] - 1) \in Nat
      BY <2>1, Bounds
    <2> HIDE DEF n
    <2>5. string_to_variant(text) \in (-(2^(Bits[datatype] - 1)))..(2^(Bits[datatype] - 1) - 1)
      BY <2>1, <2>2, <2>3, SignedInRange
    <2>6. string_to_variant(text) \in Int
      BY <2>4, <2>5
    <2> QED BY <2>1, <2>5, <2>6 DEF InRange, Least, Greatest
  <1>4. CASE datatype \in IntTypes \ {"int32"}
    <2>1. datatype \in IntTypes /\ datatype /= "int32"
      BY <1>4
    <2>2. strtoull(n) \in Int
      BY Strto
    <2>3. string_to_variant(text) = Unsigned(strtoull(n), Bits[datatype])
      BY <1>4 DEF string_to_variant, IntTypes
    <2>4. 2^Bits[datatype] \in Nat
      BY <2>1, Bounds
    <2> HIDE DEF n
    <2>5. string_to_variant(text) \in 0..(2^Bits[datatype] - 1)
      BY <2>1, <2>2, <2>3, UnsignedInRange
    <2>6. string_to_variant(text) \in Int
      BY <2>4, <2>5
    <2> QED BY <2>1, <2>5, <2>6 DEF InRange, Least, Greatest
  <1> QED BY <1>1, <1>2, <1>3, <1>4

\* The text of a value in range is read back as the value.
LEMMA ParsedBack ==
  ASSUME NEW text, text.number \in Int, InRange(text.number, datatype),
         datatype \in IntTypes \cup {"char[256]"}
  PROVE  string_to_variant(text) = text.number
  <1> DEFINE n == text.number
  <1>1. CASE datatype = "char[256]"
    BY <1>1 DEF string_to_variant
  <1>2. CASE datatype = "int32"
    <2>1. datatype \in IntTypes
      BY <1>2 DEF IntTypes
    <2>2. n \in (-(2^(Bits[datatype] - 1)))..(2^(Bits[datatype] - 1) - 1)
      BY <1>2, <2>1 DEF InRange, Least, Greatest
    <2>3. strtoll(n) = n
      <3>1. /\ 2^(Bits[datatype] - 1) \in Nat /\ 2^(Bits["uint64"] - 1) \in Nat
            /\ 2^(Bits[datatype] - 1) <= 2^(Bits["uint64"] - 1)
        BY <2>1, Bounds
      <3> HIDE DEF n
      <3>2. n \in (-(2^(Bits["uint64"] - 1)))..(2^(Bits["uint64"] - 1) - 1)
        BY <2>2, <3>1
      <3> QED BY <3>2, Strto
    <2>4. string_to_variant(text) = Signed(strtoll(n), Bits[datatype])
      BY <1>2 DEF string_to_variant
    <2> HIDE DEF n
    <2>5. Signed(n, Bits[datatype]) = n
      BY <2>1, <2>2, SignedInRange
    <2> QED BY <2>3, <2>4, <2>5 DEF n
  <1>3. CASE datatype \in IntTypes \ {"int32"}
    <2>1. datatype \in IntTypes
      BY <1>3
    <2>2. n \in 0..(2^Bits[datatype] - 1)
      BY <1>3, <2>1 DEF InRange, Least, Greatest
    <2>3. strtoull(n) = n
      <3>1. /\ 2^Bits[datatype] \in Nat /\ 2^Bits["uint64"] \in Nat
            /\ 2^Bits[datatype] <= 2^Bits["uint64"]
        BY <2>1, Bounds
      <3> HIDE DEF n
      <3>2. n < 2^Bits["uint64"]
        BY <2>2, <3>1
      <3> QED BY <2>2, <3>2, Strto
    <2>4. string_to_variant(text) = Unsigned(strtoull(n), Bits[datatype])
      BY <1>3 DEF string_to_variant, IntTypes
    <2> HIDE DEF n
    <2>5. Unsigned(n, Bits[datatype]) = n
      BY <2>1, <2>2, UnsignedInRange
    <2> QED BY <2>3, <2>4, <2>5 DEF n
  <1> QED BY <1>1, <1>2, <1>3

-----------------------------------------------------------------------------
(* Texts and parsed values.                                                *)

AnyText == [separator : {"", ".", ",", "blank"}, number : Int]

\* Values a setting can have.
Value(v) == (v = Null /\ datatype = "uint8_hex") \/ (v \in Int /\ InRange(v, datatype))

\* The nearest decimal place is at most half a place away.
LEMMA RoundedIsNear ==
  ASSUME NEW v \in Int
  PROVE  /\ Rounded(v) \in Int
         /\ 2 * (Res * Rounded(v) - v) \in (-Res)..Res
  <1> DEFINE x == 2 * v + Res
             y == 2 * Res
             q == x \div y
  <1>1. Res \in Nat /\ Res > 0
    BY FloatConstants
  <1>2. x \in Int /\ y \in Nat /\ y > 0
    BY <1>1
  <1>3. q \in Int /\ y * q <= x /\ x < y * q + y
    <2> HIDE DEF x, y
    <2> QED BY <1>2
  <1>4. Rounded(v) = q
    BY DEF Rounded
  <1> DEFINE r == Res * q
  <1>5. r \in Int /\ y * q = 2 * r
    <2> HIDE DEF q
    <2> QED BY <1>1, <1>3
  <1> HIDE DEF q, r
  <1>6. 2 * (r - v) \in (-Res)..Res
    BY <1>1, <1>3, <1>5
  <1> QED BY <1>3, <1>4, <1>6 DEF r

\* A text spells its number.
LEMMA TextSpells == \A n : Text("", n).number = n
  BY DEF Text

\* What variant_to_string writes is a text, for an integer that of the integer.
LEMMA WrittenIsText ==
  ASSUME NEW v, v = Null \/ v \in Int
  PROVE  /\ variant_to_string(v) \in AnyText
         /\ v /= Null /\ datatype /= "float" => variant_to_string(v) = Text("", v)
  <1>1. CASE v = Null
    BY <1>1 DEF variant_to_string, Blank, Text, AnyText
  <1>2. CASE v /= Null /\ datatype = "float"
    <2>1. Rounded(v) \in Int
      BY <1>2, RoundedIsNear
    <2> QED BY <1>2, <2>1 DEF variant_to_string, Text, AnyText
  <1>3. CASE v /= Null /\ datatype /= "float"
    BY <1>3 DEF variant_to_string, Text, AnyText
  <1> QED BY <1>1, <1>2, <1>3

\* A null is no number.
LEMMA NullIsNoNumber == Null \notin Int
  BY SettingAssumption, Zenon

\* No option is no text.
LEMMA NoneIsNoText == None \notin AnyText
  BY SettingAssumption, Zenon DEF AnyText

\* Zero is a value of every datatype.
LEMMA ZeroInRange == InRange(0, datatype)
  <1> SUFFICES ASSUME datatype \in IntTypes PROVE 0 \in Least(datatype)..Greatest(datatype)
    BY DEF InRange
  <1>1. 2^Bits[datatype] \in Nat \ {0} /\ 2^(Bits[datatype] - 1) \in Nat \ {0}
    BY Bounds
  <1> QED BY <1>1 DEF Least, Greatest

\* Whatever the JSON holds, the default is a value of the datatype, or null
\* for uint8_hex.
LEMMA DefaultIsValue ==
  ASSUME NEW node \in Nodes,
         datatype \in IntTypes \cup {"float", "char[256]"}
  PROVE  /\ Value(parse_default_value(node))
         /\ Accepted(node) => parse_default_value(node) = node.number
         /\ ~Accepted(node) => parse_default_value(node) \in {0, Null}
  <1>1. node.number \in Int
    <2>1. node.number \in Numbers
      BY DEF Nodes
    <2>2. Numbers \subseteq Int
      BY SettingAssumption, Zenon
    <2> QED BY <2>1, <2>2
  <1>2. CASE Accepted(node)
    <2>1. parse_default_value(node) = node.number
      BY <1>2 DEF parse_default_value
    <2>2. InRange(node.number, datatype)
      BY <1>2 DEF Accepted, InRange, IntTypes
    <2> QED BY <1>1, <1>2, <2>1, <2>2 DEF Value
  <1>3. CASE ~Accepted(node)
    <2>1. parse_default_value(node) = IF datatype = "uint8_hex" THEN Null ELSE 0
      BY <1>3 DEF parse_default_value
    <2> QED BY <1>3, <2>1, ZeroInRange DEF Value
  <1> QED BY <1>2, <1>3

\* The texts the keyboard filter lets through, and those of the options.
LEMMA TypedIsText ==
  /\ \A text \in Texts : text \in AnyText
  /\ \A n \in Options : Text("", n) \in AnyText
  <1>1. Typed \subseteq Int /\ Options \subseteq Int
    BY SettingAssumption, Zenon
  <1>2. \A n \in Options : Text("", n) \in AnyText
    BY <1>1 DEF AnyText, Text
  <1>3. ASSUME NEW text \in Texts
        PROVE  text \in AnyText
    <2> DEFINE numbers == {n \in Typed : /\ datatype \in IntTypes \ {"int32"} => n >= 0
                                         /\ datatype = "uint8_hex" => InRange(n, datatype)}
               separators == IF datatype = "float" THEN {".", ","} ELSE {""}
    <2>1. text = Blank \/ text \in [separator : separators, number : numbers]
      BY DEF Texts
    <2>2. Blank \in AnyText
      BY DEF Blank, Text, AnyText
    <2>3. numbers \subseteq Int /\ separators \subseteq {"", ".", ",", "blank"}
      BY <1>1
    <2> HIDE DEF numbers, separators
    <2> QED BY <2>1, <2>2, <2>3 DEF AnyText
  <1> QED BY <1>2, <1>3

-----------------------------------------------------------------------------
(* The invariant.                                                          *)

\* The datatypes considered are those of the code.
LEMMA KnownDatatype == TypeOK => datatype \in IntTypes \cup {"float", "char[256]"}
  <1>1. Datatypes \subseteq IntTypes \cup {"float", "char[256]"}
    BY SettingAssumption, Zenon
  <1> QED BY <1>1 DEF TypeOK

\* What the invariant says of the next state, for a step that keeps the type
\* and the datatype.
LEMMA Preserved ==
  ASSUME IInv, UNCHANGED <<type, datatype>>,
         Value(default_value'),
         shown' \in AnyText \/ (shown' = shown),
         type = "entry" /\ datatype /= "float" /\ default_value' /= Null
           /\ InRange(shown'.number, datatype) => default_value' = shown'.number,
         sent' \in {None, Absent} \/ sent' \in Int
  PROVE  IInv'
  <1>1. TypeOK'
    <2>1. default_value' = Null \/ (default_value' \in Int /\ InRange(default_value', datatype'))
      BY DEF Value
    <2>2. shown' = None \/ shown' \in AnyText
      BY DEF IInv, TypeOK, AnyText
    <2> QED BY <2>1, <2>2 DEF IInv, TypeOK, AnyText
  <1>2. TextIsValue'
    <2>1. type' = "entry" => shown' /= None
      BY NoneIsNoText DEF IInv, TextIsValue
    <2>2. default_value' = Null => datatype' = "uint8_hex"
      BY NullIsNoNumber DEF Value
    <2> QED BY <2>1, <2>2 DEF IInv, TextIsValue
  <1> QED BY <1>1, <1>2 DEF IInv

\* A text that is shown becomes the value.
LEMMA ShowStep ==
  ASSUME IInv, NEW text \in AnyText, Show(text), UNCHANGED <<type, datatype, sent>>
  PROVE  IInv'
  <1>1. datatype \in IntTypes \cup {"float", "char[256]"}
    BY KnownDatatype DEF IInv
  <1>2. text.number \in Int
    BY DEF AnyText
  <1>3. default_value' = string_to_variant(text) /\ shown' = text
    BY DEF Show
  <1>4. Value(default_value')
    BY <1>1, <1>2, <1>3, ParsedInRange DEF Value
  <1>5. datatype /= "float" /\ InRange(shown'.number, datatype)
          => default_value' = shown'.number
    BY <1>1, <1>2, <1>3, ParsedBack
  <1>6. sent' \in {None, Absent} \/ sent' \in Int
    BY DEF IInv, TypeOK
  <1> QED BY <1>3, <1>4, <1>5, <1>6, Preserved

\* The text LoadJson has for a value: that of the entry, or of the combo's option.
LoadedText(v) == IF type = "entry" THEN variant_to_string(v) ELSE OptionFor(v)

\* A load either shows nothing new, and then the value is the one parsed, or
\* shows the text of that value.
LEMMA LoadCases ==
  ASSUME NEW node \in Nodes, LoadJson(node)
  PROVE  LET value == parse_default_value(node)
         IN  /\ UNCHANGED <<type, datatype, sent>>
             /\ \/ /\ LoadedText(value) \in {None, shown}
                   /\ default_value' = value /\ UNCHANGED shown
                \/ /\ LoadedText(value) \notin {None, shown}
                   /\ Show(LoadedText(value))
  BY DEF LoadJson, LoadedText

\* The text of a value is none or a text, and for an entry a text.
LEMMA LoadedIsText ==
  ASSUME NEW v, v = Null \/ v \in Int
  PROVE  /\ LoadedText(v) \in {None, variant_to_string(v)}
         /\ type = "entry" => LoadedText(v) = variant_to_string(v)
         /\ variant_to_string(v) \in AnyText
  BY WrittenIsText DEF LoadedText, OptionFor

LEMMA LoadStep ==
  ASSUME IInv, NEW node \in Nodes, LoadJson(node)
  PROVE  IInv'
  <1> DEFINE value == parse_default_value(node)
             text  == LoadedText(value)
  <1>1. datatype \in IntTypes \cup {"float", "char[256]"}
    BY KnownDatatype DEF IInv
  <1>2. Value(value)
    BY <1>1, DefaultIsValue
  <1>3. value = Null \/ value \in Int
    BY <1>2 DEF Value
  <1> HIDE DEF value
  <1>4. /\ text \in {None, variant_to_string(value)}
        /\ type = "entry" => text = variant_to_string(value)
        /\ variant_to_string(value) \in AnyText
        /\ value /= Null /\ datatype /= "float" => variant_to_string(value) = Text("", value)
    BY <1>3, LoadedIsText, WrittenIsText
  <1>5. /\ UNCHANGED <<type, datatype, sent>>
        /\ \/ text \in {None, shown} /\ default_value' = value /\ UNCHANGED shown
           \/ text \notin {None, shown} /\ Show(text)
    BY LoadCases DEF value
  <1> HIDE DEF text
  <1>6. CASE text \in {None, shown} /\ default_value' = value /\ UNCHANGED shown
    <2>1. ASSUME type = "entry", datatype /= "float", value /= Null
          PROVE  value = shown.number
      BY <1>4, <1>6, <2>1, NoneIsNoText, TextSpells
    <2>2. sent' \in {None, Absent} \/ sent' \in Int
      BY <1>5 DEF IInv, TypeOK
    <2> QED BY <1>2, <1>5, <1>6, <2>1, <2>2, Preserved
  <1>7. CASE text \notin {None, shown} /\ Show(text)
    <2>1. text \in AnyText
      BY <1>4, <1>7
    <2> QED BY <1>5, <1>7, <2>1, ShowStep
  <1> QED BY <1>5, <1>6, <1>7

\* What Start sends is a number, or nothing for uint8_hex.
LEMMA SendStep ==
  ASSUME IInv, Send
  PROVE  IInv'
  <1>1. datatype /= "uint8_hex" => default_value \in Int
    BY DEF IInv, TypeOK, TextIsValue
  <1>2. Member = Absent \/ Member \in Int
    <2>1. ASSUME datatype = "uint64"
          PROVE  Signed(default_value, Bits["uint64"]) \in Int
      <3>1. "uint64" \in IntTypes /\ default_value \in Int
        BY <1>1, <2>1 DEF IntTypes
      <3>2. 2^(Bits["uint64"] - 1) \in Nat
        BY <3>1, Bounds
      <3> QED BY <3>1, <3>2, SignedInRange
    <2> QED BY <1>1, <2>1 DEF Member
  <1>3. Value(default_value)
    BY DEF IInv, TypeOK, TextIsValue, Value
  <1>4. type = "entry" /\ datatype /= "float" /\ default_value /= Null
           /\ InRange(shown.number, datatype) => default_value = shown.number
    BY DEF IInv, TextIsValue
  <1> QED BY <1>2, <1>3, <1>4, Preserved DEF Send

\* What the handshake leaves.
LEMMA InitEstablishes == Init => IInv
  <1> SUFFICES ASSUME Init PROVE IInv
    OBVIOUS
  <1>1. datatype \in Datatypes /\ datatype \in IntTypes \cup {"float", "char[256]"}
    <2>1. Datatypes \subseteq IntTypes \cup {"float", "char[256]"}
      BY SettingAssumption, Zenon
    <2> QED BY <2>1 DEF Init
  <1>2. PICK node \in Nodes : default_value = parse_default_value(node)
    BY DEF Init
  <1>3. Value(default_value)
    BY <1>1, <1>2, DefaultIsValue
  <1>4. default_value = Null \/ default_value \in Int
    BY <1>3 DEF Value
  <1>5. /\ shown = LoadedText(default_value)
        /\ type \in {"entry", "combo"} /\ (type = "combo" => datatype /= "float")
        /\ sent = None
    BY DEF Init, LoadedText
  <1>6. /\ shown \in {None, variant_to_string(default_value)}
        /\ type = "entry" => shown = variant_to_string(default_value)
        /\ variant_to_string(default_value) \in AnyText
        /\ default_value /= Null /\ datatype /= "float"
             => variant_to_string(default_value) = Text("", default_value)
    BY <1>4, <1>5, LoadedIsText, WrittenIsText
  <1>7. TypeOK
    BY <1>1, <1>3, <1>5, <1>6 DEF TypeOK, Value, AnyText
  <1>8. TextIsValue
    <2>1. default_value = Null => datatype = "uint8_hex"
      BY <1>3, NullIsNoNumber DEF Value
    <2>2. type = "entry" /\ datatype /= "float" /\ default_value /= Null
            => default_value = shown.number
      BY <1>6, TextSpells
    <2> QED BY <1>5, <1>6, <2>1, <2>2, NoneIsNoText DEF TextIsValue
  <1> QED BY <1>7, <1>8 DEF IInv

\* Every step keeps the invariant.
LEMMA NextStep == IInv /\ [Next]_vars => IInv'
  <1> SUFFICES ASSUME IInv, [Next]_vars PROVE IInv'
    OBVIOUS
  <1>1. ASSUME NEW text \in Texts, UserTypes(text) PROVE IInv'
    BY <1>1, ShowStep, TypedIsText DEF UserTypes
  <1>2. ASSUME NEW n \in Options, UserPicks(n) PROVE IInv'
    BY <1>2, ShowStep, TypedIsText DEF UserPicks
  <1>3. ASSUME NEW node \in Nodes, LoadJson(node) PROVE IInv'
    BY <1>3, LoadStep
  <1>4. CASE Send
    BY <1>4, SendStep
  <1>5. CASE UNCHANGED vars
    BY <1>5 DEF vars, IInv, TypeOK, TextIsValue, InRange, Least, Greatest
  <1> QED BY <1>1, <1>2, <1>3, <1>4, <1>5 DEF Next

\* In every reachable state the value has the setting's datatype, and an entry
\* that spells a value of the datatype spells the one behind it.
THEOREM Invariance == Spec => []IInv
  <1> QED BY InitEstablishes, NextStep, PTL DEF Spec

\* The variables keep their types: whatever is typed, picked or loaded, the
\* value that string_to_variant and parse_default_value leave is one of the
\* datatype.
THEOREM TypeCorrect == Spec => []TypeOK
  <1>1. IInv => TypeOK
    BY DEF IInv
  <1> QED BY <1>1, Invariance, PTL

-----------------------------------------------------------------------------
(* What is shown is what is sent.                                          *)

\* The member of the package for an integer or a name.
LEMMA ShownIsMember == IInv => EntryIsSent
  <1> SUFFICES ASSUME IInv, type = "entry",
                      datatype \in {"uint8", "uint32", "uint64", "int32", "char[256]"},
                      InRange(shown.number, datatype),
                      datatype = "uint64" => shown.number < 2^(Bits[datatype] - 1)
               PROVE  Member = shown.number
    BY DEF EntryIsSent
  <1>1. default_value /= Null /\ default_value \in Int
    BY DEF IInv, TextIsValue, TypeOK
  <1>2. default_value = shown.number
    BY <1>1 DEF IInv, TextIsValue
  <1>3. CASE datatype /= "uint64"
    BY <1>2, <1>3 DEF Member
  <1>4. CASE datatype = "uint64"
    <2>1. "uint64" \in IntTypes /\ 2^(Bits["uint64"] - 1) \in Nat
      BY Bounds DEF IntTypes
    <2>2. default_value >= 0
      <3>1. 2^Bits["uint64"] \in Nat
        BY Bounds DEF IntTypes
      <3> QED BY <1>2, <1>4, <2>1, <3>1 DEF InRange, Least, Greatest
    <2>3. Signed(default_value, Bits["uint64"]) = default_value
      BY <1>1, <1>2, <1>4, <2>1, <2>2, SignedInRange
    <2> QED BY <1>2, <1>4, <2>3 DEF Member
  <1> QED BY <1>3, <1>4

\* After any sequence of edits and loads, Start sends the number the entry
\* shows (dynamic_entry_changed, parse_settings_from_json and
\* send_settings_to_client).
THEOREM ShownIsSent == Spec => []EntryIsSent
  <1> QED BY Invariance, ShownIsMember, PTL

-----------------------------------------------------------------------------
(* A loaded value arrives.                                                 *)

\* What is read back from the text of a value: the value, a float up to half a
\* decimal place.
LEMMA WrittenAndReadBack ==
  ASSUME ~DecimalComma, NEW v, Value(v), datatype \in IntTypes \cup {"float", "char[256]"}
  PROVE  LET back == string_to_variant(variant_to_string(v))
         IN  /\ v = Null => back = 0
             /\ v \in Int /\ datatype = "float" =>
                  2 * (back - v) \in (-Res)..Res /\ (v = 0 => back = 0)
             /\ v \in Int /\ datatype /= "float" => back = v
  <1> DEFINE text == variant_to_string(v)
  <1>1. CASE v = Null
    <2>1. datatype = "uint8_hex" /\ datatype \in IntTypes
      BY <1>1, NullIsNoNumber DEF Value, IntTypes
    <2>2. text = Blank
      BY <1>1 DEF variant_to_string
    <2>3. Blank.number = 0
      BY DEF Blank, Text
    <2>4. string_to_variant(Blank) = Blank.number
      BY <2>1, <2>3, ZeroInRange, ParsedBack
    <2> QED BY <1>1, <2>2, <2>3, <2>4, NullIsNoNumber
  <1>2. CASE v \in Int /\ datatype /= "float"
    <2>1. text = Text("", v) /\ text.number = v
      BY <1>2, WrittenIsText, TextSpells, NullIsNoNumber
    <2>2. InRange(v, datatype)
      BY <1>2, NullIsNoNumber DEF Value
    <2> HIDE DEF text
    <2>3. string_to_variant(text) = v
      BY <1>2, <2>1, <2>2, ParsedBack
    <2> QED BY <1>2, <2>3, NullIsNoNumber DEF text
  <1>3. CASE v \in Int /\ datatype = "float"
    <2>1. text = Text(".", Rounded(v))
      BY <1>3, NullIsNoNumber DEF variant_to_string
    <2>2. text.number = Rounded(v) /\ text.separator = "."
      BY <2>1 DEF Text
    <2> HIDE DEF text
    <2>3. string_to_variant(text) = Res * Rounded(v)
      BY <1>3, <2>2 DEF string_to_variant
    <2>4. 2 * (Res * Rounded(v) - v) \in (-Res)..Res
      BY <1>3, RoundedIsNear
    <2>5. v = 0 => Res * Rounded(v) = 0
      <3>1. Res \in Nat /\ Res > 0
        BY FloatConstants
      <3>2. (2 * 0 + Res) \div (2 * Res) = 0
        BY <3>1
      <3>3. Rounded(0) = 0
        BY <3>2 DEF Rounded
      <3> QED BY <3>1, <3>3
    <2> QED BY <1>3, <2>3, <2>4, <2>5, NullIsNoNumber DEF text
  <1> QED BY <1>1, <1>2, <1>3 DEF Value

\* One load.
LEMMA LoadArrives ==
  ASSUME ~DecimalComma, IInv, NEW node \in Nodes, LoadJson(node)
  PROVE  IF ~Accepted(node) THEN default_value' \in {0, Null}
         ELSE IF datatype = "float"
           THEN 2 * (default_value' - node.number) \in (-Res)..Res
           ELSE default_value' = node.number
  <1> DEFINE value == parse_default_value(node)
             back  == string_to_variant(variant_to_string(value))
  <1>1. datatype \in IntTypes \cup {"float", "char[256]"}
    BY KnownDatatype DEF IInv
  <1>2. /\ Value(value)
        /\ Accepted(node) => value = node.number
        /\ ~Accepted(node) => value \in {0, Null}
    BY <1>1, DefaultIsValue
  <1>3. /\ value = Null => back = 0
        /\ value \in Int /\ datatype = "float" =>
             2 * (back - value) \in (-Res)..Res /\ (value = 0 => back = 0)
        /\ value \in Int /\ datatype /= "float" => back = value
    <2> HIDE DEF value
    <2> QED BY <1>1, <1>2, WrittenAndReadBack
  <1>4. value = Null \/ value \in Int
    BY <1>2 DEF Value
  <1>5. default_value' = value \/ default_value' = back
    <2>1. LoadedText(value) \in {None, variant_to_string(value)}
      <3> HIDE DEF value
      <3> QED BY <1>4, LoadedIsText
    <2>2. \/ default_value' = value
          \/ LoadedText(value) /= None /\ Show(LoadedText(value))
      BY LoadCases
    <2> HIDE DEF value
    <2> QED BY <2>1, <2>2 DEF Show
  <1> HIDE DEF value, back
  <1>6. Accepted(node) => value \in Int
    <2>1. node.number \in Numbers /\ Numbers \subseteq Int
      <3>1. node.number \in Numbers
        BY DEF Nodes
      <3>2. Numbers \subseteq Int
        BY SettingAssumption, Zenon
      <3> QED BY <3>1, <3>2
    <2> QED BY <1>2, <2>1
  <1>7. CASE ~Accepted(node)
    <2>1. value = 0 => back = 0
      BY <1>3
    <2> QED BY <1>2, <1>3, <1>5, <1>7, <2>1
  <1>8. CASE Accepted(node) /\ datatype = "float"
    <2>1. Res \in Nat
      BY FloatConstants
    <2>2. 2 * (value - value) \in (-Res)..Res
      BY <1>6, <1>8, <2>1
    <2> QED BY <1>2, <1>3, <1>5, <1>6, <1>8, <2>2
  <1>9. CASE Accepted(node) /\ datatype /= "float"
    BY <1>2, <1>3, <1>5, <1>6, <1>9
  <1> QED BY <1>7, <1>8, <1>9

\* Where floats are written with a point, a value of a settings file arrives
\* whatever is shown before: in range it is set, through the texts of the
\* widget, and out of range it is replaced and not wrapped around
\* (parse_settings_from_json).
THEOREM LoadedIsSet ==
  ASSUME ~DecimalComma
  PROVE  Spec => LoadedValueArrives
  <1>1. IInv /\ [Next]_vars =>
          [\A node \in Nodes : LoadJson(node) =>
             IF ~Accepted(node) THEN default_value' \in {0, Null}
             ELSE IF datatype = "float"
               THEN 2 * (default_value' - node.number) \in (-Res)..Res
               ELSE default_value' = node.number]_vars
    BY LoadArrives
  <1> QED BY <1>1, Invariance, PTL DEF Spec, LoadedValueArrives
=============================================================================
