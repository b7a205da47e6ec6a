------------------------------ MODULE Setting ------------------------------
(***************************************************************************)
(* One setting of a client, from its JSON to the SETTINGS_PACKAGE: the     *)
(* default of the handshake is parsed into default_value, a widget shows   *)
(* it, the user edits the widget or loads a file of settings, and Start    *)
(* sends default_value.  What is shown and what is sent are two copies,    *)
(* kept together by conversions to text and back.                          *)
(*                                                                         *)
(* A text is the number it spells and its decimal separator; the numbers   *)
(* of char[256] name strings, 0 the empty one.  A float is counted in      *)
(* parts of the last decimal place that "%f" prints: Res parts are one     *)
(* such place, and Frac places are 1.                                      *)
(***************************************************************************)
EXTENDS Integers

CONSTANTS
  Bits,          \* width of the integer datatypes
  Res, Frac,     \* of floats, see above
  DecimalComma,  \* the locale writes 0,5 for 0.5
  Datatypes,     \* those of the settings considered
  Numbers,       \* numbers in JSON files, within an int64
  Typed,         \* numbers the user types
  Options,       \* numbers a combo offers
  Null,          \* no GVariant
  Absent,        \* no member of the package
  None           \* no option selected, nothing sent

IntTypes == {"uint8", "uint8_hex", "uint32", "uint64", "int32"}

ASSUME SettingAssumption ==
  /\ Bits \in [IntTypes -> Nat \ {0}]
  /\ Bits["uint8_hex"] = Bits["uint8"]
  /\ \A t \in IntTypes : Bits[t] <= Bits["uint64"]
  /\ Res \in Nat /\ Res % 2 = 1
  /\ Frac \in Nat \ {0}
  /\ DecimalComma \in BOOLEAN
  /\ Datatypes \subseteq IntTypes \cup {"float", "char[256]"}
  /\ Numbers \cup Typed \cup Options \subseteq Int
  /\ {Null, Absent, None} \cap Int = {}
  /\ None \notin [separator : {"", ".", ",", "blank"}, number : Int]

VARIABLES
  type,            \* "entry" or "combo"
  datatype,
  default_value,
  shown,           \* the text of the entry or the selected option
  sent             \* the value in the last SETTINGS_PACKAGE

vars == <<type, datatype, default_value, shown, sent>>

-----------------------------------------------------------------------------
(* The arithmetic of C.                                                    *)

\* Mutation: the cast to the datatype's width is left out.
Unbounded(n, w) == n

Unsigned(n, w) == n % 2^w

Signed(n, w) == LET u == n % 2^w IN IF u >= 2^(w - 1) THEN u - 2^w ELSE u

Least(t)    == IF t = "int32" THEN -(2^(Bits[t] - 1)) ELSE 0
Greatest(t) == IF t = "int32" THEN 2^(Bits[t] - 1) - 1 ELSE 2^Bits[t] - 1

InRange(n, t) == t \in IntTypes => n \in Least(t)..Greatest(t)

\* g_ascii_strtoull and g_ascii_strtoll stop at the ends of 64 bits.
strtoull(n) == IF n < 2^Bits["uint64"] THEN n ELSE 2^Bits["uint64"] - 1
strtoll(n) ==
  LET half == 2^(Bits["uint64"] - 1)
  IN IF n >= half THEN half - 1 ELSE IF n < -half THEN -half ELSE n

\* Towards zero, to a whole number.
Whole(places) == IF places >= 0 THEN (places \div Frac) * Frac
                                ELSE -(((-places) \div Frac) * Frac)

\* The nearest decimal place; Res is odd, so there is one.
Rounded(parts) == (2 * parts + Res) \div (2 * Res)

-----------------------------------------------------------------------------
(* Texts.                                                                  *)

Text(separator, number) == [separator |-> separator, number |-> number]
Blank == Text("blank", 0)    \* the empty text, and any that spells no number

\* "%f" writes the separator of the locale.
variant_to_string(value) ==
  IF value = Null THEN Blank
  ELSE IF datatype = "float" THEN Text(IF DecimalComma THEN "," ELSE ".", Rounded(value))
  ELSE Text("", value)

\* g_ascii_strtod reads a point, and ends at a comma.
string_to_variant(text) ==
  CASE datatype = "char[256]" -> text.number
    [] datatype = "float"     -> Res * (IF text.separator = "," THEN Whole(text.number)
                                                                ELSE text.number)
    [] datatype = "int32"     -> Signed(strtoll(text.number), Bits[datatype])
    [] OTHER                  -> Unsigned(strtoull(text.number), Bits[datatype])

\* What the keyboard filter lets through: no sign for the unsigned types, a
\* point or a comma for floats, two hex digits at most for uint8_hex.
Texts ==
  (IF datatype = "char[256]" THEN {} ELSE {Blank}) \cup
  [separator : IF datatype = "float" THEN {".", ","} ELSE {""},
   number    : {n \in Typed :
                  /\ datatype \in IntTypes \ {"int32"} => n >= 0
                  /\ datatype = "uint8_hex" => InRange(n, datatype)}]

-----------------------------------------------------------------------------
(* JSON.                                                                   *)

\* An integer or a double, a string of either, or something else, or nothing.
\* Left out, because the code then overwrites its stack: an integer for a
\* uint8_hex, and a string of more than two decimal digits.
Nodes == [kind : {"string", "other", "missing"}
                   \cup IF datatype = "float" THEN {"double"}
                        ELSE IF datatype = "uint8_hex" THEN {} ELSE {"int"},
          number : Numbers]

Accepted(node) ==
  CASE datatype = "char[256]" -> node.kind = "string"
    [] datatype = "float"     -> node.kind \in {"string", "double"}
    [] OTHER                  -> /\ node.kind \in {"string", "int"}
                                 /\ InRange(node.number, datatype)

\* Mutation: out of range is cast, not rejected.
wrapped_default_value(node) ==
  IF Accepted(node) THEN node.number
  ELSE IF datatype \in IntTypes /\ node.kind \in {"int", "string"}
    THEN Unsigned(node.number, Bits[datatype])
    ELSE 0

\* Out of range is not wrapped but replaced, by 0 or by no value at all.
parse_default_value(node) ==
  IF Accepted(node) THEN node.number
  ELSE IF datatype = "uint8_hex" THEN Null ELSE 0

\* A member of the package: no branch for uint8_hex, and a signed 64-bit
\* integer whatever the datatype.
Member ==
  IF datatype = "uint8_hex" THEN Absent
  ELSE IF datatype = "uint64" THEN Signed(default_value, Bits["uint64"])
  ELSE default_value

-----------------------------------------------------------------------------
\* The text of the option the combo gets for a value, if it has one.  Options
\* are written as variant_to_string writes values.
OptionFor(value) ==
  IF value /= Null /\ \E n \in Options : Text("", n) = variant_to_string(value)
  THEN variant_to_string(value) ELSE None

\* parse_gui_config_from_json and create_dynamic_widget.
Init ==
  /\ type \in {"entry", "combo"}
  /\ datatype \in Datatypes
  /\ type = "combo" => datatype /= "float"
  /\ \E node \in Nodes : default_value = parse_default_value(node)
  /\ shown = IF type = "entry" THEN variant_to_string(default_value)
             ELSE OptionFor(default_value)
  /\ sent = None

\* Mutation: no handler is connected to the widget.
ShowOnly(text) ==
  /\ shown' = text
  /\ UNCHANGED default_value

\* A widget that shows another text than before runs its "changed" handler,
\* dynamic_entry_changed or dynamic_combo_changed.
Show(text) ==
  /\ shown' = text
  /\ default_value' = string_to_variant(text)

UserTypes(text) ==
  /\ type = "entry"
  /\ text /= shown
  /\ Show(text)
  /\ UNCHANGED <<type, datatype, sent>>

UserPicks(n) ==
  /\ type = "combo"
  /\ Text("", n) /= shown
  /\ Show(Text("", n))
  /\ UNCHANGED <<type, datatype, sent>>

\* parse_settings_from_json, for a file that has the setting: the value, then
\* the widget.  (The loop after it in on_load_json_clicked finds no widget
\* under the names it looks for.)
LoadJson(node) ==
  /\ node.kind /= "missing"
  /\ LET value == parse_default_value(node)
         text  == IF type = "entry" THEN variant_to_string(value) ELSE OptionFor(value)
     IN IF text \in {None, shown}
          THEN default_value' = value /\ UNCHANGED shown
          ELSE Show(text)
  /\ UNCHANGED <<type, datatype, sent>>

\* send_settings_to_client
Send ==
  /\ sent' = Member
  /\ UNCHANGED <<type, datatype, default_value, shown>>

Next == \/ \E text \in Texts : UserTypes(text)
        \/ \E n \in Options : UserPicks(n)
        \/ \E node \in Nodes : LoadJson(node)
        \/ Send

Spec == Init /\ [][Next]_vars

-----------------------------------------------------------------------------
\* The types of the variables; the value is of the setting's datatype.
TypeOK ==
  /\ type \in {"entry", "combo"}
  /\ datatype \in Datatypes
  /\ default_value = Null \/ (default_value \in Int /\ InRange(default_value, datatype))
  /\ shown = None \/ shown \in [separator : {"", ".", ",", "blank"}, number : Int]
  /\ sent \in {None, Absent} \/ sent \in Int

\* What an entry shows is what Start sends, as long as the text is a number of
\* the datatype: after any sequence of edits and loads, of valid values and of
\* others.  (A uint64 from 2^63 on is sent as a negative number; floats have
\* more digits than they show, and uint8_hex is not sent.)
EntryIsSent ==
  (/\ type = "entry"
   /\ datatype \in {"uint8", "uint32", "uint64", "int32", "char[256]"}
   /\ InRange(shown.number, datatype)
   /\ datatype = "uint64" => shown.number < 2^(Bits[datatype] - 1))
    => Member = shown.number

\* A loaded value arrives: in range it is set, through the texts, up to half a
\* decimal place; out of range it is not wrapped around.
LoadedValueArrives ==
  [][\A node \in Nodes : LoadJson(node) =>
       IF ~Accepted(node) THEN default_value' \in {0, Null}
       ELSE IF datatype = "float"
         THEN 2 * (default_value' - node.number) \in (-Res)..Res
         ELSE default_value' = node.number]_vars
=============================================================================
