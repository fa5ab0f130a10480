--------------------------------- MODULE Codec ---------------------------------
(* The bounded byte codec (include/hcr/detail/binary.hpp) as an interpreter of     *)
(* layouts. A layout says how one C++ structure is written or read: a sequence of  *)
(* named fields, each with the ByteWriter/ByteReader call that handles it. Module  *)
(* Layouts gives one writing and one reading layout per structure of codec.cpp.    *)
(*                                                                                 *)
(* Bytes are grouped into cells <<width, value>>, one per integer written, and one *)
(* cell of width 1 per character of a text. A text is known by its length only; an *)
(* integer of 64 bits by a small number.                                           *)
EXTENDS Integers, Sequences, FiniteSets, TLC

CONSTANTS
  limits,            \* RegistryLimits, with small bounds (limits.hpp)
  kMaxTokenLength    \* longest identity

--------------------------------------------------------------------------------
(* Field types: the calls of ByteWriter and ByteReader. *)

U16 == <<"uint", 2>>
U32 == <<"uint", 4>>
U64 == <<"uint", 8>>
Flag == <<"flag">>
\* An unsigned number that must have one value (a format version).
Fixed(width, value) == <<"fixed", width, value>>
Enum(last) == <<"enum", last>>
Str(bound) == <<"str", bound>>
\* Canonical identities and parsed versions never exceed the bound they are written with.
Token(bound) == <<"token", bound>>
Many(bound, T) == <<"many", bound, T>>
\* An optional: a boolean, then the value.
Maybe(T) == <<"maybe", T>>
\* The same with a marker that may only be 0 or 1.
Marked(T) == <<"marked", T>>
Struct(fields) == <<"struct", fields>>
\* An ordinal that selects the layout of what follows.
Choice(T) == <<"choice", T>>
\* A condition tree and a capability value, at a nesting depth.
Condition(depth) == <<"condition", depth>>
Value(depth) == <<"value", depth>>
Nothing == <<"struct", << >>>>

Id == Token(kMaxTokenLength)
Gen == U64
Name == Str(limits.max_name_length)
Metadata == Str(limits.max_metadata_bytes)
LongText == Str(limits.max_string_bytes)
Version == Token(limits.max_name_length)

Least(a, b) == IF a < b THEN a ELSE b

--------------------------------------------------------------------------------
(* Conditions and values, whose layouts contain themselves. *)

WriteVersionRange ==
  Struct(<< <<"minimum", Version>>, <<"maximum", Version>>, <<"include_maximum", Flag>> >>)
ReadVersionRange ==
  Struct(<< <<"minimum", Version>>, <<"maximum", Version>>, <<"include_maximum", Flag>> >>)

WriteConditionNode(depth) ==
  Struct(<< <<"kind", Enum(17)>>, <<"key", Name>>, <<"value", Name>>,
            <<"children", Many(limits.max_condition_children, Condition(depth + 1))>> >>)
ReadConditionNode(depth) ==
  Struct(<< <<"kind", Enum(17)>>, <<"key", Name>>, <<"value", Name>>,
            <<"children", Many(limits.max_condition_children, Condition(depth + 1))>> >>)

\* What follows the kind of a value: None, Boolean, Count, Bytes, Rate, Bandwidth,
\* LatencyClass, Enumeration, FeatureSet, VersionRange, ArchitectureSet, NumericRange,
\* Record, Relationship, Predicate.
WriteValueBody(kind, depth) ==
  CASE kind = 0 -> Nothing
    [] kind = 1 -> Flag
    [] kind = 2 -> Struct(<< <<"count", U64>>, <<"unit", Name>> >>)
    [] kind = 3 -> U64
    [] kind = 4 -> Struct(<< <<"magnitude", U64>>, <<"unit", Enum(4)>> >>)
    [] kind = 5 -> Struct(<< <<"magnitude", U64>>, <<"unit", Enum(8)>> >>)
    [] kind = 6 -> Enum(5)
    [] kind = 7 -> Struct(<< <<"domain", Name>>, <<"value", Name>> >>)
    [] kind = 8 -> Many(limits.max_feature_set_entries, Metadata)
    [] kind = 9 -> WriteVersionRange
    [] kind = 10 -> Many(limits.max_architecture_set_entries, Id)
    [] kind = 11 -> Struct(<< <<"minimum", U64>>, <<"maximum", U64>>, <<"step", U64>> >>)
    [] kind = 12 -> Many(limits.max_record_fields,
                         Struct(<< <<"name", Name>>, <<"value", Marked(Value(depth + 1))>> >>))
    [] kind = 13 -> Struct(<< <<"relation", Enum(4)>>, <<"target", Id>> >>)
    [] kind = 14 -> Condition(depth + 1)
ReadValueBody(kind, depth) ==
  CASE kind = 0 -> Nothing
    [] kind = 1 -> Flag
    [] kind = 2 -> Struct(<< <<"count", U64>>, <<"unit", Name>> >>)
    [] kind = 3 -> U64
    [] kind = 4 -> Struct(<< <<"magnitude", U64>>, <<"unit", Enum(4)>> >>)
    [] kind = 5 -> Struct(<< <<"magnitude", U64>>, <<"unit", Enum(8)>> >>)
    [] kind = 6 -> Enum(5)
    [] kind = 7 -> Struct(<< <<"domain", Name>>, <<"value", Name>> >>)
    [] kind = 8 -> Many(limits.max_feature_set_entries, Metadata)
    [] kind = 9 -> ReadVersionRange
    [] kind = 10 -> Many(limits.max_architecture_set_entries, Id)
    [] kind = 11 -> Struct(<< <<"minimum", U64>>, <<"maximum", U64>>, <<"step", U64>> >>)
    [] kind = 12 -> Many(limits.max_record_fields,
                         Struct(<< <<"name", Name>>, <<"value", Marked(Value(depth + 1))>> >>))
    [] kind = 13 -> Struct(<< <<"relation", Enum(4)>>, <<"target", Id>> >>)
    [] kind = 14 -> Condition(depth + 1)

\* The deepest condition and value the readers take.
TooDeep(T) == \/ T[1] = "condition" /\ T[2] > limits.max_record_depth + 2
              \/ T[1] = "value" /\ T[2] > limits.max_record_depth

--------------------------------------------------------------------------------
(* Writing. *)

\* The components a value is written as, with their types; a list longer than its bound
\* is cut at the bound.
Parts(T, v) ==
  CASE T[1] = "many" -> [i \in 1 .. Least(Len(v), T[2]) |-> <<T[3], v[i]>>]
    [] T[1] \in {"maybe", "marked"} -> [i \in DOMAIN v |-> <<T[2], v[i]>>]
    [] T[1] = "struct" -> [i \in DOMAIN T[2] |-> <<T[2][i][2], v[T[2][i][1]]>>]
    [] T[1] = "choice" -> << <<T[2][v[1]], v[2]>> >>
    [] T[1] = "condition" -> [i \in DOMAIN v |-> <<WriteConditionNode(T[2]), v[i]>>]
    [] T[1] = "value" -> << <<WriteValueBody(v[1], T[2]), v[2]>> >>
    [] OTHER -> << >>

\* The cells written before the components; a text longer than its bound is clamped.
Lead(T, v) ==
  CASE T[1] \in {"uint", "fixed"} -> << <<T[2], v>> >>
    [] T[1] = "flag" -> << <<1, IF v THEN 1 ELSE 0>> >>
    [] T[1] = "enum" -> << <<2, v>> >>
    [] T[1] \in {"str", "token"} ->
         << <<4, Least(v, T[2])>> >> \o [i \in 1 .. Least(v, T[2]) |-> <<1, 0>>]
    [] T[1] = "many" -> << <<4, Least(Len(v), T[2])>> >>
    [] T[1] \in {"maybe", "marked", "condition"} -> << <<1, Len(v)>> >>
    [] T[1] \in {"choice", "value"} -> << <<2, v[1]>> >>
    [] OTHER -> << >>

RECURSIVE Write(_, _), WriteAll(_, _)
Write(T, v) == Lead(T, v) \o WriteAll(Parts(T, v), 1)
WriteAll(parts, i) ==
  IF i > Len(parts) THEN << >> ELSE Write(parts[i][1], parts[i][2]) \o WriteAll(parts, i + 1)

\* ByteWriter::truncated(): some text was clamped. Lists do not count.
RECURSIVE Truncated(_, _)
Truncated(T, v) == \/ T[1] = "str" /\ v > T[2]
                   \/ LET parts == Parts(T, v)
                      IN  \E i \in DOMAIN parts : Truncated(parts[i][1], parts[i][2])

--------------------------------------------------------------------------------
(* Reading. A result is <<next position, value>>; position 0 is a failed reader.   *)

Failed == <<0, 0>>
Cell(width, in, at) == at <= Len(in) /\ in[at][1] = width
Remaining(in, at) == Len(in) - at + 1
\* A length or a count: within the bound and within what is left of the input.
Countable(bound, in, at) == /\ Cell(4, in, at)
                            /\ in[at][2] <= bound
                            /\ in[at][2] <= Remaining(in, at + 1)

RECURSIVE Read(_, _, _), ReadFields(_, _, _, _, _), ReadMany(_, _, _, _, _)
ReadFields(fields, i, in, at, done) ==
  IF i > Len(fields) THEN <<at, done>>
  ELSE LET r == Read(fields[i][2], in, at)
       IN  IF r[1] = 0 THEN Failed
           ELSE ReadFields(fields, i + 1, in, r[1], (fields[i][1] :> r[2]) @@ done)
ReadMany(T, left, in, at, done) ==
  IF left = 0 THEN <<at, done>>
  ELSE LET r == Read(T, in, at)
       IN  IF r[1] = 0 THEN Failed ELSE ReadMany(T, left - 1, in, r[1], Append(done, r[2]))
Read(T, in, at) ==
  LET Kept(r, v) == IF r[1] = 0 THEN Failed ELSE <<r[1], v>>
      Optional(valid, U) ==
        IF ~Cell(1, in, at) \/ in[at][2] \notin valid THEN Failed
        ELSE IF in[at][2] = 0 THEN <<at + 1, << >>>>
        ELSE LET r == Read(U, in, at + 1) IN Kept(r, <<r[2]>>)
      Selected(U) == LET r == Read(U, in, at + 1) IN Kept(r, <<in[at][2], r[2]>>)
  IN  CASE T[1] = "uint" -> IF Cell(T[2], in, at) THEN <<at + 1, in[at][2]>> ELSE Failed
        [] T[1] = "fixed" ->
             IF Cell(T[2], in, at) /\ in[at][2] = T[3] THEN <<at + 1, in[at][2]>> ELSE Failed
        [] T[1] = "flag" -> IF Cell(1, in, at) THEN <<at + 1, in[at][2] # 0>> ELSE Failed
        [] T[1] = "enum" ->
             IF Cell(2, in, at) /\ in[at][2] <= T[2] THEN <<at + 1, in[at][2]>> ELSE Failed
        [] T[1] \in {"str", "token"} ->
             IF Countable(T[2], in, at) THEN <<at + 1 + in[at][2], in[at][2]>> ELSE Failed
        [] T[1] = "many" ->
             IF Countable(T[2], in, at) THEN ReadMany(T[3], in[at][2], in, at + 1, << >>) ELSE Failed
        [] T[1] = "maybe" -> Optional(0 .. 255, T[2])
        [] T[1] = "marked" -> Optional({0, 1}, T[2])
        [] T[1] = "condition" ->
             IF Cell(1, in, at) /\ in[at][2] = 1 /\ TooDeep(T) THEN Failed
             ELSE Optional({0, 1}, ReadConditionNode(T[2]))
        [] T[1] = "struct" -> ReadFields(T[2], 1, in, at, << >>)
        [] T[1] = "choice" ->
             IF ~Cell(2, in, at) \/ in[at][2] \notin DOMAIN T[2] THEN Failed
             ELSE Selected(T[2][in[at][2]])
        [] T[1] = "value" ->
             IF ~Cell(2, in, at) \/ in[at][2] > 14 \/ TooDeep(T) THEN Failed
             ELSE Selected(ReadValueBody(in[at][2], T[2]))

\* A decoder reads one structure and refuses bytes left over after it.
Decode(T, in) ==
  LET r == Read(T, in, 1)
  IN  IF r[1] = Len(in) + 1 THEN [ok |-> TRUE, value |-> r[2]] ELSE [ok |-> FALSE, value |-> << >>]

================================================================================
