------------------------------ MODULE Encoding ------------------------------
(***************************************************************************)
(* Encoding: the conversion between EUC-JIS-2004 and UTF-8.  A table of   *)
(* pairs fills, once, two arrays with computed indexes for the frequent   *)
(* characters and maps for the rare ones; a text is converted from left   *)
(* to right, and what the table does not know is written as an escape.    *)
(*                                                                         *)
(* A text is a sequence of bytes.                                          *)
(***************************************************************************)
EXTENDS EncodingTable

CONSTANTS
    AmbiguousPart,  \* detect_encoding: a file is ambiguous below 1/AmbiguousPart of its length
    NearZeroPart,   \* and all but ASCII below 1/NearZeroPart of it ...
    MaxNearZero,    \* ... or this many
    CodingEuc, CodingUtf8   \* "coding: euc-", "coding: utf-8"

ASSUME EncodingAssumption ==
    /\ {AmbiguousPart, NearZeroPart} \subseteq Nat \ {0} /\ MaxNearZero \in Nat
    /\ CodingEuc # <<>> /\ CodingUtf8 # <<>>

-----------------------------------------------------------------------------
(***************************************************************************)
(* The arrays and maps, made of the bytes of the table.                   *)
(***************************************************************************)

Combinations == CombinationsIn(TableBytes)
Characters == CharactersIn(TableBytes)

UTF8_3_TO_EUC_VEC_INDEX_RAW_MINIMUM == \h1e3e
UTF8_3_TO_EUC_VEC_INDEX_EMPTY == 2
Gap == \hdade - \h8165
UTF8_3_TO_EUC_VEC_INDEX_MAXIMUM == \hff9f - UTF8_3_TO_EUC_VEC_INDEX_RAW_MINIMUM - Gap

EUC_2_TO_UTF8_VEC_INDEX_MAXIMUM == \h5d70
EUC_2_TO_UTF8_VEC_INDEX_EMPTY == 1

InRange(index, maximum, empty) == IF index \in 0..maximum THEN index ELSE empty

\* The gap is a gap of the index, but it is taken out of the code point.
Utf8Index(utf8) ==
    LET code == (utf8[1] - \he0) * 4096 + (utf8[2] - \h80) * 64 + (utf8[3] - \h80)
        raw_index == IF code > \hdade THEN code - Gap ELSE code
    IN InRange(raw_index - UTF8_3_TO_EUC_VEC_INDEX_RAW_MINIMUM,
               UTF8_3_TO_EUC_VEC_INDEX_MAXIMUM, UTF8_3_TO_EUC_VEC_INDEX_EMPTY)

EucIndex(high, low) ==
    IF low < \ha1 \/ high < \h8e
    THEN EUC_2_TO_UTF8_VEC_INDEX_EMPTY
    ELSE InRange((low - \ha1) * 256 + (high - \h8e),
                 EUC_2_TO_UTF8_VEC_INDEX_MAXIMUM, EUC_2_TO_UTF8_VEC_INDEX_EMPTY)

\* The map of a set of pairs of key and value.
MapOf(pairs) ==
    [key \in {pair[1] : pair \in pairs} |-> (CHOOSE pair \in pairs : pair[1] = key)[2]]

\* push_to_buffer_euc, push_to_buffer_utf8: the leading byte tells the length.
EucBytes(euc) ==
    SubSeq(euc, 1, IF euc[1] = \h8f THEN 3 ELSE IF euc[1] >= \h80 THEN 2 ELSE 1)

Utf8Bytes(utf8) ==
    SubSeq(utf8, 1, IF utf8[1] >= \hf0 THEN 4
                    ELSE IF utf8[1] >= \he0 THEN 3 ELSE IF utf8[1] >= \hc2 THEN 2 ELSE 1)

CombinedUtf8(unit) == Utf8Bytes(unit.utf8) \o Utf8Bytes(unit.utf8_2)

EUC_2_TO_UTF8_VEC ==
    MapOf({<<EucIndex(unit.euc[1], unit.euc[2]), Utf8Bytes(unit.utf8)>> :
              unit \in {u \in Characters : u.euc[1] \in {\h8e} \cup \ha0..\hff}})

EUC_3_TO_UTF8_MAP ==
    MapOf({<<unit.euc, Utf8Bytes(unit.utf8)>> :
              unit \in {u \in Characters : u.euc[1] = \h8f}})

UTF8_3_TO_EUC_VEC ==
    MapOf({<<Utf8Index(unit.utf8), EucBytes(unit.euc)>> :
              unit \in {u \in Characters : u.utf8[1] \in \he0..\hef}})

UTF8_2_4_TO_EUC_MAP ==
    MapOf({<<Utf8Bytes(unit.utf8), EucBytes(unit.euc)>> :
              unit \in {u \in Characters : u.utf8[1] \in \h80..\hff \ \he0..\hef}})

COMBINE_EUC_TO_UTF8_MAP == MapOf({<<EucBytes(unit.euc), CombinedUtf8(unit)>> : unit \in Combinations})

COMBINE_UTF8_TO_EUC_MAP == MapOf({<<CombinedUtf8(unit), EucBytes(unit.euc)>> : unit \in Combinations})

-----------------------------------------------------------------------------
(***************************************************************************)
(* Euc::encode and Euc::decode, one unit of the text at a time.           *)
(***************************************************************************)

HexDigit(n) == IF n < 10 THEN 48 + n ELSE 87 + n

\* "&#x" and two digits for each byte.
Escape(bytes) ==
    <<38, 35, 120>> \o
        FlattenSeq([i \in DOMAIN bytes |-> <<HexDigit(bytes[i] \div 16), HexDigit(bytes[i] % 16)>>])

\* contains_euc_2, contains_utf8_3, and contains_key of the maps
IsKnown(map, key) == key \in DOMAIN map

Known(map, key, bytes) == IF IsKnown(map, key) THEN map[key] ELSE Escape(bytes)

Unit(output, length) == [output |-> output, length |-> length]

\* The n bytes at i; the text may end before.
Bytes(text, i, n) == SubSeq(text, i, i + n - 1)

\* is_enough_2_bytes and its like
IsEnough(text, i, n) == i + n - 1 <= Len(text)

Continues(utf8, i, n) ==
    IsEnough(utf8, i, n) /\ \A j \in (i + 1)..(i + n - 1) : utf8[j] \in \h80..\hbf

\* is_candidate_combine_utf8_6 and 4 look at the bytes that combining characters have.
IsCombined(utf8, i, n) ==
    /\ IsEnough(utf8, i, n)
    /\ IF n = 6 THEN utf8[i + 4] = \h82 /\ utf8[i + 5] = \h9a ELSE utf8[i + 2] \in {\hcc, \hcb}
    /\ Bytes(utf8, i, n) \in DOMAIN COMBINE_UTF8_TO_EUC_MAP

\* Mutant of EncodeUnit: combining characters are not looked for.
EncodeUnitAlone(utf8, i) ==
    LET Alone(map, key, n) == Unit(Known(map, key, Bytes(utf8, i, n)), n)
    IN CASE utf8[i] \in \he0..\hef /\ Continues(utf8, i, 3) ->
              Alone(UTF8_3_TO_EUC_VEC, Utf8Index(Bytes(utf8, i, 3)), 3)
         [] utf8[i] \in \h00..\h7f -> Unit(<<utf8[i]>>, 1)
         [] utf8[i] \in \hc2..\hdf /\ Continues(utf8, i, 2) ->
              Alone(UTF8_2_4_TO_EUC_MAP, Bytes(utf8, i, 2), 2)
         [] OTHER -> Unit(Escape(<<utf8[i]>>), 1)

EncodeUnit(utf8, i) ==
    LET Alone(map, key, n) == Unit(Known(map, key, Bytes(utf8, i, n)), n)
        Combined(n) == Unit(COMBINE_UTF8_TO_EUC_MAP[Bytes(utf8, i, n)], n)
    IN CASE utf8[i] \in \he0..\hef /\ Continues(utf8, i, 3) ->
              IF IsCombined(utf8, i, 6) THEN Combined(6)
              ELSE Alone(UTF8_3_TO_EUC_VEC, Utf8Index(Bytes(utf8, i, 3)), 3)
         [] utf8[i] \in \h00..\h7f -> Unit(<<utf8[i]>>, 1)
         [] utf8[i] \in \hc2..\hdf /\ Continues(utf8, i, 2) ->
              IF IsCombined(utf8, i, 4) THEN Combined(4)
              ELSE Alone(UTF8_2_4_TO_EUC_MAP, Bytes(utf8, i, 2), 2)
         [] utf8[i] \in \hf0..\hf7 /\ Continues(utf8, i, 4) ->
              Alone(UTF8_2_4_TO_EUC_MAP, Bytes(utf8, i, 4), 4)
         [] OTHER -> Unit(Escape(<<utf8[i]>>), 1)

\* A character cut off by the end of the text is escaped and ends it.
DecodeUnit(euc, i) ==
    LET CutOff == Unit(Escape(SubSeq(euc, i, Len(euc))), Len(euc) - i + 1)
        pair == Bytes(euc, i, 2)
        index == EucIndex(pair[1], pair[2])
    IN CASE euc[i] \in \ha1..\hfe \cup {\h8e} ->
              IF ~IsEnough(euc, i, 2) THEN CutOff
              ELSE IF index \in DOMAIN EUC_2_TO_UTF8_VEC THEN Unit(EUC_2_TO_UTF8_VEC[index], 2)
              ELSE Unit(Known(COMBINE_EUC_TO_UTF8_MAP, pair, pair), 2)
         [] euc[i] \in \h00..\h7f -> Unit(<<euc[i]>>, 1)
         [] euc[i] = \h8f ->
              IF ~IsEnough(euc, i, 3) THEN CutOff
              ELSE Unit(Known(EUC_3_TO_UTF8_MAP, Bytes(euc, i, 3), Bytes(euc, i, 3)), 3)
         [] OTHER -> Unit(Escape(<<euc[i]>>), 1)

Converted(text, UnitAt(_, _)) ==
    LET From[i \in 1..(Len(text) + 1)] ==
          IF i > Len(text) THEN <<>>
          ELSE LET unit == UnitAt(text, i) IN unit.output \o From[i + unit.length]
    IN From[1]

Encode(utf8) == Converted(utf8, EncodeUnit)
Decode(euc) == Converted(euc, DecodeUnit)

-----------------------------------------------------------------------------
(***************************************************************************)
(* detect_encoding counts the characters that are UTF-8 and the bytes     *)
(* that are not, and asks a header only if that decides nothing.          *)
(***************************************************************************)

UTF8_BOM == <<\hef, \hbb, \hbf>>

HasBom(text) == Len(text) > 3 /\ IsPrefix(UTF8_BOM, text)

\* How many bytes of UTF-8 start at i: 0 for none, 1 for ASCII.
Utf8Length(text, i) ==
    CASE text[i] \in \hc2..\hdf /\ Continues(text, i, 2) -> 2
      [] text[i] \in \he0..\hef /\ Continues(text, i, 3) -> 3
      [] text[i] \in \hf0..\hf7 /\ Continues(text, i, 4) -> 4
      [] text[i] \in \h01..\h7f -> 1
      [] OTHER -> 0

\* Mutant of Counts: it goes on behind the leading byte.
CountsByteByByte(text) ==
    LET Of(lengths) == Cardinality({i \in 1..(Len(text) - 3) : Utf8Length(text, i) \in lengths})
    IN [valid |-> Of(2..4), invalid |-> Of({0})]

Counts(text) ==
    LET From[i \in 1..(Len(text) + 1)] ==
          IF i > Len(text) - 3 THEN [valid |-> 0, invalid |-> 0]
          ELSE LET n == Utf8Length(text, i)
                   rest == From[i + Max({n, 1})]
               IN IF n = 0 THEN [rest EXCEPT !.invalid = @ + 1]
                  ELSE IF n = 1 THEN rest ELSE [rest EXCEPT !.valid = @ + 1]
    IN From[1]

HasText(text, part) ==
    \E i \in 1..(Len(text) - Len(part) + 1) : Bytes(text, i, Len(part)) = part

DetectEncoding(text) ==
    LET count == Counts(text)
        difference == count.valid - count.invalid
        near_zero == Min({MaxNearZero, Len(text) \div NearZeroPart})
        Majority == IF difference > 0 THEN "utf8" ELSE "euc"
    IN IF HasBom(text) THEN "utf8"
       ELSE IF Max({difference, -difference}) >= Len(text) \div AmbiguousPart THEN Majority
       ELSE IF HasText(text, CodingEuc) THEN "euc"
       ELSE IF HasText(text, CodingUtf8) THEN "utf8"
       ELSE IF count.valid <= near_zero /\ count.invalid <= near_zero THEN "euc"
       ELSE "unknown"
=============================================================================
