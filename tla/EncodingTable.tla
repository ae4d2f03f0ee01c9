--------------------------- MODULE EncodingTable ----------------------------
(***************************************************************************)
(* EncodingTable: the table of the conversion between EUC-JIS-2004 and    *)
(* UTF-8 as bytes.  It is part of the program that makes dictionaries,    *)
(* which embeds it in each of them, so that the server needs no table of  *)
(* its own.  Behind a header come the units of two combining characters   *)
(* and then all others: EUC in 3 bytes and UTF-8 in 4 or twice 4, padded  *)
(* with zeros.                                                             *)
(***************************************************************************)
EXTENDS Integers, FiniteSetsExt, SequencesExt

CONSTANT
    Conversions     \* lines [euc, unicode] of euc-jis-2004-std.txt: the bytes of a character,
                    \* and its code point or those of two combining characters

\* The greatest code points of so many bytes of UTF-8.
MaxCodePoint == <<\h7f, \h7ff, \hffff, \h1fffff>>

ASSUME TableAssumption ==
    /\ IsFiniteSet(Conversions)
    /\ \A line \in Conversions :
          /\ Len(line.euc) \in 1..3 /\ line.euc \in Seq(0..255)
          /\ Len(line.unicode) \in 1..2 /\ line.unicode \in Seq(0..MaxCodePoint[4])
          \* Any other combination is an error of setup_combine_map.
          /\ Len(line.unicode) = 2 => line.unicode[1] \in (MaxCodePoint[1] + 1)..MaxCodePoint[3]

-----------------------------------------------------------------------------
(***************************************************************************)
(* The units of the lines.                                                *)
(***************************************************************************)

\* Encoding as a number of the fixed header; the default comes first.
Encodings == <<"euc", "utf8">>
ToU32(encoding) == SelectInSeq(Encodings, LAMBDA e : e = encoding) - 1
FromU32(value) == Encodings[value + 1]

\* convert_unicode_to_utf8
UnicodeToUtf8(unicode) ==
    LET Next(bits) == \h80 + ((unicode \div 2^bits) % 64)
    IN CASE unicode <= MaxCodePoint[1] -> <<unicode>>
         [] unicode \in (MaxCodePoint[1] + 1)..MaxCodePoint[2] ->
               <<\hc0 + unicode \div 2^6, Next(0)>>
         [] unicode \in (MaxCodePoint[2] + 1)..MaxCodePoint[3] ->
               <<\he0 + unicode \div 2^12, Next(6), Next(0)>>
         [] OTHER -> <<\hf0 + unicode \div 2^18, Next(12), Next(6), Next(0)>>

Zeros(n) == [i \in 1..n |-> 0]

Padded(bytes, length) == [i \in 1..length |-> IF i \in DOMAIN bytes THEN bytes[i] ELSE 0]

EucUnit(line) == Padded(line.euc, 3)
Utf8Unit(line, n) == Padded(UnicodeToUtf8(line.unicode[n]), 4)

CharacterUnits ==
    {[euc |-> EucUnit(line), utf8 |-> Utf8Unit(line, 1)] :
        line \in {l \in Conversions : Len(l.unicode) = 1}}

CombinationUnits ==
    {[euc |-> EucUnit(line), utf8 |-> Utf8Unit(line, 1), utf8_2 |-> Utf8Unit(line, 2)] :
        line \in {l \in Conversions : Len(l.unicode) = 2}}

-----------------------------------------------------------------------------
(***************************************************************************)
(* The bytes, written and read.                                           *)
(***************************************************************************)

\* A u32, the lowest byte first.
ToNeBytes(n) ==
    <<n % 256, (n \div 256) % 256, (n \div 65536) % 256, n \div 16777216>>

U32At(bytes, at) ==
    bytes[at + 1] + 256 * bytes[at + 2] + 65536 * bytes[at + 3] + 16777216 * bytes[at + 4]

U32s(numbers) == FlattenSeq([i \in DOMAIN numbers |-> ToNeBytes(numbers[i])])

\* What a read of so many bytes brings; positions count from 0.
ReadExact(bytes, at, length) == SubSeq(bytes, at + 1, at + length)

TableHeaderLength == 32
CombinationLength == 3 + 8
CharacterLength == 3 + 4

\* Version, length of the header, the number of units of either kind, and room.
TableHeader ==
    <<1, TableHeaderLength, Cardinality(CombinationUnits), Cardinality(CharacterUnits)>> \o Zeros(4)

TableHeaderBytes == U32s(TableHeader)

CombinationBytes ==
    FoldSet(LAMBDA u, bytes : u.euc \o u.utf8 \o u.utf8_2 \o bytes, <<>>, CombinationUnits)

CharacterBytes == FoldSet(LAMBDA u, bytes : u.euc \o u.utf8 \o bytes, <<>>, CharacterUnits)

\* EncodingTable::get, which create_src_table wrote as source text
TableBytes == TableHeaderBytes \o CombinationBytes \o CharacterBytes

\* The units of so many bytes each, from there on.
UnitsAt(bytes, at, number, length) ==
    {ReadExact(bytes, at + i * length, length) : i \in 0..(number - 1)}

CombinationsIn(bytes) ==
    {[euc |-> SubSeq(u, 1, 3), utf8 |-> SubSeq(u, 4, 7), utf8_2 |-> SubSeq(u, 8, 11)] :
        u \in UnitsAt(bytes, U32At(bytes, 4), U32At(bytes, 8), CombinationLength)}

CharactersIn(bytes) ==
    {[euc |-> SubSeq(u, 1, 3), utf8 |-> SubSeq(u, 4, 7)] :
        u \in UnitsAt(bytes, U32At(bytes, 4) + U32At(bytes, 8) * CombinationLength,
                      U32At(bytes, 12), CharacterLength)}

=============================================================================
