-------------------------- MODULE DictionaryFormat --------------------------
(***************************************************************************)
(* DictionaryFormat: the bytes of the dictionary file in front of the     *)
(* blocks, as the creator writes them and the server reads them: the      *)
(* fixed header with the offsets of all that follows, the encoding table, *)
(* the header of the index and the data of the index.  Positions in the   *)
(* file count from 0.                                                      *)
(***************************************************************************)
EXTENDS EncodingTable

CONSTANTS
    AreaLength,         \* DICTIONARY_FIXED_HEADER_AREA_LENGTH
    HeaderAlignment,    \* HEADER_ALIGNMENT_LENGTH
    DictionaryEncoding  \* config.encoding of the creator (--utf8), the same in every run

\* The area has room for the fields of the fixed header, 44 bytes; the code has 256.
ASSUME FormatAssumption ==
    /\ AreaLength \in Nat /\ AreaLength >= 44
    /\ HeaderAlignment \in Nat \ {0}
    /\ DictionaryEncoding \in {"euc", "utf8"}

Space == 32

-----------------------------------------------------------------------------
(***************************************************************************)
(* The key: the first character of a midashi, filled up with zeros.  The  *)
(* server keeps ASCII and Hiragana in one vector, the rest in a map.       *)
(***************************************************************************)

NoKey == <<>>       \* Err(SkkError::Encoding)

MidashiKey(midashi) ==
    CASE midashi[1] \in 0..127 -> <<midashi[1], 0, 0, 0>>
      [] midashi[1] \in (161..254) \cup {142} -> <<midashi[1], midashi[2], 0, 0>>
      [] midashi[1] = 143 -> <<midashi[1], midashi[2], midashi[3], 0>>
      [] OTHER -> NoKey

\* Correct EUC: the bytes that the first one announces are there, none of them ASCII.
StartsWhole(midashi) ==
    /\ midashi[1] \in (161..254) \cup {142} => Len(midashi) >= 2 /\ midashi[2] >= 128
    /\ midashi[1] = 143 => Len(midashi) >= 3 /\ midashi[2] >= 128

\* Where the informations of a key are: a place of the vector, or of the map.
Slot(key) ==
    CASE key[1] \in 0..127 -> <<key[1]>>
      [] key[1] = 164 -> <<key[2]>>
      [] OTHER -> key

-----------------------------------------------------------------------------
(***************************************************************************)
(* The fixed header; the hash in its last bytes is not modelled as bytes. *)
(***************************************************************************)

HeaderFields ==
    <<"dictionary_version", "encoding_table_offset", "encoding_table_length",
      "index_data_header_offset", "index_data_header_length",
      "index_data_offset", "index_data_length",
      "blocks_offset", "blocks_length", "dictionary_length", "encoding">>

\* A whole alignment is added to a length that is aligned.
HeaderAligned(length) == length + (HeaderAlignment - (length % HeaderAlignment))

\* From the lengths of the four parts.
FixedHeader(table, header, data, blocks) ==
    LET blocks_offset == HeaderAligned(AreaLength + table + header + data)
    IN [dictionary_version |-> 1,
        encoding_table_offset |-> AreaLength,
        encoding_table_length |-> table,
        index_data_header_offset |-> AreaLength + table,
        index_data_header_length |-> header,
        index_data_offset |-> AreaLength + table + header,
        index_data_length |-> data,
        blocks_offset |-> blocks_offset,
        blocks_length |-> blocks,
        dictionary_length |-> blocks_offset + blocks,
        encoding |-> ToU32(DictionaryEncoding)]

\* Mutant of PaddingLength: the padding is that of lengths which are not yet aligned.
PaddingIfUnaligned(fixed) ==
    (HeaderAlignment - ((fixed.index_data_offset + fixed.index_data_length) % HeaderAlignment))
        % HeaderAlignment

PaddingLength(fixed) == fixed.blocks_offset - (fixed.index_data_offset + fixed.index_data_length)

FixedHeaderBytes(fixed) ==
    Padded(U32s([i \in DOMAIN HeaderFields |-> fixed[HeaderFields[i]]]), AreaLength)

FixedHeaderOf(bytes) ==
    [field \in ToSet(HeaderFields) |->
        U32At(bytes, 4 * ((CHOOSE i \in DOMAIN HeaderFields : HeaderFields[i] = field) - 1))]

-----------------------------------------------------------------------------
(***************************************************************************)
(* The index: for each key heads, offsets and lengths of its blocks, and  *)
(* their first midashi joined by spaces; and where in these data a block  *)
(* of the index starts, how long it is and how many keys it has.          *)
(***************************************************************************)

HeadsLength == 12           \* DictionaryBlockHeads
InfoLength == 8             \* BlockInformationOffsetLength
IndexHeaderLength == 8      \* IndexDataHeader
BlockHeaderLength == 12     \* IndexDataHeaderBlockHeader

JoinedMidashi(informations) ==
    FoldLeft(LAMBDA joined, info :
                 IF joined = <<>> THEN info.midashi ELSE joined \o <<Space>> \o info.midashi,
             <<>>, informations)

HeadsBytes(unit) ==
    U32s(<<Len(unit.informations), Len(JoinedMidashi(unit.informations))>>) \o unit.key

InfoBytes(info) == U32s(<<info.offset, info.length>>)

UnitBytes(unit) ==
    HeadsBytes(unit)
        \o FlattenSeq([i \in DOMAIN unit.informations |-> InfoBytes(unit.informations[i])])
        \o JoinedMidashi(unit.informations)

BlockHeaderBytes(header) == U32s(<<header.offset, header.length, header.unit_length>>)

IndexHeaderBytes(block_buffer_length, headers) ==
    U32s(<<block_buffer_length, Len(headers)>>)
        \o FlattenSeq([i \in DOMAIN headers |-> BlockHeaderBytes(headers[i])])

IndexHeaderOf(bytes) ==
    [block_buffer_length |-> U32At(bytes, 0), block_header_length |-> U32At(bytes, 4)]

BlockHeaderOf(bytes, i) ==
    LET at == IndexHeaderLength + BlockHeaderLength * i
    IN [offset |-> U32At(bytes, at), length |-> U32At(bytes, at + 4),
        unit_length |-> U32At(bytes, at + 8)]

\* split(|&v| v == b' ')
SplitAtSpaces(bytes) ==
    FoldLeft(LAMBDA pieces, b :
                 IF b = Space THEN Append(pieces, <<>>)
                 ELSE [pieces EXCEPT ![Len(pieces)] = Append(@, b)],
             << <<>> >>, bytes)

HeadsOf(bytes, at) ==
    [information_length |-> U32At(bytes, at), midashi_length |-> U32At(bytes, at + 4),
     key |-> ReadExact(bytes, at + 8, 4)]

InfoOf(bytes, at, midashi) ==
    [midashi |-> midashi, offset |-> U32At(bytes, at), length |-> U32At(bytes, at + 4)]

\* get_joined_midashi
JoinedMidashiOf(bytes, at, heads) ==
    SplitAtSpaces(ReadExact(bytes, at + HeadsLength + heads.information_length * InfoLength,
                            heads.midashi_length))

\* The place of the index a unit goes to, its informations, and where the next starts.
UnitOf(bytes, at) ==
    LET heads == HeadsOf(bytes, at)
        joined == JoinedMidashiOf(bytes, at, heads)
        InfoAt(i) == at + HeadsLength + (i - 1) * InfoLength
    IN [slot |-> Slot(heads.key),
        informations |->
            [i \in DOMAIN joined |-> InfoOf(bytes, InfoAt(i), joined[i])],
        is_consistent |-> Len(joined) = heads.information_length,
        end |-> at + HeadsLength + heads.information_length * InfoLength + heads.midashi_length]

\* So many units one after the other; of two for one place the later one stays.
UnitsRead(bytes, unit_length, index) ==
    FoldLeft(LAMBDA read, i :
                 LET unit == UnitOf(bytes, read.at)
                 IN [at |-> unit.end,
                     index |-> [slot \in DOMAIN read.index \cup {unit.slot} |->
                                   IF slot = unit.slot THEN unit.informations
                                   ELSE read.index[slot]],
                     is_consistent |-> read.is_consistent /\ unit.is_consistent],
             [at |-> 0, index |-> index, is_consistent |-> TRUE],
             [i \in 1..unit_length |-> i])

=============================================================================
