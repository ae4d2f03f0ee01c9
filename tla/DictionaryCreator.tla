------------------------- MODULE DictionaryCreator -------------------------
(***************************************************************************)
(* DictionaryCreator: the entries of the merged jisyo, grouped by the     *)
(* first character of their midashi (the key), are cut into blocks that   *)
(* the server can read one at a time; an index names the first midashi of *)
(* each block.  Header, encoding table, index and blocks are written to   *)
(* the dictionary file, the hash over them last.                          *)
(*                                                                         *)
(* A midashi is the sequence of its bytes.  An entry                      *)
(* "midashi candidates\n" is its length; the entries of a key follow one  *)
(* another in the order of their midashi, behind a "\n".                  *)
(***************************************************************************)
EXTENDS DictionaryFormat

CONSTANTS
    Dictionaries,   \* the merged jisyo: functions from midashi to lengths
    Revised(_),     \* what a jisyo may have become at the next start
    UnitLength,     \* DICTIONARY_BLOCK_UNIT_LENGTH
    IndexLength,    \* INDEX_DATA_BLOCK_LENGTH
    Alignment,      \* BLOCK_ALIGNMENT_LENGTH
    MaxRuns(_),     \* bound: how often the program is started for a jisyo
    NoFile

ASSUME CreatorAssumption ==
    /\ \A d \in Dictionaries :
          /\ IsFiniteSet(DOMAIN d)
          /\ \A midashi \in DOMAIN d :
                /\ midashi # <<>> /\ midashi \in Seq(0..255 \ {Space})
                /\ StartsWhole(midashi) /\ MidashiKey(midashi) # NoKey
                /\ d[midashi] \in Nat \ {0}
          /\ Revised(d) \subseteq Dictionaries
    /\ {UnitLength, IndexLength, Alignment} \subseteq Nat \ {0}
    /\ \A d \in Dictionaries : MaxRuns(d) \in Nat

VARIABLES
    dictionary,     \* the merged jisyo
    maker,          \* where yaskkserv2_make_dictionary is, or how it ended
    block_map,      \* temporary_block_map: where an entry starts in its buffer
    keys_left,      \* keys of the block map still to come
    offset,         \* in the block buffer of the current key
    informations,   \* dictionary_block_informations of the current key
    blocks,         \* where the entries are in the blocks written so far
    blocks_length,  \* blocks.len()
    index_data,     \* the units of the index in their order: [key, informations]
    index_header,   \* index_data_header: [offset, length, unit_length]
    open_block,     \* the last of them, not yet appended
    file,           \* the dictionary file, NoFile before there is one
    runs            \* how often the program was started

indexVars == <<blocks, blocks_length, index_data, index_header, open_block>>
makerVars == <<dictionary, maker, block_map, keys_left, offset, informations, indexVars,
               file, runs>>

-----------------------------------------------------------------------------
(***************************************************************************)
(* The block buffer of a key.                                             *)
(***************************************************************************)

\* The order of byte strings.
Precedes(s, t) ==
    \/ IsStrictPrefix(s, t)
    \/ \E i \in 1..Min({Len(s), Len(t)}) :
          /\ s[i] < t[i]
          /\ \A j \in 1..(i - 1) : s[j] = t[j]

Entries(key) == {m \in DOMAIN dictionary : MidashiKey(m) = key}

TotalLength(entries) == MapThenSumSet(LAMBDA m : dictionary[m], entries)

\* Behind a line feed, the entries that precede this one in its key.
CreateBlockMap ==
    [midashi \in DOMAIN dictionary |->
        TotalLength({m \in Entries(MidashiKey(midashi)) : Precedes(m, midashi)})]

\* Where the entries of a key start, and where they end.
LineFeeds(key) == {0} \cup {block_map[m] + dictionary[m] : m \in Entries(key)}
BufferLength(key) == 1 + Max(LineFeeds(key))

\* The longest "\nmidashi candidates\n".
MaxEntryLength(key) == Max({dictionary[m] + 1 : m \in Entries(key)})

\* rfind_bytes(&block_buffer[..limit], b"\n")
LastLineFeed(key, limit) == Max({p \in LineFeeds(key) : p < limit})

Aligned(length) == length + (Alignment - (length % Alignment))

-----------------------------------------------------------------------------

Unwritten == [offset |-> 0, length |-> 0, unit_length |-> 0]

InitMaker ==
    /\ dictionary \in Dictionaries
    /\ maker = "idle" /\ block_map = <<>> /\ keys_left = {} /\ offset = 0 /\ informations = <<>>
    /\ blocks = <<>> /\ blocks_length = 0
    /\ index_data = <<>> /\ index_header = <<>> /\ open_block = Unwritten
    /\ file = NoFile
    /\ runs = 0

\* The jisyo is merged anew.
ReviseJisyo ==
    /\ maker \in {"idle", "done"} /\ runs \in 1..(MaxRuns(dictionary) - 1)
    /\ dictionary' \in Revised(dictionary)
    /\ maker' = "idle"
    /\ UNCHANGED <<block_map, keys_left, offset, informations, indexVars, file, runs>>

\* The program is started and has read the jisyo.
StartMaker ==
    /\ maker \in {"idle", "done"} /\ runs < MaxRuns(dictionary)
    /\ runs' = runs + 1
    /\ block_map' = CreateBlockMap
    /\ keys_left' = {MidashiKey(m) : m \in DOMAIN dictionary}
    /\ maker' = IF DOMAIN dictionary = {} THEN "close" ELSE "split"
    /\ offset' = 0 /\ informations' = <<>>
    /\ blocks' = <<>> /\ blocks_length' = 0
    /\ index_data' = <<>> /\ index_header' = <<>> /\ open_block' = Unwritten
    /\ UNCHANGED <<dictionary, file>>

\* The map is ordered.
Key == CHOOSE k \in keys_left : \A other \in keys_left \ {k} : Precedes(k, other)

-----------------------------------------------------------------------------
(***************************************************************************)
(* get_dictionary_block_informations, one step per turn of its loop.      *)
(***************************************************************************)

EndIsNear == offset + UnitLength >= BufferLength(Key)

FirstLength == IF EndIsNear THEN BufferLength(Key) - offset ELSE UnitLength

\* Going back from there the loop finds no line feed but the one at offset.
NothingFits == LastLineFeed(Key, offset + FirstLength) = offset

CutLength == IF NothingFits THEN MaxEntryLength(Key) ELSE FirstLength

IsLastBlock == EndIsNear \/ (NothingFits /\ BufferLength(Key) = CutLength)

HeadsAt(position) == {m \in Entries(Key) : block_map[m] = position}

\* Mutant of NextOffset: the next block starts behind the line feed.
OffsetBehindLineFeed == LastLineFeed(Key, offset + CutLength) + 1

NextOffset == LastLineFeed(Key, offset + CutLength)

\* Mutant of SplitBlock: the last line feed does not belong to the block.
SplitWithoutLineFeed ==
    /\ maker = "split"
    /\ HeadsAt(offset) # {} /\ offset + CutLength <= BufferLength(Key)
    /\ informations' = Append(informations,
          [midashi |-> CHOOSE m \in HeadsAt(offset) : TRUE,
           offset |-> blocks_length + offset,
           length |-> NextOffset - offset])
    /\ IF IsLastBlock
       THEN maker' = "index" /\ UNCHANGED offset
       ELSE offset' = NextOffset /\ UNCHANGED maker
    /\ UNCHANGED <<dictionary, block_map, keys_left, indexVars, file, runs>>

SplitBlock ==
    /\ maker = "split"
    /\ HeadsAt(offset) # {} /\ offset + CutLength <= BufferLength(Key)
    /\ informations' = Append(informations,
          [midashi |-> CHOOSE m \in HeadsAt(offset) : TRUE,
           offset |-> blocks_length + offset,
           length |-> NextOffset + 1 - offset])
    /\ IF IsLastBlock
       THEN maker' = "index" /\ UNCHANGED offset
       ELSE offset' = NextOffset /\ UNCHANGED maker
    /\ UNCHANGED <<dictionary, block_map, keys_left, indexVars, file, runs>>

\* No space behind offset: "dictionary format B".
SplitFindsNoEntry ==
    /\ maker = "split" /\ HeadsAt(offset) = {}
    /\ maker' = "format_error"
    /\ UNCHANGED <<dictionary, block_map, keys_left, offset, informations, indexVars, file,
                   runs>>

\* The slice ends behind the buffer.
SplitPanics ==
    /\ maker = "split"
    /\ HeadsAt(offset) # {} /\ offset + CutLength > BufferLength(Key)
    /\ maker' = "panic"
    /\ UNCHANGED <<dictionary, block_map, keys_left, offset, informations, indexVars, file,
                   runs>>

-----------------------------------------------------------------------------
(***************************************************************************)
(* create_index_data, one step per key.                                   *)
(***************************************************************************)

\* get_dictionary_block_informations returns the last block first.
InformationsReversed == Reverse(informations)

Unit == [key |-> Key, informations |-> InformationsReversed]

UnitSize(unit) == Len(UnitBytes(unit))

IndexData == FlattenSeq([i \in DOMAIN index_data |-> UnitBytes(index_data[i])])

\* Mutant of IsFull: the unit that would overflow the block still goes into it.
IsOverfull(length) == open_block.length >= IndexLength

IsFull(length) == open_block.length + length >= IndexLength

\* A unit goes into the open block of the index, or opens the next one.
AddUnit(length) ==
    IF IsFull(length)
    THEN /\ index_header' = Append(index_header, open_block)
         /\ open_block' = [offset |-> Len(IndexData), length |-> length, unit_length |-> 1]
    ELSE /\ open_block' = [open_block EXCEPT !.length = @ + length, !.unit_length = @ + 1]
         /\ UNCHANGED index_header

AddIndexData ==
    /\ maker = "index"
    /\ index_data' = Append(index_data, Unit)
    /\ AddUnit(UnitSize(Unit))
    /\ blocks' = [m \in DOMAIN blocks \cup Entries(Key) |->
                     IF m \in DOMAIN blocks THEN blocks[m] ELSE blocks_length + block_map[m]]
    /\ blocks_length' = blocks_length + Aligned(BufferLength(Key))
    /\ keys_left' = keys_left \ {Key}
    /\ maker' = IF keys_left' = {} THEN "close" ELSE "split"
    /\ offset' = 0 /\ informations' = <<>>
    /\ UNCHANGED <<dictionary, block_map, file, runs>>

\* The open block of the index is the last one.
CloseIndex ==
    /\ maker = "close"
    /\ index_header' = IF open_block.length > 0 THEN Append(index_header, open_block)
                       ELSE index_header
    /\ maker' = "write"
    /\ UNCHANGED <<dictionary, block_map, keys_left, offset, informations, blocks,
                   blocks_length, index_data, open_block, file, runs>>

-----------------------------------------------------------------------------
(***************************************************************************)
(* write_and_calculate_hash, write_hash.  Any of the calls may fail.      *)
(***************************************************************************)

IndexHeader == IndexHeaderBytes(IndexLength, index_header)

Header == FixedHeader(Len(TableBytes), Len(IndexHeader), Len(IndexData), blocks_length)

Truncated == [front |-> <<>>, blocks |-> <<>>, hashed |-> FALSE, jisyo |-> <<>>, units |-> <<>>]

\* The bytes before the blocks; jisyo and units tell for the properties what
\* these stand for.
WithFront ==
    [front |-> FixedHeaderBytes(Header) \o TableBytes \o IndexHeader \o IndexData
                   \o Zeros(PaddingLength(Header)),
     blocks |-> <<>>, hashed |-> FALSE, jisyo |-> dictionary, units |-> index_data]

\* The file is truncated and filled, with an empty hash.
TruncateFile ==
    /\ maker = "write"
    /\ \/ file' = Truncated /\ maker' = "front"
       \/ file' = file /\ maker' = "io_error"
    /\ UNCHANGED <<dictionary, block_map, keys_left, offset, informations, indexVars, runs>>

WriteFront ==
    /\ maker = "front"
    /\ \/ file' = WithFront /\ maker' = "blocks"
       \/ file' = Truncated /\ maker' = "io_error"
    /\ UNCHANGED <<dictionary, block_map, keys_left, offset, informations, indexVars, runs>>

\* Where the entries are in the blocks.
WriteBlocks ==
    /\ maker = "blocks"
    /\ \/ file' = [file EXCEPT !.blocks = blocks] /\ maker' = "hash"
       \/ file' = file /\ maker' = "io_error"
    /\ UNCHANGED <<dictionary, block_map, keys_left, offset, informations, indexVars, runs>>

WriteHash ==
    /\ maker = "hash"
    /\ \/ file' = [file EXCEPT !.hashed = TRUE] /\ maker' = "done"
       \/ file' = file /\ maker' = "io_error"
    /\ UNCHANGED <<dictionary, block_map, keys_left, offset, informations, indexVars, runs>>

\* The program is killed, or was stopped by an I/O error; it may be run again.
StopMaker ==
    /\ maker \notin {"idle", "done", "format_error", "panic"}
    /\ maker' = "idle"
    /\ UNCHANGED <<dictionary, block_map, keys_left, offset, informations, indexVars, file,
                   runs>>

MakerStep ==
    \/ SplitBlock \/ SplitFindsNoEntry \/ SplitPanics
    \/ AddIndexData \/ CloseIndex
    \/ TruncateFile \/ WriteFront \/ WriteBlocks \/ WriteHash

NextMaker == ReviseJisyo \/ StartMaker \/ MakerStep \/ StopMaker

-----------------------------------------------------------------------------
(***************************************************************************)
(* Properties.                                                            *)
(***************************************************************************)

IsLong(midashi) == dictionary[midashi] + 1 > UnitLength

\* The creator gives up, or panics, on account of its input only if an entry is
\* longer than a block.
OnlyLongEntriesFail ==
    maker \in {"format_error", "panic"} => \E m \in DOMAIN dictionary : IsLong(m)

\* A block is longer than the unit only where an entry is, and then no longer
\* than the longest entry; and each block of a key ends with the line feed the
\* next one starts with, the last one at the end of the buffer.
BlocksTileTheBuffer ==
    maker = "close" => \A n \in DOMAIN index_data :
        LET unit == index_data[n]
            infos == Reverse(unit.informations)
            base == infos[1].offset
            line_feeds == LineFeeds(unit.key)
            end == base + BufferLength(unit.key) - 1
        IN  \A i \in DOMAIN infos :
               /\ infos[i].length > UnitLength =>
                     IsLong(infos[i].midashi) /\ infos[i].length <= MaxEntryLength(unit.key)
               /\ infos[i].offset - base \in line_feeds
               /\ infos[i].offset + infos[i].length - 1 =
                     IF i = Len(infos) THEN end ELSE infos[i + 1].offset
=============================================================================
