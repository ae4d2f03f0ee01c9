-------------------------- MODULE DictionarySearch --------------------------
(***************************************************************************)
(* DictionarySearch: the server's side of the dictionary file.  Once the  *)
(* hash has been checked the encoding table and the index are read, one   *)
(* read after the other, from a file the maker may be writing anew.  A    *)
(* lookup (protocol 1) and a completion (protocol 4) search the block     *)
(* informations of the key for the block to start from: the last block    *)
(* whose first midashi is not greater.  As the code keeps them in         *)
(* descending order, that is the first one from a hint on, which must not *)
(* lie behind it.                                                          *)
(***************************************************************************)
EXTENDS DictionaryCreator

CONSTANTS
    Midashi(_),     \* what clients ask for, given the jisyo
    OkuriAri,       \* the midashi for which is_okuri_ari holds
    MaxCompletions, \* max_server_completions
    RETURN_ZERO_THRESHOLD, BINARY_SEARCH_THRESHOLD,
    NoMidashi

ASSUME SearchAssumption ==
    /\ \A d \in Dictionaries :
          /\ NoMidashi \notin Midashi(d)
          /\ \A word \in Midashi(d) :
                word # <<>> /\ word \in Seq(0..255) /\ StartsWhole(word)
    /\ MaxCompletions \in Nat \ {0}
    /\ {RETURN_ZERO_THRESHOLD, BINARY_SEARCH_THRESHOLD} \subseteq Nat \ {0}
    \* The code has 10 and 30.
    /\ BINARY_SEARCH_THRESHOLD >= 4
    /\ RETURN_ZERO_THRESHOLD - 1 <= BINARY_SEARCH_THRESHOLD \div 2

VARIABLES
    server,         \* "down", a step of its setup, "up", "panic", or "garbled": it went on
                    \* with bytes that are not those the hash was right for
    found,          \* the file whose hash was right
    encoding_table, \* the units read from its table
    blocks_read,    \* the blocks of the index that were read
    index,          \* index_map and index_ascii_hiragana_vec
    pc,             \* "idle", or the step of the search
    midashi,        \* what is searched
    protocol,       \* 1 or 4
    at,             \* index into the block informations, from 0
    diff, previous_direction, diff_zero_count, \* the locals of the hint search
    completions,    \* the midashi found so far, for protocol 4
    reply           \* the result of the search

hintVars == <<diff, previous_direction, diff_zero_count>>
askVars == <<midashi, protocol>>
searchVars == <<pc, askVars, at, hintVars, completions, reply>>
setupVars == <<server, found, encoding_table, blocks_read, index>>
vars == <<makerVars, setupVars, searchVars>>

-----------------------------------------------------------------------------
(***************************************************************************)
(* Dictionary::setup.                                                     *)
(***************************************************************************)

NoReply == [kind |-> "none"]
NoTable == [combinations |-> {}, characters |-> {}]

InitServer ==
    /\ server = "down" /\ found = Truncated
    /\ encoding_table = NoTable /\ blocks_read = 0 /\ index = <<>>
    /\ pc = "idle" /\ midashi = NoMidashi /\ protocol = 1 /\ at = 0
    /\ diff = 0 /\ previous_direction = 0 /\ diff_zero_count = 0
    /\ completions = {}
    /\ reply = NoReply

\* Mutant of ValidateHash: the hash is not compared.
ValidateNothing ==
    /\ server = "down" /\ file # NoFile /\ file.front # <<>>
    /\ server' = "table" /\ found' = file
    /\ blocks_read' = 0 /\ index' = <<>>
    /\ UNCHANGED <<encoding_table, makerVars, searchVars>>

\* validate_except_dictionary_fixed_header: a file that is incomplete, changes
\* meanwhile, or has no hash yet is refused, the server does not come up.
ValidateHash ==
    /\ server = "down" /\ file # NoFile /\ file.hashed
    /\ server' = "table" /\ found' = file
    /\ blocks_read' = 0 /\ index' = <<>>
    /\ UNCHANGED <<encoding_table, makerVars, searchVars>>

\* The reads that follow still bring the bytes whose hash was right, those of the
\* entries with them.
IsUnchanged ==
    file.front = found.front /\ file.blocks = found.blocks /\ file.jisyo = found.jisyo

\* With other bytes the setup fails, goes on with whatever they mean, or panics: the
\* length of the buffer and the number of midashi are asserted, and a length that exceeds
\* the buffer is no slice of it.
SetupIsUnreliable ==
    /\ server \in {"table", "index"} /\ ~IsUnchanged
    /\ server' \in {"down", "garbled", "panic"}
    /\ UNCHANGED <<found, encoding_table, blocks_read, index, makerVars, searchVars>>

LoadedHeader == FixedHeaderOf(found.front)

\* once_init_encoding_table
LoadTable ==
    /\ server = "table" /\ IsUnchanged
    /\ LET bytes == ReadExact(file.front, LoadedHeader.encoding_table_offset,
                              LoadedHeader.encoding_table_length)
       IN encoding_table' = [combinations |-> CombinationsIn(bytes),
                             characters |-> CharactersIn(bytes)]
    /\ server' = "index"
    /\ UNCHANGED <<found, blocks_read, index, makerVars, searchVars>>

LoadedIndexHeader ==
    ReadExact(found.front, LoadedHeader.index_data_header_offset,
              LoadedHeader.index_data_header_length)

\* The units of the next block of the index.  The buffer has room for
\* block_buffer_length bytes, and what it holds must be consistent.
LoadIndexBlock ==
    /\ server = "index" /\ IsUnchanged
    /\ blocks_read < IndexHeaderOf(LoadedIndexHeader).block_header_length
    /\ LET header == BlockHeaderOf(LoadedIndexHeader, blocks_read)
           read == UnitsRead(ReadExact(file.front,
                                       LoadedHeader.index_data_offset + header.offset,
                                       header.length),
                             header.unit_length, index)
       IN IF header.length <= IndexHeaderOf(LoadedIndexHeader).block_buffer_length
             /\ read.is_consistent
          THEN index' = read.index /\ UNCHANGED server
          ELSE server' = "panic" /\ UNCHANGED index
    /\ blocks_read' = blocks_read + 1
    /\ UNCHANGED <<found, encoding_table, makerVars, searchVars>>

\* All is read: the server listens.
FinishSetup ==
    /\ server = "index"
    /\ blocks_read = IndexHeaderOf(LoadedIndexHeader).block_header_length
    /\ server' = "up"
    /\ UNCHANGED <<found, encoding_table, blocks_read, index, makerVars, searchVars>>

SetupStep == ValidateHash \/ SetupIsUnreliable \/ LoadTable \/ LoadIndexBlock \/ FinishSetup

-----------------------------------------------------------------------------
(***************************************************************************)
(* get_block_informations_loop_start_hint_index.                          *)
(***************************************************************************)

Infos == index[Slot(MidashiKey(midashi))]
N == Len(Infos)
Info(i) == Infos[i + 1]

\* *midashi > dictionary_block_informations[i].midashi
IsGreaterThan(i) == Precedes(Info(i).midashi, midashi)

\* get_block_information_vectors
HasBlocks(key) == Slot(key) \in DOMAIN index

\* A client asks; without blocks for the key there is nothing to search, and
\* without a key nothing to ask for.
Ask(word, number) ==
    /\ server = "up" /\ pc = "idle" /\ reply = NoReply
    /\ midashi' = word /\ protocol' = number
    /\ completions' = {}
    /\ LET key == MidashiKey(word)
       IN CASE key = NoKey -> reply' = [kind |-> "error"] /\ UNCHANGED pc
            [] key # NoKey /\ ~HasBlocks(key) ->
                  reply' = [kind |-> "not_found"] /\ UNCHANGED pc
            [] OTHER -> pc' = "hint" /\ reply' = NoReply
    /\ UNCHANGED <<makerVars, setupVars, at, hintVars>>

\* Few blocks: the search starts at the first one, or in the middle.
HintOfFew ==
    /\ pc = "hint" /\ N < BINARY_SEARCH_THRESHOLD
    /\ at' = IF N < RETURN_ZERO_THRESHOLD \/ IsGreaterThan(N \div 2) THEN 0 ELSE N \div 2
    /\ pc' = "search"
    /\ UNCHANGED <<makerVars, setupVars, askVars, hintVars, completions, reply>>

StartBinarySearch ==
    /\ pc = "hint" /\ N >= BINARY_SEARCH_THRESHOLD
    /\ at' = N \div 2
    /\ diff' = (N \div 2) \div 2
    /\ previous_direction' = 0 /\ diff_zero_count' = 0
    /\ pc' = "binary"
    /\ UNCHANGED <<makerVars, setupVars, askVars, completions, reply>>

Direction == IF IsGreaterThan(at) THEN 0 ELSE 1

Moved == IF Direction = 0 THEN at - diff ELSE at + diff

IsInside(i) == i \in 0..(N - 1)

\* The index left the informations at one end.
LeaveBinarySearch ==
    /\ pc = "binary" /\ ~IsInside(Moved)
    /\ at' = IF Moved < 0 THEN 0 ELSE N - 1
    /\ pc' = "search"
    /\ UNCHANGED <<makerVars, setupVars, askVars, hintVars, completions, reply>>

\* Mutant of TurnsBack: diff is looked at after it was set to one.
NeverTurnsBack == diff = 0 /\ diff_zero_count = 1 /\ Direction # previous_direction

\* With steps of one the search turns back.
TurnsBack == diff \div 2 = 0 /\ diff_zero_count = 1 /\ Direction # previous_direction

HintWithoutMargin == Moved      \* mutant of Hint: no step back

Hint == Max({0, Moved - 1})

EndBinarySearch ==
    /\ pc = "binary" /\ IsInside(Moved) /\ TurnsBack
    /\ at' = Hint
    /\ pc' = "search"
    /\ UNCHANGED <<makerVars, setupVars, askVars, hintVars, completions, reply>>

\* Only whether diff_zero_count is 0 is ever asked: it is kept at 1.
ContinueBinarySearch ==
    /\ pc = "binary" /\ IsInside(Moved) /\ ~TurnsBack
    /\ at' = Moved
    /\ previous_direction' = Direction
    /\ IF diff \div 2 = 0
       THEN diff' = 1 /\ diff_zero_count' = 1
       ELSE diff' = diff \div 2 /\ UNCHANGED diff_zero_count
    /\ UNCHANGED <<makerVars, setupVars, pc, askVars, completions, reply>>

-----------------------------------------------------------------------------
(***************************************************************************)
(* Reading the blocks.                                                    *)
(***************************************************************************)

\* get_block_informations_index: from the hint on, the first block whose first
\* midashi is not greater; N if there is none.
BlockIndex == Min({i \in at..(N - 1) : ~Precedes(midashi, Info(i).midashi)} \cup {N})

\* The entries that lie in a block with both their line feeds.
EntriesIn(info) ==
    LET start == LoadedHeader.blocks_offset + info.offset
    IN {m \in DOMAIN file.blocks :
          LET entry == Len(file.front) + file.blocks[m]
          IN start <= entry /\ entry + file.jisyo[m] + 1 <= start + info.length}

\* The file is being written anew under the server, or was: a read fails, or
\* brings whatever is there.
ReadIsUnreliable ==
    /\ pc \in {"search", "completion"} /\ ~IsUnchanged
    /\ pc' = "idle"
    /\ reply' = [kind |-> "unreliable"]
    /\ UNCHANGED <<makerVars, setupVars, askVars, at, hintVars, completions>>

\* read_dictionary_for_read_candidates
ReadCandidates ==
    /\ pc = "search" /\ protocol = 1 /\ IsUnchanged
    /\ reply' = IF BlockIndex < N /\ midashi \in EntriesIn(Info(BlockIndex))
                THEN [kind |-> "found"] ELSE [kind |-> "not_found"]
    /\ pc' = "idle"
    /\ UNCHANGED <<makerVars, setupVars, askVars, at, hintVars, completions>>

\* A midashi before the first entry is completed from the first block on.
StartCompletion ==
    /\ pc = "search" /\ protocol = 4 /\ IsUnchanged
    /\ at' = Min({BlockIndex, N - 1})
    /\ pc' = "completion"
    /\ UNCHANGED <<makerVars, setupVars, askVars, hintVars, completions, reply>>

FirstOf(entries, n) ==
    {m \in entries : Cardinality({e \in entries : Precedes(e, m)}) < n}

IsCompletion(entry) == IsPrefix(midashi, entry) /\ entry \notin OkuriAri

\* With the block at hand, as many as are asked for.
WithBlock ==
    completions \cup
        FirstOf({m \in EntriesIn(Info(at)) : IsCompletion(m)},
                MaxCompletions - Cardinality(completions))

StopsAtOneBlock == TRUE     \* mutant of IsComplete: no second block is read

\* Enough found, nothing found, or nothing more to come.
IsComplete ==
    \/ Cardinality(WithBlock) >= MaxCompletions
    \/ WithBlock = {}
    \/ at = 0
    \/ ~IsPrefix(midashi, Info(at - 1).midashi)

\* read_dictionary_for_read_abbrev, one step per block.  The completions are compared and
\* counted as midashi; that a UTF-8 dictionary's are converted to UTF-8 for the reply is
\* left out.
ReadCompletions ==
    /\ pc = "completion" /\ IsUnchanged
    /\ completions' = WithBlock
    /\ IF IsComplete
       THEN /\ pc' = "idle"
            /\ reply' = [kind |-> "completions"]
            /\ UNCHANGED at
       ELSE /\ at' = at - 1
            /\ UNCHANGED <<pc, reply>>
    /\ UNCHANGED <<makerVars, setupVars, askVars, hintVars>>

\* The reply is sent, and the locals of the search are gone.
SendReply ==
    /\ pc = "idle" /\ reply # NoReply
    /\ midashi' = NoMidashi /\ protocol' = 1 /\ at' = 0
    /\ diff' = 0 /\ previous_direction' = 0 /\ diff_zero_count' = 0
    /\ completions' = {} /\ reply' = NoReply
    /\ UNCHANGED <<makerVars, setupVars, pc>>

-----------------------------------------------------------------------------

SearchStep ==
    \/ HintOfFew \/ StartBinarySearch
    \/ LeaveBinarySearch \/ EndBinarySearch \/ ContinueBinarySearch
    \/ ReadIsUnreliable \/ ReadCandidates \/ StartCompletion \/ ReadCompletions
    \/ SendReply

Init == InitMaker /\ InitServer

Next ==
    \/ NextMaker /\ UNCHANGED <<setupVars, searchVars>>
    \/ SetupStep
    \/ \E word \in Midashi(dictionary), number \in {1, 4} : Ask(word, number)
    \/ SearchStep

Spec == Init /\ [][Next]_vars

FairSpec == Spec /\ WF_searchVars(SearchStep)

-----------------------------------------------------------------------------
(***************************************************************************)
(* Properties.                                                            *)
(***************************************************************************)

\* Whatever became of the making of the dictionary, a server that came up finds
\* a midashi if and only if the jisyo it is made of has it.
WordsAreFound ==
    /\ reply.kind = "found" => midashi \in DOMAIN found.jisyo
    /\ reply.kind = "not_found" /\ protocol = 1 => midashi \notin DOMAIN found.jisyo

\* A server that came up has the very index and table that the maker made: the
\* informations of every key, at the place of the vector or the map where they
\* are looked for, offsets that count from where the blocks start, and every
\* unit of the table, through all bytes, lengths and offsets between the two, and takes
\* the entries for what encoding they are in.
LoadedIsWritten ==
    server = "up" =>
        /\ DOMAIN index = {Slot(found.units[n].key) : n \in DOMAIN found.units}
        /\ \A n \in DOMAIN found.units :
              index[Slot(found.units[n].key)] = found.units[n].informations
        /\ LoadedHeader.blocks_offset = Len(found.front)
        /\ FromU32(LoadedHeader.encoding) = DictionaryEncoding
        /\ encoding_table = [combinations |-> CombinationUnits, characters |-> CharacterUnits]

AllCompletions == FirstOf({m \in DOMAIN found.jisyo : IsCompletion(m)}, MaxCompletions)

\* Completions are the first ones of all that start with the midashi, across the
\* blocks, or none at all; and never none if the midashi itself is one.
CompletionsAreTheFirst ==
    reply.kind = "completions" =>
        /\ completions \in {{}, AllCompletions}
        /\ completions = {} => midashi \notin AllCompletions

\* README.md: "EucMidashi de hajimaru midashi-gun", the midashi that start with
\* the one of the request, are what protocol 4 asks for.
CompletionsAreAll == reply.kind = "completions" => completions = AllCompletions

\* The hint is not behind the block to start from, and close to it: as many
\* blocks before it as the test allows.
HintIsClose ==
    pc = "search" =>
        LET target == Min({i \in 0..(N - 1) : ~Precedes(midashi, Info(i).midashi)} \cup {N})
        IN  /\ at <= target
            /\ target - at <= IF N < BINARY_SEARCH_THRESHOLD
                              THEN BINARY_SEARCH_THRESHOLD \div 2 ELSE 2

\* The step that panics has found the file written anew since its hash was checked, or
\* index data of one key that exceed the buffer they are read into.
OnlyOversizedOrRewrittenPanics ==
    [][server # "panic" /\ server' = "panic" =>
          \/ ~IsUnchanged
          \/ \E n \in DOMAIN found.units : UnitSize(found.units[n]) > IndexLength]_vars

\* The binary search does not go back and forth for ever: every request is answered.
EverySearchEnds == []<>(pc = "idle")
=============================================================================
