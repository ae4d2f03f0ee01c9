---------------------------- MODULE JisyoCreator ----------------------------
(***************************************************************************)
(* yaskkserv2_make_dictionary as a whole.  It makes a dictionary of       *)
(* jisyo, or makes a jisyo again: of a dictionary (JisyoCreator::create)  *)
(* or of the server's Google cache (create_from_cache).  One program      *)
(* after the other; what one writes the next may read.                    *)
(*                                                                         *)
(* Of the dictionary file this module keeps the encoding and the blocks;  *)
(* how they are cut and found again is DictionaryCreator's.               *)
(***************************************************************************)
EXTENDS JisyoReader, TLC

CONSTANTS
    Arguments,  \* command lines [jisyo, dictionary, cache, output, utf8] of the first start,
                \* the second, ...; bounds how often the program is started
    NoFile

ASSUME ProgramAssumption ==
    \A i \in DOMAIN Arguments : \A a \in Arguments[i] :
        {a.dictionary, a.cache, a.utf8} \subseteq BOOLEAN

VARIABLES
    program,    \* what the program is doing; "idle" between two starts
    arguments,  \* it was started with, NoFile when it is not running
    files,      \* name -> text of a jisyo, NoFile if there is none
    dictionary, \* [encoding, blocks], or NoFile
    cache,      \* of the server: midashi -> candidates, in UTF-8, or NoFile
    blocks_left,\* of the dictionary, to be read
    okuri_ari_map, okuri_nasi_map,
    runs,
    origin      \* history: the names of the jisyo that the dictionary and the one made of it,
                \* written in an encoding, stem from; what the given ones say

mapVars == <<okuri_ari_map, okuri_nasi_map>>
programVars == <<readerVars, program, arguments, files, dictionary, cache, blocks_left,
                 mapVars, runs, origin>>

-----------------------------------------------------------------------------
(***************************************************************************)
(* What the dictionary holds.                                             *)
(***************************************************************************)

\* The order of byte strings, and of the maps' keys.
Before(s, t) ==
    \/ IsStrictPrefix(s, t)
    \/ \E i \in 1..Min({Len(s), Len(t)}) : SubSeq(s, 1, i - 1) = SubSeq(t, 1, i - 1) /\ s[i] < t[i]

Sorted(keys) == SetToSortSeq(keys, Before)

Line(map, midashi) == midashi \o <<Space>> \o map[midashi] \o <<LF>>

Lines(map, keys) == FlattenSeq([i \in DOMAIN keys |-> Line(map, keys[i])])

\* Only these bytes start a key; of one cut short the missing byte is indexed.
HasKey(euc) ==
    CASE euc[1] \in \h00..\h7f -> TRUE
      [] euc[1] = \h8f -> Len(euc) >= 3
      [] OTHER -> euc[1] \in \ha1..\hfe \cup {\h8e} /\ Len(euc) >= 2

DictionaryMidashiKey(euc) ==
    SubSeq(euc, 1, IF euc[1] = \h8f THEN 3 ELSE IF euc[1] \in \h00..\h7f THEN 1 ELSE 2)

\* The entries of a key, behind a line feed.
Block(key) ==
    <<LF>> \o Lines(entries, Sorted({m \in DOMAIN entries : DictionaryMidashiKey(m) = key}))

-----------------------------------------------------------------------------
(***************************************************************************)
(* The command line.                                                      *)
(***************************************************************************)

\* The cache and the dictionary are alternatives to the parser of the command line.
IsUsageError(a) == a.dictionary /\ a.cache

IsHelpExit(a) == IF a.jisyo = <<>> THEN a.output = NoFile ELSE ~a.dictionary

OutputEncoding == IF arguments.utf8 THEN "utf8" ELSE "euc"

Encoding(a) == IF a.utf8 THEN "utf8" ELSE "euc"

Starts(a) ==
    /\ program = "idle" /\ runs < Len(Arguments)
    /\ a \in Arguments[runs + 1]
    /\ runs' = runs + 1

Ends == program' = "idle" /\ arguments' = NoFile

HelpExit(a) ==
    /\ Starts(a)
    /\ IsUsageError(a) \/ IsHelpExit(a)
    /\ UNCHANGED <<readerVars, program, arguments, files, dictionary, cache, blocks_left, mapVars, origin>>

\* jisyo_validator.
Exists(name) == files[name] # NoFile

\* Without an output jisyo a dictionary is made.
StartDictionary(a) ==
    /\ Starts(a)
    /\ ~IsUsageError(a) /\ ~IsHelpExit(a) /\ ~a.cache /\ a.output = NoFile
    /\ \A name \in Range(a.jisyo) : Exists(name)
    /\ StartReader([i \in DOMAIN a.jisyo |-> files[a.jisyo[i]]], Encoding(a))
    /\ program' = "read" /\ arguments' = a
    /\ UNCHANGED <<files, dictionary, cache, blocks_left, mapVars, origin>>

Create(a) ==
    /\ IF a.dictionary /\ dictionary # NoFile
       THEN program' = "blocks" /\ arguments' = a /\ blocks_left' = dictionary.blocks
       ELSE UNCHANGED <<program, arguments, blocks_left>>      \* File::open fails
    /\ okuri_ari_map' = <<>> /\ okuri_nasi_map' = <<>>

\* With one, a jisyo of the dictionary; jisyo on the command line are not looked at.
StartJisyo(a) ==
    /\ Starts(a)
    /\ ~IsUsageError(a) /\ ~IsHelpExit(a) /\ ~a.cache /\ a.output # NoFile
    /\ Create(a)
    /\ UNCHANGED <<readerVars, files, dictionary, cache, origin>>

CacheCandidates(midashi) ==
    FlattenSeq([i \in DOMAIN cache[midashi] |-> <<Slash>> \o Quote(cache[midashi][i])])
        \o <<Slash>>

CreateFromCache(a) ==
    /\ okuri_ari_map' = <<>>
    /\ okuri_nasi_map' =
          MapOf({<<ToEncoding("utf8", Encoding(a), midashi),
                   ToEncoding("utf8", Encoding(a), CacheCandidates(midashi))>> :
                       midashi \in DOMAIN cache})
    /\ program' = "blocks" /\ arguments' = a /\ blocks_left' = {}

StartCache(a) ==
    /\ Starts(a)
    /\ ~IsUsageError(a) /\ ~IsHelpExit(a) /\ a.cache /\ cache # NoFile
    /\ CreateFromCache(a)
    /\ UNCHANGED <<readerVars, files, dictionary, cache, origin>>

\* run_yaskkserv2_make_dictionary, once the command line is read.
StartProgram(a) == HelpExit(a) \/ StartDictionary(a) \/ StartJisyo(a) \/ StartCache(a)

-----------------------------------------------------------------------------
(***************************************************************************)
(* run_create_dictionary                                                  *)
(***************************************************************************)

Reading ==
    /\ program = "read"
    /\ UNCHANGED <<program, arguments, files, dictionary, cache, blocks_left, mapVars, runs, origin>>

Stem(name) == IF name = "out" THEN origin.out ELSE <<name>>

WriteDictionary ==
    /\ program = "read" /\ reader = "done"
    /\ \A m \in DOMAIN entries : HasKey(m)
    /\ dictionary' = [encoding |-> ToU32(OutputEncoding),
                      blocks |-> {Block(DictionaryMidashiKey(m)) : m \in DOMAIN entries}]
    /\ origin' = [origin EXCEPT !.dictionary =
                      FlattenSeq([i \in DOMAIN arguments.jisyo |-> Stem(arguments.jisyo[i])])]
    /\ Ends
    /\ UNCHANGED <<readerVars, files, cache, blocks_left, mapVars, runs>>

\* Nothing has been written when a line, or a key, is found to be none.
CreateFails ==
    /\ program = "read"
    /\ \/ reader \in {"error", "panic"}
       \/ reader = "done" /\ \E m \in DOMAIN entries : ~HasKey(m)
    /\ Ends
    /\ UNCHANGED <<readerVars, files, dictionary, cache, blocks_left, mapVars, runs, origin>>

-----------------------------------------------------------------------------
(***************************************************************************)
(* run_create_jisyo: block after block is taken apart again.              *)
(***************************************************************************)

IsOkuriAri(midashi) ==
    LET n == Len(midashi)
    IN n >= 3 /\ midashi[n] \in 97..122 /\ midashi[n - 1] \in \ha1..\hf3 /\ midashi[n - 2] = \ha4

\* get_okuri_ari_nasi_maps: the lines of a block as <<midashi, candidates>>.
BlockEntries(buffer) ==
    LET From[offset \in DOMAIN buffer] ==
          LET rest == SubSeq(buffer, offset, Len(buffer))
              space == Find(rest, Space)
              lf == space + Find(SubSeq(rest, space + 1, Len(rest)), LF)
          IN IF space = 0 THEN <<>>
             ELSE <<[midashi |-> SubSeq(rest, 2, space - 1),
                     candidates |-> SubSeq(rest, space + 1, lf - 1)]>> \o From[offset + lf - 1]
    IN From[1]

\* Midashi that are one in the output encoding overwrite each other.
Inserted(map, read) ==
    FoldLeft(LAMBDA inserted, e :
                (ToEncoding("euc", OutputEncoding, e.midashi) :>
                    ToEncoding(FromU32(dictionary.encoding), OutputEncoding, e.candidates)) @@ inserted,
             map, read)

ReadBlock ==
    /\ program = "blocks"
    /\ \E block \in blocks_left :
          LET read == BlockEntries(block)
          IN /\ okuri_ari_map' =
                   Inserted(okuri_ari_map, SelectSeq(read, LAMBDA e : IsOkuriAri(e.midashi)))
             /\ okuri_nasi_map' =
                   Inserted(okuri_nasi_map, SelectSeq(read, LAMBDA e : ~IsOkuriAri(e.midashi)))
             /\ blocks_left' = blocks_left \ {block}
    /\ UNCHANGED <<readerVars, program, arguments, files, dictionary, cache, runs, origin>>

Comment(text) == <<Semicolon, Semicolon>> \o text \o <<LF>>

JisyoText ==
    Comment(IF OutputEncoding = "euc" THEN CodingEuc ELSE CodingUtf8) \o Comment(<<>>)
    \o Comment(<<>>) \o Lines(okuri_ari_map, Reverse(Sorted(DOMAIN okuri_ari_map)))
    \o Comment(<<>>) \o Lines(okuri_nasi_map, Sorted(DOMAIN okuri_nasi_map))

WriteJisyo ==
    /\ program = "blocks" /\ blocks_left = {}
    /\ files' = (arguments.output :> JisyoText) @@ files
    /\ origin' = [origin EXCEPT !.encoding = OutputEncoding,
                      !.out = IF arguments.cache THEN <<"cache">> ELSE origin.dictionary]
    /\ Ends
    /\ UNCHANGED <<readerVars, dictionary, cache, blocks_left, mapVars, runs>>

NextProgram ==
    \/ \E a \in UNION Range(Arguments) : StartProgram(a)
    \/ Reading /\ NextReader
    \/ WriteDictionary \/ CreateFails
    \/ ReadBlock \/ WriteJisyo
=============================================================================
