------------------------------ MODULE MCLookup ------------------------------
(***************************************************************************)
(* Lookup on a dictionary of three blocks, of which two have the length   *)
(* of the buffer and one is longer:                                       *)
(*                                                                         *)
(*   10..13 the entry of "a", with two candidates, both annotated         *)
(*   14..16 an entry nobody asks for                                      *)
(*   17..19 the entry of "d", with one candidate                          *)
(*                                                                         *)
(* "e" is in no block of the index, "f" would be in the second block.     *)
(* Google knows the texts of "a" and "d" and some of its own, one of      *)
(* hiragana, one of katakana, one that is to be quoted, one that quoting  *)
(* leaves empty, and one that becomes another by the conversion to        *)
(* EUC-JP, as U+9FA4 does.                                                *)
(***************************************************************************)
EXTENDS Lookup

CONSTANTS a, d, e, f

First == [seek |-> 10, length |-> 4]
Second == [seek |-> 14, length |-> 3]
Third == [seek |-> 17, length |-> 3]

MCBlocks == {First, Second, Third}
MCWords == {a, d, e, f}
MCBlockOf == [w \in MCWords |-> CASE w = a -> First [] w = f -> Second
                                  [] w = d -> Third [] w = e -> NoBlock]
MCHeadOf == [w \in MCWords |-> CASE w = a -> 10 [] w = d -> 17
                                 [] w \in {e, f} -> NoEntry]
MCLineFeeds == {13, 16, 19}

MCCandidateAt(p) ==
    CASE p = 11 -> <<11, Semicolon, 1>> [] p = 12 -> <<12, Semicolon, 2>>
      [] p = 18 -> <<100>> [] OTHER -> <<p>>

-----------------------------------------------------------------------------

A == \h3042     \* a letter of hiragana
KA == \h30ab    \* a letter of katakana
KANJI == \h9fa4 \* a letter that the conversion makes another one

MCConverted(text) == [i \in DOMAIN text |-> IF text[i] = KANJI THEN 11 ELSE text[i]]

\* One segment; two, of which the second is an okurigana, or has a katakana candidate
\* and a null, or has a null for its midashi.
Single == <<[midashi |-> <<A>>, candidates |-> << <<11>>, <<A>>, <<101, Semicolon>> >>]>>
Okuri == <<[midashi |-> <<A>>, candidates |-> << <<100>>, <<11>> >>],
           [midashi |-> <<107>>, candidates |-> << <<107>>, <<75>> >>]>>
Double == <<[midashi |-> <<A>>, candidates |-> << <<100>>, <<11>> >>],
            [midashi |-> <<KA>>, candidates |-> << <<KA>>, NotText, <<102>> >>]>>

Untold == <<[midashi |-> <<A>>, candidates |-> << <<100>>, <<100>> >>],
            [midashi |-> NotText, candidates |-> << <<102>> >>]>>

MCJapaneseAnswers == {Failed, Single, Okuri, Double, Untold}
MCSuggestAnswers == {Failed, << <<LF>> >>, << <<KANJI>>, <<A, Space, 103>>, <<LF>> >>}
NoGoogle == {Failed}

-----------------------------------------------------------------------------

MCDefault ==
    [key \in Switches \cup {"is_google_cache_enabled", "is_no_daemonize"} |-> FALSE]
    @@ [dictionary_full_path |-> "", port |-> 1178, google_timing |-> "notfound", google_cache_full_path |-> "/tmp",
        google_cache_entries |-> 1, google_max_candidates_length |-> 3]

Relative == {"dictionary"}

MCValid == [dictionary_full_path |-> {"/dictionary"} \cup Relative, port |-> 0..65535, google_cache_entries |-> {1, 2},
            google_max_candidates_length |-> 1..4]

\* Each of the keys present or not, with one of its values.
Choose(values) ==
    FoldSet(LAMBDA key, chosen : chosen \cup {c @@ (key :> v) : c \in chosen, v \in values[key]},
            {<<>>}, DOMAIN values)

Line(key, value) == [key |-> key, value |-> value]

File(assignments) == SetToSeq({Line(key, assignments[key]) : key \in DOMAIN assignments})

Pairs(options, lines) ==
    [arguments : Choose(options),
     file : {NoFile} \cup {File(assignments) : assignments \in Choose(lines)}]

\* What Google's settings make of one another, among them a timing that is none.
GoogleStarts ==
    Pairs([google_timing |-> Timings, is_google_suggest_enabled |-> {TRUE}, is_http_enabled |-> {TRUE}],
          [google_timing |-> {"disable", "first", "fast"},
           is_google_suggest_enabled |-> {"enable", "disable"},
           google_insert_hiragana_only_candidate |-> {"enable"}])

\* Values that are the default, that are another, that are refused.
ValueStarts ==
    Pairs([port |-> {1178, 1179, 70000}, google_max_candidates_length |-> {2, 9},
           google_cache_full_path |-> {"/cache"}],
          [port |-> {1180, 70000}, google_max_candidates_length |-> {1, 9},
           google_cache_full_path |-> {"/file"}])

\* Kept candidates with every timing that asks Google, two lines of a key, a file
\* that is no text.
CacheStarts ==
    [arguments : {[google_cache_full_path |-> "/cache", google_timing |-> timing] :
                     timing \in {"first", "last"}},
     file : {NoFile}]
    \cup [arguments : {<<>>}, file : {<<Line("port", 1180), Line("port", 1181)>>, <<Unreadable>>}]

\* The dictionary is named on the command line, in the file, or nowhere.
DictionaryStarts ==
    Pairs([dictionary_full_path |-> {"/dictionary", "dictionary", "/none"}, is_no_daemonize |-> {TRUE}],
          [dictionary_full_path |-> {"/dictionary", "dictionary", "/none"}])

WithDictionary(starts) ==
    {[s EXCEPT !.arguments = @ @@ [dictionary_full_path |-> "/dictionary"]] : s \in starts}

MCStarts == DictionaryStarts \cup WithDictionary(GoogleStarts \cup ValueStarts \cup CacheStarts)
Plain == WithDictionary([arguments : {<<>>}, file : {NoFile}])
=============================================================================
