--------------------------- MODULE GoogleRequests ---------------------------
(***************************************************************************)
(* GoogleRequests: the candidates made of what Google's two services      *)
(* answer.  Japanese Input divides the midashi into segments, each with   *)
(* its candidates, of which all choices are put together; Suggest answers *)
(* with whole candidates.  Either may fail or be late.                    *)
(*                                                                         *)
(* A text is a sequence of letters, which are code points.                *)
(***************************************************************************)
EXTENDS Candidates

CONSTANTS
    Failed,     \* the answer of a request that failed, timed out, or was of another form
    NotText     \* a value in the answer that is no string

Hiragana == \h3041..\h3093 \cup \h309b..\h309e
Katakana == \h30a1..\h30f6 \cup \h30fb..\h30fe
HankakuKatakana == \hff61..\hff9f

Consists(text, letters) == text # <<>> /\ Range(text) \subseteq letters

IsWanted(config, text) ==
    /\ config["google_insert_hiragana_only_candidate"] \/ ~Consists(text, Hiragana)
    /\ config["google_insert_katakana_only_candidate"] \/ ~Consists(text, Katakana)
    /\ config["google_insert_hankaku_katakana_only_candidate"] \/ ~Consists(text, HankakuKatakana)

\* Mutant of ShouldAdd: only the first part is looked at.
ShouldAddFirst(config, parts) == IsWanted(config, parts[1])

\* One unwanted part drops the whole candidate.
ShouldAdd(config, parts) == \A k \in DOMAIN parts : IsWanted(config, parts[k])

-----------------------------------------------------------------------------

\* The elements of S in a list, in their order.
Only(list, S) == FlattenSeq([i \in DOMAIN list |-> IF list[i] \in S THEN <<list[i]>> ELSE <<>>])

\* One of the parts an answer of Japanese Input divides the midashi into.
Segment == [midashi : Seq(Nat) \cup {NotText}, candidates : Seq(Seq(Nat) \cup {NotText})]

Texts(segment) == Only(segment.candidates, Range(segment.candidates) \ {NotText})

\* One of each list, the choice of the first list varying slowest.
Products(lists) ==
    FoldLeft(LAMBDA chosen, list :
                FlattenSeq([i \in DOMAIN chosen |->
                               [j \in DOMAIN list |-> Append(chosen[i], list[j])]]),
             << <<>> >>, lists)

\* Two to four segments are put together, any other number is cut to the first.
IsMerged(segments) == Len(segments) \in 2..4

\* The last segment is dropped if it is the consonant of an okurigana.
ShouldAddTailCandidates(midashi) == midashi # <<>> /\ Last(midashi) \notin 97..122

\* Mutant of Limited: max_candidates_length is forgotten.
Unlimited(config, list) == list

Limited(config, list) ==
    LET limit == config["google_max_candidates_length"]
    IN IF Len(list) > limit THEN SubSeq(list, 1, limit) ELSE list

\* The candidates put together count against the limit, equal ones as well.
GetGoogleJapaneseInputResult(config, segments) ==
    LET merged == IsMerged(segments)
        tail == Last(segments).midashi
        lists == [k \in 1..(IF merged THEN Len(segments) ELSE 1) |-> Texts(segments[k])]
        products == Products(lists)
        chosen == Only(products, {parts \in Range(products) : ShouldAdd(config, parts)})
        Candidate(parts) ==
            FlattenSeq(IF merged /\ ~ShouldAddTailCandidates(tail) THEN Front(parts) ELSE parts)
    IN IF merged /\ tail = NotText THEN <<>>
       ELSE Limited(config, [i \in DOMAIN chosen |-> Candidate(chosen[i])])

\* request_google_japanese_input: no candidates stand for its error.
RequestGoogleJapaneseInput(config, answer) ==
    IF answer = Failed THEN <<>> ELSE GetGoogleJapaneseInputResult(config, answer)

\* A suggestion of several words loses all but the first.
FirstWord(text) ==
    LET end == SelectInSeq(text, LAMBDA letter : letter \in {Space, 9, \h3000})
    IN IF end \in 2..(Len(text) - 1) THEN SubSeq(text, 1, end - 1) ELSE text

\* request_google_suggest
RequestGoogleSuggest(answer) ==
    IF answer = Failed THEN <<>> ELSE [i \in DOMAIN answer |-> FirstWord(answer[i])]

\* Mutant of GoogleUtf8Candidates: the first request that fails is the end.
UnlessOneFails(config, japanese, suggest) ==
    IF japanese = Failed THEN <<>>
    ELSE RemoveDuplicates(
            RequestGoogleJapaneseInput(config, japanese)
                \o IF config["is_google_suggest_enabled"] THEN RequestGoogleSuggest(suggest) ELSE <<>>)

\* The requests of read_google_candidates: with Suggest the failure of one is not
\* that of the other.
GoogleUtf8Candidates(config, japanese, suggest) ==
    RemoveDuplicates(
        RequestGoogleJapaneseInput(config, japanese)
            \o IF config["is_google_suggest_enabled"] THEN RequestGoogleSuggest(suggest) ELSE <<>>)

-----------------------------------------------------------------------------
(***************************************************************************)
(* What the candidates are to be, for the properties of Lookup.           *)
(***************************************************************************)

\* What one may choose of the segments of an answer: the place of a text in each,
\* without the unwanted ones.
Picks(config, segments) ==
    LET n == IF IsMerged(segments) THEN Len(segments) ELSE 1
        wanted == [k \in 1..n |-> {j \in DOMAIN Texts(segments[k]) :
                                      IsWanted(config, Texts(segments[k])[j])}]
    IN {choice \in [1..n -> UNION Range(wanted)] : \A k \in 1..n : choice[k] \in wanted[k]}

Join(segments, choice) ==
    LET parts == [k \in DOMAIN choice |-> Texts(segments[k])[choice[k]]]
    IN FlattenSeq(IF IsMerged(segments) /\ ~ShouldAddTailCandidates(Last(segments).midashi)
                  THEN Front(parts) ELSE parts)
=============================================================================
