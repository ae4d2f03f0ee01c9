------------------------------- MODULE Lookup -------------------------------
(***************************************************************************)
(* The server from its start to its lookups (protocol 1): the settings    *)
(* are made of the command line and a file, the dictionary is read, the   *)
(* program becomes a daemon, and then read_candidates answers over the    *)
(* one-block cache of DictionaryFile and over Google, whose candidates    *)
(* are kept in a cache and merged in front of or behind those of the      *)
(* dictionary.  Lookups follow one another in one thread, so that what    *)
(* one leaves in the two caches is what the next one finds.               *)
(*                                                                         *)
(* An entry is a run of bytes of its block: the one that stands for       *)
(* "\nmidashi /", one per candidate, and the line feed.  Candidates may be *)
(* annotated, and the conversion to the dictionary's encoding may make    *)
(* equal what Google keeps apart.                                         *)
(***************************************************************************)
EXTENDS DictionaryFile, Configuration, GoogleRequests

CONSTANTS
    Starts,         \* command lines and files the server is started with
    RelativePaths,  \* paths that name nothing from the root directory
    Words,          \* the midashi clients ask for
    BlockOf,        \* the block the index names for each of them, or NoBlock
    HeadOf,         \* where the entry of each starts, or NoEntry
    LineFeeds,      \* where the lines of the dictionary end
    CandidateAt(_), \* the candidate, with its annotation, that a byte of the file stands for
    Converted(_),   \* a quoted text of Google in the encoding of the dictionary
    JapaneseAnswers, SuggestAnswers,    \* what Google's services may answer, Failed included
    NoBlock, NoEntry

ASSUME LookupAssumption ==
    /\ \A start \in Starts : DOMAIN start.arguments \cap InsertSwitches = {}
    /\ BlockOf \in [Words -> Blocks \cup {NoBlock}] /\ NoBlock \notin Blocks
    /\ HeadOf \in [Words -> Nat \cup {NoEntry}] /\ NoEntry \notin Nat
    /\ LineFeeds \subseteq Nat
    /\ Failed \in JapaneseAnswers \cap SuggestAnswers

\* An answer of another form counts as a failure.
ASSUME AnswersAssumption ==
    /\ \A answer \in JapaneseAnswers \ {Failed} : answer \in Seq(Segment) /\ answer # <<>>
    /\ \A answer \in SuggestAnswers \ {Failed} : answer \in Seq(Seq(Nat))

HasEntry(word) == HeadOf[word] # NoEntry

\* The candidates of a word in the dictionary file.
EntryOf(word) ==
    IF HasEntry(word)
    THEN LET end == Min({p \in LineFeeds : p > HeadOf[word]})
         IN  [k \in 1..(end - HeadOf[word] - 1) |-> CandidateAt(HeadOf[word] + k)]
    ELSE <<>>

\* The dictionary as DictionaryCreator makes it: the block of a word that has an entry
\* holds it to its line feed, with a candidate at least, and none that is empty.
\* Candidates may be annotated, and the same one may stand there twice.
ASSUME DictionaryAssumption ==
    \A word \in Words : HasEntry(word) =>
        LET head == HeadOf[word]
            block == BlockOf[word]
        IN /\ block # NoBlock /\ block.seek <= head
           /\ \E end \in LineFeeds : head + 1 < end /\ end < block.seek + block.length
           /\ head + 1 \notin LineFeeds
           /\ EntryOf(word) \in Seq(Seq(Nat \ {Slash}) \ {<<>>})

VARIABLES
    config,     \* the settings of the server
    given,      \* history, until the server is up: the command line and the file
    pc,         \* "down", "ended", "idle", or the next step of the start or of a lookup
    midashi,    \* the word looked up
    result,     \* candidates found so far
    cached,     \* Google's candidates kept for each word, <<>> if none
    reply,      \* the reply to the last lookup
    delivered,  \* history: Google's candidates that went into this lookup
    answers     \* history: what Google answered during this lookup, if it was asked

lookupVars == <<config, given, pc, midashi, result, cached, reply, delivered, answers>>
vars == <<fileVars, lookupVars>>

NoStart == [arguments |-> <<>>, file |-> NoFile]
NoAnswers == [japanese |-> Failed, suggest |-> Failed, asked |-> FALSE]

-----------------------------------------------------------------------------
(***************************************************************************)
(* Searching a block.                                                     *)
(***************************************************************************)

Found(bytes, word) == HeadOf[word] \in Range(bytes)

HeadIndex(bytes, word) == CHOOSE i \in DOMAIN bytes : bytes[i] = HeadOf[word]

LineFeedsBehind(bytes, word) ==
    {i \in DOMAIN bytes : HeadIndex(bytes, word) < i /\ bytes[i] \in LineFeeds}

\* The bytes between the head of the entry and the next line feed.
CandidatesIn(bytes, word) ==
    LET first == HeadIndex(bytes, word)
        length == Min(LineFeedsBehind(bytes, word)) - first - 1
    IN  [k \in 1..length |-> CandidateAt(bytes[first + k])]

-----------------------------------------------------------------------------

Init ==
    /\ InitFile
    /\ config = Default /\ given = NoStart
    /\ pc = "down" /\ midashi \in Words
    /\ result = <<>> /\ delivered = <<>> /\ answers = NoAnswers
    /\ cached = [word \in Words |-> <<>>]
    /\ reply = [kind |-> "none"]

\* run_yaskkserv2 up to the settings; what it cannot use ends it.
Start(start) ==
    /\ pc = "down"
    /\ given' = start
    /\ LET arguments == start.arguments
           settings == ReadFile(CommandLine(arguments), start.file)
       IN IF IsUsageError(arguments) \/ IsHelpExit(arguments) \/ settings = Refused
          THEN pc' = "ended" /\ UNCHANGED config
          ELSE config' = settings /\ pc' = "setup"
    /\ UNCHANGED <<fileVars, midashi, result, cached, reply, delivered, answers>>

\* The program can be started again.
TryAgain ==
    /\ pc = "ended"
    /\ pc' = "down"
    /\ given' = NoStart
    /\ UNCHANGED <<fileVars, config, midashi, result, cached, reply, delivered, answers>>

\* The settings the lookup depends on.
ReaderSettings ==
    InsertSwitches \cup {"google_timing", "is_google_suggest_enabled", "is_google_cache_enabled",
                         "google_cache_entries", "google_max_candidates_length"}

\* Yaskkserv2::setup: the cache of Google's candidates and the dictionary are read.
Setup ==
    /\ pc = "setup" /\ config["dictionary_full_path"] # ""
    /\ pc' = "daemonize"
    /\ given' = NoStart
    /\ UNCHANGED <<fileVars, config, midashi, result, cached, reply, delivered, answers>>

\* run_yaskkserv2_impl: a daemon works in the root directory.
Daemonize ==
    /\ pc = "daemonize"
    /\ pc' = "run"
    /\ UNCHANGED <<fileVars, config, given, midashi, result, cached, reply, delivered, answers>>

\* The path of the dictionary names what it named to the parser of the command line.
IsReachable == config["is_no_daemonize"] \/ config["dictionary_full_path"] \notin RelativePaths

\* Yaskkserv2::run up to the loop, which opens the dictionary again.
Run ==
    /\ pc = "run" /\ IsReachable
    /\ pc' = "idle"
    /\ config' = Restrict(config, ReaderSettings)
    /\ UNCHANGED <<fileVars, given, midashi, result, cached, reply, delivered, answers>>

\* Nothing is read by setup, nothing forked for the daemon, or nothing bound or opened
\* by run, which says so in the log.
StartFails ==
    /\ \/ pc \in {"setup", "run"}
       \/ pc = "daemonize" /\ ~config["is_no_daemonize"]
    /\ pc' = "ended"
    /\ config' = Default
    /\ UNCHANGED <<fileVars, given, midashi, result, cached, reply, delivered, answers>>

-----------------------------------------------------------------------------

\* A client asks for a word.
Ask(word) ==
    /\ pc = "idle"
    /\ midashi' = word
    /\ result' = <<>> /\ delivered' = <<>> /\ answers' = NoAnswers
    /\ reply' = [kind |-> "none"]
    /\ pc' = IF config["google_timing"] = "first" THEN "google_first" ELSE "dictionary"
    /\ UNCHANGED <<fileVars, config, given, cached>>

\* Candidates are kept, or else one service is asked, or both.
Answer ==
    IF cached[midashi] # <<>>
    THEN delivered' = cached[midashi] /\ UNCHANGED answers
    ELSE \E japanese \in JapaneseAnswers :
         \E suggest \in IF config["is_google_suggest_enabled"] THEN SuggestAnswers ELSE {Failed} :
            /\ answers' = [japanese |-> japanese, suggest |-> suggest, asked |-> TRUE]
            /\ delivered' = GoogleUtf8Candidates(config, japanese, suggest)

OthersKept == {word \in Words \ {midashi} : cached[word] # <<>>}

\* Mutant of Keep: it makes room one entry too early.
KeepTooFew ==
    LET written == [cached EXCEPT ![midashi] = delivered']
    IN IF Cardinality(OthersKept) + 1 >= config["google_cache_entries"]
       THEN \E evicted \in OthersKept \cup {midashi} : cached' = [written EXCEPT ![evicted] = <<>>]
       ELSE cached' = written

\* GoogleCache::write_candidates: above the limit the oldest entry is dropped, which
\* may be the new one if both are of the same second.
Keep ==
    LET written == [cached EXCEPT ![midashi] = delivered']
    IN IF Cardinality(OthersKept) >= config["google_cache_entries"]
       THEN \E evicted \in OthersKept \cup {midashi} : cached' = [written EXCEPT ![evicted] = <<>>]
       ELSE cached' = written

\* Google's texts as they are merged.  The list "/text/text" loses a slash at its end,
\* and with it a last unit that quoting has made empty, if it is not the only one.
NewUnits(texts) ==
    LET quoted == [i \in DOMAIN texts |-> Quote(texts[i])]
        trimmed == IF Len(quoted) > 1 /\ Last(quoted) = <<>> THEN Front(quoted) ELSE quoted
    IN  [i \in DOMAIN trimmed |-> Converted(trimmed[i])]

\* The candidates found so far as they are merged: "//" is trimmed to nothing.
Base(units) == IF units = << <<>> >> THEN <<>> ELSE units

\* read_google_candidates: its errors are ignored.  What was delivered is merged
\* behind the candidates found so far and kept.
ReadGoogle ==
    /\ pc \in {"google_first", "google_last"}
    /\ Answer
    /\ IF delivered' = <<>>
       THEN UNCHANGED result
       ELSE result' = MergedUnits(Base(result), NewUnits(delivered'))
    /\ IF config["is_google_cache_enabled"] /\ delivered' # <<>> THEN Keep ELSE UNCHANGED cached
    /\ pc' = IF pc = "google_first" THEN "dictionary" ELSE "reply"
    /\ UNCHANGED <<fileVars, config, given, midashi, reply>>

\* The cache of Google's candidates drops an entry, when it expires.
ForgetGoogle(word) ==
    /\ pc = "idle" /\ cached[word] # <<>>
    /\ cached' = [cached EXCEPT ![word] = <<>>]
    /\ UNCHANGED <<fileVars, config, given, pc, midashi, result, reply, delivered, answers>>

-----------------------------------------------------------------------------

IsEmptyCandidates(candidates) == candidates = <<>>

\* Mutant of AfterDictionary: Google is asked although the word was found.
AlwaysGoogle(found) ==
    IF config["google_timing"] \in {"last", "notfound"} THEN "google_last" ELSE "reply"

\* Mutant of AfterDictionary: that nothing was found is enough.
EmptyIsEnough(found) ==
    IF config["google_timing"] = "last" \/ found = <<>> THEN "google_last" ELSE "reply"

\* Where the lookup goes on with these candidates.
AfterDictionary(found) ==
    IF \/ config["google_timing"] = "last"
       \/ config["google_timing"] = "notfound" /\ IsEmptyCandidates(found)
    THEN "google_last"
    ELSE "reply"

\* The index has no block for the word.
SkipDictionary ==
    /\ pc = "dictionary" /\ BlockOf[midashi] = NoBlock
    /\ pc' = AfterDictionary(result)
    /\ UNCHANGED <<fileVars, config, given, midashi, result, cached, reply, delivered, answers>>

\* The block is read and searched.  An error of the read, or an entry without its
\* line feed, ends the lookup, with whatever Google has delivered.
ReadDictionary ==
    /\ pc = "dictionary" /\ BlockOf[midashi] # NoBlock
    /\ Read(BlockOf[midashi])
    /\ IF \/ returned' = Error
          \/ /\ Found(returned'.bytes, midashi)
             /\ LineFeedsBehind(returned'.bytes, midashi) = {}
       THEN /\ pc' = "idle"
            /\ reply' = [kind |-> "error"]
            /\ UNCHANGED result
       ELSE /\ result' = IF Found(returned'.bytes, midashi)
                         THEN MergedUnits(Base(result), CandidatesIn(returned'.bytes, midashi))
                         ELSE result
            /\ pc' = AfterDictionary(result')
            /\ UNCHANGED reply
    /\ UNCHANGED <<config, given, midashi, cached, delivered, answers>>

\* handle_client_protocol_1: candidates, or the midashi itself if there are none.
Reply ==
    /\ pc = "reply"
    /\ reply' = IF IsEmptyCandidates(result)
                THEN [kind |-> "midashi"]
                ELSE [kind |-> "candidates", candidates |-> result]
    /\ pc' = "idle"
    /\ UNCHANGED <<fileVars, config, given, midashi, result, cached, delivered, answers>>

\* DictionaryReader::read_candidates
ReadCandidates ==
    \/ ReadGoogle
    \/ SkipDictionary
    \/ ReadDictionary

Next ==
    \/ \E start \in Starts : Start(start)
    \/ Setup \/ Daemonize \/ Run \/ StartFails \/ TryAgain
    \/ \E word \in Words : Ask(word) \/ ForgetGoogle(word)
    \/ ReadCandidates
    \/ Reply

Spec == Init /\ [][Next]_vars

-----------------------------------------------------------------------------
(***************************************************************************)
(* Properties of the settings.                                            *)
(***************************************************************************)

Wanted(key) ==
    LET file == IF given.file = NoFile THEN <<>> ELSE Assignments(given.file)
    IN IF key \in DOMAIN given.arguments THEN given.arguments[key]
       ELSE IF key \in DOMAIN file THEN Value(key, file[key])
       ELSE Default[key]

\* A server that comes up has each setting from the command line, or else from the
\* file, or else by default.  Two exceptions: the option of
\* google_max_candidates_length is without effect, and an option with the value of
\* the default does not keep that of the file away.
GivenIsUsed ==
    pc = "setup" => \A key \in DOMAIN config \ {"is_google_cache_enabled"} :
        \/ config[key] = Wanted(key)
        \/ key = "google_max_candidates_length" /\ key \in DOMAIN given.arguments
        \/ key \in DOMAIN given.arguments /\ given.arguments[key] = Default[key]

\* A server without Google comes up only if nothing of Google was enabled, in
\* whatever order switch and timing were found; except that the file may switch
\* Google off behind an option that enabled something.
ContradictionsAreRefused ==
    pc = "setup" /\ config["google_timing"] = "disable" =>
        \A key \in Switches : config[key] =>
            /\ key \in DOMAIN given.arguments
            /\ CommandLine(given.arguments)["google_timing"] # "disable"

-----------------------------------------------------------------------------
(***************************************************************************)
(* Properties of the lookups.                                             *)
(***************************************************************************)

\* A reply of these candidates has the whole entry, and every text of Google's, and
\* nothing else.
HasEverything(candidates, dictionary, google) ==
    /\ Range(dictionary) \subseteq Range(candidates)
    /\ Range(candidates) \subseteq Range(dictionary) \cup Range(google)
    /\ Range(google) \ {<<>>} \subseteq TextsOf(candidates)

\* It has nothing twice, no text of Google's beside an entry that is the same but for
\* its annotation, and the one that was read first in front and in its order.
IsInOrder(candidates, dictionary, google, first) ==
    /\ IsInjective(candidates)
    /\ \A unit \in Range(google) \cap Range(candidates) :
          unit \in Range(dictionary) \/ unit \notin TextsOf(dictionary)
    /\ \A i \in DOMAIN first : i \in DOMAIN candidates /\ Text(candidates[i]) = Text(first[i])

\* Neither side has a candidate twice, or an empty one.
IsApart(dictionary, google) ==
    IsInjective(dictionary) /\ IsInjective(google) /\ <<>> \notin Range(google)

\* After a lookup the reply is made of the entry of the dictionary and of what
\* Google delivered, nothing left over from earlier lookups; there is no reply of
\* candidates without any.  Unless one of the two has a candidate twice of itself (as
\* the conversion of Google's texts may do), the reply has none twice, and is in the
\* order google_timing says.  (While the last access to the file failed this need
\* not hold.)
LookupIsComplete ==
    pc = "idle" /\ ~failed =>
        /\ reply.kind # "error"
        /\ reply.kind = "midashi" => EntryOf(midashi) = <<>> /\ delivered = <<>>
        /\ reply.kind = "candidates" =>
              LET dictionary == EntryOf(midashi)
                  google == NewUnits(delivered)
                  first == IF config["google_timing"] = "first" THEN google ELSE dictionary
              IN  /\ HasEverything(reply.candidates, dictionary, google)
                  /\ IsApart(dictionary, google)
                        => IsInOrder(reply.candidates, dictionary, google, first)

\* With "disable" no word ever leaves the machine.
DisabledGoogleIsNotAsked == answers.asked => config["google_timing"] # "disable"

\* With "notfound" no word that the dictionary has is asked, unless the last access
\* to the file failed.
GoogleIsAskedOnlyIfNeeded ==
    answers.asked /\ config["google_timing"] = "notfound" /\ ~failed => ~HasEntry(midashi)

\* An error of the dictionary loses the candidates Google delivered before, but
\* with a cache they are kept for the next lookup of the word, unless there is no
\* room beside another word.
DeliveredIsKept ==
    [][(reply.kind # "error" /\ reply'.kind = "error"
           /\ config["is_google_cache_enabled"] /\ delivered # <<>>)
           => cached[midashi] = delivered \/ OthersKept # {}]_vars

\* Nothing is put together if the last segment has no midashi.
JapanesePicks ==
    IF \/ answers.japanese = Failed
       \/ IsMerged(answers.japanese) /\ Last(answers.japanese).midashi = NotText
    THEN {} ELSE Picks(config, answers.japanese)

JapaneseJoins == {Join(answers.japanese, choice) : choice \in JapanesePicks}

Suggestions ==
    IF answers.suggest = Failed THEN {} ELSE {FirstWord(t) : t \in Range(answers.suggest)}

\* What Google answered becomes candidates by putting together one text of each
\* segment, none of them of a script that is not wanted, and no candidate twice.
CandidatesAreChoices ==
    answers.asked =>
        /\ Range(delivered) \subseteq JapaneseJoins \cup Suggestions
        /\ IsInjective(delivered)

\* The failure of one service costs nothing of the other, and below the limit no
\* choice is left out.
NoServiceIsLost ==
    answers.asked =>
        /\ Suggestions \subseteq Range(delivered)
        /\ Cardinality(JapanesePicks) <= config["google_max_candidates_length"]
               => JapaneseJoins \subseteq Range(delivered)

\* However many choices the segments leave, the limit bounds what is delivered; only
\* suggestions come on top.
CandidatesAreBounded ==
    answers.asked =>
        Len(delivered) <= config["google_max_candidates_length"] + Cardinality(Suggestions)

\* A word of the dictionary is never answered as one that does not exist.
ExistingWordsAreFound == reply.kind = "midashi" => ~HasEntry(midashi)
=============================================================================
