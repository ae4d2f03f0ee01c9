---------------------------- MODULE JisyoReader ----------------------------
(***************************************************************************)
(* JisyoReader: the jisyo named on the command line are read line by line *)
(* and merged into one map from midashi to candidates.  The midashi are   *)
(* in EUC, the candidates in the encoding of the dictionary to be made.   *)
(* Lines that do not look like "midashi /candidate/" are skipped.         *)
(***************************************************************************)
EXTENDS Encoding, Candidates

CONSTANTS
    DetectLength,       \* JISYO_ENCODING_DETECT_BUFFER_LENGTH
    MinLineLength,      \* JISYO_MINIMUM_LINE_LENGTH
    MaxLineLength,      \* JISYO_MAXIMUM_LINE_LENGTH
    MinCandidatesLength,\* JISYO_MINIMUM_CANDIDATES_LENGTH
    ReadErrors          \* bound: how many reads of a jisyo fail

ASSUME ReaderAssumption ==
    /\ {DetectLength, MinLineLength, MinCandidatesLength} \subseteq Nat
    /\ 4 <= MinLineLength /\ MinLineLength <= DetectLength /\ MinLineLength <= MaxLineLength
    /\ ReadErrors \in Nat

VARIABLES
    jisyo,          \* texts of the jisyo still to be read, the current one first
    output_encoding,
    reader,         \* where the reader is, or how it ended
    jisyo_encoding, \* of the current jisyo
    position,       \* bytes of it that have been read
    entries,        \* result_jisyo_entries_map
    read_errors     \* reads that failed

readerVars == <<jisyo, output_encoding, reader, jisyo_encoding, position, entries, read_errors>>

Tab == 9

NoEntries == <<>>

StartReader(texts, encoding) ==
    /\ jisyo' = texts /\ output_encoding' = encoding
    /\ reader' = "open" /\ jisyo_encoding' = "unknown" /\ position' = 0
    /\ entries' = NoEntries
    /\ UNCHANGED read_errors

-----------------------------------------------------------------------------
(***************************************************************************)
(* A jisyo is opened and its encoding detected.                           *)
(***************************************************************************)

Detected(text) ==
    LET buffer == SubSeq(text, 1, Min({Len(text), DetectLength}))
    IN IF Len(buffer) < MinLineLength THEN "unknown" ELSE DetectEncoding(buffer)

SeekSkipUtf8Bom(text) == IF HasBom(text) THEN Len(UTF8_BOM) ELSE 0

\* Mutant of OpenJisyo: the byte order mark is read as a part of the first line.
OpenJisyoWithBom ==
    /\ reader = "open" /\ jisyo # <<>>
    /\ Detected(Head(jisyo)) # "unknown"
    /\ jisyo_encoding' = Detected(Head(jisyo))
    /\ position' = 0
    /\ reader' = "line"
    /\ UNCHANGED <<jisyo, output_encoding, entries, read_errors>>

OpenJisyo ==
    /\ reader = "open" /\ jisyo # <<>>
    /\ Detected(Head(jisyo)) # "unknown"
    /\ jisyo_encoding' = Detected(Head(jisyo))
    /\ position' = SeekSkipUtf8Bom(Head(jisyo))
    /\ reader' = "line"
    /\ UNCHANGED <<jisyo, output_encoding, entries, read_errors>>

OpenFails ==
    /\ reader = "open" /\ jisyo # <<>>
    /\ Detected(Head(jisyo)) = "unknown"
    /\ reader' = "error"
    /\ UNCHANGED <<jisyo, output_encoding, jisyo_encoding, position, entries, read_errors>>

AllJisyoRead ==
    /\ reader = "open" /\ jisyo = <<>>
    /\ reader' = "done"
    /\ UNCHANGED <<jisyo, output_encoding, jisyo_encoding, position, entries, read_errors>>

-----------------------------------------------------------------------------
(***************************************************************************)
(* A line ends with CR or LF or with the file.  Its last byte is cut off  *)
(* whatever it is; the LF of a CR LF is a line of its own, and empty.     *)
(***************************************************************************)

Find(bytes, byte) == SelectInSeq(bytes, LAMBDA b : b = byte)
FindLast(bytes, byte) == SelectLastInSeq(bytes, LAMBDA b : b = byte)

Rest == SubSeq(Head(jisyo), position + 1, Len(Head(jisyo)))

LineLength ==
    LET end == SelectInSeq(Rest, LAMBDA b : b \in {CR, LF})
    IN IF end = 0 THEN Len(Rest) ELSE end

ChompedLine == SubSeq(Rest, 1, LineLength - 1)

IsSpaceCrLfOnly(line) == Range(line) \subseteq {Space, CR, LF}

\* is_skip_and_print_warning is its negation.
LooksLikeEntry(line) ==
    /\ ~IsSpaceCrLfOnly(line)
    /\ line[1] \notin {Semicolon, Space, Tab}
    /\ Len(line) \in MinLineLength..MaxLineLength
    /\ Find(line, Space) # 0
    /\ LET candidates == SubSeq(line, Find(line, Space) + 1, Len(line))
       IN /\ Len(candidates) >= MinCandidatesLength - 1
          /\ candidates[1] # Space
          /\ ~HasText(candidates, <<Slash, Slash>>)

\* get_midashi_candidates: up to the first space, and from there to the last slash.
Midashi(line) == SubSeq(line, 1, Find(line, Space) - 1)
CandidatesOf(line) == SubSeq(line, Find(line, Space) + 1, FindLast(line, Slash))

ToEncoding(from, to, text) ==
    IF from = to THEN text ELSE IF to = "euc" THEN Encode(text) ELSE Decode(text)

\* The entries with this one, which replaces that of its midashi.
WithEntry(midashi, entry) ==
    [m \in DOMAIN entries \cup {midashi} |-> IF m = midashi THEN entry ELSE entries[m]]

\* Mutant of UpdateEntries: what was converted is not rid of duplicates.
UpdateWithDuplicates(midashi, candidates) ==
    WithEntry(midashi,
              IF midashi \in DOMAIN entries
              THEN MergeTrimmedSlashCandidates(TrimOneSlash(entries[midashi]),
                                               TrimOneSlash(candidates))
              ELSE candidates)

UpdateEntries(midashi, candidates) ==
    LET new == RemoveDuplicatesBytes(candidates)
    IN WithEntry(midashi,
                 IF midashi \in DOMAIN entries
                 THEN MergeTrimmedSlashCandidates(TrimOneSlash(entries[midashi]),
                                                  TrimOneSlash(new))
                 ELSE new)

ReadOn ==
    /\ position' = position + LineLength
    /\ UNCHANGED <<jisyo, output_encoding, jisyo_encoding>>

SkipLine ==
    /\ reader = "line" /\ Rest # <<>>
    /\ ~LooksLikeEntry(ChompedLine)
    /\ ReadOn
    /\ UNCHANGED <<reader, entries, read_errors>>

\* The slice of the candidates starts behind its end.
SlicePanics(line) == FindLast(line, Slash) \in 1..Find(line, Space)

LinePanics ==
    /\ reader = "line" /\ Rest # <<>>
    /\ LooksLikeEntry(ChompedLine) /\ SlicePanics(ChompedLine)
    /\ reader' = "panic"
    /\ UNCHANGED <<jisyo, output_encoding, jisyo_encoding, position, entries, read_errors>>

\* The warnings quote the line, and fail if it is not UTF-8.
IsString(line) ==
    jisyo_encoding = "euc" \/ \A i \in DOMAIN line :
        \/ Utf8Length(line, i) > 0
        \/ \E j \in 1..(i - 1) : Utf8Length(line, j) > i - j

NewCandidates ==
    ToEncoding(jisyo_encoding, output_encoding, CandidatesOf(ChompedLine))

IsWarnedOf(line) ==
    \/ FindLast(line, Slash) = 0
    \/ RemoveDuplicatesBytes(NewCandidates) # NewCandidates

WarningFails ==
    /\ reader = "line" /\ Rest # <<>>
    /\ LooksLikeEntry(ChompedLine) /\ ~SlicePanics(ChompedLine)
    /\ IsWarnedOf(ChompedLine) /\ ~IsString(ChompedLine)
    /\ reader' = "error"
    /\ UNCHANGED <<jisyo, output_encoding, jisyo_encoding, position, entries, read_errors>>

TakeLine ==
    /\ reader = "line" /\ Rest # <<>>
    /\ LooksLikeEntry(ChompedLine) /\ ~SlicePanics(ChompedLine)
    /\ IsWarnedOf(ChompedLine) => IsString(ChompedLine)
    /\ entries' = IF FindLast(ChompedLine, Slash) = 0
                  THEN entries
                  ELSE UpdateEntries(ToEncoding(jisyo_encoding, "euc", Midashi(ChompedLine)),
                                     NewCandidates)
    /\ ReadOn
    /\ UNCHANGED <<reader, read_errors>>

NextJisyo ==
    /\ jisyo' = Tail(jisyo) /\ reader' = "open"
    /\ UNCHANGED <<output_encoding, jisyo_encoding, position, entries>>

EndOfJisyo ==
    /\ reader = "line" /\ Rest = <<>>
    /\ NextJisyo
    /\ UNCHANGED read_errors

\* An error of the read is taken for the end of the file.
ReadFails ==
    /\ reader = "line" /\ read_errors < ReadErrors
    /\ read_errors' = read_errors + 1
    /\ NextJisyo

NextReader ==
    \/ OpenJisyo \/ OpenFails \/ AllJisyoRead
    \/ SkipLine \/ TakeLine \/ LinePanics \/ WarningFails
    \/ EndOfJisyo \/ ReadFails

\* read_jisyo_entries_map by itself, for whatever jisyo.
InitReader ==
    /\ jisyo \in Seq(Seq(0..255)) /\ output_encoding \in {"euc", "utf8"}
    /\ reader = "open" /\ jisyo_encoding = "unknown" /\ position = 0
    /\ entries = NoEntries /\ read_errors = 0

ReaderSpec == InitReader /\ [][NextReader]_readerVars

-----------------------------------------------------------------------------
(***************************************************************************)
(* Properties.                                                            *)
(***************************************************************************)

UnitsIn(entry) == Units(TrimOneSlash(entry))

UnitsOf(map, midashi) == IF midashi \in DOMAIN map THEN UnitsIn(map[midashi]) ELSE <<>>

\* The candidates keep their places and their annotations; behind them come those of the
\* line, none is lost and none made up but an empty one.  No text is twice, unless the line
\* has it with two annotations.
Adds(line, before, after) ==
    /\ Len(before) <= Len(after)
    /\ \A i \in DOMAIN before :
          /\ Text(after[i]) = Text(before[i])
          /\ Annotated(before[i]) => after[i] = before[i]
    /\ Range(after) \subseteq Range(before) \cup Range(line)
    /\ TextsOf(line) \subseteq TextsOf(after) \cup {<<>>}
    /\ DistinctTexts(before) /\ (\A u, v \in Range(line) : Text(u) = Text(v) => u = v) =>
          DistinctTexts(after)

IsTaken(line) == LooksLikeEntry(line) /\ Contains(line, Slash)

\* Whatever the bytes of a line are, and how often its midashi has been read before: it only
\* adds its candidates, to the entry of its midashi and to no other.
LinesOnlyAdd ==
    [][ reader = "line" =>
          IF position' # position /\ IsTaken(ChompedLine)
          THEN LET its == ToEncoding(jisyo_encoding, "euc", Midashi(ChompedLine))
               IN /\ DOMAIN entries' = DOMAIN entries \cup {its}
                  /\ \A midashi \in DOMAIN entries \ {its} : entries'[midashi] = entries[midashi]
                  /\ Adds(Split(NewCandidates), UnitsOf(entries, its), UnitsOf(entries', its))
          ELSE entries' = entries ]_readerVars
=============================================================================
