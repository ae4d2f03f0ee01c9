------------------------------ MODULE MCJisyo ------------------------------
(***************************************************************************)
(* JisyoCreator on small jisyo.  A jisyo is given as a page: its lines as *)
(* words, and words as letters, each with its bytes in both encodings.    *)
(* What the program makes of the bytes is compared with the words.        *)
(***************************************************************************)
EXTENDS JisyoCreator

CONSTANT
    ForeignUtf8     \* the bytes of a character that is not in the table

\* name -> page: what the given jisyo say.
pages == origin.given

Letter(euc, utf8, unicode) == [euc |-> euc, utf8 |-> utf8, unicode |-> unicode]

\* The EUC of HA HA holds what looks like UTF-8; RAN is a compatibility ideograph; PA is KA
\* with a mark.
HA == Letter(<<164, 207>>, <<227, 129, 175>>, <<\h306f>>)
A == Letter(<<164, 162>>, <<227, 129, 130>>, <<\h3042>>)
KA == Letter(<<164, 171>>, <<227, 129, 139>>, <<\h304b>>)
Kanji == Letter(<<176, 161>>, <<228, 186, 156>>, <<\h4e9c>>)
Ran == Letter(<<246, 187>>, <<239, 164, 157>>, <<\hf91d>>)
AE == Letter(<<169, 220>>, <<195, 166>>, <<\he6>>)
Grave == Letter(<<171, 220>>, <<204, 128>>, <<\h300>>)
Three == Letter(<<143, 161, 162>>, <<228, 184, 130>>, <<\h4e02>>)
Four == Letter(<<174, 162>>, <<240, 160, 128, 139>>, <<\h2000b>>)
Pa == Letter(<<164, 247>>, <<227, 129, 139, 227, 130, 154>>, <<\h304b, \h309a>>)
AEGrave == Letter(<<171, 196>>, <<195, 166, 204, 128>>, <<\he6, \h300>>)
Ascii(byte) == Letter(<<byte>>, <<byte>>, <<byte>>)
Control == Letter(<<142>>, <<194, 142>>, <<\h8e>>)
Foreign == Letter(Escape(ForeignUtf8), ForeignUtf8, <<>>)

\* An extract of the table; some of its units are control characters.
Table ==
    {[euc |-> l.euc, unicode |-> l.unicode] :
        l \in {Ascii(97), Control, HA, A, KA, Kanji, Ran, AE, Grave, Three, Four, Pa, AEGrave}}

\* Below the range of the encoder's index, and in the gap it should not convert.
Thai == <<224, 184, 129>>
U9fa4 == <<233, 190, 164>>

\* They stand for the two texts, which occur nowhere else.
EucHeader == <<1>>
Utf8Header == <<2>>

-----------------------------------------------------------------------------

ToBytes(word, encoding) == FlattenSeq([i \in DOMAIN word |-> word[i][encoding]])

\* A candidate is a word, or a word and an annotation.
Bare(word) == [text |-> word, note |-> <<>>]
Noted(word) == [text |-> word, note |-> <<A>>]

BytesOf(c, encoding) ==
    ToBytes(c.text, encoding) \o
        (IF c.note = <<>> THEN <<>> ELSE <<Semicolon>> \o ToBytes(c.note, encoding))

CandidateBytes(candidates, encoding) ==
    <<Slash>> \o Joined([i \in DOMAIN candidates |-> BytesOf(candidates[i], encoding)])

Terminators == [lf |-> <<LF>>, cr |-> <<CR>>, crlf |-> <<CR, LF>>, none |-> <<>>]

Entry(midashi, candidates, end) ==
    [midashi |-> midashi, candidates |-> candidates, raw |-> <<>>, end |-> end]

Raw(bytes) == [midashi |-> <<>>, candidates |-> <<>>, raw |-> bytes, end |-> "lf"]

LineText(line, encoding) ==
    (IF line.raw # <<>> THEN line.raw
     ELSE ToBytes(line.midashi, encoding) \o <<Space>>
            \o CandidateBytes(line.candidates, encoding)) \o Terminators[line.end]

Page(encoding, lines) == [encoding |-> encoding, bom |-> FALSE, lines |-> lines]

PageText(page) ==
    (IF page.bom THEN UTF8_BOM ELSE <<>>) \o
        FlattenSeq([i \in DOMAIN page.lines |-> LineText(page.lines[i], page.encoding)])

-----------------------------------------------------------------------------

Letters == {A, Kanji, Ran, AE, Grave, Three, Four, Pa, AEGrave, Foreign}
Words == {<<l>> : l \in Letters} \cup {<<AE, Grave>>, <<KA, Pa>>, <<Three, AE>>, <<HA, HA, HA>>}

OkuriAri == <<A, Ascii(115)>>

\* One candidate in every letter.
WordPages == {Page(e, <<Entry(<<A>>, <<Bare(w)>>, "lf")>>) : e \in {"euc", "utf8"}, w \in Words}

Lists ==
    {<<Bare(<<A>>)>>, <<Noted(<<A>>), Bare(<<Kanji>>)>>, <<Bare(<<Kanji>>), Bare(<<A>>)>>,
     <<Bare(<<Kanji>>), Noted(<<Three>>), Bare(<<Kanji>>)>>, <<Bare(<<A>>), Noted(<<A>>)>>}

\* Two lines of a midashi, with every terminator.
MergePages ==
    {Page("utf8", <<Entry(<<A>>, l, "crlf"), Entry(<<A>>, k, "crlf")>>) : l, k \in Lists}
    \cup {Page("utf8", <<Entry(<<A>>, l, "crlf"), Entry(m, l, "none")>>) :
        l \in Lists, m \in {<<A>>, <<KA>>}}
    \cup {Page("euc", <<Entry(<<A>>, l, end), Entry(OkuriAri, l, "cr"), Entry(<<AE>>, l, end)>>) :
        l \in Lists, end \in DOMAIN Terminators \ {"none"}}

\* Midashi that are one in UTF-8; words whose EUC looks like UTF-8.
OddPages ==
    {Page("euc", <<Entry(<<AE, Grave>>, <<Bare(<<A>>)>>, "lf"),
                   Entry(<<AEGrave>>, <<Bare(<<Kanji>>)>>, "lf")>>),
     Page("euc", <<Entry(<<HA, HA, HA, HA>>, <<Bare(<<HA, HA>>)>>, "lf")>>),
     Page("euc", <<Entry(<<Ascii(97), Ascii(98)>>, <<Bare(<<Ascii(99)>>)>>, "lf")>>),
     Page("utf8", <<Raw(<<Semicolon>> \o [i \in 1..40 |-> 97] \o Utf8Header),
                    Entry(<<A>>, <<Bare(<<Kanji>>)>>, "lf")>>),
     Page("utf8", <<Raw(<<Semicolon>> \o [i \in 1..60 |-> 97]),
                    Entry(<<A>>, <<Bare(<<Ascii(97), Ascii(98)>>)>>, "lf")>>)}

\* Lines that are skipped; that are of an unknown format; that end the reader; that are
\* taken for entries although they are none.
RawLines ==
    {<<59, 99>>, <<32, 32>>, <<32, 97, 98, 32, 47, 99, 47>>, <<9, 97, 32, 47, 99, 47>>,
     <<97, 98, 99, 47, 100>>, <<97, 32, 47, 98>>, <<97, 98, 99, 32, 47>>,
     <<97, 98, 99, 32, 32, 47, 120, 47>>, <<97, 98, 99, 32, 47, 120, 47, 47>>,
     <<97, 98, 99, 32, 120, 121>>,
     <<97, 47, 98, 32, 99, 100>>, <<97, 98, 32, 47, 255, 47, 255, 47>>,
     <<97, 98, 99, 32, 47, 121>>, <<97, 98, 99, 32, 120, 47, 121, 47>>,
     <<255, 97, 32, 47, 121, 47>>, <<164, 32, 47, 120, 47>>,
     <<97, 98, 99, 32, 47, 164, 47>>, <<97, 98, 32, 47>> \o [i \in 1..MaxLineLength |-> 99]}

RawPages ==
    {Page(e, <<Entry(<<A, KA>>, <<Bare(<<Kanji, A>>)>>, "lf"), Raw(raw), Entry(<<A>>, l, "lf")>>) :
        e \in {"euc", "utf8"}, raw \in RawLines,
        l \in {<<Noted(<<A>>), Bare(<<Kanji>>)>>}}

SecondPages == {Page("euc", <<Entry(<<A>>, <<Bare(<<Kanji>>), Noted(<<A>>)>>, "lf")>>)}

GivenPages ==
    {<<>>} \cup {[a |-> p] : p \in WordPages \cup MergePages \cup OddPages \cup RawPages}
    \cup {[a |-> [p EXCEPT !.bom = TRUE], b |-> q] :
            p \in {Page("utf8", <<Entry(<<A>>, l, "lf")>>) : l \in Lists}, q \in SecondPages}

\* What Google answered, with the bytes that candidates cannot hold.
CachedCandidates ==
    <<<<97, Semicolon, 98>>, <<Quotation, LF, Backslash>>, <<228, 186, 156, Slash>>>>
Cache == (A.utf8 :> CachedCandidates) @@ (KA.utf8 :> <<Kanji.utf8>>)

Argument(names, dictionary_given, cache_given, output, utf8) ==
    [jisyo |-> names, dictionary |-> dictionary_given, cache |-> cache_given,
     output |-> output, utf8 |-> utf8]

DictionaryOf(names) == {Argument(names, TRUE, FALSE, NoFile, utf8) : utf8 \in BOOLEAN}
JisyoOf(is_cache) == {Argument(<<>>, ~is_cache, is_cache, "out", utf8) : utf8 \in BOOLEAN}

\* A dictionary of jisyo or a jisyo of the cache, a jisyo of the dictionary, a dictionary of
\* that jisyo; and command lines that cannot be followed.
CommandLines ==
    <<DictionaryOf(<<"a">>) \cup DictionaryOf(<<"a", "b">>) \cup JisyoOf(TRUE)
        \cup {Argument(<<"a">>, FALSE, FALSE, "out", TRUE), Argument(<<>>, TRUE, FALSE, NoFile, TRUE)},
      JisyoOf(FALSE),
      DictionaryOf(<<"out">>) \cup {Argument(<<"a", "out">>, TRUE, FALSE, NoFile, TRUE)}>>

-----------------------------------------------------------------------------

Init ==
    /\ origin \in {[given |-> given, out |-> <<>>, encoding |-> "none", dictionary |-> <<>>] :
                    given \in GivenPages}
    /\ files = [name \in {"a", "b", "out"} |->
                    IF name \in DOMAIN pages THEN PageText(pages[name]) ELSE NoFile]
    /\ jisyo = <<>> /\ output_encoding = "euc" /\ reader = "idle" /\ jisyo_encoding = "unknown"
    /\ position = 0 /\ entries = NoEntries /\ read_errors = 0
    /\ program = "idle" /\ arguments = NoFile /\ runs = 0
    /\ dictionary = NoFile /\ cache = IF pages = <<>> THEN Cache ELSE NoFile
    /\ blocks_left = {} /\ okuri_ari_map = <<>> /\ okuri_nasi_map = <<>>

Spec == Init /\ [][NextProgram]_programVars

-----------------------------------------------------------------------------
(***************************************************************************)
(* What the pages say.                                                    *)
(***************************************************************************)

Names == FlattenSeq([i \in DOMAIN arguments.jisyo |-> Stem(arguments.jisyo[i])])

LinesOf(names) == FlattenSeq([i \in DOMAIN names |-> pages[names[i]].lines])

EntryLines(names) == SelectSeq(LinesOf(names), LAMBDA line : line.raw = <<>>)

Adding(list, c) ==
    IF \E i \in DOMAIN list : list[i].text = c.text
    THEN [i \in DOMAIN list |->
            IF list[i].text = c.text /\ list[i].note = <<>> THEN c ELSE list[i]]
    ELSE Append(list, c)

\* Every candidate once, in the order of the lines, with the first annotation.
Expected(lines, midashi) ==
    LET its_lines == SelectSeq(lines, LAMBDA line : line.midashi = midashi)
    IN FoldLeft(Adding, <<>>, FlattenSeq([i \in DOMAIN its_lines |-> its_lines[i].candidates]))

\* A line that ends with the file, without its last candidate.
Shortened(lines) ==
    [i \in DOMAIN lines |->
        IF lines[i].end = "none" THEN [lines[i] EXCEPT !.candidates = Front(@)] ELSE lines[i]]

MidashiOf(names) == {line.midashi : line \in ToSet(EntryLines(names))}

WordsOf(names) ==
    UNION {{line.midashi} \cup {c.text : c \in ToSet(line.candidates)} :
            line \in ToSet(EntryLines(names))}

TextOf(name) == files[name]
EncodingOf(name) == IF name = "out" THEN origin.encoding ELSE pages[name].encoding

\* Every word comes back from the other encoding as it was, or is not converted: combining
\* characters become one where there is one, an escape stays one.
AreKept(words) ==
    LET encodings == {IF name = "out" THEN "any" ELSE EncodingOf(name) : name \in ToSet(arguments.jisyo)}
    IN \A word \in words :
        /\ Foreign \in ToSet(word) => encodings = {"utf8"}
        /\ (\E i \in 1..(Len(word) - 1) : word[i] = AE /\ word[i + 1] = Grave)
            => encodings = {output_encoding}

\* A text is in one line with one annotation only.
HasOneNote(line) ==
    \A c, d \in ToSet(line.candidates) : c.text = d.text => c = d

\* EUC in which UTF-8 is found, and UTF-8 that is nearly all ASCII and has no header.
HoldsUtf8(text) == \E i \in 1..(Len(text) - 1) : text[i] \in \hc2..\hdf /\ text[i + 1] \in \h80..\hbf

IsDoubtful(text, encoding) ==
    IF encoding = "euc" THEN HoldsUtf8(text)
    ELSE /\ ~HasText(text, CodingUtf8)
         /\ Cardinality({i \in DOMAIN text : text[i] \in \hc2..\hf7}) * AmbiguousPart <= Len(text)

AreReadAsWritten ==
    \A name \in (ToSet(arguments.jisyo) \cup ToSet(Names)) \ {"cache"} :
        ~IsDoubtful(TextOf(name), EncodingOf(name))

HasRun == program = "read" /\ reader = "done" /\ read_errors = 0

IsOfPages == \A i \in DOMAIN Names : Names[i] # "cache"

-----------------------------------------------------------------------------
(***************************************************************************)
(* Properties.                                                            *)
(***************************************************************************)

MidashiEmptied ==
    {line.midashi : line \in {l \in ToSet(EntryLines(Names)) :
        "out" \in ToSet(arguments.jisyo) /\ l.end = "none" /\ Len(l.candidates) = 1}}

\* Whatever the encodings, the terminators and the skipped lines between them, and also if the
\* jisyo was made of a dictionary that was made of other jisyo: every midashi gets the
\* candidates of all its lines, each once and in order.  A last line without a terminator
\* loses its last candidate; if that is its only one, the empty candidate left over is written
\* to a jisyo that is not read again.  Nothing else is lost.
EntriesAreThoseOfTheLines ==
    HasRun /\ IsOfPages /\ AreReadAsWritten
    /\ (\A line \in ToSet(EntryLines(Names)) : HasOneNote(line))
    /\ AreKept(WordsOf(Names)) =>
        \A midashi \in MidashiOf(Names) \ MidashiEmptied :
            LET lines == EntryLines(Names)
                read == entries[ToBytes(midashi, "euc")]
            IN \/ read = CandidateBytes(Expected(lines, midashi), output_encoding)
               \/ /\ \E line \in ToSet(lines) : line.midashi = midashi /\ line.end = "none"
                  /\ <<Slash>> \o Joined(SelectSeq(UnitsIn(read), LAMBDA unit : unit # <<>>))
                        = CandidateBytes(Expected(Shortened(lines), midashi), output_encoding)

\* A jisyo is read in the encoding it is written in, also if that was this program.
DetectedAsWritten ==
    reader = "line" =>
        LET name == arguments.jisyo[Len(arguments.jisyo) + 1 - Len(jisyo)]
        IN \/ jisyo_encoding = EncodingOf(name)
           \/ IsDoubtful(TextOf(name), EncodingOf(name))
           \/ \A i \in DOMAIN TextOf(name) : TextOf(name)[i] \in \h00..\h7f

\* At any time, and if reads fail, the entries are midashi and candidates of the lines and
\* nothing else.
NothingIsMadeUp ==
    program = "read" /\ IsOfPages /\ AreReadAsWritten /\ AreKept(WordsOf(Names)) =>
        /\ EntryLines(Names) = LinesOf(Names) =>
              DOMAIN entries \subseteq {ToBytes(midashi, "euc") : midashi \in MidashiOf(Names)}
        /\ \A midashi \in MidashiOf(Names) :
              ToBytes(midashi, "euc") \in DOMAIN entries =>
                  LET texts == {c.text : c \in ToSet(Expected(EntryLines(Names), midashi))}
                  IN \A unit \in ToSet(UnitsIn(entries[ToBytes(midashi, "euc")])) \ {<<>>} :
                        Text(unit) \in {ToBytes(text, output_encoding) : text \in texts}

\* A candidate of the cache stays one candidate, whatever bytes it has.
CachedCandidatesStayWhole ==
    HasRun /\ Names = <<"cache">> /\ AreReadAsWritten =>
        \A midashi \in DOMAIN cache :
            Encode(midashi) \in DOMAIN entries /\ UnitsIn(entries[Encode(midashi)]) =
                [i \in DOMAIN cache[midashi] |->
                    ToEncoding("utf8", output_encoding, Quote(cache[midashi][i]))]

\* Comments of the encoder: the index of what is out of range is that of an empty cell.
ForeignCharactersAreEscaped ==
    HasRun /\ IsOfPages /\ AreReadAsWritten /\ arguments.jisyo = <<"a">>
    /\ pages["a"].encoding = "utf8" /\ output_encoding = "euc" =>
        \A line \in ToSet(EntryLines(Names)) :
            \A c \in ToSet(line.candidates) :
                Foreign \in ToSet(c.text) =>
                    HasText(entries[ToBytes(line.midashi, "euc")], Escape(ForeignUtf8))
=============================================================================
