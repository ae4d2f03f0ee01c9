----------------------------- MODULE Candidates -----------------------------
(***************************************************************************)
(* Candidates: the list of candidates of a midashi, "/text/text;note/" as *)
(* a sequence of bytes, as jisyo, dictionary and replies hold it.  An     *)
(* annotation follows the first semicolon of its candidate.               *)
(***************************************************************************)
EXTENDS Integers, SequencesExt

CR == 13
LF == 10
Space == 32
Slash == 47
Semicolon == 59

Split(bytes) ==
    FoldLeft(LAMBDA units, byte :
                IF byte = Slash THEN Append(units, <<>>)
                ELSE [units EXCEPT ![Len(units)] = Append(@, byte)],
             << <<>> >>, bytes)

\* Every unit with its slash.
Joined(units) == FlattenSeq([i \in DOMAIN units |-> Append(units[i], Slash)])

\* A single "/" loses the slash at its start, not the one at its end.
TrimOneSlash(bytes) ==
    LET end == IF Len(bytes) > 1 /\ Last(bytes) = Slash THEN Len(bytes) - 1 ELSE Len(bytes)
    IN SubSeq(bytes, IF bytes # <<>> /\ bytes[1] = Slash THEN 2 ELSE 1, end)

RemoveDuplicates(units) ==
    FoldLeft(LAMBDA kept, unit : IF Contains(kept, unit) THEN kept ELSE Append(kept, unit),
             <<>>, units)

\* The unit behind the last slash is empty like the one before the first.
RemoveDuplicatesBytes(bytes) == Joined(RemoveDuplicates(Split(bytes)))

Annotated(unit) == Contains(unit, Semicolon)

Text(unit) ==
    IF Annotated(unit) THEN SubSeq(unit, 1, SelectInSeq(unit, LAMBDA b : b = Semicolon) - 1)
    ELSE unit

TextsOf(units) == {Text(u) : u \in Range(units)}

\* No text twice.
DistinctTexts(units) ==
    /\ IsInjective(units)
    /\ \A u, v \in Range(units) : Text(u) = Text(v) => u = v

Units(trimmed) == IF trimmed = <<>> THEN <<>> ELSE Split(trimmed)

\* The first new unit with this text, 0 if there is none.
Match(unit, new) == SelectInSeq(new, LAMBDA v : Text(v) = Text(unit))

\* Mutant of MergedUnits: what new alone has goes in front.
MergedUnitsInFront(base, new) ==
    LET matched == {Match(base[i], new) : i \in DOMAIN base}
    IN FlattenSeq([j \in DOMAIN new |-> IF j \in matched THEN <<>> ELSE <<new[j]>>]) \o base

\* base keeps its units and annotations; new adds what it alone has.
MergedUnits(base, new) ==
    [i \in DOMAIN base |->
        LET match == Match(base[i], new)
        IN IF match # 0 /\ Annotated(new[match]) /\ ~Annotated(base[i])
           THEN new[match] ELSE base[i]]
    \o LET matched == {Match(base[i], new) : i \in DOMAIN base}
       IN FlattenSeq([j \in DOMAIN new |-> IF j \in matched THEN <<>> ELSE <<new[j]>>])

\* new is split even if it is empty: an empty candidate then.
MergeTrimmedSlashCandidates(base, new) == <<Slash>> \o Joined(MergedUnits(Units(base), Split(new)))

-----------------------------------------------------------------------------

Backslash == 92
Quotation == 34

\* (concat "\073") and (concat "\057") are what Emacs evaluates to ; and /.
Concat(digits) ==
    <<40, 99, 111, 110, 99, 97, 116, Space, Quotation, Backslash>> \o digits \o <<Quotation, 41>>

Quoted(byte) ==
    CASE byte \in {CR, LF} -> <<>>
      [] byte \in {Backslash, Quotation} -> <<Backslash, byte>>
      [] byte = Semicolon -> Concat(<<48, 55, 51>>)
      [] byte = Slash -> Concat(<<48, 53, 55>>)
      [] OTHER -> <<byte>>

\* Mutant of Quote: a slash stays what it is.
QuoteNoSlash(text) ==
    FlattenSeq([i \in DOMAIN text |-> IF text[i] = Slash THEN <<Slash>> ELSE Quoted(text[i])])

Quote(text) == FlattenSeq([i \in DOMAIN text |-> Quoted(text[i])])
=============================================================================
