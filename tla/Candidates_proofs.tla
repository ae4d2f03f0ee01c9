-------------------------- MODULE Candidates_proofs -------------------------
(***************************************************************************)
(* What the operations on lists of candidates keep, for lists of any       *)
(* length: removing duplicates, merging two lists, quoting.                *)
(***************************************************************************)
EXTENDS Candidates, SequenceFacts

-----------------------------------------------------------------------------
(***************************************************************************)
(* RemoveDuplicates.                                                       *)
(***************************************************************************)

\* The list kept after each of the units, as the loop builds it.
LEMMA RemoveDuplicatesSteps ==
    ASSUME NEW U, NEW units \in Seq(U)
    PROVE  \E kept \in [0..Len(units) -> Seq(U)] :
              /\ kept[0] = <<>>
              /\ \A n \in 1..Len(units) :
                    kept[n] = IF Contains(kept[n - 1], units[n]) THEN kept[n - 1]
                              ELSE Append(kept[n - 1], units[n])
              /\ RemoveDuplicates(units) = kept[Len(units)]
<1> DEFINE N == Len(units)
           V == Seq(U)
           Step(v, i) == IF Contains(v, units[i]) THEN v ELSE Append(v, units[i])
           step == [p \in V \X (1..N) |-> Step(p[1], p[2])]
           Equation(g) == g = [s \in SUBSET (1..N) |->
                                  IF s = {} THEN <<>> ELSE Step(g[s \ {Max(s)}], Max(s))]
           iter == CHOOSE g : Equation(g)
<1>1. N \in Nat /\ <<>> \in V /\ DOMAIN units = 1..N
    OBVIOUS
<1>2. ASSUME NEW v \in V, NEW i \in 1..N
      PROVE  Step(v, i) \in V
    OBVIOUS
<1>3. RemoveDuplicates(units) = iter[1..N]
    BY <1>1 DEF RemoveDuplicates, FoldLeft, MapThenFoldSet
<1>4. ASSUME NEW s \in SUBSET (1..N), s # {}
      PROVE  Max(s) \in 1..N /\ s \ {Max(s)} \in SUBSET (1..N)
    BY <1>1, <1>4, MaxIsGreatest
<1> HIDE DEF N, V, Step
<1>5. step \in [V \X (1..N) -> V]
    BY <1>2
<1>6. PICK g : IsFold(g, V, N, <<>>, step)
    <2> HIDE DEF step
    <2> QED
        BY <1>1, <1>5, FoldExists
<1>7. Equation(g)
    <2>1. ASSUME NEW s \in SUBSET (1..N)
          PROVE  g[s] = IF s = {} THEN <<>> ELSE Step(g[s \ {Max(s)}], Max(s))
        BY <1>4, <1>6 DEF IsFold
    <2>2. g = [s \in SUBSET (1..N) |-> g[s]]
        BY <1>6 DEF IsFold
    <2> QED
        BY <2>1, <2>2
<1>8. Equation(iter)
    BY <1>7
<1> HIDE DEF iter
<1>9. iter[{}] = <<>>
    BY <1>8
<1>10. ASSUME NEW n \in 1..N
       PROVE  iter[1..n] = Step(iter[1..(n - 1)], n)
    <2>1. n \in Nat /\ n # 0 /\ 1..n \in SUBSET (1..N)
        BY <1>1
    <2>2. 1..n # {} /\ Max(1..n) = n /\ (1..n) \ {n} = 1..(n - 1)
        BY <2>1, FoldSets
    <2>3. iter[1..n] = Step(iter[(1..n) \ {Max(1..n)}], Max(1..n))
        BY <1>8, <2>1, <2>2
    <2> QED
        BY <2>2, <2>3
<1> DEFINE S == {n \in 0..N : iter[1..n] \in V}
<1>11. 0..N \subseteq S
    <2>1. 0 \in S
        <3>1. 1..0 = {}
            OBVIOUS
        <3> QED
            BY <1>1, <1>9, <3>1
    <2>2. ASSUME NEW n \in 0..(N - 1), n \in S
          PROVE  n + 1 \in S
        <3>1. n + 1 \in 1..N /\ n + 1 \in 0..N /\ (n + 1) - 1 = n
            BY <1>1
        <3>2. iter[1..(n + 1)] = Step(iter[1..n], n + 1)
            <4>1. iter[1..(n + 1)] = Step(iter[1..((n + 1) - 1)], n + 1)
                BY <1>10, <3>1, Zenon
            <4> QED
                BY <3>1, <4>1
        <3>3. iter[1..(n + 1)] \in V
            BY <1>2, <2>2, <3>1, <3>2
        <3> QED
            BY <3>1, <3>3
    <2> HIDE DEF S
    <2> QED
        BY <1>1, <2>1, <2>2, BoundedInduction
<1> DEFINE kept == [n \in 0..N |-> iter[1..n]]
<1>12. kept \in [0..N -> V]
    BY <1>11
<1>13. kept[0] = <<>> /\ kept[N] = iter[1..N]
    <2>1. 1..0 = {} /\ 0 \in 0..N /\ N \in 0..N
        BY <1>1
    <2> QED
        BY <1>9, <2>1
<1>14. ASSUME NEW n \in 1..N
       PROVE  kept[n] = Step(kept[n - 1], n)
    <2>1. n \in 0..N /\ n - 1 \in 0..N
        BY <1>1
    <2> QED
        BY <1>10, <2>1
<1> HIDE DEF kept
<1> QED
    BY <1>3, <1>12, <1>13, <1>14 DEF N, V, Step

\* Candidates::remove_duplicates keeps each candidate of a list once and makes up none.
THEOREM DuplicatesAreRemoved ==
    ASSUME NEW U, NEW units \in Seq(U)
    PROVE  /\ RemoveDuplicates(units) \in Seq(U)
           /\ Range(RemoveDuplicates(units)) = Range(units)
           /\ IsInjective(RemoveDuplicates(units))
<1> DEFINE N == Len(units)
<1>1. N \in Nat /\ DOMAIN units = 1..N
    OBVIOUS
<1>2. PICK kept \in [0..N -> Seq(U)] :
          /\ kept[0] = <<>>
          /\ \A n \in 1..N : kept[n] = IF Contains(kept[n - 1], units[n]) THEN kept[n - 1]
                                       ELSE Append(kept[n - 1], units[n])
          /\ RemoveDuplicates(units) = kept[N]
    BY RemoveDuplicatesSteps
<1> DEFINE S == {n \in 0..N : /\ Range(kept[n]) = {units[i] : i \in 1..n}
                              /\ IsInjective(kept[n])}
<1>3. 0 \in S
    BY <1>1, <1>2 DEF Range, IsInjective
<1>4. ASSUME NEW n \in 0..(N - 1), n \in S
      PROVE  n + 1 \in S
    <2>1. n + 1 \in 1..N /\ (n + 1) - 1 = n /\ n \in 0..N /\ n + 1 \in 0..N
        BY <1>1
    <2>2. kept[n] \in Seq(U) /\ units[n + 1] \in U
        <3>1. units[n + 1] \in U
            BY <2>1
        <3> HIDE DEF N
        <3> QED
            BY <1>2, <2>1, <3>1
    <2>3. kept[n + 1] = IF units[n + 1] \in Range(kept[n]) THEN kept[n]
                        ELSE Append(kept[n], units[n + 1])
        BY <1>2, <2>1, <2>2, ContainsIsRange
    <2>4. {units[i] : i \in 1..(n + 1)} = {units[i] : i \in 1..n} \cup {units[n + 1]}
        <3>1. 1..(n + 1) = (1..n) \cup {n + 1}
            BY <2>1
        <3> QED
            BY <3>1
    <2>5. Range(kept[n]) = {units[i] : i \in 1..n} /\ IsInjective(kept[n])
        BY <1>4
    <2>6. Range(kept[n + 1]) = Range(kept[n]) \cup {units[n + 1]} /\ IsInjective(kept[n + 1])
        BY <2>2, <2>3, <2>5, AppendFacts
    <2> QED
        BY <2>1, <2>4, <2>5, <2>6
<1>5. N \in S
    <2> HIDE DEF S, N
    <2>1. 0..N \subseteq S
        BY <1>1, <1>3, <1>4, BoundedInduction
    <2> QED
        BY <1>1, <2>1
<1> QED
    BY <1>1, <1>2, <1>5 DEF Range

-----------------------------------------------------------------------------
(***************************************************************************)
(* MergedUnits.                                                            *)
(***************************************************************************)

LEMMA MatchFacts ==
    ASSUME NEW U, NEW new \in Seq(U), NEW unit
    PROVE  /\ Match(unit, new) \in 0..Len(new)
           /\ Match(unit, new) # 0 => Text(new[Match(unit, new)]) = Text(unit)
           /\ Match(unit, new) = 0 => \A j \in 1..Len(new) : Text(new[j]) # Text(unit)
<1> DEFINE I == {j \in 1..Len(new) : Text(new[j]) = Text(unit)}
<1>1. Match(unit, new) = IF I # {} THEN Min(I) ELSE 0
    BY DEF Match, SelectInSeq
<1>2. CASE I = {}
    BY <1>1, <1>2
<1>3. CASE I # {}
    <2>1. I \in SUBSET Nat
        OBVIOUS
    <2>2. Min(I) \in I
        BY <1>3, <2>1, MinIsLeast
    <2> QED
        BY <1>1, <1>3, <2>2
<1> QED
    BY <1>2, <1>3

\* What base keeps, and what of new goes behind it.
Kept(base, new) ==
    [i \in DOMAIN base |->
        IF /\ Match(base[i], new) # 0
           /\ Annotated(new[Match(base[i], new)]) /\ ~Annotated(base[i])
        THEN new[Match(base[i], new)] ELSE base[i]]

Alone(base, new) ==
    [j \in DOMAIN new |-> IF j \in {Match(base[i], new) : i \in DOMAIN base} THEN <<>> ELSE <<new[j]>>]

Matched(base, new) == {Match(base[i], new) : i \in 1..Len(base)}

LeftOver(base, new) == {new[j] : j \in (1..Len(new)) \ Matched(base, new)}

LEMMA AloneFacts ==
    ASSUME NEW U, NEW base \in Seq(U), NEW new \in Seq(U)
    PROVE  /\ FlattenSeq(Alone(base, new)) \in Seq(U)
           /\ Range(FlattenSeq(Alone(base, new))) = LeftOver(base, new)
           /\ IsInjective(new) => IsInjective(FlattenSeq(Alone(base, new)))
<1> DEFINE matched == Matched(base, new)
           alone == Alone(base, new)
<1>1. /\ DOMAIN base = 1..Len(base) /\ DOMAIN new = 1..Len(new) /\ Len(new) \in Nat
      /\ \A j \in 1..Len(new) : new[j] \in U
    OBVIOUS
<1>2. alone = [j \in 1..Len(new) |-> IF j \in matched THEN <<>> ELSE <<new[j]>>]
    BY <1>1 DEF Alone, Matched
<1> HIDE DEF matched, alone
<1>3. alone \in Seq(Seq(U)) /\ Len(alone) = Len(new)
    <2>1. alone \in [1..Len(new) -> Seq(U)]
        BY <1>1, <1>2
    <2> QED
        BY <1>1, <2>1
<1>4. \A j \in 1..Len(new) : Range(alone[j]) = IF j \in matched THEN {} ELSE {new[j]}
    BY <1>2 DEF Range
<1>5. \A j \in 1..Len(new) : IsInjective(alone[j])
    BY <1>2 DEF IsInjective
<1>6. UNION {Range(alone[j]) : j \in 1..Len(alone)} = {new[j] : j \in (1..Len(new)) \ matched}
    <2>1. ASSUME NEW j \in 1..Len(alone), NEW u \in Range(alone[j])
          PROVE  u \in {new[k] : k \in (1..Len(new)) \ matched}
        <3>1. j \in (1..Len(new)) \ matched /\ u = new[j]
            BY <1>3, <1>4, <2>1
        <3> QED
            BY <3>1, Zenon
    <2>2. ASSUME NEW j \in (1..Len(new)) \ matched
          PROVE  \E k \in 1..Len(alone) : new[j] \in Range(alone[k])
        BY <1>3, <1>4
    <2>3. UNION {Range(alone[j]) : j \in 1..Len(alone)}
              \subseteq {new[j] : j \in (1..Len(new)) \ matched}
        BY <2>1
    <2>4. {new[j] : j \in (1..Len(new)) \ matched}
              \subseteq UNION {Range(alone[j]) : j \in 1..Len(alone)}
        BY <2>2
    <2> QED
        BY <2>3, <2>4
<1>7. ASSUME IsInjective(new), NEW m \in 1..Len(alone), NEW n \in 1..Len(alone), m # n
      PROVE  Range(alone[m]) \cap Range(alone[n]) = {}
    <2>1. m \in 1..Len(new) /\ n \in 1..Len(new)
        BY <1>3
    <2>2. new[m] # new[n]
        BY <1>1, <1>7, <2>1 DEF IsInjective
    <2> QED
        BY <1>4, <2>1, <2>2
<1>8. /\ FlattenSeq(alone) \in Seq(U)
      /\ Range(FlattenSeq(alone)) = {new[j] : j \in (1..Len(new)) \ matched}
      /\ IsInjective(new) => IsInjective(FlattenSeq(alone))
    BY <1>3, <1>5, <1>6, <1>7, FlattenFacts
<1> QED
    BY <1>8 DEF matched, alone, LeftOver

LEMMA KeptFacts ==
    ASSUME NEW U, NEW base \in Seq(U), NEW new \in Seq(U)
    PROVE  /\ Kept(base, new) \in Seq(U) /\ Len(Kept(base, new)) = Len(base)
           /\ \A i \in 1..Len(base) :
                 /\ Text(Kept(base, new)[i]) = Text(base[i])
                 /\ Kept(base, new)[i] \in Range(base) \cup Range(new)
                 /\ Annotated(base[i]) \/ (\A u \in Range(new) : ~Annotated(u)) =>
                       Kept(base, new)[i] = base[i]
<1>1. DOMAIN base = 1..Len(base) /\ DOMAIN new = 1..Len(new) /\ Len(base) \in Nat
    OBVIOUS
<1>2. ASSUME NEW i \in 1..Len(base)
      PROVE  /\ Kept(base, new)[i] \in U
             /\ Text(Kept(base, new)[i]) = Text(base[i])
             /\ Kept(base, new)[i] \in Range(base) \cup Range(new)
             /\ Annotated(base[i]) \/ (\A u \in Range(new) : ~Annotated(u)) =>
                   Kept(base, new)[i] = base[i]
    <2> DEFINE match == Match(base[i], new)
    <2>1. /\ match \in 0..Len(new)
          /\ match # 0 => Text(new[match]) = Text(base[i])
        BY MatchFacts
    <2>2. Kept(base, new)[i] = IF match # 0 /\ Annotated(new[match]) /\ ~Annotated(base[i])
                               THEN new[match] ELSE base[i]
        BY <1>1, Zenon DEF Kept
    <2>3. base[i] \in U /\ base[i] \in Range(base)
        BY DEF Range
    <2>4. match # 0 => new[match] \in U /\ new[match] \in Range(new)
        BY <2>1 DEF Range
    <2> HIDE DEF match
    <2> QED
        BY <2>1, <2>2, <2>3, <2>4
<1>3. DOMAIN Kept(base, new) = 1..Len(base)
    BY <1>1 DEF Kept
<1>4. Kept(base, new) = [i \in 1..Len(base) |-> Kept(base, new)[i]]
    BY <1>1 DEF Kept
<1>5. Kept(base, new) \in [1..Len(base) -> U]
    BY <1>2, <1>4
<1> QED
    BY <1>1, <1>2, <1>5

\* Candidates::merge_trimmed_slash_candidates: base keeps its texts in their order, new
\* adds the texts that base has not, and no text is there twice unless it was before.
THEOREM MergingLosesNothing ==
    ASSUME NEW U, NEW base \in Seq(U), NEW new \in Seq(U)
    PROVE  LET merged == MergedUnits(base, new)
           IN  /\ merged \in Seq(U) /\ Len(merged) >= Len(base)
               /\ \A i \in 1..Len(base) :
                     /\ Text(merged[i]) = Text(base[i])
                     /\ Annotated(base[i]) => merged[i] = base[i]
               /\ Range(merged) \subseteq Range(base) \cup Range(new)
               /\ TextsOf(merged) = TextsOf(base) \cup TextsOf(new)
               /\ DistinctTexts(base) /\ DistinctTexts(new) => DistinctTexts(merged)
<1> DEFINE kept == Kept(base, new)
           rest == FlattenSeq(Alone(base, new))
           matched == Matched(base, new)
           merged == MergedUnits(base, new)
<1>1. merged = kept \o rest
    BY DEF MergedUnits, Kept, Alone
<1>2. /\ rest \in Seq(U) /\ Range(rest) = {new[j] : j \in (1..Len(new)) \ matched}
      /\ IsInjective(new) => IsInjective(rest)
    <2>1. /\ rest \in Seq(U) /\ Range(rest) = LeftOver(base, new)
          /\ IsInjective(new) => IsInjective(rest)
        BY AloneFacts
    <2> QED
        BY <2>1 DEF LeftOver
<1>3. /\ kept \in Seq(U) /\ Len(kept) = Len(base)
      /\ \A i \in 1..Len(base) : /\ Text(kept[i]) = Text(base[i])
                                 /\ kept[i] \in Range(base) \cup Range(new)
                                 /\ Annotated(base[i]) => kept[i] = base[i]
    BY KeptFacts
<1>4. /\ DOMAIN base = 1..Len(base) /\ DOMAIN new = 1..Len(new)
      /\ Range(base) = {base[i] : i \in 1..Len(base)}
      /\ Range(new) = {new[j] : j \in 1..Len(new)}
    BY DEF Range
<1> HIDE DEF kept, rest, merged
<1>5. Range(kept) = {kept[i] : i \in 1..Len(base)} /\ DOMAIN kept = 1..Len(base)
    BY <1>3 DEF Range
<1>6. /\ merged \in Seq(U) /\ Len(merged) >= Len(base)
      /\ \A i \in 1..Len(base) : merged[i] = kept[i]
      /\ Range(merged) = Range(kept) \cup Range(rest)
    BY <1>1, <1>2, <1>3, ConcatRange
<1>7. TextsOf(kept) = TextsOf(base)
    BY <1>3, <1>4, <1>5 DEF TextsOf
<1>8. ASSUME NEW j \in 1..Len(new), j \notin matched, DistinctTexts(new)
      PROVE  Text(new[j]) \notin TextsOf(base)
    <2> SUFFICES ASSUME NEW i \in 1..Len(base), Text(base[i]) = Text(new[j])
                 PROVE  FALSE
        BY <1>4 DEF TextsOf
    <2> DEFINE match == Match(base[i], new)
    <2>1. /\ match \in 0..Len(new)
          /\ match # 0 => Text(new[match]) = Text(base[i])
          /\ match = 0 => \A k \in 1..Len(new) : Text(new[k]) # Text(base[i])
        BY MatchFacts
    <2>2. match \in matched
        BY DEF Matched
    <2> HIDE DEF match, matched
    <2>3. match \in 1..Len(new) /\ Text(new[match]) = Text(new[j])
        BY <2>1
    <2>4. new[match] = new[j]
        BY <1>4, <1>8, <2>3 DEF DistinctTexts
    <2>5. match = j
        BY <1>4, <1>8, <2>3, <2>4 DEF DistinctTexts, IsInjective
    <2> QED
        BY <1>8, <2>2, <2>5
<1>9. ASSUME NEW j \in 1..Len(new), j \in matched
      PROVE  Text(new[j]) \in TextsOf(base)
    <2>1. PICK i \in 1..Len(base) : j = Match(base[i], new)
        BY <1>9 DEF Matched
    <2>2. Text(new[j]) = Text(base[i])
        BY <2>1, MatchFacts
    <2> QED
        BY <1>4, <2>2 DEF TextsOf
<1>10. TextsOf(merged) = TextsOf(base) \cup TextsOf(new)
    <2>1. TextsOf(merged) = TextsOf(kept) \cup TextsOf(rest)
        BY <1>6 DEF TextsOf
    <2>2. TextsOf(rest) \subseteq TextsOf(new)
        BY <1>2, <1>4 DEF TextsOf
    <2>3. ASSUME NEW j \in 1..Len(new)
          PROVE  Text(new[j]) \in TextsOf(base) \cup TextsOf(rest)
        BY <1>2, <1>9 DEF TextsOf
    <2>4. TextsOf(new) \subseteq TextsOf(base) \cup TextsOf(rest)
        BY <1>4, <2>3 DEF TextsOf
    <2> QED
        BY <1>7, <2>1, <2>2, <2>4
<1>11. ASSUME DistinctTexts(base), DistinctTexts(new)
       PROVE  DistinctTexts(merged)
    <2>1. ASSUME NEW i \in 1..Len(base), NEW k \in 1..Len(base), Text(kept[i]) = Text(kept[k])
          PROVE  i = k
        <3>1. \A u, v \in Range(base) : Text(u) = Text(v) => u = v
            BY <1>11 DEF DistinctTexts
        <3>2. base[i] \in Range(base) /\ base[k] \in Range(base)
            BY <1>4, <2>1
        <3>3. Text(base[i]) = Text(base[k])
            BY <1>3, <2>1
        <3>4. base[i] = base[k]
            BY ONLY <3>1, <3>2, <3>3
        <3> QED
            BY <1>4, <1>11, <2>1, <3>4 DEF DistinctTexts, IsInjective
    <2>2. DistinctTexts(kept)
        BY <1>5, <2>1 DEF DistinctTexts, IsInjective
    <2>3. DistinctTexts(rest)
        BY <1>2, <1>4, <1>11 DEF DistinctTexts
    <2>4. ASSUME NEW u \in Range(kept), NEW v \in Range(rest)
          PROVE  Text(u) # Text(v)
        <3>1. Text(u) \in TextsOf(base)
            BY <1>7 DEF TextsOf
        <3>2. PICK j \in (1..Len(new)) \ matched : v = new[j]
            BY <1>2
        <3> QED
            BY <1>8, <1>11, <3>1, <3>2
    <2>5. IsInjective(merged)
        BY <1>1, <1>2, <1>3, <2>2, <2>3, <2>4, ConcatInjective DEF DistinctTexts
    <2> QED
        BY <1>6, <2>2, <2>3, <2>4, <2>5 DEF DistinctTexts
<1> QED
    BY <1>2, <1>3, <1>4, <1>5, <1>6, <1>10, <1>11 DEF merged

\* No unit has an annotation.
Plain(units) == \A u \in Range(units) : ~Annotated(u)

\* The first list is taken as it is.
LEMMA MergedBehindNone ==
    ASSUME NEW U, NEW new \in Seq(U)
    PROVE  MergedUnits(<<>>, new) = new
<1> DEFINE kept == Kept(<<>>, new)
<1>1. MergedUnits(<<>>, new) = kept \o FlattenSeq(Alone(<<>>, new))
    BY DEF MergedUnits, Kept, Alone
<1>2. kept = <<>>
    BY DEF Kept
<1>3. Alone(<<>>, new) = [j \in DOMAIN new |-> <<new[j]>>]
    BY DEF Alone
<1>4. FlattenSeq(Alone(<<>>, new)) = new
    BY <1>3, FlattenOfSingles
<1> HIDE DEF kept
<1> QED
    BY <1>1, <1>2, <1>4

-----------------------------------------------------------------------------
(***************************************************************************)
(* Lists of candidates as bytes.                                           *)
(***************************************************************************)

LEMMA SplitIs ==
    ASSUME NEW bytes
    PROVE  Split(bytes) = SplitAt(Slash, bytes)
BY DEF Split, SplitAt

LEMMA JoinedIs ==
    ASSUME NEW units
    PROVE  Joined(units) = JoinedAt(Slash, units)
BY DEF Joined, JoinedAt

LEMMA SplitUnits ==
    ASSUME NEW U, NEW bytes \in Seq(U)
    PROVE  Split(bytes) \in Seq(Seq(U \ {Slash})) /\ Split(bytes) # <<>>
BY SplitIs, SplitPieces

\* What trims to these bytes when their slashes are taken off.
LEMMA TrimmedBothSides ==
    ASSUME NEW U, Slash \in U, NEW bytes \in Seq(U)
    PROVE  TrimOneSlash(<<Slash>> \o Append(bytes, Slash)) = bytes
<1> PICK whole : whole = <<Slash>> \o Append(bytes, Slash)
    OBVIOUS
<1>1. /\ whole \in Seq(U) /\ Len(whole) = Len(bytes) + 2
      /\ whole[1] = Slash /\ whole[Len(whole)] = Slash
      /\ SubSeq(whole, 2, Len(whole) - 1) = bytes
    OBVIOUS
<1>2. Len(bytes) \in Nat /\ whole # <<>> /\ Len(whole) > 1
    BY <1>1
<1> QED
    BY <1>1, <1>2 DEF TrimOneSlash, Last

LEMMA TrimmedEnd ==
    ASSUME NEW U, Slash \in U, NEW bytes \in Seq(U), bytes # <<>>, bytes[1] # Slash
    PROVE  TrimOneSlash(Append(bytes, Slash)) = bytes
<1> PICK whole : whole = Append(bytes, Slash)
    OBVIOUS
<1>1. /\ whole \in Seq(U) /\ Len(whole) = Len(bytes) + 1
      /\ whole[1] # Slash /\ whole[Len(whole)] = Slash
      /\ SubSeq(whole, 1, Len(whole) - 1) = bytes
    OBVIOUS
<1>2. Len(bytes) \in Nat /\ whole # <<>> /\ Len(whole) > 1
    BY <1>1
<1> QED
    BY <1>1, <1>2 DEF TrimOneSlash, Last

LEMMA TrimmedSlash == TrimOneSlash(<<Slash>>) = <<>>
<1>1. Len(<<Slash>>) = 1 /\ <<Slash>>[1] = Slash /\ <<Slash>> # <<>> /\ SubSeq(<<Slash>>, 2, 1) = <<>>
    OBVIOUS
<1> QED
    BY <1>1 DEF TrimOneSlash

\* The units of a merged list are those it was joined of.
LEMMA MergedIsSplitAgain ==
    ASSUME NEW U, Slash \in U, NEW units, units \in Seq(Seq(U \ {Slash})), units # <<>>
    PROVE  /\ <<Slash>> \o Joined(units) \in Seq(U)
           /\ TrimOneSlash(<<Slash>> \o Joined(units)) \in Seq(U)
           /\ Split(TrimOneSlash(<<Slash>> \o Joined(units))) = units
<1>1. PICK t \in Seq(U) : JoinedAt(Slash, units) = Append(t, Slash) /\ SplitAt(Slash, t) = units
    BY JoinedIsSplitAgain
<1>2. TrimOneSlash(<<Slash>> \o Append(t, Slash)) = t
    BY TrimmedBothSides
<1>3. <<Slash>> \o Append(t, Slash) \in Seq(U)
    OBVIOUS
<1> QED
    BY <1>1, <1>2, <1>3, JoinedIs, SplitIs

\* The empty unit before the first slash.
WithoutFirstEmpty(units) == IF units[1] = <<>> THEN Tail(units) ELSE units

LEMMA JoinedBehindNone ==
    ASSUME NEW U, Slash \in U, NEW units, units \in Seq(Seq(U)), units # <<>>
    PROVE  Joined(units) = Append(units[1], Slash) \o Joined(Tail(units))
<1> PICK seqs : seqs = [i \in DOMAIN units |-> Append(units[i], Slash)]
    OBVIOUS
<1>1. /\ seqs \in Seq(Seq(U)) /\ Len(seqs) = Len(units)
      /\ \A i \in 1..Len(units) : seqs[i] = Append(units[i], Slash)
      /\ JoinedAt(Slash, units) = FlattenSeq(seqs)
    BY JoinedIsSequence
<1>2. FlattenSeq(seqs) = seqs[1] \o FlattenSeq(Tail(seqs))
    <2>1. seqs # <<>>
        BY <1>1
    <2> QED
        BY ONLY <1>1, <2>1, FlattenHead
<1>3. Tail(seqs) = [i \in DOMAIN Tail(units) |-> Append(Tail(units)[i], Slash)]
    <2> PICK k \in Nat \ {0} : k = Len(units)
        OBVIOUS
    <2>1. DOMAIN Tail(units) = 1..(k - 1) /\ \A i \in 1..(k - 1) : Tail(units)[i] = units[i + 1]
        OBVIOUS
    <2>2. Tail(seqs) = [i \in 1..(k - 1) |-> seqs[i + 1]]
        BY <1>1
    <2>3. \A i \in 1..(k - 1) : i + 1 \in 1..k /\ seqs[i + 1] = Append(units[i + 1], Slash)
        BY <1>1
    <2> QED
        BY ONLY <2>1, <2>2, <2>3
<1>4. seqs[1] = Append(units[1], Slash)
    BY <1>1
<1>5. Joined(Tail(units)) = FlattenSeq(Tail(seqs))
    BY ONLY <1>3, JoinedIs DEF JoinedAt
<1> QED
    BY ONLY <1>1, <1>2, <1>4, <1>5, JoinedIs

\* The units of a list without duplicates are those it was joined of, but for the first.
LEMMA EntryIsSplitAgain ==
    ASSUME NEW U, Slash \in U, NEW units, units \in Seq(Seq(U \ {Slash})), units # <<>>
    PROVE  LET rest == WithoutFirstEmpty(units)
           IN  /\ Joined(units) \in Seq(U) /\ TrimOneSlash(Joined(units)) \in Seq(U)
               /\ Split(TrimOneSlash(Joined(units))) = IF rest = <<>> THEN << <<>> >> ELSE rest
<1> PICK V : V = Seq(U \ {Slash})
    OBVIOUS
<1> PICK first : first = units[1]
    OBVIOUS
<1>1. V \subseteq Seq(U) /\ units \in Seq(V) /\ units \in Seq(Seq(U)) /\ first \in V
    OBVIOUS
<1>2. Joined(units) = Append(first, Slash) \o Joined(Tail(units))
    BY ONLY <1>1, Slash \in U, units # <<>>, first = units[1], JoinedBehindNone
<1>3. CASE first = <<>>
    <2> PICK rest : rest = Tail(units)
        OBVIOUS
    <2>1. rest \in Seq(V) /\ WithoutFirstEmpty(units) = rest
        <3>1. rest \in Seq(V)
            BY ONLY <1>1, units # <<>>, rest = Tail(units)
        <3> QED
            BY <1>3, <3>1 DEF WithoutFirstEmpty
    <2>2. Joined(units) = <<Slash>> \o Joined(rest)
        <3>1. Append(<<>>, Slash) = <<Slash>>
            OBVIOUS
        <3> QED
            BY <1>2, <1>3, <3>1
    <2>3. CASE rest = <<>>
        <3>1. Joined(<<>>) = <<>>
            <4>1. [i \in DOMAIN <<>> |-> Append(<<>>[i], Slash)] = <<>>
                OBVIOUS
            <4> QED
                BY ONLY <4>1, FlattenOfNone DEF Joined
        <3>2. Joined(units) = <<Slash>>
            <4>1. <<Slash>> \o <<>> = <<Slash>>
                OBVIOUS
            <4> QED
                BY ONLY <2>2, <2>3, <3>1, <4>1
        <3>3. <<Slash>> \in Seq(U) /\ <<>> \in Seq(U)
            OBVIOUS
        <3>4. Split(<<>>) = << <<>> >>
            BY SplitIs, SplitOfNone
        <3> QED
            BY ONLY <2>1, <2>3, <3>2, <3>3, <3>4, TrimmedSlash
    <2>4. CASE rest # <<>>
        <3>1. /\ <<Slash>> \o Joined(rest) \in Seq(U)
              /\ TrimOneSlash(<<Slash>> \o Joined(rest)) \in Seq(U)
              /\ Split(TrimOneSlash(<<Slash>> \o Joined(rest))) = rest
            BY ONLY <2>1, <2>4, Slash \in U, V = Seq(U \ {Slash}), MergedIsSplitAgain
        <3> QED
            BY ONLY <2>1, <2>2, <2>4, <3>1
    <2> QED
        BY <2>3, <2>4
<1>4. CASE first # <<>>
    <2>1. WithoutFirstEmpty(units) = units
        BY <1>4 DEF WithoutFirstEmpty
    <2> PICK t \in Seq(U) : JoinedAt(Slash, units) = Append(t, Slash) /\ SplitAt(Slash, t) = units
        <3>1. units \in Seq(Seq(U \ {Slash}))
            BY ONLY <1>1, V = Seq(U \ {Slash})
        <3> QED
            BY ONLY <3>1, Slash \in U, units # <<>>, JoinedIsSplitAgain
    <2>2. Joined(units) = Append(t, Slash) /\ Split(t) = units
        BY JoinedIs, SplitIs
    <2>3. Len(first) \in Nat \ {0} /\ first[1] \in U \ {Slash} /\ first \in Seq(U)
        <3>1. first \in Seq(U \ {Slash})
            BY ONLY <1>1, V = Seq(U \ {Slash})
        <3> QED
            BY ONLY <1>1, <1>4, <3>1
    <2>4. Joined(Tail(units)) \in Seq(U)
        <3>1. Tail(units) \in Seq(Seq(U))
            BY ONLY <1>1, units # <<>>
        <3>2. JoinedAt(Slash, Tail(units)) \in Seq(U)
            BY ONLY <3>1, Slash \in U, JoinedIsSequence
        <3> QED
            BY ONLY <3>2, JoinedIs
    <2>5. t # <<>> /\ t[1] # Slash
        <3> PICK x, y : x = Append(first, Slash) /\ y = Joined(Tail(units))
            OBVIOUS
        <3>1. x \in Seq(U) /\ Len(x) = Len(first) + 1 /\ x[1] = first[1]
            BY ONLY <2>3, Slash \in U, x = Append(first, Slash)
        <3>2. Len(x \o y) = Len(x) + Len(y) /\ (x \o y)[1] = first[1] /\ Len(y) \in Nat
            <4>1. y \in Seq(U)
                BY ONLY <2>4, y = Joined(Tail(units))
            <4>2. Len(x) \in Nat \ {0} /\ Len(y) \in Nat /\ 1 \in 1..Len(x)
                BY ONLY <2>3, <3>1, <4>1
            <4> PICK z : z = x \o y
                OBVIOUS
            <4>3. x \in Seq(U)
                BY ONLY <3>1
            <4>4. Len(z) = Len(x) + Len(y) /\ \A i \in 1..Len(x) : z[i] = x[i]
                BY ONLY <4>1, <4>3, z = x \o y, ConcatElements
            <4> QED
                BY ONLY <3>1, <4>2, <4>4, z = x \o y
        <3>3. x \o y = Append(t, Slash)
            BY ONLY <1>2, <2>2, x = Append(first, Slash), y = Joined(Tail(units))
        <3>4. Len(Append(t, Slash)) = Len(t) + 1 /\ Len(t) \in Nat
              /\ (Len(t) # 0 => Append(t, Slash)[1] = t[1])
            BY ONLY t \in Seq(U), Slash \in U
        <3>5. Len(t) # 0
            <4>1. Len(t) + 1 = Len(first) + 1 + Len(y)
                BY ONLY <3>1, <3>2, <3>3, <3>4
            <4> QED
                BY ONLY <2>3, <3>2, <3>4, <4>1
        <3>6. t[1] = first[1]
            BY ONLY <3>2, <3>3, <3>4, <3>5
        <3> QED
            BY ONLY <2>3, <3>5, <3>6, t \in Seq(U)
    <2>6. TrimOneSlash(Append(t, Slash)) = t
        BY ONLY <2>5, t \in Seq(U), Slash \in U, TrimmedEnd
    <2>7. Append(t, Slash) \in Seq(U)
        BY ONLY t \in Seq(U), Slash \in U
    <2> QED
        BY ONLY <2>1, <2>2, <2>6, <2>7, t \in Seq(U), units # <<>>
<1> QED
    BY <1>3, <1>4

LEMMA UnitsAreSplit ==
    ASSUME NEW U, NEW bytes \in Seq(U)
    PROVE  /\ Units(bytes) = IF Split(bytes) = << <<>> >> THEN <<>> ELSE Split(bytes)
           /\ Units(bytes) \in Seq(Seq(U \ {Slash}))
<1>1. Split(<<>>) = << <<>> >>
    BY SplitIs, SplitOfNone
<1>2. Split(bytes) = << <<>> >> => bytes = <<>>
    BY SplitIs, SplitIsEmpty
<1>3. Split(bytes) \in Seq(Seq(U \ {Slash}))
    BY SplitUnits
<1>4. <<>> \in Seq(Seq(U \ {Slash}))
    OBVIOUS
<1> QED
    BY <1>1, <1>2, <1>3, <1>4 DEF Units

-----------------------------------------------------------------------------
(***************************************************************************)
(* Quote.                                                                  *)
(***************************************************************************)

\* Texts without line ends, which Quote would drop.
LineText == Seq(Nat \ {CR, LF})

\* The letters of (concat "\...").
Opening == <<40, 99, 111, 110, 99, 97, 116, Space, Quotation, Backslash>>
Closing == <<Quotation, 41>>

IsConcat(bytes) ==
    /\ Len(bytes) = 15
    /\ bytes[1] = 40 /\ bytes[2] = 99 /\ bytes[3] = 111 /\ bytes[4] = 110 /\ bytes[5] = 99
    /\ bytes[6] = 97 /\ bytes[7] = 116 /\ bytes[8] = Space /\ bytes[9] = Quotation

LEMMA OpeningFacts ==
    /\ Opening \in Seq(Nat) /\ Len(Opening) = 10
    /\ Opening[1] = 40 /\ Opening[2] = 99 /\ Opening[3] = 111 /\ Opening[4] = 110
    /\ Opening[5] = 99 /\ Opening[6] = 97 /\ Opening[7] = 116 /\ Opening[8] = Space
    /\ Opening[9] = Quotation
    /\ Closing \in Seq(Nat) /\ Len(Closing) = 2
BY DEF Opening, Closing, Space, Quotation, Backslash

LEMMA ConcatPieces ==
    ASSUME NEW digits \in Seq(Nat)
    PROVE  LET all == Concat(digits)
           IN  /\ all \in Seq(Nat)
               /\ Len(all) = Len(Opening) + Len(digits) + Len(Closing)
               /\ \A i \in 1..Len(Opening) : all[i] = Opening[i]
               /\ \A i \in 1..Len(digits) : all[Len(Opening) + i] = digits[i]
               /\ Range(all) = Range(Opening) \cup Range(digits) \cup Range(Closing)
<1>1. Opening \in Seq(Nat) /\ Closing \in Seq(Nat)
    BY OpeningFacts
<1>2. PICK front : front = Opening \o digits
    OBVIOUS
<1>3. /\ front \in Seq(Nat) /\ Len(front) = Len(Opening) + Len(digits)
      /\ \A i \in 1..Len(Opening) : front[i] = Opening[i]
      /\ \A i \in 1..Len(digits) : front[Len(Opening) + i] = digits[i]
      /\ Range(front) = Range(Opening) \cup Range(digits)
    BY <1>1, <1>2, ConcatElements, ConcatRange
<1>4. PICK all : all = front \o Closing
    OBVIOUS
<1>5. /\ all \in Seq(Nat) /\ Len(all) = Len(front) + Len(Closing)
      /\ \A i \in 1..Len(front) : all[i] = front[i]
      /\ Range(all) = Range(front) \cup Range(Closing)
    <2>1. front \in Seq(Nat)
        BY <1>3
    <2> QED
        BY <1>1, <1>4, <2>1, ConcatElements, ConcatRange
<1>6. Concat(digits) = all
    BY <1>2, <1>4 DEF Concat, Opening, Closing
<1>7. Len(Opening) \in Nat /\ Len(digits) \in Nat
    BY <1>1
<1>8. ASSUME NEW i \in 1..Len(digits)
      PROVE  all[Len(Opening) + i] = digits[i]
    <2>1. Len(Opening) + i \in 1..Len(front)
        BY <1>3, <1>7
    <2> QED
        BY <1>3, <1>5, <2>1
<1>9. ASSUME NEW i \in 1..Len(Opening)
      PROVE  all[i] = Opening[i]
    <2>1. i \in 1..Len(front)
        BY <1>3, <1>7
    <2> QED
        BY <1>3, <1>5, <2>1
<1> QED
    BY <1>3, <1>5, <1>6, <1>8, <1>9

LEMMA ConcatFacts ==
    ASSUME NEW digits \in Seq(Nat), Len(digits) = 3
    PROVE  /\ Concat(digits) \in Seq(Nat) /\ IsConcat(Concat(digits))
           /\ Concat(digits)[12] = digits[2]
           /\ Range(Concat(digits)) = Range(Opening) \cup Range(digits) \cup Range(Closing)
<1>1. PICK all : all = Concat(digits)
    OBVIOUS
<1>2. /\ all \in Seq(Nat) /\ Len(all) = 15
      /\ \A i \in 1..10 : all[i] = Opening[i]
      /\ \A i \in 1..3 : all[10 + i] = digits[i]
      /\ Range(all) = Range(Opening) \cup Range(digits) \cup Range(Closing)
    <2>1. /\ all \in Seq(Nat)
          /\ Len(all) = Len(Opening) + Len(digits) + Len(Closing)
          /\ \A i \in 1..Len(Opening) : all[i] = Opening[i]
          /\ \A i \in 1..Len(digits) : all[Len(Opening) + i] = digits[i]
          /\ Range(all) = Range(Opening) \cup Range(digits) \cup Range(Closing)
        BY <1>1, ConcatPieces
    <2> QED
        BY <2>1, OpeningFacts
<1>3. IsConcat(all)
    BY <1>2, OpeningFacts DEF IsConcat
<1>4. all[12] = digits[2]
    <2>1. 2 \in 1..3 /\ 10 + 2 = 12
        OBVIOUS
    <2> QED
        BY <1>2, <2>1
<1> QED
    BY <1>1, <1>2, <1>3, <1>4

\* How many bytes a byte is quoted to, and with which they begin.
LEMMA QuotedFacts ==
    ASSUME NEW byte \in Nat
    PROVE  /\ Quoted(byte) \in Seq(Nat)
           /\ Range(Quoted(byte)) \cap {CR, LF, Slash, Semicolon} = {}
           /\ byte \notin {CR, LF, Backslash, Quotation, Semicolon, Slash} =>
                 Len(Quoted(byte)) = 1 /\ Quoted(byte)[1] = byte
           /\ byte \in {Backslash, Quotation} =>
                 Len(Quoted(byte)) = 2 /\ Quoted(byte)[1] = Backslash /\ Quoted(byte)[2] = byte
           /\ byte \in {Semicolon, Slash} =>
                 /\ IsConcat(Quoted(byte))
                 /\ Quoted(byte)[12] = IF byte = Semicolon THEN 55 ELSE 53
<1> DEFINE special == {CR, LF, Slash, Semicolon}
           digits == IF byte = Semicolon THEN <<48, 55, 51>> ELSE <<48, 53, 55>>
<1>1. special = {13, 10, 47, 59} /\ Backslash = 92 /\ Quotation = 34
    BY DEF CR, LF, Slash, Semicolon, Backslash, Quotation
<1>2. CASE byte \in {CR, LF}
    <2>1. Quoted(byte) = <<>>
        BY <1>2 DEF Quoted, CR, LF, Slash, Semicolon, Backslash, Quotation
    <2> QED
        BY <1>2, <2>1 DEF Range, CR, LF, Slash, Semicolon, Backslash, Quotation
<1>3. CASE byte \in {Backslash, Quotation}
    <2>1. Quoted(byte) = <<92, byte>>
        BY <1>1, <1>3 DEF Quoted, CR, LF
    <2>2. <<92, byte>> \in Seq(Nat) /\ Range(<<92, byte>>) = {92, byte}
        BY DEF Range
    <2> QED
        BY <1>1, <1>3, <2>1, <2>2 DEF CR, LF, Slash, Semicolon
<1>4. CASE byte \in {Semicolon, Slash}
    <2>1. Quoted(byte) = Concat(digits)
        BY <1>4 DEF Quoted, CR, LF, Slash, Semicolon, Backslash, Quotation
    <2>2. /\ digits \in Seq(Nat) /\ Len(digits) = 3 /\ Range(digits) \subseteq {48, 51, 53, 55}
          /\ digits[2] = IF byte = Semicolon THEN 55 ELSE 53
        <3>1. CASE byte = Semicolon
            BY <3>1 DEF Range
        <3>2. CASE byte # Semicolon
            BY <3>2 DEF Range
        <3> QED
            BY <3>1, <3>2
    <2>3. /\ Range(Opening) \subseteq {40, 99, 111, 110, 97, 116, 32, 34, 92}
          /\ Range(Closing) \subseteq {34, 41}
        BY DEF Range, Opening, Closing, Space, Quotation, Backslash
    <2> HIDE DEF digits
    <2>4. Range(Quoted(byte)) \cap special = {}
        <3>1. Range(Quoted(byte)) = Range(Opening) \cup Range(digits) \cup Range(Closing)
            BY <2>1, <2>2, ConcatFacts
        <3> HIDE DEF special
        <3>2. Range(Quoted(byte))
                  \subseteq {40, 99, 111, 110, 97, 116, 32, 34, 92, 48, 51, 53, 55, 41}
            BY <2>2, <2>3, <3>1
        <3> QED
            BY <1>1, <3>2
    <2> HIDE DEF special
    <2>5. /\ Quoted(byte) \in Seq(Nat) /\ IsConcat(Quoted(byte))
          /\ Quoted(byte)[12] = IF byte = Semicolon THEN 55 ELSE 53
        BY <2>1, <2>2, ConcatFacts
    <2>6. byte \notin {Backslash, Quotation}
        BY <1>4 DEF Slash, Semicolon, Backslash, Quotation
    <2> QED
        BY <1>4, <2>4, <2>5, <2>6 DEF special
<1>5. CASE byte \notin {CR, LF, Backslash, Quotation, Semicolon, Slash}
    <2>1. Quoted(byte) = <<byte>>
        BY <1>5 DEF Quoted
    <2>2. <<byte>> \in Seq(Nat) /\ Range(<<byte>>) = {byte}
        BY DEF Range
    <2> QED
        BY <1>5, <2>1, <2>2
<1> QED
    BY <1>2, <1>3, <1>4, <1>5

LEMMA QuoteIsFlat ==
    ASSUME NEW text \in Seq(Nat)
    PROVE  \E pieces \in Seq(Seq(Nat)) :
              /\ Quote(text) = FlattenSeq(pieces) /\ Len(pieces) = Len(text)
              /\ \A i \in 1..Len(text) : pieces[i] = Quoted(text[i])
<1> DEFINE pieces == [i \in DOMAIN text |-> Quoted(text[i])]
<1>1. DOMAIN text = 1..Len(text) /\ Len(text) \in Nat /\ \A i \in 1..Len(text) : text[i] \in Nat
    OBVIOUS
<1>2. pieces \in [1..Len(text) -> Seq(Nat)]
    BY <1>1, QuotedFacts
<1>3. pieces \in Seq(Seq(Nat)) /\ Len(pieces) = Len(text)
    BY <1>1, <1>2
<1>4. \A i \in 1..Len(text) : pieces[i] = Quoted(text[i])
    BY <1>1
<1>5. Quote(text) = FlattenSeq(pieces)
    BY DEF Quote
<1> HIDE DEF pieces
<1> QED
    BY <1>3, <1>4, <1>5

\* A quoted text is one candidate: nothing in it ends it or starts an annotation.
LEMMA QuoteIsOneCandidate ==
    ASSUME NEW text \in Seq(Nat)
    PROVE  /\ Quote(text) \in Seq(Nat)
           /\ Range(Quote(text)) \cap {CR, LF, Slash, Semicolon} = {}
           /\ ~Annotated(Quote(text))
<1>1. PICK pieces \in Seq(Seq(Nat)) :
          /\ Quote(text) = FlattenSeq(pieces) /\ Len(pieces) = Len(text)
          /\ \A i \in 1..Len(text) : pieces[i] = Quoted(text[i])
    BY QuoteIsFlat
<1>2. \A i \in 1..Len(text) : text[i] \in Nat
    OBVIOUS
<1>3. /\ FlattenSeq(pieces) \in Seq(Nat)
      /\ Range(FlattenSeq(pieces)) = UNION {Range(pieces[n]) : n \in 1..Len(pieces)}
    BY FlattenFacts
<1>4. \A i \in 1..Len(text) : Range(pieces[i]) \cap {CR, LF, Slash, Semicolon} = {}
    <2>1. \A b \in Nat : Range(Quoted(b)) \cap {CR, LF, Slash, Semicolon} = {}
        BY QuotedFacts
    <2> QED
        BY <1>1, <1>2, <2>1, Zenon
<1>5. Range(Quote(text)) \cap {CR, LF, Slash, Semicolon} = {}
    <2> SUFFICES ASSUME NEW b \in Range(Quote(text))
                 PROVE  b \notin {CR, LF, Slash, Semicolon}
        OBVIOUS
    <2>1. PICK i \in 1..Len(text) : b \in Range(pieces[i])
        BY <1>1, <1>3
    <2> QED
        BY <1>4, <2>1
<1>6. Quote(text) \in Seq(Nat)
    BY <1>1, <1>3
<1> QED
    BY <1>5, <1>6, ContainsIsRange DEF Annotated

StandsAt(bytes, quote, p) ==
    p + Len(bytes) <= Len(quote) /\ \A i \in 1..Len(bytes) : quote[p + i] = bytes[i]

LEMMA LineTextFacts ==
    ASSUME NEW text \in LineText
    PROVE  /\ text \in Seq(Nat) /\ Len(text) \in Nat /\ DOMAIN text = 1..Len(text)
           /\ \A i \in 1..Len(text) : text[i] \in Nat \ {CR, LF}
BY DEF LineText

\* Where the bytes of a text start in its quote.
Boundaries(start, text, quote) ==
    /\ start \in [0..Len(text) -> Nat]
    /\ start[0] = 0 /\ start[Len(text)] = Len(quote)
    /\ \A n \in 0..(Len(text) - 1) :
          /\ start[n + 1] = start[n] + Len(Quoted(text[n + 1]))
          /\ StandsAt(Quoted(text[n + 1]), quote, start[n])

LEMMA QuoteHasBoundaries ==
    ASSUME NEW text \in Seq(Nat)
    PROVE  \E start : Boundaries(start, text, Quote(text))
<1>1. PICK pieces \in Seq(Seq(Nat)) :
          /\ Quote(text) = FlattenSeq(pieces) /\ Len(pieces) = Len(text)
          /\ \A i \in 1..Len(text) : pieces[i] = Quoted(text[i])
    BY QuoteIsFlat
<1>2. PICK start : AreStarts(start, pieces, FlattenSeq(pieces))
    BY FlattenStarts
<1>3. ASSUME NEW n \in 0..(Len(text) - 1)
      PROVE  /\ start[n + 1] = start[n] + Len(Quoted(text[n + 1]))
             /\ StandsAt(Quoted(text[n + 1]), Quote(text), start[n])
    <2>1. n + 1 \in 1..Len(text) /\ (n + 1) - 1 = n
        OBVIOUS
    <2>2. \A m \in 1..Len(pieces) :
              /\ start[m] = start[m - 1] + Len(pieces[m]) /\ start[m] <= Len(FlattenSeq(pieces))
              /\ \A i \in 1..Len(pieces[m]) : FlattenSeq(pieces)[start[m - 1] + i] = pieces[m][i]
        BY <1>2 DEF AreStarts
    <2>3. /\ start[n + 1] = start[(n + 1) - 1] + Len(pieces[n + 1])
          /\ start[n + 1] <= Len(FlattenSeq(pieces))
          /\ \A i \in 1..Len(pieces[n + 1]) :
                FlattenSeq(pieces)[start[(n + 1) - 1] + i] = pieces[n + 1][i]
        BY <1>1, <2>1, <2>2, Zenon
    <2> QED
        BY <1>1, <2>1, <2>3 DEF StandsAt
<1>4. Boundaries(start, text, Quote(text))
    BY <1>1, <1>2, <1>3 DEF AreStarts, Boundaries
<1> QED
    BY <1>4

\* The byte with which the quote of a byte begins.
FirstOf(byte) ==
    IF byte \in {Backslash, Quotation} THEN Backslash
    ELSE IF byte \in {Semicolon, Slash} THEN 40
    ELSE byte

\* What the quote has at the boundary says where the next one is, unless it is a
\* backslash or a parenthesis.
LEMMA NextBoundary ==
    ASSUME NEW text \in LineText, NEW quote, NEW start, Boundaries(start, text, quote),
           NEW n \in 0..Len(text), start[n] < Len(quote)
    PROVE  /\ n \in 0..(Len(text) - 1) /\ text[n + 1] \in Nat \ {CR, LF}
           /\ quote[start[n] + 1] = FirstOf(text[n + 1])
           /\ quote[start[n] + 1] # Quotation
           /\ quote[start[n] + 1] \notin {Backslash, 40} => start[n + 1] = start[n] + 1
<1>1. n \in 0..(Len(text) - 1) /\ Len(text) \in Nat
    BY LineTextFacts DEF Boundaries
<1>2. text[n + 1] \in Nat \ {CR, LF}
    BY <1>1, LineTextFacts
<1> DEFINE byte == text[n + 1]
<1>3. /\ start[n + 1] = start[n] + Len(Quoted(byte))
      /\ \A i \in 1..Len(Quoted(byte)) : quote[start[n] + i] = Quoted(byte)[i]
      /\ start[n] \in Nat
    BY <1>1 DEF Boundaries, StandsAt
<1> HIDE DEF byte
<1>4. 1 \in 1..Len(Quoted(byte)) /\ Quoted(byte)[1] = FirstOf(byte)
      /\ (byte \notin {Backslash, Quotation, Semicolon, Slash} => Len(Quoted(byte)) = 1)
    <2>1. byte \in Nat /\ byte \notin {CR, LF}
        BY <1>2 DEF byte
    <2>2. CASE byte \in {Backslash, Quotation}
        <3>1. Len(Quoted(byte)) = 2 /\ Quoted(byte)[1] = Backslash
            BY <2>1, <2>2, QuotedFacts
        <3> QED
            BY <2>2, <3>1 DEF FirstOf
    <2>3. CASE byte \in {Semicolon, Slash}
        <3>1. IsConcat(Quoted(byte))
            BY ONLY <2>1, <2>3, QuotedFacts
        <3>2. Len(Quoted(byte)) = 15 /\ Quoted(byte)[1] = 40
            BY ONLY <3>1 DEF IsConcat
        <3>3. FirstOf(byte) = 40
            BY ONLY <2>3 DEF FirstOf, Backslash, Quotation, Semicolon, Slash
        <3> QED
            BY ONLY <2>3, <3>2, <3>3
    <2>4. CASE byte \notin {Backslash, Quotation, Semicolon, Slash}
        <3>1. Len(Quoted(byte)) = 1 /\ Quoted(byte)[1] = byte
            BY <2>1, <2>4, QuotedFacts
        <3> QED
            BY <2>4, <3>1 DEF FirstOf
    <2> QED
        BY <2>2, <2>3, <2>4
<1>5. quote[start[n] + 1] = FirstOf(byte)
    BY <1>3, <1>4
<1>6. FirstOf(byte) # Quotation
      /\ (FirstOf(byte) \notin {Backslash, 40} => byte \notin {Backslash, Quotation, Semicolon, Slash})
    BY DEF FirstOf, Backslash, Quotation
<1> QED
    BY <1>1, <1>2, <1>3, <1>4, <1>5, <1>6 DEF byte

\* Behind a parenthesis of the text itself the rest of (concat "... cannot follow: its
\* quotation mark would be quoted.
LEMMA NoOtherConcat ==
    ASSUME NEW text \in LineText, NEW quote \in Seq(Nat), NEW start,
           Boundaries(start, text, quote),
           NEW n \in 0..(Len(text) - 1), text[n + 1] = 40,
           NEW concat, IsConcat(concat), StandsAt(concat, quote, start[n])
    PROVE  FALSE
<1> DEFINE p == start[n]
           IsBoundary(k) == n + k \in 0..Len(text) /\ start[n + k] = p + k
<1>1. p \in Nat /\ Len(text) \in Nat /\ Len(quote) \in Nat /\ p + 15 <= Len(quote)
    <2>1. Len(text) \in Nat /\ Len(quote) \in Nat
        BY LineTextFacts
    <2>2. start \in [0..Len(text) -> Nat] /\ n \in 0..Len(text)
        BY <2>1 DEF Boundaries
    <2>3. start[n] + 15 <= Len(quote)
        BY DEF StandsAt, IsConcat
    <2> QED
        BY <2>1, <2>2, <2>3
<1>2. /\ quote[p + 2] = 99 /\ quote[p + 3] = 111 /\ quote[p + 4] = 110
      /\ quote[p + 5] = 99 /\ quote[p + 6] = 97 /\ quote[p + 7] = 116 /\ quote[p + 8] = 32
      /\ quote[p + 9] = Quotation
    <2>1. \A i \in 1..15 : quote[p + i] = concat[i]
        BY DEF StandsAt, IsConcat
    <2> QED
        BY <2>1 DEF IsConcat, Space
<1>3. IsBoundary(1)
    <2>1. Len(Quoted(40)) = 1
        BY QuotedFacts DEF CR, LF, Backslash, Quotation, Semicolon, Slash
    <2>2. start[n + 1] = start[n] + Len(Quoted(text[n + 1]))
        BY DEF Boundaries
    <2>3. start[n + 1] = p + 1
        BY <2>1, <2>2
    <2> QED
        BY <1>1, <2>3
<1> HIDE DEF p
<1>4. ASSUME NEW k \in 1..8, IsBoundary(k), NEW m \in Nat, m = k + 1
      PROVE  /\ quote[p + m] # Quotation
             /\ quote[p + m] \notin {Backslash, 40} => IsBoundary(m)
    <2>1. start[n + k] = p + k /\ n + k \in 0..Len(text)
        BY <1>4
    <2>2. start[n + k] < Len(quote)
        BY <1>1, <2>1
    <2>3. /\ n + k \in 0..(Len(text) - 1)
          /\ quote[start[n + k] + 1] # Quotation
          /\ quote[start[n + k] + 1] \notin {Backslash, 40} =>
                start[(n + k) + 1] = start[n + k] + 1
        BY <2>1, <2>2, NextBoundary
    <2>4. n \in Nat
        BY <1>1
    <2>5. start[n + k] + 1 = p + m /\ (n + k) + 1 = n + m
        BY <1>1, <1>4, <2>1, <2>4
    <2>6. n + m \in 0..Len(text)
        BY <1>1, <1>4, <2>3, <2>4
    <2> QED
        BY <2>3, <2>5, <2>6
<1> HIDE DEF IsBoundary
<1> USE DEF Backslash
<1>5. IsBoundary(2)
    BY <1>2, <1>3, <1>4
<1>6. IsBoundary(3)
    BY <1>2, <1>4, <1>5
<1>7. IsBoundary(4)
    BY <1>2, <1>4, <1>6
<1>8. IsBoundary(5)
    BY <1>2, <1>4, <1>7
<1>9. IsBoundary(6)
    BY <1>2, <1>4, <1>8
<1>10. IsBoundary(7)
    BY <1>2, <1>4, <1>9
<1>11. IsBoundary(8)
    BY <1>2, <1>4, <1>10
<1> QED
    BY <1>2, <1>4, <1>11

\* Bytes whose quotes stand at the same place are equal, unless one is a parenthesis and
\* the other is quoted to (concat "...
LEMMA SameQuoted ==
    ASSUME NEW x \in Nat \ {CR, LF}, NEW y \in Nat \ {CR, LF}, NEW quote, NEW p,
           StandsAt(Quoted(x), quote, p), StandsAt(Quoted(y), quote, p)
    PROVE  \/ x = y
           \/ x = 40 /\ y \in {Semicolon, Slash}
           \/ y = 40 /\ x \in {Semicolon, Slash}
<1> DEFINE Concats == {Semicolon, Slash}
           Escapes == {Backslash, Quotation}
<1>1. Concats = {59, 47} /\ Escapes = {92, 34} /\ Semicolon = 59
    BY DEF Semicolon, Slash, Backslash, Quotation
<1>2. ASSUME NEW z \in Nat \ {CR, LF}, StandsAt(Quoted(z), quote, p)
      PROVE  /\ z \in Escapes => quote[p + 1] = 92 /\ quote[p + 2] = z
             /\ z \in Concats => quote[p + 1] = 40 /\ quote[p + 12] = IF z = 59 THEN 55 ELSE 53
             /\ z \notin Escapes \cup Concats => quote[p + 1] = z
    <2>1. CASE z \in Escapes
        <3>1. Len(Quoted(z)) = 2 /\ Quoted(z)[1] = 92 /\ Quoted(z)[2] = z
            BY <2>1, QuotedFacts DEF Backslash
        <3>2. quote[p + 1] = 92 /\ quote[p + 2] = z
            BY <1>2, <3>1 DEF StandsAt
        <3> QED
            BY <1>1, <2>1, <3>2
    <2>2. CASE z \in Concats
        <3>1. /\ Len(Quoted(z)) = 15 /\ Quoted(z)[1] = 40
              /\ Quoted(z)[12] = IF z = Semicolon THEN 55 ELSE 53
            <4>1. z \in Nat /\ z \in {Semicolon, Slash}
                BY <2>2
            <4>2. IsConcat(Quoted(z)) /\ Quoted(z)[12] = IF z = Semicolon THEN 55 ELSE 53
                BY ONLY <4>1, QuotedFacts
            <4> QED
                BY ONLY <4>2 DEF IsConcat
        <3>2. quote[p + 1] = 40 /\ quote[p + 12] = IF z = Semicolon THEN 55 ELSE 53
            BY <1>2, <3>1 DEF StandsAt
        <3> QED
            BY <1>1, <2>2, <3>2
    <2>3. CASE z \notin Escapes \cup Concats
        <3>1. Len(Quoted(z)) = 1 /\ Quoted(z)[1] = z
            BY <2>3, QuotedFacts
        <3>2. quote[p + 1] = z
            BY <1>2, <3>1 DEF StandsAt
        <3> QED
            BY <2>3, <3>2
    <2> QED
        BY <2>1, <2>2, <2>3
<1> HIDE DEF Concats, Escapes
<1>3. /\ x \in Escapes => quote[p + 1] = 92 /\ quote[p + 2] = x
      /\ x \in Concats => quote[p + 1] = 40 /\ quote[p + 12] = IF x = 59 THEN 55 ELSE 53
      /\ x \notin Escapes \cup Concats => quote[p + 1] = x
    BY <1>2
<1>4. /\ y \in Escapes => quote[p + 1] = 92 /\ quote[p + 2] = y
      /\ y \in Concats => quote[p + 1] = 40 /\ quote[p + 12] = IF y = 59 THEN 55 ELSE 53
      /\ y \notin Escapes \cup Concats => quote[p + 1] = y
    BY <1>2
<1>5. x = y \/ (x = 40 /\ y \in Concats) \/ (y = 40 /\ x \in Concats)
    BY <1>1, <1>3, <1>4
<1> QED
    BY <1>5 DEF Concats

\* Behind equal beginnings equal bytes follow.
LEMMA SameByte ==
    ASSUME NEW s \in LineText, NEW t \in LineText, NEW quote \in Seq(Nat),
           NEW a, Boundaries(a, s, quote), NEW b, Boundaries(b, t, quote),
           NEW n \in Nat, n < Len(s), n < Len(t), a[n] = b[n]
    PROVE  s[n + 1] = t[n + 1]
<1>1. /\ n \in 0..(Len(s) - 1) /\ n \in 0..(Len(t) - 1)
      /\ s[n + 1] \in Nat \ {CR, LF} /\ t[n + 1] \in Nat \ {CR, LF}
    BY LineTextFacts
<1>2. StandsAt(Quoted(s[n + 1]), quote, a[n]) /\ StandsAt(Quoted(t[n + 1]), quote, a[n])
    BY <1>1 DEF Boundaries
<1>3. ASSUME s[n + 1] = 40, t[n + 1] \in {Semicolon, Slash}
      PROVE  FALSE
    <2>1. IsConcat(Quoted(t[n + 1]))
        BY <1>1, <1>3, QuotedFacts
    <2> QED
        BY <1>1, <1>2, <1>3, <2>1, NoOtherConcat
<1>4. ASSUME t[n + 1] = 40, s[n + 1] \in {Semicolon, Slash}
      PROVE  FALSE
    <2>1. IsConcat(Quoted(s[n + 1]))
        BY <1>1, <1>4, QuotedFacts
    <2> QED
        BY <1>1, <1>2, <1>4, <2>1, NoOtherConcat
<1> QED
    BY <1>1, <1>2, <1>3, <1>4, SameQuoted

\* Candidates::quote_and_add_prefix never makes one candidate of two texts that differ in
\* more than their line ends.
THEOREM QuoteIsInjective ==
    ASSUME NEW s \in LineText, NEW t \in LineText, Quote(s) = Quote(t)
    PROVE  s = t
<1> DEFINE quote == Quote(s)
<1>1. /\ s \in Seq(Nat) /\ t \in Seq(Nat) /\ Len(s) \in Nat /\ Len(t) \in Nat
      /\ DOMAIN s = 1..Len(s) /\ DOMAIN t = 1..Len(t)
    BY DEF LineText
<1>2. quote \in Seq(Nat)
    BY <1>1, QuoteIsOneCandidate
<1>3. PICK a : Boundaries(a, s, quote)
    BY <1>1, QuoteHasBoundaries
<1>4. PICK b : Boundaries(b, t, quote)
    BY <1>1, QuoteHasBoundaries
<1> HIDE DEF quote
<1> DEFINE S == {n \in Nat : n <= Len(s) /\ n <= Len(t) =>
                    /\ a[n] = b[n]
                    /\ \A i \in 1..n : s[i] = t[i]}
<1>5. 0 \in S
    BY <1>3, <1>4 DEF Boundaries
<1>6. ASSUME NEW n \in Nat, n \in S
      PROVE  n + 1 \in S
    <2> SUFFICES ASSUME n + 1 <= Len(s), n + 1 <= Len(t)
                 PROVE  a[n + 1] = b[n + 1] /\ \A i \in 1..(n + 1) : s[i] = t[i]
        OBVIOUS
    <2>1. /\ n < Len(s) /\ n < Len(t) /\ a[n] = b[n] /\ \A i \in 1..n : s[i] = t[i]
          /\ n \in 0..(Len(s) - 1) /\ n \in 0..(Len(t) - 1)
        BY <1>1, <1>6
    <2>2. s[n + 1] = t[n + 1]
        BY <1>2, <1>3, <1>4, <2>1, SameByte
    <2>3. /\ a[n + 1] = a[n] + Len(Quoted(s[n + 1]))
          /\ b[n + 1] = b[n] + Len(Quoted(t[n + 1]))
        BY <1>3, <1>4, <2>1 DEF Boundaries
    <2> QED
        BY <2>1, <2>2, <2>3
<1>7. Nat \subseteq S
    <2> HIDE DEF S
    <2> QED
        BY <1>5, <1>6, SetInduction
<1>8. ASSUME NEW u \in LineText, NEW v \in LineText, NEW c, Boundaries(c, u, quote),
             NEW d, Boundaries(d, v, quote), Len(u) < Len(v), c[Len(u)] = d[Len(u)]
      PROVE  FALSE
    <2>1. Len(u) \in Nat /\ Len(u) \in 0..(Len(v) - 1) /\ Len(u) \in 0..Len(v)
        BY <1>8 DEF LineText
    <2>2. d[Len(u)] = Len(quote)
        BY <1>8 DEF Boundaries
    <2>3. StandsAt(Quoted(v[Len(u) + 1]), quote, d[Len(u)])
        BY <1>8, <2>1 DEF Boundaries
    <2>4. v[Len(u) + 1] \in Nat \ {CR, LF}
        BY <2>1, LineTextFacts
    <2>5. Len(Quoted(v[Len(u) + 1])) \in Nat \ {0}
        BY <2>4, QuotedFacts DEF IsConcat
    <2>6. Len(quote) \in Nat
        BY <1>2
    <2> QED
        BY <2>2, <2>3, <2>5, <2>6 DEF StandsAt
<1>9. Len(s) = Len(t)
    <2>1. Len(s) \in S /\ Len(t) \in S
        BY <1>1, <1>7
    <2>2. ~(Len(s) < Len(t))
        BY <1>1, <1>3, <1>4, <1>8, <2>1
    <2>3. ~(Len(t) < Len(s))
        BY <1>1, <1>3, <1>4, <1>8, <2>1
    <2>4. Len(s) \in Nat /\ Len(t) \in Nat
        BY <1>1
    <2> QED
        BY <2>2, <2>3, <2>4
<1>10. \A i \in 1..Len(s) : s[i] = t[i]
    BY <1>1, <1>7, <1>9
<1> QED
    BY <1>1, <1>9, <1>10
=============================================================================
