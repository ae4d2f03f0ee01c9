--------------------------- MODULE SequenceFacts ----------------------------
(***************************************************************************)
(* Induction over the naturals, stated for sets, and what follows of it    *)
(* for the operators on sequences the model is built from: the code these  *)
(* stand for are the loops over bytes, candidates and entries.             *)
(***************************************************************************)
EXTENDS SequencesExt, WellFoundedInduction, TLAPS

\* A non-empty set of naturals has a least element.
LEMMA LeastNatural ==
    ASSUME NEW S \in SUBSET Nat, S # {}
    PROVE  \E d \in S : \A e \in S : d <= e
<1>1. IsWellFoundedOn(OpToRel(<, Nat), Nat)
    BY NatLessThanWellFounded
<1>2. PICK d \in S : \A e \in S : <<e, d>> \notin OpToRel(<, Nat)
    BY <1>1, WFMin
<1>3. \A e \in S : ~(e < d)
    BY <1>2 DEF OpToRel
<1> QED
    BY <1>3

\* Min picks it.
LEMMA MinIsLeast ==
    ASSUME NEW S \in SUBSET Nat, S # {}
    PROVE  Min(S) \in S /\ \A e \in S : Min(S) <= e
<1>1. \E d \in S : \A e \in S : d =< e
    BY LeastNatural
<1> QED
    BY <1>1, Zenon DEF Min

LEMMA MaxOfTop ==
    ASSUME NEW n \in Nat, NEW s \in SUBSET (1..(n + 1)), n + 1 \in s
    PROVE  Max(s) = n + 1
<1>1. \A y \in s : n + 1 >= y
    OBVIOUS
<1>2. \E x \in s : \A y \in s : x >= y
    BY <1>1
<1>3. Max(s) \in s /\ \A y \in s : Max(s) >= y
    BY <1>2, Zenon DEF Max
<1>4. Max(s) \in 1..(n + 1) /\ Max(s) >= n + 1
    BY <1>3
<1> QED
    BY <1>4

\* Induction: a set that has 0 and with each number the next one has all.
LEMMA SetInduction ==
    ASSUME NEW S, 0 \in S, \A n \in Nat : n \in S => n + 1 \in S
    PROVE  Nat \subseteq S
<1> SUFFICES ASSUME Nat \ S # {}
             PROVE  FALSE
    OBVIOUS
<1>1. PICK d \in Nat \ S : \A e \in Nat \ S : d <= e
    BY LeastNatural
<1>2. d # 0 /\ d - 1 \in Nat
    BY <1>1
<1>3. d - 1 \in S
    BY <1>1, <1>2
<1>4. (d - 1) + 1 \in S
    BY <1>2, <1>3
<1> QED
    BY <1>1, <1>4

\* Induction up to a bound.
LEMMA BoundedInduction ==
    ASSUME NEW N \in Nat, NEW S, 0 \in S, \A n \in 0..(N - 1) : n \in S => n + 1 \in S
    PROVE  0..N \subseteq S
<1> DEFINE T == {n \in Nat : n <= N => n \in S}
<1>1. 0 \in T
    OBVIOUS
<1>2. ASSUME NEW n \in Nat, n \in T
      PROVE  n + 1 \in T
    <2> SUFFICES ASSUME n + 1 <= N
                 PROVE  n + 1 \in S
        OBVIOUS
    <2> QED
        BY <1>2
<1>3. Nat \subseteq T
    <2> HIDE DEF T
    <2> QED
        BY <1>1, <1>2, SetInduction
<1> QED
    BY <1>3

\* A non-empty set of numbers up to N has a greatest, and Max picks it.
LEMMA MaxIsGreatest ==
    ASSUME NEW N \in Nat, NEW s \in SUBSET (1..N), s # {}
    PROVE  Max(s) \in s /\ \A e \in s : Max(s) >= e
<1> DEFINE T == {N - e : e \in s}
<1>0. \A e \in s : e \in 1..N /\ N - e \in Nat
    OBVIOUS
<1>1. T \in SUBSET Nat /\ T # {}
    BY <1>0
<1>2. PICK d \in T : \A e \in T : d <= e
    BY <1>1, LeastNatural
<1>3. PICK x \in s : d = N - x
    OBVIOUS
<1>4. ASSUME NEW y \in s
      PROVE  x >= y
    <2>1. N - y \in T
        OBVIOUS
    <2>2. N - x <= N - y
        BY <1>2, <1>3, <2>1
    <2> QED
        BY <2>2
<1>5. \E m \in s : \A y \in s : m >= y
    BY <1>4
<1> QED
    BY <1>5, Zenon DEF Max

-----------------------------------------------------------------------------
\* N steps from the base, each a function of the value before it and of its number.
IsChain(c, V, N, base, step) ==
    /\ c \in [0..N -> V] /\ c[0] = base
    /\ \A n \in 1..N : c[n] = step[<<c[n - 1], n>>]

LEMMA ChainExists ==
    ASSUME NEW V, NEW N \in Nat, NEW base \in V, NEW step \in [V \X (1..N) -> V]
    PROVE  \E c : IsChain(c, V, N, base, step)
<1> DEFINE IsUpTo(g, n) == /\ g \in [0..n -> V] /\ g[0] = base
                           /\ \A i \in 1..n : g[i] = step[<<g[i - 1], i>>]
           S == {n \in 0..N : \E g : IsUpTo(g, n)}
<1>1. 0 \in S
    <2>1. IsUpTo([i \in 0..0 |-> base], 0)
        OBVIOUS
    <2> HIDE DEF IsUpTo
    <2> QED
        BY <2>1
<1>2. ASSUME NEW n \in 0..(N - 1), n \in S
      PROVE  n + 1 \in S
    <2>1. PICK g : IsUpTo(g, n)
        BY <1>2
    <2>2. <<g[n], n + 1>> \in V \X (1..N)
        BY <2>1
    <2> DEFINE h == [i \in 0..(n + 1) |-> IF i = n + 1 THEN step[<<g[n], n + 1>>] ELSE g[i]]
    <2>3. h \in [0..(n + 1) -> V] /\ h[0] = base
        BY <2>1, <2>2
    <2>4. ASSUME NEW i \in 1..(n + 1)
          PROVE  h[i] = step[<<h[i - 1], i>>]
        <3>1. h[i - 1] = g[i - 1]
            OBVIOUS
        <3>2. CASE i = n + 1
            <4>1. i - 1 = n /\ h[i] = step[<<g[n], n + 1>>]
                BY <3>2
            <4> QED
                BY <3>1, <3>2, <4>1, Zenon
        <3>3. CASE i # n + 1
            <4>1. i \in 1..n /\ h[i] = g[i]
                BY <3>3
            <4> QED
                BY <2>1, <3>1, <4>1
        <3> QED
            BY <3>2, <3>3
    <2> HIDE DEF h
    <2>5. IsUpTo(h, n + 1)
        BY <2>3, <2>4
    <2> HIDE DEF IsUpTo
    <2> QED
        BY <2>5
<1>3. N \in S
    <2> HIDE DEF S
    <2> QED
        BY <1>1, <1>2, BoundedInduction
<1> QED
    BY <1>3 DEF IsChain

-----------------------------------------------------------------------------
(***************************************************************************)
(* FoldLeft.                                                               *)
(***************************************************************************)

\* The function over subsets of the positions by which FoldLeft is defined.
IsFold(iter, V, N, base, step) ==
    /\ iter \in [SUBSET (1..N) -> V]
    /\ \A s \in SUBSET (1..N) :
          iter[s] = IF s = {} THEN base ELSE step[<<iter[s \ {Max(s)}], Max(s)>>]

\* It exists, if each step stays in a set of values V.
LEMMA FoldExists ==
    ASSUME NEW V, NEW N \in Nat, NEW base \in V, NEW step \in [V \X (1..N) -> V]
    PROVE  \E iter : IsFold(iter, V, N, base, step)
<1> DEFINE IsIter(g, n) ==
              /\ g \in [SUBSET (1..n) -> V]
              /\ \A s \in SUBSET (1..n) :
                    g[s] = IF s = {} THEN base ELSE step[<<g[s \ {Max(s)}], Max(s)>>]
           S == {n \in 0..N : \E g : IsIter(g, n)}
<1>1. 0 \in S
    <2> DEFINE g == [s \in SUBSET (1..0) |-> base]
    <2>1. g \in [SUBSET (1..0) -> V]
        OBVIOUS
    <2>2. ASSUME NEW s \in SUBSET (1..0)
          PROVE  s = {}
        OBVIOUS
    <2>3. IsIter(g, 0)
        BY <2>1, <2>2
    <2> HIDE DEF IsIter
    <2> QED
        BY <2>3
<1>2. ASSUME NEW n \in 0..(N - 1), n \in S
      PROVE  n + 1 \in S
    <2>1. PICK g : IsIter(g, n)
        BY <1>2
    <2> DEFINE h == [s \in SUBSET (1..(n + 1)) |->
                        IF n + 1 \in s THEN step[<<g[s \ {n + 1}], n + 1>>] ELSE g[s]]
    <2>2. ASSUME NEW s \in SUBSET (1..(n + 1))
          PROVE  /\ n + 1 \in s => s \ {n + 1} \in SUBSET (1..n) /\ Max(s) = n + 1
                 /\ n + 1 \notin s => s \in SUBSET (1..n)
        BY MaxOfTop
    <2>3. n + 1 \in 1..N
        OBVIOUS
    <2>4. h \in [SUBSET (1..(n + 1)) -> V]
        BY <2>1, <2>2, <2>3
    <2>5. ASSUME NEW s \in SUBSET (1..(n + 1))
          PROVE  h[s] = IF s = {} THEN base ELSE step[<<h[s \ {Max(s)}], Max(s)>>]
        <3>1. CASE n + 1 \in s
            <4>1. /\ Max(s) = n + 1
                  /\ s \ {n + 1} \in SUBSET (1..(n + 1)) /\ n + 1 \notin s \ {n + 1}
                BY <2>2, <3>1
            <4>2. h[s \ {n + 1}] = g[s \ {n + 1}]
                BY <4>1
            <4>3. h[s] = step[<<g[s \ {n + 1}], n + 1>>]
                BY <3>1
            <4> QED
                BY <3>1, <4>1, <4>2, <4>3
        <3>2. CASE n + 1 \notin s
            <4>1. s \in SUBSET (1..n) /\ h[s] = g[s]
                BY <2>2, <3>2
            <4>2. /\ s \ {Max(s)} \in SUBSET (1..(n + 1))
                  /\ n + 1 \notin s \ {Max(s)}
                BY <3>2
            <4>3. h[s \ {Max(s)}] = g[s \ {Max(s)}]
                BY <4>2
            <4> QED
                BY <2>1, <4>1, <4>3
        <3> QED
            BY <3>1, <3>2
    <2> HIDE DEF h
    <2>6. IsIter(h, n + 1)
        BY <2>4, <2>5
    <2> HIDE DEF IsIter
    <2> QED
        BY <2>6
<1>3. N \in S
    <2> HIDE DEF S
    <2> QED
        BY <1>1, <1>2, BoundedInduction
<1> QED
    BY <1>3 DEF IsFold

\* The sets the fold goes down.
LEMMA FoldSets ==
    ASSUME NEW n \in Nat, n # 0
    PROVE  1..n # {} /\ Max(1..n) = n /\ (1..n) \ {n} = 1..(n - 1)
<1>1. n - 1 \in Nat /\ n = (n - 1) + 1 /\ n \in 1..n
    OBVIOUS
<1>2. Max(1..n) = n
    BY <1>1, MaxOfTop
<1> QED
    BY <1>1, <1>2

\* What a fold over 1..N computes, as long as its values stay in V.
FoldsWithin(iter, V, N, base, step) ==
    /\ iter[{}] = base
    /\ \A s \in SUBSET (1..N) :
          s # {} /\ iter[s \ {Max(s)}] \in V => iter[s] = step[<<iter[s \ {Max(s)}], Max(s)>>]

IsChainTo(c, V, N, base, step, last) == IsChain(c, V, N, base, step) /\ c[N] = last

LEMMA IterIsChain ==
    ASSUME NEW V, NEW N \in Nat, NEW base \in V, NEW step \in [V \X (1..N) -> V],
           NEW iter, FoldsWithin(iter, V, N, base, step)
    PROVE  \E c : IsChainTo(c, V, N, base, step, iter[1..N])
<1> DEFINE S == {n \in 0..N : iter[1..n] \in V}
<1>1. 1..0 = {}
    OBVIOUS
<1>2. ASSUME NEW n \in 1..N, iter[1..(n - 1)] \in V
      PROVE  iter[1..n] = step[<<iter[1..(n - 1)], n>>] /\ iter[1..n] \in V
    <2>1. n \in Nat /\ n # 0 /\ 1..n \in SUBSET (1..N)
        OBVIOUS
    <2>2. 1..n # {} /\ Max(1..n) = n /\ (1..n) \ {n} = 1..(n - 1)
        BY <2>1, FoldSets
    <2>3. iter[1..n] = step[<<iter[1..(n - 1)], n>>]
        BY <1>2, <2>1, <2>2 DEF FoldsWithin
    <2> QED
        BY <1>2, <2>3
<1>3. 0..N \subseteq S
    <2>1. 0 \in S
        BY <1>1 DEF FoldsWithin
    <2>2. ASSUME NEW n \in 0..(N - 1), n \in S
          PROVE  n + 1 \in S
        <3>1. n + 1 \in 1..N /\ n + 1 \in 0..N /\ (n + 1) - 1 = n
            OBVIOUS
        <3>2. ASSUME NEW m \in 1..N, m - 1 = n
              PROVE  iter[1..m] \in V
            BY <1>2, <2>2, <3>2
        <3> QED
            BY <3>1, <3>2
    <2> HIDE DEF S
    <2> QED
        BY <2>1, <2>2, BoundedInduction
<1> DEFINE c == [n \in 0..N |-> iter[1..n]]
<1>4. c \in [0..N -> V] /\ c[0] = base
    BY <1>1, <1>3 DEF FoldsWithin
<1>5. ASSUME NEW n \in 1..N
      PROVE  c[n] = step[<<c[n - 1], n>>]
    <2>1. n \in 0..N /\ n - 1 \in 0..N
        OBVIOUS
    <2>2. iter[1..(n - 1)] \in V
        BY <1>3, <2>1
    <2>3. c[n] = iter[1..n] /\ c[n - 1] = iter[1..(n - 1)]
        BY <2>1
    <2> QED
        BY <1>2, <2>2, <2>3
<1>6. c[N] = iter[1..N]
    OBVIOUS
<1> HIDE DEF c
<1> QED
    BY <1>4, <1>5, <1>6 DEF IsChain, IsChainTo

-----------------------------------------------------------------------------
(***************************************************************************)
(* Two sequences, one behind the other.                                    *)
(***************************************************************************)

LEMMA ConcatElements ==
    ASSUME NEW T, NEW s \in Seq(T), NEW t \in Seq(T), NEW u, u = s \o t
    PROVE  /\ Len(u) = Len(s) + Len(t)
           /\ \A i \in 1..Len(s) : u[i] = s[i]
           /\ \A i \in 1..Len(t) : u[Len(s) + i] = t[i]
OBVIOUS

LEMMA ConcatRange ==
    ASSUME NEW T, NEW s \in Seq(T), NEW t \in Seq(T)
    PROVE  Range(s \o t) = Range(s) \cup Range(t)
<1>1. ASSUME NEW i \in 1..Len(s)
      PROVE  (s \o t)[i] = s[i] /\ i \in 1..Len(s \o t)
    OBVIOUS
<1>2. ASSUME NEW i \in 1..Len(t)
      PROVE  (s \o t)[Len(s) + i] = t[i] /\ Len(s) + i \in 1..Len(s \o t)
    OBVIOUS
<1>3. ASSUME NEW i \in 1..Len(s \o t)
      PROVE  \/ i \in 1..Len(s) /\ (s \o t)[i] = s[i]
             \/ i - Len(s) \in 1..Len(t) /\ (s \o t)[i] = t[i - Len(s)]
    OBVIOUS
<1>4. DOMAIN s = 1..Len(s) /\ DOMAIN t = 1..Len(t) /\ DOMAIN (s \o t) = 1..Len(s \o t)
    OBVIOUS
<1>5. Range(s \o t) \subseteq Range(s) \cup Range(t)
    BY <1>3, <1>4 DEF Range
<1>6. Range(s) \subseteq Range(s \o t) /\ Range(t) \subseteq Range(s \o t)
    BY <1>1, <1>2, <1>4 DEF Range
<1> QED
    BY <1>5, <1>6

LEMMA ConcatInjective ==
    ASSUME NEW T, NEW s \in Seq(T), NEW t \in Seq(T),
           IsInjective(s), IsInjective(t), Range(s) \cap Range(t) = {}
    PROVE  IsInjective(s \o t)
<1>1. DOMAIN s = 1..Len(s) /\ DOMAIN t = 1..Len(t) /\ DOMAIN (s \o t) = 1..Len(s \o t)
    OBVIOUS
<1>2. ASSUME NEW i \in 1..Len(s \o t)
      PROVE  \/ i \in 1..Len(s) /\ (s \o t)[i] = s[i] /\ s[i] \in Range(s)
             \/ /\ i \notin 1..Len(s)
                /\ i - Len(s) \in 1..Len(t) /\ (s \o t)[i] = t[i - Len(s)]
                /\ t[i - Len(s)] \in Range(t)
    BY DEF Range
<1> QED
    <2> SUFFICES ASSUME NEW i \in 1..Len(s \o t), NEW j \in 1..Len(s \o t),
                        (s \o t)[i] = (s \o t)[j]
                 PROVE  i = j
        BY <1>1 DEF IsInjective
    <2>1. CASE i \in 1..Len(s) /\ j \in 1..Len(s)
        BY <1>1, <1>2, <2>1 DEF IsInjective
    <2>2. CASE i \notin 1..Len(s) /\ j \notin 1..Len(s)
        <3>1. i - Len(s) = j - Len(s)
            BY <1>1, <1>2, <2>2 DEF IsInjective
        <3> QED
            BY <3>1
    <2> QED
        BY <1>2, <2>1, <2>2

LEMMA AppendFacts ==
    ASSUME NEW T, NEW s \in Seq(T), NEW e \in T
    PROVE  /\ Append(s, e) \in Seq(T)
           /\ Range(Append(s, e)) = Range(s) \cup {e}
           /\ IsInjective(s) /\ e \notin Range(s) => IsInjective(Append(s, e))
<1>1. <<e>> \in Seq(T) /\ Append(s, e) = s \o <<e>> /\ Append(s, e) \in Seq(T)
    OBVIOUS
<1>2. Range(<<e>>) = {e} /\ IsInjective(<<e>>)
    BY DEF Range, IsInjective
<1>3. Range(s \o <<e>>) = Range(s) \cup Range(<<e>>)
    <2>1. \A t \in Seq(T) : Range(s \o t) = Range(s) \cup Range(t)
        BY ONLY ConcatRange
    <2> QED
        BY ONLY <1>1, <2>1
<1>4. IsInjective(s) /\ Range(s) \cap Range(<<e>>) = {} => IsInjective(s \o <<e>>)
    BY <1>1, <1>2, ConcatInjective
<1> QED
    BY <1>1, <1>2, <1>3, <1>4

LEMMA ContainsIsRange ==
    ASSUME NEW T, NEW s \in Seq(T), NEW e
    PROVE  Contains(s, e) <=> e \in Range(s)
BY DEF Contains, Range

-----------------------------------------------------------------------------
(***************************************************************************)
(* FlattenSeq.                                                             *)
(***************************************************************************)

\* The first n sequences, one behind the other, for each n.
IsFlattening(flat, seqs) ==
    /\ DOMAIN flat = 0..Len(seqs)
    /\ flat[0] = <<>>
    /\ \A n \in 1..Len(seqs) : flat[n] = flat[n - 1] \o seqs[n]

LEMMA FlatteningExists ==
    ASSUME NEW T, NEW seqs \in Seq(Seq(T))
    PROVE  \E flat \in [0..Len(seqs) -> Seq(T)] : IsFlattening(flat, seqs)
<1> DEFINE N == Len(seqs)
           V == Seq(T)
           step == [p \in V \X (1..N) |-> p[1] \o seqs[p[2]]]
<1>1. N \in Nat /\ <<>> \in V /\ \A n \in 1..N : seqs[n] \in V
    OBVIOUS
<1>2. \A s, t \in V : s \o t \in V
    OBVIOUS
<1>3. step \in [V \X (1..N) -> V]
    <2> HIDE DEF V, N
    <2> QED
        BY <1>1, <1>2
<1>4. PICK flat : IsChain(flat, V, N, <<>>, step)
    <2> HIDE DEF V, N, step
    <2> QED
        BY <1>1, <1>3, ChainExists
<1>5. ASSUME NEW n \in 1..N
      PROVE  flat[n] = flat[n - 1] \o seqs[n]
    <2> HIDE DEF V, N
    <2>1. flat[n - 1] \in V
        BY <1>1, <1>4 DEF IsChain
    <2> QED
        BY <1>4, <2>1 DEF IsChain
<1> QED
    BY <1>4, <1>5 DEF IsChain, IsFlattening

\* FlattenSeq is the last of them.
LEMMA FlattenSteps ==
    ASSUME NEW T, NEW seqs \in Seq(Seq(T))
    PROVE  \E flat \in [0..Len(seqs) -> Seq(T)] :
              IsFlattening(flat, seqs) /\ FlattenSeq(seqs) = flat[Len(seqs)]
<1> DEFINE N == Len(seqs)
<1>0. N \in Nat /\ \A n \in 1..N : seqs[n] \in Seq(T)
    OBVIOUS
<1>1. PICK flat \in [0..N -> Seq(T)] : IsFlattening(flat, seqs)
    BY FlatteningExists
<1>2. CASE N = 0
    <2>1. seqs = <<>> /\ flat[0] = <<>>
        BY <1>1, <1>2 DEF IsFlattening
    <2>2. FlattenSeq(seqs) = flat[N]
        BY <1>2, <2>1 DEF FlattenSeq
    <2> QED
        BY <1>1, <2>2
<1>3. CASE N # 0
    <2> DEFINE Equation(g) == g = [i \in 1..N |-> IF i = 1 THEN seqs[i] ELSE g[i - 1] \o seqs[i]]
               flatten == CHOOSE g : Equation(g)
               f == [i \in 1..N |-> flat[i]]
    <2>1. \A s \in Seq(T) : <<>> \o s = s
        OBVIOUS
    <2>2. \A i \in 1..N : flat[i] = IF i = 1 THEN seqs[i] ELSE flat[i - 1] \o seqs[i]
        <3> SUFFICES ASSUME NEW i \in 1..N
                     PROVE  flat[i] = IF i = 1 THEN seqs[i] ELSE flat[i - 1] \o seqs[i]
            OBVIOUS
        <3>1. flat[i] = flat[i - 1] \o seqs[i] /\ flat[0] = <<>>
            BY <1>1, Zenon DEF IsFlattening
        <3>2. i = 1 => i - 1 = 0
            OBVIOUS
        <3>3. <<>> \o seqs[i] = seqs[i]
            BY <1>0, <2>1, Zenon
        <3> QED
            BY <3>1, <3>2, <3>3, Zenon
    <2>3. \A i \in 1..N : i # 1 => i - 1 \in 1..N
        BY <1>0
    <2>4. \A i \in 1..N : f[i] = IF i = 1 THEN seqs[i] ELSE f[i - 1] \o seqs[i]
        <3> HIDE DEF N
        <3> QED
            BY <2>2, <2>3
    <2>5. Equation(f)
        <3>1. f = [i \in 1..N |-> f[i]]
            OBVIOUS
        <3> HIDE DEF f, N
        <3> QED
            BY <2>4, <3>1
    <2>6. FlattenSeq(seqs) = flatten[N]
        BY <1>3 DEF FlattenSeq
    <2>7. Equation(flatten)
        <3> HIDE DEF f
        <3> QED
            BY <2>5
    <2> HIDE DEF flatten
    <2>8. \A i \in 1..N : flatten[i] = IF i = 1 THEN seqs[i] ELSE flatten[i - 1] \o seqs[i]
        <3> HIDE DEF N
        <3> QED
            BY <2>7
    <2> DEFINE S == {n \in 0..N : n = 0 \/ flatten[n] = flat[n]}
    <2>9. ASSUME NEW n \in 0..(N - 1), n \in S
          PROVE  n + 1 \in S
        <3>1. n + 1 \in 1..N /\ (n + 1) - 1 = n /\ n + 1 \in 0..N
            BY <1>0
        <3>2. flatten[n + 1] = IF n + 1 = 1 THEN seqs[n + 1] ELSE flatten[n] \o seqs[n + 1]
            BY <2>8, <3>1, Zenon
        <3>3. flat[n + 1] = IF n + 1 = 1 THEN seqs[n + 1] ELSE flat[n] \o seqs[n + 1]
            BY <2>2, <3>1, Zenon
        <3>4. n = 0 => n + 1 = 1
            OBVIOUS
        <3>5. flatten[n + 1] = flat[n + 1]
            BY <2>9, <3>2, <3>3, <3>4, Zenon
        <3> QED
            BY <3>1, <3>5
    <2>10. N \in S
        <3>1. 0 \in S
            BY <1>0
        <3> HIDE DEF S, N
        <3>2. 0..N \subseteq S
            BY <1>0, <2>9, <3>1, BoundedInduction
        <3> QED
            BY <1>0, <3>2
    <2> QED
        BY <1>1, <1>3, <2>6, <2>10
<1> QED
    BY <1>2, <1>3

LEMMA FlattenOfNone == FlattenSeq(<<>>) = <<>>
BY DEF FlattenSeq

\* What is in it, and when nothing is in it twice.
LEMMA FlattenFacts ==
    ASSUME NEW T, NEW seqs \in Seq(Seq(T))
    PROVE  /\ FlattenSeq(seqs) \in Seq(T)
           /\ Range(FlattenSeq(seqs)) = UNION {Range(seqs[n]) : n \in 1..Len(seqs)}
           /\ (/\ \A n \in 1..Len(seqs) : IsInjective(seqs[n])
               /\ \A m, n \in 1..Len(seqs) : m # n => Range(seqs[m]) \cap Range(seqs[n]) = {})
              => IsInjective(FlattenSeq(seqs))
<1> DEFINE N == Len(seqs)
           Apart == /\ \A n \in 1..N : IsInjective(seqs[n])
                    /\ \A m, n \in 1..N : m # n => Range(seqs[m]) \cap Range(seqs[n]) = {}
<1>0. N \in Nat /\ \A n \in 1..N : seqs[n] \in Seq(T)
    OBVIOUS
<1>1. PICK flat \in [0..N -> Seq(T)] : IsFlattening(flat, seqs) /\ FlattenSeq(seqs) = flat[N]
    BY FlattenSteps
<1> DEFINE S == {n \in 0..N :
                   /\ Range(flat[n]) = UNION {Range(seqs[i]) : i \in 1..n}
                   /\ Apart => IsInjective(flat[n])}
<1>2. 0 \in S
    BY <1>1 DEF IsFlattening, Range, IsInjective
<1>3. ASSUME NEW n \in 0..(N - 1), n \in S
      PROVE  n + 1 \in S
    <2>1. n + 1 \in 1..N /\ (n + 1) - 1 = n /\ n \in 0..N
        OBVIOUS
    <2>2. /\ flat[n + 1] = flat[n] \o seqs[n + 1]
          /\ flat[n] \in Seq(T) /\ seqs[n + 1] \in Seq(T)
        <3>1. seqs[n + 1] \in Seq(T) /\ flat[n] \in Seq(T)
            BY <1>0, <1>1, <2>1
        <3>2. \A i \in 1..N : flat[i] = flat[i - 1] \o seqs[i]
            BY <1>1 DEF IsFlattening
        <3>3. flat[n + 1] = flat[(n + 1) - 1] \o seqs[n + 1]
            BY <2>1, <3>2, Zenon
        <3> QED
            BY <2>1, <3>1, <3>3, Zenon
    <2>3. Range(flat[n + 1]) = Range(flat[n]) \cup Range(seqs[n + 1])
        BY <2>2, ConcatRange
    <2>4. Range(flat[n]) = UNION {Range(seqs[i]) : i \in 1..n}
        BY <1>3
    <2>5. UNION {Range(seqs[i]) : i \in 1..(n + 1)}
              = (UNION {Range(seqs[i]) : i \in 1..n}) \cup Range(seqs[n + 1])
        <3>1. 1..(n + 1) = (1..n) \cup {n + 1}
            OBVIOUS
        <3> QED
            BY <3>1
    <2>6. ASSUME Apart
          PROVE  IsInjective(flat[n + 1])
        <3>1. ASSUME NEW x \in Range(flat[n]), x \in Range(seqs[n + 1])
              PROVE  FALSE
            <4>1. PICK i \in 1..n : x \in Range(seqs[i])
                BY <2>4, <3>1
            <4>2. i \in 1..N /\ i # n + 1
                OBVIOUS
            <4> QED
                BY <2>1, <2>6, <3>1, <4>1, <4>2
        <3>2. IsInjective(flat[n]) /\ IsInjective(seqs[n + 1])
            BY <1>3, <2>1, <2>6
        <3> QED
            BY <2>2, <3>1, <3>2, ConcatInjective
    <2> HIDE DEF Apart
    <2>7. Range(flat[n + 1]) = UNION {Range(seqs[i]) : i \in 1..(n + 1)}
        BY <2>3, <2>4, <2>5, Zenon
    <2>8. n + 1 \in 0..N
        OBVIOUS
    <2> QED
        BY <2>6, <2>7, <2>8, Zenon
<1>4. N \in S
    <2> HIDE DEF S, N
    <2>1. 0..N \subseteq S
        BY <1>0, <1>2, <1>3, BoundedInduction
    <2> QED
        BY <1>0, <2>1
<1> QED
    BY <1>1, <1>4

\* Nothing is lost where each of them has one element.
LEMMA FlattenOfSingles ==
    ASSUME NEW T, NEW s \in Seq(T)
    PROVE  FlattenSeq([i \in DOMAIN s |-> <<s[i]>>]) = s
<1> DEFINE N == Len(s)
           seqs == [i \in DOMAIN s |-> <<s[i]>>]
<1>1. N \in Nat /\ DOMAIN s = 1..N /\ \A i \in 1..N : s[i] \in T /\ <<s[i]>> \in Seq(T)
    OBVIOUS
<1>2. seqs \in Seq(Seq(T)) /\ Len(seqs) = N
    <2>1. seqs \in [1..N -> Seq(T)]
        BY <1>1
    <2> QED
        BY <1>1, <2>1
<1>3. PICK flat \in [0..Len(seqs) -> Seq(T)] :
          IsFlattening(flat, seqs) /\ FlattenSeq(seqs) = flat[Len(seqs)]
    BY <1>2, FlattenSteps
<1>4. flat[0] = <<>> /\ \A n \in 1..N : flat[n] = flat[n - 1] \o <<s[n]>>
    BY <1>1, <1>2, <1>3 DEF IsFlattening
<1> DEFINE S == {n \in 0..N : flat[n] = SubSeq(s, 1, n)}
<1>5. 0 \in S
    BY <1>1, <1>4
<1>6. ASSUME NEW n \in 0..(N - 1), n \in S
      PROVE  n + 1 \in S
    <2>1. n + 1 \in 1..N /\ (n + 1) - 1 = n /\ n + 1 \in 0..N
        BY <1>1
    <2>2. flat[n + 1] = SubSeq(s, 1, n) \o <<s[n + 1]>>
        BY <1>4, <1>6, <2>1
    <2>3. SubSeq(s, 1, n) \o <<s[n + 1]>> = SubSeq(s, 1, n + 1)
        OBVIOUS
    <2> QED
        BY <2>1, <2>2, <2>3
<1>7. N \in S
    <2> HIDE DEF S, N
    <2>1. 0..N \subseteq S
        BY <1>1, <1>5, <1>6, BoundedInduction
    <2> QED
        BY <1>1, <2>1
<1>8. SubSeq(s, 1, N) = s
    OBVIOUS
<1> QED
    BY <1>2, <1>3, <1>7, <1>8

\* Where each of the sequences starts in it: start[n] elements are in front of the one
\* behind the nth.
AreStarts(start, seqs, flat) ==
    /\ start \in [0..Len(seqs) -> Nat]
    /\ start[0] = 0 /\ start[Len(seqs)] = Len(flat)
    /\ \A n \in 1..Len(seqs) :
          /\ start[n] = start[n - 1] + Len(seqs[n]) /\ start[n] <= Len(flat)
          /\ \A i \in 1..Len(seqs[n]) : flat[start[n - 1] + i] = seqs[n][i]

LEMMA FlattenStarts ==
    ASSUME NEW T, NEW seqs \in Seq(Seq(T))
    PROVE  \E start : AreStarts(start, seqs, FlattenSeq(seqs))
<1> DEFINE N == Len(seqs)
<1>0. N \in Nat /\ \A n \in 1..N : seqs[n] \in Seq(T)
    OBVIOUS
<1>1. PICK flat \in [0..N -> Seq(T)] : IsFlattening(flat, seqs) /\ FlattenSeq(seqs) = flat[N]
    BY FlattenSteps
<1>2. flat[0] = <<>> /\ \A n \in 1..N : flat[n] = flat[n - 1] \o seqs[n]
    BY <1>1 DEF IsFlattening
<1> HIDE DEF N
<1>3. ASSUME NEW n \in 1..N
      PROVE  /\ Len(flat[n]) = Len(flat[n - 1]) + Len(seqs[n])
             /\ \A i \in 1..Len(flat[n - 1]) : flat[n][i] = flat[n - 1][i]
             /\ \A i \in 1..Len(seqs[n]) : flat[n][Len(flat[n - 1]) + i] = seqs[n][i]
    <2>1. n - 1 \in 0..N /\ n \in 0..N
        BY <1>0
    <2>2. flat[n - 1] \in Seq(T) /\ seqs[n] \in Seq(T) /\ flat[n] = flat[n - 1] \o seqs[n]
        BY <1>0, <1>1, <1>2, <2>1
    <2> DEFINE after == flat[n]
               before == flat[n - 1]
               piece == seqs[n]
    <2>3. after = before \o piece /\ before \in Seq(T) /\ piece \in Seq(T)
        BY <2>2
    <2> HIDE DEF after, before, piece
    <2>4. /\ Len(after) = Len(before) + Len(piece)
          /\ \A i \in 1..Len(before) : after[i] = before[i]
          /\ \A i \in 1..Len(piece) : after[Len(before) + i] = piece[i]
        BY <2>3, ConcatElements
    <2> QED
        BY <2>4 DEF after, before, piece
<1> DEFINE IsBegun(m, n) == /\ Len(flat[m]) <= Len(flat[n])
                            /\ \A i \in 1..Len(flat[m]) : flat[n][i] = flat[m][i]
           S == {n \in 0..N : \A m \in 0..n : IsBegun(m, n)}
<1>4. \A n \in 0..N : Len(flat[n]) \in Nat
    BY <1>1
<1>5. 0 \in S
    BY <1>0, <1>2, <1>4
<1>6. ASSUME NEW n \in 0..(N - 1), n \in S
      PROVE  n + 1 \in S
    <2>1. n + 1 \in 1..N /\ (n + 1) - 1 = n /\ n + 1 \in 0..N /\ n \in 0..N
        BY <1>0
    <2>2. IsBegun(n, n + 1)
        <3>1. /\ Len(flat[n + 1]) = Len(flat[n]) + Len(seqs[n + 1])
              /\ \A i \in 1..Len(flat[n]) : flat[n + 1][i] = flat[n][i]
            <4>1. /\ Len(flat[n + 1]) = Len(flat[(n + 1) - 1]) + Len(seqs[n + 1])
                  /\ \A i \in 1..Len(flat[(n + 1) - 1]) : flat[n + 1][i] = flat[(n + 1) - 1][i]
                BY <1>3, <2>1, Zenon
            <4> QED
                BY <2>1, <4>1
        <3> QED
            BY <1>0, <1>4, <2>1, <3>1
    <2>3. ASSUME NEW m \in 0..(n + 1)
          PROVE  IsBegun(m, n + 1)
        <3>1. CASE m = n + 1
            BY <1>4, <2>1, <3>1
        <3>2. CASE m \in 0..n
            <4>1. IsBegun(m, n)
                BY <1>6, <3>2
            <4>2. Len(flat[m]) \in Nat /\ Len(flat[n]) \in Nat /\ Len(flat[n + 1]) \in Nat
                BY <1>4, <2>1, <3>2
            <4> QED
                BY <2>2, <4>1, <4>2
        <3> QED
            BY <3>1, <3>2
    <2> HIDE DEF IsBegun
    <2> QED
        BY <2>1, <2>3
<1>7. \A m \in 0..N : IsBegun(m, N)
    <2> HIDE DEF S
    <2>1. 0..N \subseteq S
        BY <1>0, <1>5, <1>6, BoundedInduction
    <2> QED
        BY <1>0, <2>1 DEF S
<1> DEFINE start == [n \in 0..N |-> Len(flat[n])]
<1>8. start \in [0..N -> Nat] /\ start[0] = 0 /\ start[N] = Len(FlattenSeq(seqs))
    BY <1>0, <1>1, <1>2, <1>4
<1>9. ASSUME NEW n \in 1..N
      PROVE  /\ start[n] = start[n - 1] + Len(seqs[n]) /\ start[n] <= Len(FlattenSeq(seqs))
             /\ \A i \in 1..Len(seqs[n]) : FlattenSeq(seqs)[start[n - 1] + i] = seqs[n][i]
    <2>1. n \in 0..N /\ n - 1 \in 0..N
        BY <1>0
    <2>2. start[n] = Len(flat[n]) /\ start[n - 1] = Len(flat[n - 1])
        BY <2>1
    <2>3. IsBegun(n, N) /\ Len(flat[n - 1]) \in Nat /\ Len(seqs[n]) \in Nat
        BY <1>0, <1>4, <1>7, <2>1
    <2> HIDE DEF start
    <2>4. \A i \in 1..Len(seqs[n]) : start[n - 1] + i \in 1..Len(flat[n])
        <3>1. Len(flat[n]) = Len(flat[n - 1]) + Len(seqs[n])
            BY <1>3
        <3> DEFINE a == Len(flat[n - 1])
                   b == Len(seqs[n])
        <3>2. a \in Nat /\ b \in Nat /\ Len(flat[n]) = a + b /\ start[n - 1] = a
            BY <2>2, <2>3, <3>1
        <3> HIDE DEF a, b
        <3>3. \A i \in 1..b : start[n - 1] + i \in 1..Len(flat[n])
            BY <3>2
        <3> QED
            BY <3>3 DEF b
    <2>5. FlattenSeq(seqs) = flat[N]
        BY <1>1
    <2>6. start[n] = start[n - 1] + Len(seqs[n])
        BY ONLY <1>3, <2>2
    <2>7. start[n] <= Len(flat[N])
        BY ONLY <2>2, <2>3
    <2>8. ASSUME NEW i \in 1..Len(seqs[n])
          PROVE  flat[N][start[n - 1] + i] = seqs[n][i]
        <3>1. flat[n][start[n - 1] + i] = seqs[n][i]
            BY ONLY <1>3, <2>2
        <3>2. flat[N][start[n - 1] + i] = flat[n][start[n - 1] + i]
            BY ONLY <2>3, <2>4
        <3> QED
            BY ONLY <3>1, <3>2
    <2> QED
        BY ONLY <2>5, <2>6, <2>7, <2>8
<1> HIDE DEF start
<1>10. AreStarts(start, seqs, FlattenSeq(seqs))
    BY <1>8, <1>9 DEF AreStarts, N
<1> QED
    BY <1>10

\* The places in the first n sequences: which of them, and where in it.
Places(seqs, n) == {place \in (1..n) \X Nat : place[2] \in 1..Len(seqs[place[1]])}

\* Each element of flat is that of one place, and each place has one.
ArePlaces(at, seqs, n, flat) ==
    /\ at \in [1..Len(flat) -> Places(seqs, n)]
    /\ \A p, q \in 1..Len(flat) : at[p] = at[q] => p = q
    /\ \A place \in Places(seqs, n) : \E p \in 1..Len(flat) : at[p] = place
    /\ \A p \in 1..Len(flat) : flat[p] = seqs[at[p][1]][at[p][2]]

LEMMA PlacesStep ==
    ASSUME NEW T, NEW seqs \in Seq(Seq(T)), NEW n \in Nat, n + 1 \in 1..Len(seqs),
           NEW before \in Seq(T), NEW at, ArePlaces(at, seqs, n, before),
           NEW after, after = before \o seqs[n + 1]
    PROVE  \E new : ArePlaces(new, seqs, n + 1, after)
<1> DEFINE piece == seqs[n + 1]
<1>1. piece \in Seq(T) /\ Len(piece) \in Nat /\ Len(before) \in Nat
    OBVIOUS
<1>2. /\ Len(after) = Len(before) + Len(piece)
      /\ \A i \in 1..Len(before) : after[i] = before[i]
      /\ \A i \in 1..Len(piece) : after[Len(before) + i] = piece[i]
    BY <1>1, ConcatElements
<1>3. ASSUME NEW place
      PROVE  /\ place \in Places(seqs, n) =>
                    place \in Places(seqs, n + 1) /\ place[1] # n + 1
             /\ place \in Places(seqs, n + 1) =>
                    \/ place \in Places(seqs, n)
                    \/ place = <<n + 1, place[2]>> /\ place[2] \in 1..Len(piece)
    <2> DEFINE IsIn == place[2] \in 1..Len(seqs[place[1]])
    <2>1. \A k \in Nat : place \in Places(seqs, k) <=> place \in (1..k) \X Nat /\ IsIn
        BY DEF Places
    <2>2. place[1] = n + 1 /\ IsIn => place[2] \in 1..Len(piece)
        OBVIOUS
    <2> HIDE DEF IsIn, piece
    <2> QED
        BY <2>1, <2>2
<1>4. \A i \in 1..Len(piece) : <<n + 1, i>> \in Places(seqs, n + 1)
    BY DEF Places
<1> HIDE DEF piece
<1> DEFINE k == Len(before)
           new == [p \in 1..Len(after) |-> IF p <= k THEN at[p] ELSE <<n + 1, p - k>>]
<1>5. ASSUME NEW p \in 1..Len(after)
      PROVE  \/ p <= k /\ p \in 1..k /\ new[p] = at[p] /\ at[p] \in Places(seqs, n)
             \/ /\ ~(p <= k) /\ p - k \in 1..Len(piece)
                /\ new[p] = <<n + 1, p - k>> /\ p = k + (p - k)
    <2>1. k \in Nat /\ Len(piece) \in Nat /\ Len(after) = k + Len(piece)
        BY <1>1, <1>2
    <2>2. p \in Int /\ 1 <= p /\ p <= Len(after)
        BY <2>1
    <2>3. new[p] = IF p <= k THEN at[p] ELSE <<n + 1, p - k>>
        OBVIOUS
    <2>4. \A i \in 1..k : at[i] \in Places(seqs, n)
        BY DEF ArePlaces
    <2> HIDE DEF new, k
    <2>5. CASE p <= k
        <3>1. p \in 1..k
            BY <2>1, <2>2, <2>5
        <3> QED
            BY <2>3, <2>4, <2>5, <3>1
    <2>6. CASE ~(p <= k)
        <3>1. p - k \in 1..Len(piece) /\ p = k + (p - k)
            BY <2>1, <2>2, <2>6
        <3> QED
            BY <2>3, <2>6, <3>1
    <2> QED
        BY <2>5, <2>6
<1>6. new \in [1..Len(after) -> Places(seqs, n + 1)]
    <2>1. \A p \in 1..Len(after) : new[p] \in Places(seqs, n + 1)
        <3> HIDE DEF new, k
        <3> QED
            BY <1>3, <1>4, <1>5
    <2> QED
        BY <2>1
<1> HIDE DEF new
<1>7. ASSUME NEW p \in 1..Len(after), NEW q \in 1..Len(after), new[p] = new[q]
      PROVE  p = q
    <2>1. CASE p <= k /\ q <= k
        <3>1. at[p] = at[q] /\ p \in 1..k /\ q \in 1..k
            BY <1>5, <1>7, <2>1
        <3> QED
            BY <3>1 DEF ArePlaces
    <2>2. CASE ~(p <= k) /\ ~(q <= k)
        <3>1. <<n + 1, p - k>> = <<n + 1, q - k>>
            BY <1>5, <1>7, <2>2
        <3>2. p - k = q - k
            BY <3>1
        <3> QED
            BY <1>1, <3>2
    <2>3. CASE p <= k /\ ~(q <= k)
        <3>1. new[p][1] # n + 1 /\ new[q][1] = n + 1
            <4>1. new[p] = at[p] /\ at[p] \in Places(seqs, n) /\ new[q] = <<n + 1, q - k>>
                BY <1>5, <2>3
            <4> QED
                BY <1>3, <4>1
        <3> QED
            BY <1>7, <3>1
    <2>4. CASE ~(p <= k) /\ q <= k
        <3>1. new[q][1] # n + 1 /\ new[p][1] = n + 1
            <4>1. new[q] = at[q] /\ at[q] \in Places(seqs, n) /\ new[p] = <<n + 1, p - k>>
                BY <1>5, <2>4
            <4> QED
                BY <1>3, <4>1
        <3> QED
            BY <1>7, <3>1
    <2> QED
        BY <2>1, <2>2, <2>3, <2>4
<1>8. ASSUME NEW place \in Places(seqs, n + 1)
      PROVE  \E p \in 1..Len(after) : new[p] = place
    <2>1. CASE place \in Places(seqs, n)
        <3>1. PICK p \in 1..k : at[p] = place
            BY <2>1 DEF ArePlaces
        <3>2. p \in 1..Len(after) /\ p <= k
            BY <1>1, <1>2
        <3> QED
            BY <3>1, <3>2 DEF new
    <2>2. CASE place \notin Places(seqs, n)
        <3>1. place = <<n + 1, place[2]>> /\ place[2] \in 1..Len(piece)
            BY <1>3, <2>2
        <3> PICK j \in 1..Len(piece) : j = place[2] /\ place = <<n + 1, j>>
            BY <3>1
        <3> PICK p : p = k + j
            OBVIOUS
        <3>2. p \in 1..Len(after) /\ ~(p <= k) /\ p - k = j
            BY ONLY <1>1, <1>2, j \in 1..Len(piece), p = k + j
        <3>3. new[p] = <<n + 1, p - k>>
            BY ONLY <3>2 DEF new
        <3> HIDE DEF k
        <3> QED
            BY ONLY <3>2, <3>3, place = <<n + 1, j>>
    <2> QED
        BY <2>1, <2>2
<1>9. ASSUME NEW p \in 1..Len(after)
      PROVE  after[p] = seqs[new[p][1]][new[p][2]]
    <2>1. CASE p <= k
        <3>1. after[p] = before[p] /\ new[p] = at[p] /\ p \in 1..k
            BY <1>2, <1>5, <2>1
        <3> QED
            BY <3>1 DEF ArePlaces
    <2>2. CASE ~(p <= k)
        <3>1. p - k \in 1..Len(piece) /\ new[p][1] = n + 1 /\ new[p][2] = p - k /\ p = k + (p - k)
            BY <1>5, <2>2
        <3>2. after[k + (p - k)] = piece[p - k]
            BY <1>2, <3>1
        <3> QED
            BY <3>1, <3>2 DEF piece
    <2> QED
        BY <2>1, <2>2
<1>10. ArePlaces(new, seqs, n + 1, after)
    BY <1>6, <1>7, <1>8, <1>9 DEF ArePlaces
<1> QED
    BY <1>10

LEMMA FlattenPlaces ==
    ASSUME NEW T, NEW seqs \in Seq(Seq(T))
    PROVE  \E at : ArePlaces(at, seqs, Len(seqs), FlattenSeq(seqs))
<1> DEFINE N == Len(seqs)
<1>1. N \in Nat
    OBVIOUS
<1>2. PICK flat \in [0..N -> Seq(T)] : IsFlattening(flat, seqs) /\ FlattenSeq(seqs) = flat[N]
    BY FlattenSteps
<1> HIDE DEF N
<1> DEFINE S == {n \in 0..N : \E at : ArePlaces(at, seqs, n, flat[n])}
<1>3. 0 \in S
    <2>1. Len(flat[0]) = 0
        BY <1>2 DEF IsFlattening
    <2>2. Places(seqs, 0) = {}
        BY DEF Places
    <2>3. ArePlaces([p \in 1..0 |-> <<>>], seqs, 0, flat[0])
        BY <2>1, <2>2 DEF ArePlaces
    <2> QED
        BY <1>1, <2>3
<1>4. ASSUME NEW n \in 0..(N - 1), n \in S
      PROVE  n + 1 \in S
    <2>1. n \in Nat /\ n + 1 \in 1..N /\ (n + 1) - 1 = n /\ n \in 0..N /\ n + 1 \in 0..N
        BY <1>1
    <2>2. PICK at : ArePlaces(at, seqs, n, flat[n])
        BY <1>4
    <2>3. flat[n + 1] = flat[n] \o seqs[n + 1]
        <3>1. \A i \in 1..N : flat[i] = flat[i - 1] \o seqs[i]
            BY <1>2 DEF IsFlattening, N
        <3>2. flat[n + 1] = flat[(n + 1) - 1] \o seqs[n + 1]
            BY <2>1, <3>1, Zenon
        <3> QED
            BY <2>1, <3>2, Zenon
    <2>4. flat[n] \in Seq(T)
        BY <1>2, <2>1
    <2>5. \E new : ArePlaces(new, seqs, n + 1, flat[n + 1])
        BY <2>1, <2>2, <2>3, <2>4, PlacesStep DEF N
    <2> QED
        BY <2>1, <2>5
<1>5. N \in S
    <2> HIDE DEF S
    <2>1. 0..N \subseteq S
        BY <1>1, <1>3, <1>4, BoundedInduction
    <2> QED
        BY <1>1, <2>1
<1> QED
    BY <1>2, <1>5 DEF N

-----------------------------------------------------------------------------
(***************************************************************************)
(* Splitting at a separator.                                               *)
(***************************************************************************)

SplitAt(sep, s) ==
    FoldLeft(LAMBDA pieces, b :
                IF b = sep THEN Append(pieces, <<>>)
                ELSE [pieces EXCEPT ![Len(pieces)] = Append(@, b)],
             << <<>> >>, s)

LEMMA SequencesEqual ==
    ASSUME NEW T, NEW s \in Seq(T), NEW t \in Seq(T), Len(s) = Len(t),
           \A i \in 1..Len(s) : s[i] = t[i]
    PROVE  s = t
OBVIOUS

LEMMA ConcatAppend ==
    ASSUME NEW T, NEW s \in Seq(T), NEW p \in Seq(T), NEW b \in T
    PROVE  s \o p \in Seq(T) /\ s \o Append(p, b) = Append(s \o p, b)
<1> PICK k \in Nat, l \in Nat : k = Len(s) /\ l = Len(p)
    OBVIOUS
<1> PICK u, q : u = s \o p /\ q = Append(p, b)
    OBVIOUS
<1>1. u \in Seq(T) /\ Len(u) = k + l /\ (\A i \in 1..k : u[i] = s[i])
      /\ \A i \in 1..l : u[k + i] = p[i]
    BY ConcatElements
<1>2. q \in Seq(T) /\ Len(q) = l + 1 /\ q[l + 1] = b /\ \A i \in 1..l : q[i] = p[i]
    OBVIOUS
<1> PICK x, y : x = s \o q /\ y = Append(u, b)
    OBVIOUS
<1>3. x \in Seq(T) /\ Len(x) = k + (l + 1) /\ (\A i \in 1..k : x[i] = s[i])
      /\ \A i \in 1..(l + 1) : x[k + i] = q[i]
    <2>1. s \in Seq(T) /\ q \in Seq(T)
        BY ONLY <1>2, s \in Seq(T)
    <2>2. /\ Len(x) = Len(s) + Len(q)
          /\ \A i \in 1..Len(s) : x[i] = s[i]
          /\ \A i \in 1..Len(q) : x[Len(s) + i] = q[i]
        BY ONLY <2>1, x = s \o q
    <2>3. x \in Seq(T)
        BY ONLY <2>1, x = s \o q
    <2> QED
        BY ONLY <1>2, <2>2, <2>3, k = Len(s)
<1>4. y \in Seq(T) /\ Len(y) = (k + l) + 1 /\ y[(k + l) + 1] = b
      /\ \A i \in 1..(k + l) : y[i] = u[i]
    BY <1>1
<1>5. ASSUME NEW i \in 1..Len(x)
      PROVE  x[i] = y[i]
    <2>1. CASE i \in 1..k
        BY <1>1, <1>3, <1>4, <2>1
    <2>2. CASE i \notin 1..k
        <3>1. PICK j \in 1..(l + 1) : i = k + j
            <4>1. i - k \in 1..(l + 1) /\ i = k + (i - k)
                BY <1>3, <2>2
            <4> QED
                BY <4>1
        <3>2. x[i] = q[j]
            BY <1>3, <3>1
        <3>3. CASE j = l + 1
            <4>1. i = (k + l) + 1
                BY <3>1, <3>3
            <4> QED
                BY <1>2, <1>4, <3>2, <3>3, <4>1
        <3>4. CASE j # l + 1
            <4>1. j \in 1..l /\ i \in 1..(k + l)
                BY <3>1, <3>4
            <4> QED
                BY <1>1, <1>2, <1>4, <3>1, <3>2, <4>1
        <3> QED
            BY <3>3, <3>4
    <2> QED
        BY <2>1, <2>2
<1>6. Len(x) = Len(y)
    BY <1>3, <1>4
<1> QED
    BY <1>1, <1>3, <1>4, <1>5, <1>6, SequencesEqual

\* One byte more.
SplitNext(sep, pieces, b) ==
    IF b = sep THEN Append(pieces, <<>>)
    ELSE [pieces EXCEPT ![Len(pieces)] = Append(@, b)]

LEMMA SplitNextType ==
    ASSUME NEW T, NEW sep, NEW pieces \in Seq(Seq(T)) \ {<<>>}, NEW b \in T
    PROVE  SplitNext(sep, pieces, b) \in Seq(Seq(T)) \ {<<>>}
<1>1. Len(pieces) \in Nat /\ Len(pieces) # 0
    OBVIOUS
<1>2. CASE b = sep
    <2>1. <<>> \in Seq(T)
        OBVIOUS
    <2>2. Append(pieces, <<>>) \in Seq(Seq(T)) /\ Len(Append(pieces, <<>>)) = Len(pieces) + 1
        BY <2>1
    <2> QED
        BY <1>1, <1>2, <2>2 DEF SplitNext
<1>3. CASE b # sep
    <2> PICK piece \in Seq(T) : piece = pieces[Len(pieces)]
        BY <1>1
    <2>1. Append(piece, b) \in Seq(T)
        OBVIOUS
    <2> PICK last \in Seq(T) : last = Append(piece, b)
        BY <2>1
    <2> PICK more : more = [pieces EXCEPT ![Len(pieces)] = last]
        OBVIOUS
    <2>2. more \in Seq(Seq(T)) /\ Len(more) = Len(pieces)
        OBVIOUS
    <2>3. SplitNext(sep, pieces, b) = more
        BY <1>3 DEF SplitNext
    <2> QED
        BY <1>1, <2>2, <2>3
<1> QED
    BY <1>2, <1>3

\* The pieces after n elements.
IsSplitting(T, sep, chain, bytes) ==
    /\ chain \in [0..Len(bytes) -> Seq(Seq(T)) \ {<<>>}]
    /\ chain[0] = << <<>> >>
    /\ \A n \in 1..Len(bytes) : chain[n] = SplitNext(sep, chain[n - 1], bytes[n])

LEMMA SplitSteps ==
    ASSUME NEW T, NEW sep, NEW bytes \in Seq(T)
    PROVE  \E chain : IsSplitting(T, sep, chain, bytes) /\ SplitAt(sep, bytes) = chain[Len(bytes)]
<1> DEFINE N1 == Len(bytes)
           V == Seq(Seq(T)) \ {<<>>}
           step == [p \in V \X (1..N1) |-> SplitNext(sep, p[1], bytes[p[2]])]
           Equation(g) == g = [s \in SUBSET (1..N1) |->
                                  IF s = {} THEN << <<>> >>
                                  ELSE SplitNext(sep, g[s \ {Max(s)}], bytes[Max(s)])]
           iter == CHOOSE g : Equation(g)
<1>1. N1 \in Nat /\ << <<>> >> \in V /\ DOMAIN bytes = 1..N1 /\ \A i \in 1..N1 : bytes[i] \in T
    OBVIOUS
<1>2. \A v \in V : \A i \in 1..N1 : SplitNext(sep, v, bytes[i]) \in V
    BY <1>1, SplitNextType
<1>3. SplitAt(sep, bytes) = iter[1..N1]
    BY <1>1 DEF SplitAt, FoldLeft, MapThenFoldSet, SplitNext
<1>4. ASSUME NEW s \in SUBSET (1..N1), s # {}
      PROVE  Max(s) \in 1..N1 /\ s \ {Max(s)} \in SUBSET (1..N1)
    BY <1>1, <1>4, MaxIsGreatest
<1> HIDE DEF N1, V
<1>5. step \in [V \X (1..N1) -> V]
    BY <1>2
<1>6. PICK g : IsFold(g, V, N1, << <<>> >>, step)
    <2> HIDE DEF step
    <2> QED
        BY <1>1, <1>5, FoldExists
<1>7. Equation(g)
    <2>1. ASSUME NEW s \in SUBSET (1..N1)
          PROVE  g[s] = IF s = {} THEN << <<>> >> ELSE SplitNext(sep, g[s \ {Max(s)}], bytes[Max(s)])
        BY <1>4, <1>6 DEF IsFold
    <2>2. g = [s \in SUBSET (1..N1) |-> g[s]]
        BY <1>6 DEF IsFold
    <2> QED
        BY <2>1, <2>2
<1>8. Equation(iter)
    BY <1>7
<1> HIDE DEF iter
<1>9. iter[{}] = << <<>> >>
    BY <1>8
<1>10. ASSUME NEW s \in SUBSET (1..N1), s # {}, iter[s \ {Max(s)}] \in V
       PROVE  iter[s] = step[<<iter[s \ {Max(s)}], Max(s)>>]
    BY <1>4, <1>8, <1>10
<1>11. PICK chain : IsChainTo(chain, V, N1, << <<>> >>, step, iter[1..N1])
    <2> HIDE DEF step
    <2>1. FoldsWithin(iter, V, N1, << <<>> >>, step)
        BY <1>9, <1>10 DEF FoldsWithin
    <2> QED
        BY <1>1, <1>5, <2>1, IterIsChain
<1>12. ASSUME NEW n \in 1..N1
       PROVE  chain[n] = SplitNext(sep, chain[n - 1], bytes[n])
    <2>1. chain[n - 1] \in V
        BY <1>1, <1>11 DEF IsChain, IsChainTo
    <2> QED
        BY <1>11, <2>1 DEF IsChain, IsChainTo
<1> QED
    BY <1>3, <1>11, <1>12 DEF IsChain, IsChainTo, IsSplitting, N1, V

LEMMA SplitAppend ==
    ASSUME NEW T, NEW sep, NEW bytes \in Seq(T), NEW b \in T
    PROVE  SplitAt(sep, Append(bytes, b)) = SplitNext(sep, SplitAt(sep, bytes), b)
<1> PICK more : more = Append(bytes, b)
    OBVIOUS
<1> PICK k \in Nat : k = Len(bytes)
    OBVIOUS
<1>1. more \in Seq(T) /\ Len(more) = k + 1 /\ more[k + 1] = b
      /\ \A n \in 1..k : more[n] = bytes[n]
    OBVIOUS
<1>2. PICK c : IsSplitting(T, sep, c, bytes) /\ SplitAt(sep, bytes) = c[k]
    BY SplitSteps
<1>3. PICK d : IsSplitting(T, sep, d, more) /\ SplitAt(sep, more) = d[k + 1]
    <2>1. \E d : IsSplitting(T, sep, d, more) /\ SplitAt(sep, more) = d[Len(more)]
        BY ONLY <1>1, SplitSteps
    <2> QED
        BY ONLY <1>1, <2>1
<1> DEFINE S == {n \in 0..k : d[n] = c[n]}
<1>4. 0 \in S
    <2>1. c[0] = << <<>> >> /\ d[0] = << <<>> >>
        BY <1>2, <1>3, Zenon DEF IsSplitting
    <2> QED
        BY <2>1
<1>5. ASSUME NEW n \in 0..(k - 1), n \in S
      PROVE  n + 1 \in S
    <2>1. n + 1 \in 1..k /\ (n + 1) - 1 = n /\ n + 1 \in 0..k /\ n + 1 \in 1..(k + 1)
        OBVIOUS
    <2>2. c[n + 1] = SplitNext(sep, c[n], bytes[n + 1])
        <3>1. \A i \in 1..k : c[i] = SplitNext(sep, c[i - 1], bytes[i])
            BY <1>2 DEF IsSplitting
        <3> QED
            BY <2>1, <3>1
    <2>3. d[n + 1] = SplitNext(sep, d[n], more[n + 1])
        <3>1. \A i \in 1..(k + 1) : d[i] = SplitNext(sep, d[i - 1], more[i])
            BY <1>1, <1>3 DEF IsSplitting
        <3> QED
            BY <2>1, <3>1
    <2> QED
        BY <1>1, <1>5, <2>1, <2>2, <2>3
<1>6. d[k] = c[k]
    <2>1. 0..k \subseteq S
        <3> HIDE DEF S
        <3> QED
            BY <1>4, <1>5, BoundedInduction
    <2> QED
        BY <2>1
<1>7. d[k + 1] = SplitNext(sep, d[k], b)
    <2>1. k + 1 \in 1..(k + 1) /\ (k + 1) - 1 = k
        OBVIOUS
    <2>2. \A i \in 1..(k + 1) : d[i] = SplitNext(sep, d[i - 1], more[i])
        BY <1>1, <1>3 DEF IsSplitting
    <2> QED
        BY <1>1, <2>1, <2>2
<1> QED
    BY <1>2, <1>3, <1>6, <1>7

Lacks(w, sep) == \A i \in 1..Len(w) : w[i] # sep

\* A word without the separator comes whole behind what was done.
LEMMA SplitWord ==
    ASSUME NEW T, NEW sep, NEW s \in Seq(T), NEW done \in Seq(Seq(T)), SplitAt(sep, s) = Append(done, <<>>),
           NEW w \in Seq(T), Lacks(w, sep)
    PROVE  SplitAt(sep, s \o w) = Append(done, w)
<1> PICK k \in Nat : k = Len(w)
    OBVIOUS
<1> DEFINE P(n) == [i \in 1..n |-> w[i]]
           S == {n \in 0..k : SplitAt(sep, s \o P(n)) = Append(done, P(n))}
<1>1. \A i \in 1..k : w[i] \in T /\ w[i] # sep
    BY DEF Lacks
<1>2. 0 \in S
    <2>1. P(0) = <<>>
        OBVIOUS
    <2>2. s \o <<>> = s
        OBVIOUS
    <2> QED
        BY <2>1, <2>2
<1>3. ASSUME NEW n \in 0..(k - 1), n \in S
      PROVE  n + 1 \in S
    <2> PICK p, q, b : p = P(n) /\ q = P(n + 1) /\ b = w[n + 1]
        OBVIOUS
    <2>1. n + 1 \in 1..k /\ n + 1 \in 0..k
        OBVIOUS
    <2>2. b \in T /\ b # sep
        BY <1>1, <2>1
    <2>3. p \in Seq(T) /\ Len(p) = n /\ q \in Seq(T) /\ Len(q) = n + 1
          /\ (\A i \in 1..n : p[i] = w[i] /\ q[i] = w[i]) /\ q[n + 1] = b
        BY <1>1, <2>1
    <2>4. q = Append(p, b)
        BY <2>2, <2>3
    <2>5. s \o q = Append(s \o p, b) /\ s \o p \in Seq(T)
        <3>1. s \o p \in Seq(T) /\ s \o Append(p, b) = Append(s \o p, b)
            BY ONLY <2>2, <2>3, s \in Seq(T), ConcatAppend
        <3> QED
            BY ONLY <2>4, <3>1
    <2>6. SplitAt(sep, s \o q) = SplitNext(sep, Append(done, p), b)
        <3>1. SplitAt(sep, s \o p) = Append(done, p)
            BY <1>3
        <3>2. SplitAt(sep, Append(s \o p, b)) = SplitNext(sep, SplitAt(sep, s \o p), b)
            <4>1. \A u \in Seq(T) : SplitAt(sep, Append(u, b)) = SplitNext(sep, SplitAt(sep, u), b)
                BY ONLY <2>2, SplitAppend
            <4> QED
                BY ONLY <2>5, <4>1
        <3> QED
            BY ONLY <2>5, <3>1, <3>2
    <2>7. SplitNext(sep, Append(done, p), b) = Append(done, Append(p, b))
        <3> PICK l \in Nat : l = Len(done)
            OBVIOUS
        <3> PICK d : d = Append(done, p)
            OBVIOUS
        <3>1. /\ d \in Seq(Seq(T)) /\ Len(d) = l + 1 /\ d[l + 1] = p
              /\ \A i \in 1..l : d[i] = done[i]
            BY <2>3
        <3>2. SplitNext(sep, d, b) = [d EXCEPT ![l + 1] = q]
            BY <2>2, <2>4, <3>1 DEF SplitNext
        <3>3. [d EXCEPT ![l + 1] = q] = Append(done, q)
            <4> PICK x, y : x = [d EXCEPT ![l + 1] = q] /\ y = Append(done, q)
                OBVIOUS
            <4>1. /\ x \in Seq(Seq(T)) /\ Len(x) = l + 1 /\ x[l + 1] = q
                  /\ \A i \in 1..l : x[i] = done[i]
                <5>1. l + 1 \in 1..Len(d) /\ \A i \in 1..l : i \in 1..Len(d) /\ i # l + 1
                    BY <3>1
                <5>2. x \in Seq(Seq(T)) /\ Len(x) = Len(d)
                    BY ONLY <2>3, <3>1, x = [d EXCEPT ![l + 1] = q]
                <5>3. x[l + 1] = q /\ \A i \in 1..l : x[i] = d[i]
                    BY ONLY <3>1, <5>1, x = [d EXCEPT ![l + 1] = q]
                <5> QED
                    BY ONLY <3>1, <5>2, <5>3
            <4>2. /\ y \in Seq(Seq(T)) /\ Len(y) = l + 1 /\ y[l + 1] = q
                  /\ \A i \in 1..l : y[i] = done[i]
                BY <2>3
            <4>3. \A i \in 1..(l + 1) : x[i] = y[i]
                <5>1. \A i \in 1..(l + 1) : i \in 1..l \/ i = l + 1
                    OBVIOUS
                <5> QED
                    BY ONLY <4>1, <4>2, <5>1
            <4>4. x = y
                BY ONLY <4>1, <4>2, <4>3, SequencesEqual
            <4> QED
                BY <4>4
        <3> QED
            BY <2>4, <3>2, <3>3
    <2> QED
        BY <2>1, <2>4, <2>6, <2>7
<1>4. k \in S
    <2> HIDE DEF S
    <2>1. 0..k \subseteq S
        BY <1>2, <1>3, BoundedInduction
    <2>2. k \in 0..k
        OBVIOUS
    <2> QED
        BY ONLY <2>1, <2>2
<1>5. P(k) = w
    OBVIOUS
<1> QED
    BY <1>4, <1>5

LEMMA SplitOfNone ==
    ASSUME NEW sep
    PROVE  SplitAt(sep, <<>>) = << <<>> >>
<1>1. <<>> \in Seq({}) /\ Len(<<>>) = 0
    OBVIOUS
<1>2. PICK d : IsSplitting({}, sep, d, <<>>) /\ SplitAt(sep, <<>>) = d[Len(<<>>)]
    BY ONLY <1>1, SplitSteps
<1> QED
    BY <1>1, <1>2 DEF IsSplitting

\* No piece holds the separator, and there is at least one.
LEMMA SplitPieces ==
    ASSUME NEW T, NEW sep, NEW s \in Seq(T)
    PROVE  /\ SplitAt(sep, s) \in Seq(Seq(T \ {sep})) /\ SplitAt(sep, s) # <<>>
<1> DEFINE W == Seq(T \ {sep})
           V == Seq(W) \ {<<>>}
<1> PICK k \in Nat : k = Len(s)
    OBVIOUS
<1>1. PICK c : IsSplitting(T, sep, c, s) /\ SplitAt(sep, s) = c[k]
    BY SplitSteps
<1>2. ASSUME NEW pieces \in V, NEW b \in T
      PROVE  SplitNext(sep, pieces, b) \in V
    <2>1. Len(pieces) \in Nat \ {0} /\ pieces \in Seq(W)
        OBVIOUS
    <2>2. CASE b = sep
        <3>1. <<>> \in W
            OBVIOUS
        <3> HIDE DEF W
        <3>2. Append(pieces, <<>>) \in Seq(W) /\ Len(Append(pieces, <<>>)) = Len(pieces) + 1
            BY <2>1, <3>1
        <3> QED
            BY <2>1, <2>2, <3>2 DEF SplitNext
    <2>3. CASE b # sep
        <3> PICK piece \in W : piece = pieces[Len(pieces)]
            BY <2>1
        <3>1. Append(piece, b) \in W
            BY <2>3
        <3> PICK last \in W : last = Append(piece, b)
            BY <3>1
        <3> HIDE DEF W
        <3> PICK more : more = [pieces EXCEPT ![Len(pieces)] = last]
            OBVIOUS
        <3>2. more \in Seq(W) /\ Len(more) = Len(pieces)
            BY <2>1
        <3>3. SplitNext(sep, pieces, b) = more
            BY <2>3 DEF SplitNext
        <3> QED
            BY <2>1, <3>2, <3>3
    <2> QED
        BY <2>2, <2>3
<1> DEFINE S == {n \in 0..k : c[n] \in V}
<1>3. 0 \in S
    <2>1. c[0] = << <<>> >>
        BY <1>1 DEF IsSplitting
    <2>2. << <<>> >> \in V
        OBVIOUS
    <2> HIDE DEF V
    <2> QED
        BY <2>1, <2>2
<1>4. ASSUME NEW n \in 0..(k - 1), n \in S
      PROVE  n + 1 \in S
    <2>1. n + 1 \in 1..k /\ n + 1 \in 0..k /\ (n + 1) - 1 = n /\ s[n + 1] \in T
        OBVIOUS
    <2>2. c[n + 1] = SplitNext(sep, c[n], s[n + 1])
        BY <1>1, <2>1 DEF IsSplitting
    <2>3. c[n] \in V
        BY <1>4
    <2> HIDE DEF V
    <2>4. c[n + 1] \in V
        BY ONLY <1>2, <2>1, <2>2, <2>3
    <2>5. n + 1 \in 0..k
        BY ONLY <2>1
    <2> QED
        BY ONLY <2>4, <2>5
<1>5. k \in 0..k /\ 0..k \subseteq S
    <2> HIDE DEF S
    <2> QED
        BY ONLY k \in Nat, <1>3, <1>4, BoundedInduction
<1>6. c[k] \in V
    <2> HIDE DEF V
    <2> QED
        BY <1>5
<1> QED
    BY <1>1, <1>6

\* Nothing but the empty sequence is one empty piece.
LEMMA SplitIsEmpty ==
    ASSUME NEW T, NEW sep, NEW s \in Seq(T), SplitAt(sep, s) = << <<>> >>
    PROVE  s = <<>>
<1> SUFFICES ASSUME s # <<>>
             PROVE  FALSE
    OBVIOUS
<1> PICK u \in Seq(T), b \in T : s = Append(u, b)
    <2>1. Front(s) \in Seq(T) /\ s[Len(s)] \in T /\ s = Append(Front(s), s[Len(s)])
        BY DEF Front
    <2> QED
        BY <2>1
<1> PICK pieces : pieces = SplitAt(sep, u)
    OBVIOUS
<1>1. pieces \in Seq(Seq(T)) /\ Len(pieces) \in Nat \ {0}
    <2>1. pieces \in Seq(Seq(T \ {sep})) /\ pieces # <<>>
        BY ONLY u \in Seq(T), pieces = SplitAt(sep, u), SplitPieces
    <2>2. Seq(T \ {sep}) \subseteq Seq(T)
        OBVIOUS
    <2>3. pieces \in Seq(Seq(T))
        BY ONLY <2>1, <2>2
    <2> QED
        BY ONLY <2>1, <2>3
<1>2. SplitNext(sep, pieces, b) = << <<>> >>
    BY SplitAppend
<1>3. CASE b = sep
    <2>1. Append(pieces, <<>>) = << <<>> >>
        BY <1>2, <1>3 DEF SplitNext
    <2>2. Len(Append(pieces, <<>>)) = Len(pieces) + 1
        BY ONLY <1>1
    <2>3. Len(<< <<>> >>) = 1
        OBVIOUS
    <2>4. Len(pieces) + 1 = 1
        BY ONLY <2>1, <2>2, <2>3, Zenon
    <2> QED
        BY ONLY <1>1, <2>4
<1>4. CASE b # sep
    <2> PICK last : last = Append(pieces[Len(pieces)], b)
        OBVIOUS
    <2>1. last # <<>>
        <3> PICK piece \in Seq(T) : piece = pieces[Len(pieces)]
            BY ONLY <1>1
        <3>1. Len(Append(piece, b)) = Len(piece) + 1 /\ Len(piece) \in Nat
            BY ONLY piece \in Seq(T), b \in T
        <3>2. Append(piece, b) # <<>>
            BY ONLY <3>1
        <3> QED
            BY ONLY <3>2, last = Append(pieces[Len(pieces)], b), piece = pieces[Len(pieces)]
    <2>2. [pieces EXCEPT ![Len(pieces)] = last] = << <<>> >>
        BY <1>2, <1>4 DEF SplitNext
    <2>3. Len(pieces) \in DOMAIN pieces
        BY ONLY <1>1
    <2>4. [pieces EXCEPT ![Len(pieces)] = last][Len(pieces)] = last
        BY ONLY <2>3
    <2>5. Len(pieces) = 1
        <3>1. DOMAIN [pieces EXCEPT ![Len(pieces)] = last] = 1..Len(pieces)
            BY ONLY <1>1
        <3>2. DOMAIN << <<>> >> = 1..1
            OBVIOUS
        <3> QED
            BY ONLY <1>1, <2>2, <3>1, <3>2
    <2>6. << <<>> >>[1] = <<>>
        OBVIOUS
    <2> QED
        BY ONLY <2>1, <2>2, <2>4, <2>5, <2>6
<1> QED
    BY <1>3, <1>4

\* The first of the sequences comes first.
LEMMA FlattenHead ==
    ASSUME NEW T, NEW seqs \in Seq(Seq(T)), seqs # <<>>
    PROVE  FlattenSeq(seqs) = seqs[1] \o FlattenSeq(Tail(seqs))
<1> PICK k \in Nat : k = Len(seqs) - 1
    OBVIOUS
<1> PICK rest, first : rest = Tail(seqs) /\ first = seqs[1]
    OBVIOUS
<1>1. /\ rest \in Seq(Seq(T)) /\ Len(rest) = k /\ Len(seqs) = k + 1 /\ first \in Seq(T)
      /\ \A n \in 1..k : rest[n] = seqs[n + 1] /\ rest[n] \in Seq(T)
    OBVIOUS
<1>2. PICK all : IsFlattening(all, seqs) /\ FlattenSeq(seqs) = all[k + 1]
    BY <1>1, FlattenSteps
<1>3. PICK flat : /\ flat \in [0..k -> Seq(T)]
                  /\ IsFlattening(flat, rest) /\ FlattenSeq(rest) = flat[k]
    <2>1. \E flat \in [0..Len(rest) -> Seq(T)] :
              IsFlattening(flat, rest) /\ FlattenSeq(rest) = flat[Len(rest)]
        BY ONLY <1>1, FlattenSteps
    <2> QED
        BY ONLY <1>1, <2>1
<1> DEFINE S == {n \in 0..k : all[n + 1] = first \o flat[n]}
<1>4. 0 \in S
    <2>1. all[0] = <<>> /\ flat[0] = <<>> /\ \A n \in 1..(k + 1) : all[n] = all[n - 1] \o seqs[n]
        BY <1>1, <1>2, <1>3 DEF IsFlattening
    <2>2. all[1] = <<>> \o first
        <3>1. 1 \in 1..(k + 1) /\ 1 - 1 = 0
            OBVIOUS
        <3> QED
            BY <2>1, <3>1
    <2>3. <<>> \o first = first /\ first \o <<>> = first
        BY <1>1
    <2>4. all[0 + 1] = first \o flat[0]
        BY ONLY <2>1, <2>2, <2>3
    <2> QED
        BY ONLY <2>4, k \in Nat
<1>5. ASSUME NEW n \in 0..(k - 1), n \in S
      PROVE  n + 1 \in S
    <2>1. n + 1 \in 1..k /\ n + 1 \in 0..k /\ n + 2 \in 1..(k + 1)
          /\ (n + 1) - 1 = n /\ (n + 2) - 1 = n + 1 /\ (n + 1) + 1 = n + 2
        OBVIOUS
    <2>2. all[n + 2] = all[n + 1] \o seqs[n + 2]
        BY <1>1, <1>2, <2>1 DEF IsFlattening
    <2>3. flat[n + 1] = flat[n] \o rest[n + 1]
        BY <1>1, <1>3, <2>1 DEF IsFlattening
    <2>4. rest[n + 1] = seqs[n + 2] /\ rest[n + 1] \in Seq(T) /\ flat[n] \in Seq(T)
        <3>1. flat[n] \in Seq(T)
            BY ONLY <1>3, n \in 0..(k - 1), k \in Nat
        <3> QED
            BY ONLY <1>1, <2>1, <3>1
    <2>5. (first \o flat[n]) \o rest[n + 1] = first \o (flat[n] \o rest[n + 1])
        <3> QED
            <4> PICK t \in Seq(T), u \in Seq(T), v \in Seq(T) :
                    t = first /\ u = flat[n] /\ v = rest[n + 1]
                BY ONLY <1>1, <2>4
            <4>1. (t \o u) \o v = t \o (u \o v)
                BY ONLY t \in Seq(T), u \in Seq(T), v \in Seq(T)
            <4> QED
                BY ONLY <4>1, t = first, u = flat[n], v = rest[n + 1]
    <2>6. all[n + 1] = first \o flat[n]
        BY <1>5
    <2>7. all[n + 2] = first \o flat[n + 1]
        BY ONLY <2>2, <2>3, <2>4, <2>5, <2>6
    <2> QED
        BY <2>1, <2>7
<1>6. k \in 0..k /\ 0..k \subseteq S
    <2>1. 0..k \subseteq S
        <3> HIDE DEF S
        <3> QED
            BY <1>4, <1>5, BoundedInduction
    <2>2. k \in 0..k
        OBVIOUS
    <2> HIDE DEF S
    <2> QED
        BY ONLY <2>1, <2>2
<1>7. all[k + 1] = first \o flat[k]
    BY <1>6
<1> QED
    BY <1>2, <1>3, <1>7

\* Each piece with a separator behind it.
JoinedAt(sep, pieces) == FlattenSeq([i \in DOMAIN pieces |-> Append(pieces[i], sep)])

LEMMA JoinedIsSequence ==
    ASSUME NEW T, NEW sep \in T, NEW pieces \in Seq(Seq(T))
    PROVE  LET seqs == [i \in DOMAIN pieces |-> Append(pieces[i], sep)]
           IN  /\ seqs \in Seq(Seq(T)) /\ Len(seqs) = Len(pieces)
               /\ \A i \in 1..Len(pieces) : seqs[i] = Append(pieces[i], sep)
               /\ JoinedAt(sep, pieces) = FlattenSeq(seqs)
               /\ JoinedAt(sep, pieces) \in Seq(T)
<1> PICK k \in Nat : k = Len(pieces)
    OBVIOUS
<1> PICK seqs : seqs = [i \in DOMAIN pieces |-> Append(pieces[i], sep)]
    OBVIOUS
<1>1. DOMAIN pieces = 1..k /\ \A i \in 1..k : Append(pieces[i], sep) \in Seq(T)
    OBVIOUS
<1>2. seqs \in [1..k -> Seq(T)]
    BY <1>1
<1>3. seqs \in Seq(Seq(T)) /\ Len(seqs) = k
    BY ONLY <1>2, k \in Nat
<1>4. FlattenSeq(seqs) \in Seq(T)
    BY ONLY <1>3, FlattenFacts
<1> QED
    BY <1>1, <1>3, <1>4 DEF JoinedAt

\* What is joined is split again; the last separator only ends the last piece.
LEMMA JoinedIsSplitAgain ==
    ASSUME NEW T, NEW sep \in T, NEW pieces,
           pieces \in Seq(Seq(T \ {sep})), pieces # <<>>
    PROVE  \E trimmed \in Seq(T) :
              JoinedAt(sep, pieces) = Append(trimmed, sep) /\ SplitAt(sep, trimmed) = pieces
<1> PICK k \in Nat \ {0} : k = Len(pieces)
    OBVIOUS
<1>1. /\ pieces \in Seq(Seq(T))
      /\ \A i \in 1..k : pieces[i] \in Seq(T) /\ \A j \in 1..Len(pieces[i]) : pieces[i][j] # sep
    <2>1. \A p \in Seq(T \ {sep}) : p \in Seq(T) /\ \A j \in 1..Len(p) : p[j] # sep
        OBVIOUS
    <2>2. \A i \in 1..k : pieces[i] \in Seq(T \ {sep})
        OBVIOUS
    <2>3. pieces \in [1..k -> Seq(T)]
        BY <2>1, <2>2
    <2> QED
        BY <2>1, <2>2, <2>3
<1> PICK seqs : seqs = [i \in DOMAIN pieces |-> Append(pieces[i], sep)]
    OBVIOUS
<1>2. /\ seqs \in Seq(Seq(T)) /\ Len(seqs) = k
      /\ \A i \in 1..k : seqs[i] = Append(pieces[i], sep)
      /\ JoinedAt(sep, pieces) = FlattenSeq(seqs)
    <2>1. /\ seqs \in Seq(Seq(T)) /\ Len(seqs) = Len(pieces)
          /\ \A i \in 1..Len(pieces) : seqs[i] = Append(pieces[i], sep)
          /\ JoinedAt(sep, pieces) = FlattenSeq(seqs)
        BY ONLY <1>1, sep \in T, seqs = [i \in DOMAIN pieces |-> Append(pieces[i], sep)],
                JoinedIsSequence
    <2> QED
        BY ONLY <2>1, k = Len(pieces)
<1>3. PICK flat : /\ flat \in [0..k -> Seq(T)]
                  /\ IsFlattening(flat, seqs) /\ FlattenSeq(seqs) = flat[k]
    <2>1. \E flat \in [0..Len(seqs) -> Seq(T)] :
              IsFlattening(flat, seqs) /\ FlattenSeq(seqs) = flat[Len(seqs)]
        BY ONLY <1>2, FlattenSteps
    <2> QED
        BY ONLY <1>2, <2>1
<1> DEFINE P(n) == [i \in 1..n |-> pieces[i]]
           Ends(n) == \E t \in Seq(T) : flat[n] = Append(t, sep) /\ SplitAt(sep, t) = P(n)
           S == {n \in 0..k : n = 0 \/ Ends(n)}
<1>4. ASSUME NEW n \in 0..k
      PROVE  P(n) \in Seq(Seq(T)) /\ (n # 0 => P(n) # <<>>)
    <2>1. P(n) \in [1..n -> Seq(T)]
        BY <1>1
    <2>2. P(n) \in Seq(Seq(T)) /\ Len(P(n)) = n
        <3> HIDE DEF P
        <3> QED
            BY ONLY <2>1, n \in 0..k, k \in Nat
    <2> HIDE DEF P
    <2> QED
        BY <2>2
<1>5. 0 \in S
    OBVIOUS
<1>6. ASSUME NEW n \in 0..(k - 1), n \in S
      PROVE  n + 1 \in S
    <2> PICK w, done, s : w = pieces[n + 1] /\ done = P(n) /\ s = flat[n]
        OBVIOUS
    <2>1. n + 1 \in 1..k /\ n + 1 \in 0..k /\ n \in 0..k /\ (n + 1) - 1 = n
        OBVIOUS
    <2>2. w \in Seq(T) /\ (\A j \in 1..Len(w) : w[j] # sep) /\ s \in Seq(T)
        <3>1. s \in Seq(T)
            BY ONLY <1>3, <2>1, s = flat[n]
        <3> QED
            BY ONLY <1>1, <2>1, <3>1, w = pieces[n + 1]
    <2>3. done \in Seq(Seq(T))
        BY <1>4, <2>1
    <2>4. SplitAt(sep, s) = Append(done, <<>>)
        <3>1. CASE n = 0
            <4>1. s = <<>> /\ done = <<>>
                BY <1>3, <3>1 DEF IsFlattening
            <4>2. SplitAt(sep, <<>>) = << <<>> >> /\ Append(<<>>, <<>>) = << <<>> >>
                BY SplitOfNone
            <4> QED
                BY ONLY <4>1, <4>2
        <3>2. CASE n # 0
            <4>1. PICK t \in Seq(T) : s = Append(t, sep) /\ SplitAt(sep, t) = done
                BY <1>6, <3>2
            <4>2. SplitAt(sep, Append(t, sep)) = SplitNext(sep, SplitAt(sep, t), sep)
                BY ONLY t \in Seq(T), sep \in T, SplitAppend
            <4> QED
                BY ONLY <4>1, <4>2 DEF SplitNext
        <3> QED
            BY <3>1, <3>2
    <2> PICK t : t = s \o w
        OBVIOUS
    <2>5. SplitAt(sep, t) = Append(done, w)
        <3>1. SplitAt(sep, s \o w) = Append(done, w)
            <4> PICK u \in Seq(T), d \in Seq(Seq(T)), v \in Seq(T) : u = s /\ d = done /\ v = w
                BY ONLY <2>2, <2>3
            <4>1. SplitAt(sep, u) = Append(d, <<>>) /\ Lacks(v, sep)
                BY ONLY <2>2, <2>4, u = s, d = done, v = w DEF Lacks
            <4>2. SplitAt(sep, u \o v) = Append(d, v)
                BY ONLY u \in Seq(T), d \in Seq(Seq(T)), v \in Seq(T), <4>1, SplitWord
            <4> QED
                BY ONLY <4>2, u = s, d = done, v = w
        <3> QED
            BY ONLY <3>1, t = s \o w
    <2>6. P(n + 1) = Append(done, w)
        <3> PICK x, y : x = P(n + 1) /\ y = Append(done, w)
            OBVIOUS
        <3>1. x \in Seq(Seq(T)) /\ Len(x) = n + 1 /\ x[n + 1] = w /\ \A i \in 1..n : x[i] = pieces[i]
            <4>1. x \in Seq(Seq(T))
                BY <1>4, <2>1
            <4> QED
                BY <4>1, <2>1
        <3>2. y \in Seq(Seq(T)) /\ Len(y) = n + 1 /\ y[n + 1] = w /\ \A i \in 1..n : y[i] = pieces[i]
            <4>1. Len(done) = n /\ (\A i \in 1..n : done[i] = pieces[i]) /\ n \in Nat
                OBVIOUS
            <4>2. /\ y \in Seq(Seq(T)) /\ Len(y) = Len(done) + 1 /\ y[Len(done) + 1] = w
                  /\ \A i \in 1..Len(done) : y[i] = done[i]
                BY ONLY <2>2, <2>3, y = Append(done, w)
            <4> QED
                BY ONLY <4>1, <4>2
        <3>3. \A i \in 1..(n + 1) : x[i] = y[i]
            <4>1. \A i \in 1..(n + 1) : i \in 1..n \/ i = n + 1
                OBVIOUS
            <4> QED
                BY ONLY <3>1, <3>2, <4>1
        <3>4. x = y
            BY ONLY <3>1, <3>2, <3>3, SequencesEqual
        <3> QED
            BY <3>4
    <2>7. flat[n + 1] = Append(t, sep) /\ t \in Seq(T)
        <3>1. flat[n + 1] = s \o Append(w, sep)
            BY <1>2, <1>3, <2>1 DEF IsFlattening
        <3>2. s \o w \in Seq(T) /\ s \o Append(w, sep) = Append(s \o w, sep)
            BY ONLY <2>2, sep \in T, ConcatAppend
        <3> QED
            BY ONLY <3>1, <3>2, t = s \o w
    <2>8. Ends(n + 1)
        BY ONLY <2>5, <2>6, <2>7
    <2> HIDE DEF Ends
    <2> QED
        BY <2>1, <2>8
<1>7. k \in 0..k /\ 0..k \subseteq S
    <2>1. 0..k \subseteq S
        <3> HIDE DEF S
        <3> QED
            BY <1>5, <1>6, BoundedInduction
    <2>2. k \in 0..k
        OBVIOUS
    <2> HIDE DEF S
    <2> QED
        BY ONLY <2>1, <2>2
<1>8. Ends(k)
    <2> HIDE DEF Ends
    <2> QED
        BY <1>7
<1>9. P(k) = pieces
    OBVIOUS
<1> HIDE DEF P
<1> QED
    BY <1>2, <1>3, <1>8, <1>9
=============================================================================
