------------------------- MODULE Dictionary_proofs --------------------------
(***************************************************************************)
(* Theorems about the dictionary: the blocks DictionaryCreator cuts the    *)
(* entries of a key into, and what DictionarySearch finds in them.         *)
(***************************************************************************)
EXTENDS DictionarySearch, DictionaryFormat_proofs

-----------------------------------------------------------------------------
(***************************************************************************)
(* Sums over finite sets.                                                  *)
(***************************************************************************)

\* The sums of f over the subsets of S.
AreSums(sums, f, S) ==
    /\ sums \in [SUBSET S -> Nat] /\ sums[{}] = 0
    /\ \A s \in SUBSET S : \A x \in S \ s : sums[s \cup {x}] = sums[s] + f[x]

\* Induction over the subsets of a finite set, in first-order form.
LEMMA SubsetInduction ==
    ASSUME NEW S, IsFiniteSet(S), NEW G, {} \in G,
           \A s \in SUBSET S : \A x \in S \ s : s \in G => s \cup {x} \in G
    PROVE  SUBSET S \subseteq G
<1> DEFINE H == {n \in Nat : \A s \in SUBSET S : Cardinality(s) = n => s \in G}
<1>1. \A s \in SUBSET S : IsFiniteSet(s) /\ Cardinality(s) \in Nat
    BY FS_Subset, FS_CardinalityType
<1>2. 0 \in H
    BY <1>1, FS_EmptySet
<1>3. ASSUME NEW n \in Nat, n \in H
      PROVE  n + 1 \in H
    <2> SUFFICES ASSUME NEW s \in SUBSET S, Cardinality(s) = n + 1
                 PROVE  s \in G
        OBVIOUS
    <2>1. s # {}
        BY FS_EmptySet
    <2>2. PICK x \in s : TRUE
        BY <2>1
    <2>3. s \ {x} \in SUBSET S /\ x \in S \ (s \ {x}) /\ s = (s \ {x}) \cup {x}
        BY <2>2
    <2>4. Cardinality(s \ {x}) = n
        <3>1. IsFiniteSet(s) /\ Cardinality(s \ {x}) = Cardinality(s) - 1
            BY <1>1, <2>2, FS_RemoveElement
        <3> QED
            BY <3>1
    <2>5. s \ {x} \in G
        BY <1>3, <2>3, <2>4
    <2> QED
        BY <2>3, <2>5
<1>4. Nat \subseteq H
    <2> HIDE DEF H
    <2> QED
        BY <1>2, <1>3, SetInduction
<1> QED
    BY <1>1, <1>4

LEMMA SumsExist ==
    ASSUME NEW S, IsFiniteSet(S), NEW f \in [S -> Nat]
    PROVE  \E sums : AreSums(sums, f, S)
<1> DEFINE G == {s \in SUBSET S : \E sums : AreSums(sums, f, s)}
<1>1. {} \in G
    <2>1. AreSums([s \in SUBSET {} |-> 0], f, {})
        BY DEF AreSums
    <2> QED
        BY <2>1
<1>2. ASSUME NEW s \in SUBSET S, NEW x \in S \ s, s \in G
      PROVE  s \cup {x} \in G
    <2>1. PICK old : AreSums(old, f, s)
        BY <1>2
    <2> DEFINE t == s \cup {x}
               sums == [r \in SUBSET t |-> old[r \ {x}] + IF x \in r THEN f[x] ELSE 0]
    <2>2. \A r \in SUBSET t : r \ {x} \in SUBSET s
        OBVIOUS
    <2>3. old \in [SUBSET s -> Nat] /\ old[{}] = 0 /\ f[x] \in Nat /\ {} \ {x} = {}
        BY <2>1 DEF AreSums
    <2>4. sums \in [SUBSET t -> Nat] /\ sums[{}] = 0
        BY <2>2, <2>3
    <2>5. ASSUME NEW r \in SUBSET t, NEW y \in t \ r
          PROVE  sums[r \cup {y}] = sums[r] + f[y]
        <3>1. r \cup {y} \in SUBSET t /\ r \ {x} \in SUBSET s /\ f[y] \in Nat
            OBVIOUS
        <3>2. /\ sums[r] = old[r \ {x}] + IF x \in r THEN f[x] ELSE 0
              /\ sums[r \cup {y}] = old[(r \cup {y}) \ {x}] + IF x \in r \cup {y} THEN f[x] ELSE 0
            BY <3>1
        <3>3. old[r \ {x}] \in Nat
            BY <2>3, <3>1
        <3> HIDE DEF sums
        <3>4. CASE y = x
            <4>1. (r \cup {y}) \ {x} = r \ {x} /\ x \notin r
                BY <3>4
            <4>2. sums[r] = old[r \ {x}] + 0
                BY ONLY <3>2, <4>1
            <4>3. sums[r \cup {y}] = old[r \ {x}] + f[x]
                BY ONLY <3>2, <3>4, <4>1
            <4> QED
                BY ONLY <2>3, <3>3, <3>4, <4>2, <4>3
        <3>5. CASE y # x
            <4>1. (r \cup {y}) \ {x} = (r \ {x}) \cup {y} /\ y \in s \ (r \ {x})
                BY <3>5
            <4>2. old[(r \ {x}) \cup {y}] = old[r \ {x}] + f[y]
                BY <2>1, <3>1, <4>1 DEF AreSums
            <4>3. x \in r \cup {y} <=> x \in r
                BY <3>5
            <4> DEFINE more == IF x \in r THEN f[x] ELSE 0
            <4>4. sums[r] = old[r \ {x}] + more /\ more \in Nat
                BY <2>3, <3>2
            <4>5. sums[r \cup {y}] = (old[r \ {x}] + f[y]) + more
                BY <3>2, <4>1, <4>2, <4>3
            <4> HIDE DEF more
            <4> QED
                BY ONLY <3>1, <3>3, <4>4, <4>5
        <3> QED
            BY <3>4, <3>5
    <2>6. AreSums(sums, f, t)
        <3> HIDE DEF sums, t
        <3> QED
            BY <2>4, <2>5 DEF AreSums
    <2> QED
        BY <2>6
<1>3. S \in SUBSET S
    OBVIOUS
<1> HIDE DEF G
<1>4. S \in G
    BY <1>1, <1>2, <1>3, SubsetInduction
<1> QED
    BY <1>4 DEF G

\* The fold over a set of entries is the sum of their lengths, in whatever order CHOOSE
\* takes them.
LEMMA TotalIsSum ==
    ASSUME NEW S, IsFiniteSet(S), NEW f \in [S -> Nat], \A m \in S : f[m] = dictionary[m],
           NEW sums, AreSums(sums, f, S), NEW T \in SUBSET S
    PROVE  TotalLength(T) = sums[T]
<1> DEFINE Choice(s) == CHOOSE x \in s : TRUE
           Equation(g) == g = [s \in SUBSET T |->
                                  IF s = {} THEN 0
                                  ELSE dictionary[Choice(s)] + g[s \ {Choice(s)}]]
           iter == CHOOSE g : Equation(g)
<1>1. TotalLength(T) = iter[T]
    BY DEF TotalLength, MapThenSumSet, MapThenFoldSet
<1>2. ASSUME NEW s \in SUBSET T, s # {}
      PROVE  Choice(s) \in s
    BY <1>2
<1> HIDE DEF Choice
<1>3. ASSUME NEW s \in SUBSET T
      PROVE  sums[s] = IF s = {} THEN 0 ELSE dictionary[Choice(s)] + sums[s \ {Choice(s)}]
    <2>1. CASE s = {}
        BY <2>1 DEF AreSums
    <2>2. CASE s # {}
        <3> DEFINE x == Choice(s)
                   r == s \ {x}
        <3>1. x \in s
            BY <1>2, <2>2
        <3>2. r \in SUBSET S /\ x \in S \ r /\ s = r \cup {x}
            BY <3>1
        <3>3. f[x] = dictionary[x] /\ f[x] \in Nat
            BY <3>2
        <3> HIDE DEF r, x
        <3>4. sums[s] = sums[r] + f[x] /\ sums[r] \in Nat
            BY <3>2 DEF AreSums
        <3>5. sums[s] = dictionary[x] + sums[r]
            BY ONLY <3>3, <3>4
        <3> QED
            BY <2>2, <3>5 DEF r, x
    <2> QED
        BY <2>1, <2>2
<1> DEFINE h == [s \in SUBSET T |-> sums[s]]
<1>4. Equation(h)
    <2>1. ASSUME NEW s \in SUBSET T
          PROVE  h[s] = IF s = {} THEN 0 ELSE dictionary[Choice(s)] + h[s \ {Choice(s)}]
        <3>1. s \ {Choice(s)} \in SUBSET T
            OBVIOUS
        <3> QED
            BY <1>3, <3>1
    <2>2. h = [s \in SUBSET T |-> h[s]]
        OBVIOUS
    <2> HIDE DEF h
    <2> QED
        BY <2>1, <2>2
<1>5. Equation(iter)
    <2> HIDE DEF h, Equation
    <2> QED
        BY <1>4
<1> HIDE DEF iter, h
<1>6. IsFiniteSet(T)
    BY FS_Subset
<1> DEFINE H == {n \in Nat : \A s \in SUBSET T : Cardinality(s) = n => iter[s] = sums[s]}
<1>7. \A s \in SUBSET T : IsFiniteSet(s) /\ Cardinality(s) \in Nat
    BY <1>6, FS_Subset, FS_CardinalityType
<1>8. iter[{}] = sums[{}]
    BY <1>5 DEF AreSums
<1>9. 0 \in H
    BY <1>7, <1>8, FS_EmptySet
<1>10. ASSUME NEW n \in Nat, n \in H
       PROVE  n + 1 \in H
    <2> SUFFICES ASSUME NEW s \in SUBSET T, Cardinality(s) = n + 1
                 PROVE  iter[s] = sums[s]
        OBVIOUS
    <2>1. s # {}
        <3>1. Cardinality({}) = 0 /\ n + 1 # 0
            BY FS_EmptySet
        <3> QED
            BY ONLY <3>1, Cardinality(s) = n + 1
    <2>2. s \ {Choice(s)} \in SUBSET T /\ Choice(s) \in s
        BY <1>2, <2>1
    <2>3. Cardinality(s \ {Choice(s)}) = n
        <3>1. IsFiniteSet(s) /\ Cardinality(s \ {Choice(s)}) = Cardinality(s) - 1
            BY <1>7, <2>2, FS_RemoveElement
        <3> QED
            BY <3>1
    <2>4. iter[s \ {Choice(s)}] = sums[s \ {Choice(s)}]
        BY <1>10, <2>2, <2>3
    <2>5. iter[s] = dictionary[Choice(s)] + iter[s \ {Choice(s)}]
        BY <1>5, <2>1
    <2> QED
        BY <1>3, <2>1, <2>4, <2>5
<1>11. Nat \subseteq H
    <2> HIDE DEF H
    <2> QED
        BY <1>9, <1>10, SetInduction
<1> QED
    BY <1>1, <1>7, <1>11

LEMMA TotalFacts ==
    ASSUME NEW S, IsFiniteSet(S), \A m \in S : dictionary[m] \in Nat
    PROVE  /\ TotalLength({}) = 0
           /\ \A T \in SUBSET S : TotalLength(T) \in Nat
           /\ \A T \in SUBSET S : \A x \in S \ T :
                 TotalLength(T \cup {x}) = TotalLength(T) + dictionary[x]
           /\ \A T \in SUBSET S : \A U \in SUBSET T : TotalLength(U) <= TotalLength(T)
<1> DEFINE f == [m \in S |-> dictionary[m]]
<1>1. f \in [S -> Nat] /\ \A m \in S : f[m] = dictionary[m]
    OBVIOUS
<1> HIDE DEF f
<1>2. PICK sums : AreSums(sums, f, S)
    BY <1>1, SumsExist
<1>3. \A T \in SUBSET S : TotalLength(T) = sums[T]
    BY <1>1, <1>2, TotalIsSum
<1>4. TotalLength({}) = 0 /\ \A T \in SUBSET S : TotalLength(T) \in Nat
    BY <1>2, <1>3 DEF AreSums
<1>5. ASSUME NEW T \in SUBSET S, NEW x \in S \ T
      PROVE  TotalLength(T \cup {x}) = TotalLength(T) + dictionary[x]
    <2>1. T \cup {x} \in SUBSET S /\ f[x] = dictionary[x]
        BY <1>1
    <2>2. sums[T \cup {x}] = sums[T] + f[x]
        BY <1>2 DEF AreSums
    <2> QED
        BY <1>3, <2>1, <2>2
<1>6. ASSUME NEW T \in SUBSET S, NEW U \in SUBSET T
      PROVE  TotalLength(U) <= TotalLength(T)
    <2> DEFINE G == {W \in SUBSET S : TotalLength(U) <= TotalLength(U \cup W)}
    <2>1. {} \in G
        <3>1. U \cup {} = U /\ U \in SUBSET S
            OBVIOUS
        <3> QED
            BY <1>4, <3>1
    <2>2. ASSUME NEW W \in SUBSET S, NEW x \in S \ W, W \in G
          PROVE  W \cup {x} \in G
        <3>1. /\ TotalLength(U) \in Nat /\ TotalLength(U \cup W) \in Nat /\ dictionary[x] \in Nat
              /\ TotalLength(U) <= TotalLength(U \cup W) /\ W \cup {x} \in SUBSET S
            BY <1>4, <2>2
        <3>2. CASE x \in U
            <4>1. U \cup (W \cup {x}) = U \cup W
                BY <3>2
            <4> QED
                BY <3>1, <4>1
        <3>3. CASE x \notin U
            <4>1. U \cup (W \cup {x}) = (U \cup W) \cup {x} /\ U \cup W \in SUBSET S
                  /\ x \in S \ (U \cup W)
                BY <3>3
            <4>2. TotalLength((U \cup W) \cup {x}) = TotalLength(U \cup W) + dictionary[x]
                BY <1>5, <4>1
            <4>3. PICK u \in Nat, w \in Nat, d \in Nat :
                      /\ u = TotalLength(U) /\ w = TotalLength(U \cup W) /\ d = dictionary[x]
                      /\ u <= w
                BY <3>1
            <4>4. TotalLength(U \cup (W \cup {x})) = w + d /\ u <= w + d
                BY <4>1, <4>2, <4>3
            <4> QED
                BY <3>1, <4>3, <4>4
        <3> QED
            BY <3>2, <3>3
    <2>3. SUBSET S \subseteq G
        <3> HIDE DEF G
        <3> QED
            BY <2>1, <2>2, SubsetInduction
    <2>4. T \in G /\ U \cup T = T
        BY <2>3
    <2> QED
        BY <2>4
<1> QED
    BY <1>4, <1>5, <1>6

-----------------------------------------------------------------------------
(***************************************************************************)
(* The order of byte strings.                                              *)
(***************************************************************************)

\* s and t agree up to n, and there s ends or has the lower byte.
PrecedesAt(s, t, n) ==
    /\ n \in Nat /\ n <= Len(s) /\ n <= Len(t)
    /\ \A i \in 1..n : s[i] = t[i]
    /\ \/ n = Len(s) /\ n < Len(t)
       \/ n < Len(s) /\ n < Len(t) /\ s[n + 1] < t[n + 1]

LEMMA PrecedesHasPlace ==
    ASSUME NEW s \in Strings, NEW t \in Strings
    PROVE  Precedes(s, t) <=> \E n : PrecedesAt(s, t, n)
<1>1. Len(s) \in Nat /\ Len(t) \in Nat
    BY DEF Strings
<1>2. IsStrictPrefix(s, t) => PrecedesAt(s, t, Len(s))
    <2> SUFFICES ASSUME IsPrefix(s, t), s # t
                 PROVE  PrecedesAt(s, t, Len(s))
        BY DEF IsStrictPrefix
    <2>1. Len(s) <= Len(t) /\ \A i \in 1..Len(s) : s[i] = t[i]
        BY PrefixElements
    <2>2. Len(s) # Len(t)
        BY <2>1, StringsEqual
    <2> QED
        BY <1>1, <2>1, <2>2 DEF PrecedesAt
<1>3. ASSUME NEW n, PrecedesAt(s, t, n), n = Len(s), n < Len(t)
      PROVE  IsStrictPrefix(s, t)
    <2>1. Len(s) <= Len(t) /\ \A i \in 1..Len(s) : s[i] = t[i]
        BY <1>1, <1>3 DEF PrecedesAt
    <2> QED
        BY <1>1, <1>3, <2>1, PrefixElements DEF IsStrictPrefix
<1> DEFINE least == Min({Len(s), Len(t)})
<1>4. least \in {Len(s), Len(t)} /\ least <= Len(s) /\ least <= Len(t)
    <2>1. {Len(s), Len(t)} \in SUBSET Nat /\ {Len(s), Len(t)} # {}
        BY <1>1
    <2> QED
        BY <2>1, MinIsLeast
<1> HIDE DEF least
<1>5. ASSUME NEW i \in 1..least, s[i] < t[i], \A j \in 1..(i - 1) : s[j] = t[j]
      PROVE  PrecedesAt(s, t, i - 1)
    <2>1. least \in Nat
        BY <1>1, <1>4
    <2>2. i - 1 \in Nat /\ i - 1 < Len(s) /\ i - 1 < Len(t) /\ (i - 1) + 1 = i
        BY <1>1, <1>4, <2>1
    <2> QED
        BY <1>1, <1>5, <2>2 DEF PrecedesAt
<1>6. ASSUME NEW n, PrecedesAt(s, t, n), n < Len(s), n < Len(t), s[n + 1] < t[n + 1]
      PROVE  \E i \in 1..least : s[i] < t[i] /\ \A j \in 1..(i - 1) : s[j] = t[j]
    <2>1. n + 1 \in 1..least /\ (n + 1) - 1 = n
        BY <1>1, <1>4, <1>6 DEF PrecedesAt
    <2>2. \A j \in 1..n : s[j] = t[j]
        BY <1>6 DEF PrecedesAt
    <2>3. PICK i \in 1..least : i = n + 1
        BY <2>1
    <2>4. \A j \in 1..(i - 1) : s[j] = t[j]
        BY <2>1, <2>2, <2>3
    <2> QED
        BY <1>6, <2>3, <2>4
<1>7. Precedes(s, t) <=>
          \/ IsStrictPrefix(s, t)
          \/ \E i \in 1..least : s[i] < t[i] /\ \A j \in 1..(i - 1) : s[j] = t[j]
    BY DEF Precedes, least
<1> QED
    BY <1>2, <1>3, <1>5, <1>6, <1>7 DEF PrecedesAt

\* A strict total order.
LEMMA PrecedesIsIrreflexive ==
    ASSUME NEW s \in Strings
    PROVE  ~Precedes(s, s)
<1>1. Len(s) \in Nat /\ \A i \in 1..Len(s) : s[i] \in Nat
    BY DEF Strings
<1> SUFFICES ASSUME NEW n, PrecedesAt(s, s, n)
             PROVE  FALSE
    BY PrecedesHasPlace
<1>2. n \in Nat /\ n < Len(s) /\ s[n + 1] < s[n + 1]
    BY <1>1 DEF PrecedesAt
<1>3. n + 1 \in 1..Len(s)
    BY <1>1, <1>2
<1> QED
    BY <1>1, <1>2, <1>3

LEMMA PrecedesIsTransitive ==
    ASSUME NEW s \in Strings, NEW t \in Strings, NEW u \in Strings,
           Precedes(s, t), Precedes(t, u)
    PROVE  Precedes(s, u)
<1>1. PICK n, k : PrecedesAt(s, t, n) /\ PrecedesAt(t, u, k)
    BY PrecedesHasPlace
<1>2. /\ Len(s) \in Nat /\ Len(t) \in Nat /\ Len(u) \in Nat
      /\ \A i \in 1..Len(s) : s[i] \in Nat
      /\ \A i \in 1..Len(t) : t[i] \in Nat
      /\ \A i \in 1..Len(u) : u[i] \in Nat
    BY DEF Strings
<1>3. n \in Nat /\ k \in Nat
    BY <1>1 DEF PrecedesAt
<1>4. CASE n < k
    <2>1. n + 1 \in 1..k /\ \A i \in 1..n : i \in 1..k
        BY <1>3, <1>4
    <2>2. PrecedesAt(s, u, n)
        BY <1>1, <1>2, <1>3, <1>4, <2>1 DEF PrecedesAt
    <2> QED
        BY <2>2, PrecedesHasPlace
<1>5. CASE n = k
    <2>1. PrecedesAt(s, u, n)
        <3>1. n < Len(t) /\ n < Len(u) /\ t[n + 1] < u[n + 1]
            BY <1>1, <1>2, <1>5 DEF PrecedesAt
        <3>2. CASE n = Len(s)
            BY <1>1, <1>2, <1>5, <3>1, <3>2 DEF PrecedesAt
        <3>3. CASE n < Len(s) /\ s[n + 1] < t[n + 1]
            <4>1. n + 1 \in 1..Len(s) /\ n + 1 \in 1..Len(t) /\ n + 1 \in 1..Len(u)
                BY <1>2, <1>3, <3>1, <3>3
            <4>2. s[n + 1] < u[n + 1]
                BY <1>2, <3>1, <3>3, <4>1
            <4>3. \A i \in 1..n : s[i] = u[i]
                BY <1>1, <1>5 DEF PrecedesAt
            <4> QED
                BY <1>2, <1>3, <3>1, <3>3, <4>2, <4>3 DEF PrecedesAt
        <3> QED
            BY <1>1, <3>2, <3>3 DEF PrecedesAt
    <2> QED
        BY <2>1, PrecedesHasPlace
<1>6. CASE k < n
    <2>1. k + 1 \in 1..n /\ \A i \in 1..k : i \in 1..n
        BY <1>3, <1>6
    <2>2. PrecedesAt(s, u, k)
        <3>1. k < Len(s) /\ k < Len(t)
            BY <1>1, <1>2, <1>3, <1>6 DEF PrecedesAt
        <3>2. k < Len(u) /\ t[k + 1] < u[k + 1] /\ s[k + 1] = t[k + 1]
            BY <1>1, <1>2, <2>1, <3>1 DEF PrecedesAt
        <3>3. \A i \in 1..k : s[i] = u[i]
            BY <1>1, <2>1 DEF PrecedesAt
        <3> QED
            BY <1>2, <1>3, <3>1, <3>2, <3>3 DEF PrecedesAt
    <2> QED
        BY <2>2, PrecedesHasPlace
<1> QED
    BY <1>3, <1>4, <1>5, <1>6

LEMMA PrecedesIsTotal ==
    ASSUME NEW s \in Strings, NEW t \in Strings, s # t
    PROVE  Precedes(s, t) \/ Precedes(t, s)
<1>1. /\ Len(s) \in Nat /\ Len(t) \in Nat
      /\ \A i \in 1..Len(s) : s[i] \in Nat
      /\ \A i \in 1..Len(t) : t[i] \in Nat
    BY DEF Strings
<1> DEFINE D == {i \in Nat \ {0} : i <= Len(s) /\ i <= Len(t) /\ s[i] # t[i]}
<1>2. CASE D = {}
    <2>1. CASE Len(s) < Len(t)
        <3>1. PrecedesAt(s, t, Len(s))
            BY <1>1, <1>2, <2>1 DEF PrecedesAt
        <3> QED
            BY <3>1, PrecedesHasPlace
    <2>2. CASE Len(t) < Len(s)
        <3>1. PrecedesAt(t, s, Len(t))
            BY <1>1, <1>2, <2>2 DEF PrecedesAt
        <3> QED
            BY <3>1, PrecedesHasPlace
    <2>3. CASE Len(s) = Len(t)
        <3>1. \A i \in 1..Len(s) : s[i] = t[i]
            BY <1>1, <1>2, <2>3
        <3> QED
            BY <2>3, <3>1, StringsEqual
    <2> QED
        BY <1>1, <2>1, <2>2, <2>3
<1>3. CASE D # {}
    <2>1. PICK d \in D : \A e \in D : d <= e
        BY <1>3, LeastNatural
    <2>2. d \in Nat /\ d - 1 \in Nat /\ (d - 1) + 1 = d /\ d - 1 < Len(s) /\ d - 1 < Len(t)
        BY <1>1
    <2>3. \A i \in 1..(d - 1) : s[i] = t[i]
        BY <1>1, <2>1
    <2>4. s[d] < t[d] \/ t[d] < s[d]
        <3>1. d \in 1..Len(s) /\ d \in 1..Len(t) /\ s[d] # t[d]
            BY <1>1
        <3> QED
            BY <1>1, <3>1
    <2>5. PrecedesAt(s, t, d - 1) \/ PrecedesAt(t, s, d - 1)
        BY <1>1, <2>2, <2>3, <2>4 DEF PrecedesAt
    <2> QED
        BY <2>5, PrecedesHasPlace
<1> QED
    BY <1>2, <1>3

\* Each finite set of byte strings has a first and a last one.
LEMMA FirstString ==
    ASSUME NEW S, IsFiniteSet(S), S \subseteq Strings, S # {}
    PROVE  \E m \in S : \A e \in S \ {m} : Precedes(m, e)
<1> DEFINE G == {s \in SUBSET S : s = {} \/ \E m \in s : \A e \in s \ {m} : Precedes(m, e)}
<1>1. {} \in G
    OBVIOUS
<1>2. ASSUME NEW s \in SUBSET S, NEW x \in S \ s, s \in G
      PROVE  s \cup {x} \in G
    <2>1. CASE s = {}
        BY <2>1
    <2>2. CASE s # {}
        <3>1. PICK m \in s : \A e \in s \ {m} : Precedes(m, e)
            BY <1>2, <2>2
        <3>2. m \in Strings /\ x \in Strings /\ m # x
            OBVIOUS
        <3>3. CASE Precedes(m, x)
            <4>1. \A e \in (s \cup {x}) \ {m} : Precedes(m, e)
                BY <3>1, <3>3
            <4> QED
                BY <4>1
        <3>4. CASE Precedes(x, m)
            <4>1. ASSUME NEW e \in (s \cup {x}) \ {x}
                  PROVE  Precedes(x, e)
                <5>1. e = m \/ Precedes(m, e)
                    BY <3>1
                <5> QED
                    BY <3>2, <3>4, <5>1, PrecedesIsTransitive
            <4> QED
                BY <4>1
        <3> QED
            BY <3>2, <3>3, <3>4, PrecedesIsTotal
    <2> QED
        BY <2>1, <2>2
<1>3. S \in G
    <2> HIDE DEF G
    <2> QED
        BY <1>1, <1>2, SubsetInduction
<1> QED
    BY <1>3

LEMMA LastString ==
    ASSUME NEW S, IsFiniteSet(S), S \subseteq Strings, S # {}
    PROVE  \E m \in S : \A e \in S \ {m} : Precedes(e, m)
<1> DEFINE G == {s \in SUBSET S : s = {} \/ \E m \in s : \A e \in s \ {m} : Precedes(e, m)}
<1>1. {} \in G
    OBVIOUS
<1>2. ASSUME NEW s \in SUBSET S, NEW x \in S \ s, s \in G
      PROVE  s \cup {x} \in G
    <2>1. CASE s = {}
        BY <2>1
    <2>2. CASE s # {}
        <3>1. PICK m \in s : \A e \in s \ {m} : Precedes(e, m)
            BY <1>2, <2>2
        <3>2. m \in Strings /\ x \in Strings /\ m # x
            OBVIOUS
        <3>3. CASE Precedes(x, m)
            <4>1. \A e \in (s \cup {x}) \ {m} : Precedes(e, m)
                BY <3>1, <3>3
            <4> QED
                BY <4>1
        <3>4. CASE Precedes(m, x)
            <4>1. ASSUME NEW e \in (s \cup {x}) \ {x}
                  PROVE  Precedes(e, x)
                <5>1. e = m \/ Precedes(e, m)
                    BY <3>1
                <5> QED
                    BY <3>2, <3>4, <5>1, PrecedesIsTransitive
            <4> QED
                BY <4>1
        <3> QED
            BY <3>2, <3>3, <3>4, PrecedesIsTotal
    <2> QED
        BY <2>1, <2>2
<1>3. S \in G
    <2> HIDE DEF G
    <2> QED
        BY <1>1, <1>2, SubsetInduction
<1> QED
    BY <1>3

LEMMA FiniteMax ==
    ASSUME NEW S \in SUBSET Nat, IsFiniteSet(S), S # {}
    PROVE  Max(S) \in S /\ \A e \in S : e <= Max(S)
<1> DEFINE G == {s \in SUBSET S : s = {} \/ \E m \in s : \A e \in s : m >= e}
<1>1. {} \in G
    OBVIOUS
<1>2. ASSUME NEW s \in SUBSET S, NEW x \in S \ s, s \in G
      PROVE  s \cup {x} \in G
    <2>1. CASE s = {}
        BY <2>1
    <2>2. CASE s # {}
        <3>1. PICK m \in s : \A e \in s : m >= e
            BY <1>2, <2>2
        <3>2. m \in Nat /\ x \in Nat /\ \A e \in s : e \in Nat
            OBVIOUS
        <3>3. CASE m >= x
            BY <3>1, <3>3
        <3>4. CASE x >= m
            <4>1. \A e \in s \cup {x} : x >= e
                BY <3>1, <3>2, <3>4
            <4> QED
                BY <4>1
        <3> QED
            BY <3>2, <3>3, <3>4
    <2> QED
        BY <2>1, <2>2
<1>3. S \in G
    <2> HIDE DEF G
    <2> QED
        BY <1>1, <1>2, SubsetInduction
<1>4. \E m \in S : \A e \in S : m >= e
    BY <1>3
<1>5. Max(S) \in S /\ \A e \in S : Max(S) >= e
    BY <1>4, Zenon DEF Max
<1> QED
    BY <1>5

-----------------------------------------------------------------------------
(***************************************************************************)
(* The block buffer of a key: the entries one behind the other.            *)
(***************************************************************************)

LEMMA DictionaryFacts ==
    ASSUME dictionary \in Dictionaries
    PROVE  /\ IsFiniteSet(DOMAIN dictionary)
           /\ \A m \in DOMAIN dictionary : m \in Strings /\ dictionary[m] \in Nat \ {0}
<1>1. \A m \in DOMAIN dictionary : m \in Seq(0..255 \ {Space})
    BY CreatorAssumption
<1>2. Seq(0..255 \ {Space}) \subseteq Strings
    <2>1. 0..255 \ {Space} \subseteq Nat
        OBVIOUS
    <2> QED
        BY ONLY <2>1, BytesAreStrings
<1> QED
    BY <1>1, <1>2, CreatorAssumption

LEMMA BlockMapFacts ==
    ASSUME dictionary \in Dictionaries, block_map = CreateBlockMap, NEW key
    PROVE  /\ IsFiniteSet(Entries(key)) /\ Entries(key) \subseteq Strings
           /\ \A m \in Entries(key) : block_map[m] \in Nat /\ dictionary[m] \in Nat \ {0}
           /\ \A e, m \in Entries(key) :
                 Precedes(e, m) => block_map[e] + dictionary[e] <= block_map[m]
           /\ \A m \in Entries(key) :
                 \/ block_map[m] = 0
                 \/ \E e \in Entries(key) : block_map[e] + dictionary[e] = block_map[m]
           /\ \A e, m \in Entries(key) :
                 Precedes(e, m) =>
                     \E f \in Entries(key) : block_map[f] = block_map[e] + dictionary[e]
           /\ Entries(key) # {} => \E m \in Entries(key) : block_map[m] = 0
<1> DEFINE E == Entries(key)
           Below(m) == {e \in E : Precedes(e, m)}
<1>1. /\ E \subseteq DOMAIN dictionary /\ IsFiniteSet(E) /\ E \subseteq Strings
      /\ \A m \in E : dictionary[m] \in Nat \ {0}
    BY DictionaryFacts, FS_Subset DEF Entries
<1>2. \A m \in E : block_map[m] = TotalLength(Below(m))
    BY DEF CreateBlockMap, Entries
<1> HIDE DEF E
<1>3. /\ TotalLength({}) = 0
      /\ \A T \in SUBSET E : TotalLength(T) \in Nat
      /\ \A T \in SUBSET E : \A x \in E \ T :
            TotalLength(T \cup {x}) = TotalLength(T) + dictionary[x]
      /\ \A T \in SUBSET E : \A U \in SUBSET T : TotalLength(U) <= TotalLength(T)
    BY <1>1, TotalFacts
<1>4. \A m \in E : Below(m) \in SUBSET E /\ block_map[m] \in Nat
    BY <1>2, <1>3
<1>5. ASSUME NEW e \in E
      PROVE  e \in E \ Below(e) /\ TotalLength(Below(e) \cup {e}) = block_map[e] + dictionary[e]
    <2>1. e \in E \ Below(e)
        BY <1>1, PrecedesIsIrreflexive
    <2> QED
        BY <1>2, <1>3, <2>1
<1>6. ASSUME NEW e \in E, NEW m \in E, Precedes(e, m)
      PROVE  block_map[e] + dictionary[e] <= block_map[m]
    <2>1. Below(e) \cup {e} \in SUBSET Below(m)
        BY <1>1, <1>6, PrecedesIsTransitive
    <2> QED
        BY <1>2, <1>3, <1>4, <1>5, <2>1
<1>7. ASSUME NEW m \in E, Below(m) # {}
      PROVE  \E e \in E : block_map[e] + dictionary[e] = block_map[m]
    <2>1. IsFiniteSet(Below(m)) /\ Below(m) \subseteq Strings
        BY <1>1, FS_Subset
    <2>2. PICK e \in Below(m) : \A f \in Below(m) \ {e} : Precedes(f, e)
        <3> HIDE DEF Below
        <3> QED
            BY <1>7, <2>1, LastString
    <2>3. Below(e) \cup {e} = Below(m)
        BY <1>1, <2>2, PrecedesIsTransitive
    <2> QED
        BY <1>2, <1>5, <2>3
<1>8. ASSUME NEW e \in E, NEW m \in E, Precedes(e, m)
      PROVE  \E f \in E : block_map[f] = block_map[e] + dictionary[e]
    <2> DEFINE Above == {f \in E : Precedes(e, f)}
    <2>1. IsFiniteSet(Above) /\ Above \subseteq Strings /\ Above # {}
        BY <1>1, <1>8, FS_Subset
    <2>2. PICK f \in Above : \A g \in Above \ {f} : Precedes(f, g)
        <3> HIDE DEF Above
        <3> QED
            BY <2>1, FirstString
    <2>3. ASSUME NEW g \in E, Precedes(g, f)
          PROVE  g = e \/ Precedes(g, e)
        <3> SUFFICES ASSUME Precedes(e, g)
                     PROVE  FALSE
            BY <1>1, PrecedesIsTotal
        <3>1. g # f /\ Precedes(f, g)
            BY <1>1, <2>2, <2>3, PrecedesIsIrreflexive
        <3> QED
            BY <1>1, <2>3, <3>1, PrecedesIsTransitive, PrecedesIsIrreflexive
    <2>4. Below(f) = Below(e) \cup {e}
        BY <1>1, <2>3, PrecedesIsTransitive
    <2> QED
        BY <1>2, <1>5, <2>4
<1>9. ASSUME E # {}
      PROVE  \E m \in E : block_map[m] = 0
    <2>1. PICK m \in E : \A e \in E \ {m} : Precedes(m, e)
        BY <1>1, <1>9, FirstString
    <2>2. Below(m) = {}
        BY <1>1, <2>1, PrecedesIsTransitive, PrecedesIsIrreflexive
    <2> QED
        BY <1>2, <1>3, <2>2
<1>10. \A m \in E : block_map[m] = 0 \/ \E e \in E : block_map[e] + dictionary[e] = block_map[m]
    BY <1>2, <1>3, <1>7
<1> HIDE DEF Below
<1> QED
    BY <1>1, <1>4, <1>6, <1>8, <1>9, <1>10 DEF E

\* The line feeds of the buffer: each but the last one stands in front of an entry, and
\* each entry has one in front and one behind.
LEMMA LineFeedFacts ==
    ASSUME dictionary \in Dictionaries, block_map = CreateBlockMap, NEW key, Entries(key) # {}
    PROVE  /\ LineFeeds(key) \in SUBSET Nat /\ IsFiniteSet(LineFeeds(key)) /\ 0 \in LineFeeds(key)
           /\ Max(LineFeeds(key)) \in LineFeeds(key) /\ Max(LineFeeds(key)) > 0
           /\ BufferLength(key) \in Nat /\ BufferLength(key) = 1 + Max(LineFeeds(key))
           /\ \A p \in LineFeeds(key) : p <= Max(LineFeeds(key))
           /\ \A p \in LineFeeds(key) :
                 p < Max(LineFeeds(key)) => \E m \in Entries(key) : block_map[m] = p
           /\ \A m \in Entries(key) :
                 /\ block_map[m] \in LineFeeds(key)
                 /\ dictionary[m] \in Nat \ {0}
                 /\ block_map[m] + dictionary[m] \in LineFeeds(key)
<1> DEFINE E == Entries(key)
           ends == {block_map[m] + dictionary[m] : m \in E}
           last == Max(LineFeeds(key))
<1>1. LineFeeds(key) = {0} \cup ends
    BY DEF LineFeeds
<1>2. /\ IsFiniteSet(E) /\ E \subseteq Strings /\ E # {}
      /\ \A m \in E : block_map[m] \in Nat /\ dictionary[m] \in Nat \ {0}
      /\ \A e, m \in E : Precedes(e, m) => block_map[e] + dictionary[e] <= block_map[m]
      /\ \A m \in E : block_map[m] = 0
                      \/ \E e \in E : block_map[e] + dictionary[e] = block_map[m]
      /\ \A e, m \in E :
            Precedes(e, m) => \E f \in E : block_map[f] = block_map[e] + dictionary[e]
      /\ \E m \in E : block_map[m] = 0
    BY BlockMapFacts
<1>3. IsFiniteSet(ends)
    <2> DEFINE end == [m \in E |-> block_map[m] + dictionary[m]]
    <2>1. end \in Surjection(E, ends)
        BY DEF Surjection
    <2> QED
        BY <1>2, <2>1, FS_Surjection
<1>4. LineFeeds(key) \in SUBSET Nat /\ 0 \in LineFeeds(key) /\ IsFiniteSet(LineFeeds(key))
    <2>1. IsFiniteSet({0}) /\ ends \in SUBSET Nat
        <3>1. IsFiniteSet({0})
            BY ONLY FS_Singleton
        <3>2. \A m \in E : block_map[m] + dictionary[m] \in Nat
            BY ONLY <1>2
        <3> QED
            BY ONLY <3>1, <3>2
    <2>2. IsFiniteSet({0} \cup ends)
        <3> HIDE DEF ends
        <3> QED
            BY ONLY <1>3, <2>1, FS_Union
    <2> QED
        BY <1>1, <2>1, <2>2
<1>5. last \in LineFeeds(key) /\ \A p \in LineFeeds(key) : p <= last
    BY <1>4, FiniteMax
<1>6. ASSUME NEW m \in E
      PROVE  /\ block_map[m] \in LineFeeds(key)
             /\ block_map[m] + dictionary[m] \in LineFeeds(key)
             /\ block_map[m] + dictionary[m] > 0
    BY <1>1, <1>2
<1>7. last > 0
    <2>1. PICK m \in E : TRUE
        BY <1>2
    <2>2. block_map[m] + dictionary[m] <= last /\ block_map[m] + dictionary[m] > 0
        BY <1>5, <1>6
    <2> QED
        BY <1>2, <1>4, <1>5, <2>1, <2>2
<1>8. ASSUME NEW p \in LineFeeds(key), p < last
      PROVE  \E m \in E : block_map[m] = p
    <2>1. CASE p = 0
        BY <1>2, <2>1
    <2>2. CASE p \in ends
        <3>1. PICK e \in E : p = block_map[e] + dictionary[e]
            BY <2>2
        <3>2. CASE \E m \in E : Precedes(e, m)
            BY <1>2, <3>1, <3>2
        <3>3. CASE \A m \in E : ~Precedes(e, m)
            <4>1. \A m \in E : m = e \/ Precedes(m, e)
                BY <1>2, <3>3, PrecedesIsTotal
            <4>2. \A m \in E : block_map[m] + dictionary[m] <= block_map[e] + dictionary[e]
                BY <1>2, <4>1
            <4>3. \A q \in LineFeeds(key) : q <= p
                BY <1>1, <1>4, <3>1, <4>2
            <4> QED
                BY <1>4, <1>5, <1>8, <4>3
        <3> QED
            BY <3>2, <3>3
    <2> QED
        BY <1>1, <2>1, <2>2
<1>9. BufferLength(key) = 1 + last /\ BufferLength(key) \in Nat
    BY <1>4, <1>5 DEF BufferLength
<1> QED
    BY <1>2, <1>4, <1>5, <1>6, <1>7, <1>8, <1>9

LEMMA LastLineFeedFacts ==
    ASSUME dictionary \in Dictionaries, block_map = CreateBlockMap, NEW key, Entries(key) # {},
           NEW limit \in Nat, NEW q \in LineFeeds(key), q < limit
    PROVE  /\ LastLineFeed(key, limit) \in LineFeeds(key)
           /\ LastLineFeed(key, limit) < limit /\ q <= LastLineFeed(key, limit)
           /\ \A p \in LineFeeds(key) : p < limit => p <= LastLineFeed(key, limit)
<1> DEFINE below == {p \in LineFeeds(key) : p < limit}
<1>1. below \in SUBSET Nat /\ IsFiniteSet(below) /\ below # {}
    BY LineFeedFacts, FS_Subset
<1>2. LastLineFeed(key, limit) = Max(below)
    BY DEF LastLineFeed
<1> QED
    BY <1>1, <1>2, FiniteMax

\* Whatever order the midashi have, no entry is longer than the longest.
LEMMA MaxEntryFacts ==
    ASSUME dictionary \in Dictionaries, NEW key, Entries(key) # {}
    PROVE  /\ MaxEntryLength(key) \in Nat
           /\ \A m \in Entries(key) : dictionary[m] + 1 <= MaxEntryLength(key)
<1> DEFINE lengths == {dictionary[m] + 1 : m \in Entries(key)}
           length == [m \in Entries(key) |-> dictionary[m] + 1]
<1>1. IsFiniteSet(Entries(key)) /\ \A m \in Entries(key) : dictionary[m] \in Nat \ {0}
    BY DictionaryFacts, FS_Subset DEF Entries
<1>2. length \in Surjection(Entries(key), lengths)
    BY DEF Surjection
<1>3. IsFiniteSet(lengths) /\ lengths \in SUBSET Nat /\ lengths # {}
    BY <1>1, <1>2, FS_Surjection
<1>4. Max(lengths) \in lengths /\ \A e \in lengths : e <= Max(lengths)
    BY <1>3, FiniteMax
<1> QED
    BY <1>3, <1>4 DEF MaxEntryLength

-----------------------------------------------------------------------------
(***************************************************************************)
(* The keys of a dictionary.                                               *)
(***************************************************************************)

Keys == {MidashiKey(m) : m \in DOMAIN dictionary}

LEMMA KeysFacts ==
    ASSUME dictionary \in Dictionaries
    PROVE  IsFiniteSet(Keys) /\ Keys \subseteq Strings
<1>1. \A m \in DOMAIN dictionary : MidashiKey(m) \in Seq(0..255)
    <2>1. \A m \in DOMAIN dictionary :
             /\ m # <<>> /\ m \in Seq(0..255 \ {Space})
             /\ StartsWhole(m) /\ MidashiKey(m) # NoKey
        BY CreatorAssumption
    <2> QED
        BY <2>1, MidashiKeyFacts
<1>2. Seq(0..255) \subseteq Strings
    <2>1. 0..255 \subseteq Nat
        OBVIOUS
    <2> QED
        BY ONLY <2>1, BytesAreStrings
<1>3. [m \in DOMAIN dictionary |-> MidashiKey(m)] \in Surjection(DOMAIN dictionary, Keys)
    BY DEF Surjection, Keys
<1>4. IsFiniteSet(Keys)
    BY <1>3, DictionaryFacts, FS_Surjection
<1> QED
    BY <1>1, <1>2, <1>4 DEF Keys

LEMMA KeyFacts ==
    ASSUME dictionary \in Dictionaries, keys_left \subseteq Keys, keys_left # {}
    PROVE  Key \in keys_left /\ Entries(Key) # {}
<1>1. IsFiniteSet(keys_left) /\ keys_left \subseteq Strings
    BY KeysFacts, FS_Subset
<1>2. \E k \in keys_left : \A other \in keys_left \ {k} : Precedes(k, other)
    BY <1>1, FirstString
<1>3. Key \in keys_left
    BY <1>2, Zenon DEF Key
<1>4. PICK m \in DOMAIN dictionary : MidashiKey(m) = Key
    BY <1>3 DEF Keys
<1> QED
    BY <1>3, <1>4 DEF Entries

\* A key is being cut into blocks, or its blocks are about to be put into the index.
AtKey ==
    /\ dictionary \in Dictionaries /\ block_map = CreateBlockMap
    /\ keys_left \subseteq Keys /\ keys_left # {}
    /\ offset \in LineFeeds(Key)

LEMMA ShortHeadFits ==
    ASSUME AtKey, NEW m \in HeadsAt(offset), ~IsLong(m)
    PROVE  ~NothingFits
<1>1. Entries(Key) # {} /\ m \in Entries(Key) /\ block_map[m] = offset
    BY KeyFacts DEF AtKey, HeadsAt
<1> DEFINE last == Max(LineFeeds(Key))
           end == offset + dictionary[m]
<1>2. /\ LineFeeds(Key) \in SUBSET Nat /\ offset \in Nat /\ end \in LineFeeds(Key)
      /\ dictionary[m] \in Nat \ {0} /\ last \in Nat /\ end <= last
      /\ BufferLength(Key) = 1 + last
    BY <1>1, LineFeedFacts DEF AtKey
<1>3. UnitLength \in Nat /\ dictionary[m] + 1 <= UnitLength
    BY <1>2, CreatorAssumption DEF IsLong
<1> HIDE DEF last
<1>4. offset + FirstLength \in Nat /\ end < offset + FirstLength
    BY <1>2, <1>3 DEF FirstLength, EndIsNear
<1>5. end <= LastLineFeed(Key, offset + FirstLength)
    <2> HIDE DEF end
    <2> QED
        BY <1>1, <1>2, <1>4, LastLineFeedFacts DEF AtKey
<1> QED
    BY <1>2, <1>5 DEF NothingFits

LEMMA CutFacts ==
    ASSUME AtKey, NEW m \in HeadsAt(offset), offset + CutLength <= BufferLength(Key)
    PROVE  /\ NextOffset \in LineFeeds(Key) /\ offset < NextOffset
           /\ NextOffset <= Max(LineFeeds(Key))
           /\ IsLastBlock => NextOffset = Max(LineFeeds(Key))
           /\ ~IsLastBlock => NextOffset < Max(LineFeeds(Key)) \/ IsLong(m)
           /\ NextOffset + 1 - offset > UnitLength =>
                 IsLong(m) /\ NextOffset + 1 - offset <= MaxEntryLength(Key)
<1> DEFINE last == Max(LineFeeds(Key))
           end == offset + dictionary[m]
<1>1. Entries(Key) # {} /\ m \in Entries(Key) /\ block_map[m] = offset
    BY KeyFacts DEF AtKey, HeadsAt
<1>2. /\ LineFeeds(Key) \in SUBSET Nat /\ offset \in Nat /\ end \in LineFeeds(Key)
      /\ dictionary[m] \in Nat \ {0} /\ last \in LineFeeds(Key) /\ last \in Nat /\ end \in Nat
      /\ \A p \in LineFeeds(Key) : p <= last
      /\ BufferLength(Key) = 1 + last /\ offset < end /\ UnitLength \in Nat
    BY <1>1, LineFeedFacts, CreatorAssumption DEF AtKey
<1>3. MaxEntryLength(Key) \in Nat /\ dictionary[m] + 1 <= MaxEntryLength(Key)
    BY <1>1, MaxEntryFacts DEF AtKey
<1> HIDE DEF last
<1>4. FirstLength <= UnitLength /\ FirstLength \in Int
      /\ (EndIsNear => offset + FirstLength = BufferLength(Key))
      /\ (~EndIsNear => offset + FirstLength = offset + UnitLength
                        /\ offset + UnitLength < BufferLength(Key))
    BY <1>2 DEF FirstLength, EndIsNear
<1>5. ASSUME NEW limit \in Nat, NEW q \in LineFeeds(Key), q < limit
      PROVE  /\ LastLineFeed(Key, limit) \in LineFeeds(Key)
             /\ LastLineFeed(Key, limit) < limit /\ q <= LastLineFeed(Key, limit)
             /\ \A p \in LineFeeds(Key) : p < limit => p <= LastLineFeed(Key, limit)
    BY <1>1, <1>5, LastLineFeedFacts DEF AtKey
<1>6. CASE NothingFits
    <2>1. CutLength = MaxEntryLength(Key) /\ IsLong(m)
        BY <1>6, ShortHeadFits DEF CutLength
    <2>2. offset + CutLength \in Nat /\ end < offset + CutLength
        BY <1>2, <1>3, <2>1
    <2> HIDE DEF end
    <2>3. /\ NextOffset \in LineFeeds(Key) /\ NextOffset < offset + CutLength /\ end <= NextOffset
          /\ \A p \in LineFeeds(Key) : p < offset + CutLength => p <= NextOffset
        BY <1>2, <1>5, <2>2 DEF NextOffset
    <2>4. ~EndIsNear
        <3> SUFFICES ASSUME EndIsNear
                     PROVE  FALSE
            OBVIOUS
        <3>1. offset + FirstLength = 1 + last
            BY <1>2, <1>4
        <3>2. end <= LastLineFeed(Key, 1 + last)
            BY <1>2, <1>5
        <3> QED
            BY <1>2, <1>6, <3>1, <3>2 DEF NothingFits
    <2>5. IsLastBlock => offset + CutLength = 1 + last
        <3> SUFFICES ASSUME IsLastBlock
                     PROVE  offset + CutLength = 1 + last
            OBVIOUS
        <3>1. BufferLength(Key) = CutLength
            BY <2>4 DEF IsLastBlock
        <3> QED
            BY <1>2, <3>1
    <2>6. IsLastBlock => NextOffset = last
        BY <1>2, <2>3, <2>5
    <2>7. NextOffset + 1 - offset <= MaxEntryLength(Key)
        BY <1>2, <1>3, <2>1, <2>3
    <2> QED
        BY <1>2, <2>1, <2>3, <2>6, <2>7 DEF last
<1>7. CASE ~NothingFits
    <2>1. CutLength = FirstLength
        BY <1>7 DEF CutLength
    <2>2. offset + CutLength \in Nat /\ offset < offset + CutLength
        BY <1>2, <1>4, <2>1, CreatorAssumption
    <2>3. offset \in LineFeeds(Key)
        BY DEF AtKey
    <2>4. /\ NextOffset \in LineFeeds(Key) /\ NextOffset < offset + CutLength
          /\ offset <= NextOffset
          /\ \A p \in LineFeeds(Key) : p < offset + CutLength => p <= NextOffset
        BY <1>5, <2>2, <2>3 DEF NextOffset
    <2>5. NextOffset # offset
        BY <1>7, <2>1 DEF NothingFits, NextOffset
    <2>6. IsLastBlock <=> EndIsNear
        BY <1>7 DEF IsLastBlock
    <2>7. IsLastBlock => NextOffset = last
        BY <1>2, <1>4, <2>1, <2>4, <2>6
    <2>8. ~IsLastBlock => NextOffset < last
        BY <1>2, <1>4, <2>1, <2>4, <2>6
    <2>9. NextOffset + 1 - offset <= UnitLength
        BY <1>2, <1>4, <2>1, <2>4
    <2>10. NextOffset \in Nat /\ NextOffset <= last
        BY <1>2, <2>4
    <2> QED
        BY <1>2, <2>4, <2>5, <2>7, <2>8, <2>9, <2>10 DEF last
<1> QED
    BY <1>6, <1>7

-----------------------------------------------------------------------------
(***************************************************************************)
(* The blocks of a key.                                                    *)
(***************************************************************************)

\* Where the block behind the ith starts, or the line feed the last one ends with.
Behind(infos, i, end) == IF i = Len(infos) THEN end ELSE infos[i + 1].offset

\* One block starts with its midashi and ends with the line feed before the next.
IsBlock(info, key, base, behind) ==
    /\ info.midashi \in Entries(key) /\ info.offset = base + block_map[info.midashi]
    /\ info.offset < behind /\ info.length = behind + 1 - info.offset
    /\ behind - base \in LineFeeds(key)
    /\ info.length > UnitLength =>
          IsLong(info.midashi) /\ info.length <= MaxEntryLength(key)

\* The blocks that were cut from the buffer of the key, up to a line feed.
AreBlocks(infos, key, base, end) ==
    /\ infos \in Seq(Information)
    /\ infos = <<>> => end = base
    /\ infos # <<>> => infos[1].offset = base
    /\ \A i \in 1..Len(infos) : IsBlock(infos[i], key, base, Behind(infos, i, end))

LEMMA BlockAppended ==
    ASSUME NEW infos, NEW key, NEW base, NEW end, AreBlocks(infos, key, base, end),
           NEW info \in Information, info.offset = end, NEW behind,
           IsBlock(info, key, base, behind)
    PROVE  AreBlocks(Append(infos, info), key, base, behind)
<1> DEFINE more == Append(infos, info)
           n == Len(infos)
<1>1. infos \in Seq(Information) /\ n \in Nat
    BY DEF AreBlocks
<1>2. /\ more \in Seq(Information) /\ Len(more) = n + 1 /\ more # <<>> /\ more[n + 1] = info
      /\ \A i \in 1..n : more[i] = infos[i]
    BY <1>1
<1> HIDE DEF more
<1>3. more[1].offset = base
    <2>1. CASE infos = <<>>
        <3>1. n = 0 /\ end = base
            BY <2>1 DEF AreBlocks
        <3> QED
            BY <1>2, <3>1
    <2>2. CASE infos # <<>>
        <3>1. 1 \in 1..n /\ infos[1].offset = base
            BY <1>1, <2>2 DEF AreBlocks
        <3> QED
            BY <1>2, <3>1
    <2> QED
        BY <2>1, <2>2
<1>4. ASSUME NEW i \in 1..(n + 1)
      PROVE  IsBlock(more[i], key, base, Behind(more, i, behind))
    <2>1. CASE i = n + 1
        BY <1>2, <2>1 DEF Behind
    <2>2. CASE i \in 1..n
        <3>1. IsBlock(infos[i], key, base, Behind(infos, i, end))
            BY <2>2 DEF AreBlocks
        <3>2. Behind(more, i, behind) = more[i + 1].offset
            BY <1>1, <1>2, <2>2 DEF Behind
        <3>3. more[i + 1].offset = Behind(infos, i, end)
            <4>1. CASE i = n
                BY <1>2, <4>1 DEF Behind
            <4>2. CASE i # n
                <5>1. i + 1 \in 1..n
                    BY <1>1, <2>2, <4>2
                <5> QED
                    BY <1>2, <4>2, <5>1 DEF Behind
            <4> QED
                BY <4>1, <4>2
        <3> QED
            BY <1>2, <2>2, <3>1, <3>2, <3>3
    <2> QED
        BY <1>1, <2>1, <2>2
<1> QED
    BY <1>2, <1>3, <1>4 DEF AreBlocks, more

\* Whole: the blocks reach to the end of the buffer.
AreAllBlocks(infos, key, base) ==
    infos # <<>> /\ AreBlocks(infos, key, base, base + Max(LineFeeds(key)))

LEMMA ReverseFacts ==
    ASSUME NEW T, NEW s \in Seq(T)
    PROVE  /\ Reverse(s) \in Seq(T) /\ Len(Reverse(s)) = Len(s)
           /\ \A i \in 1..Len(s) : Reverse(s)[i] = s[Len(s) + 1 - i]
           /\ Reverse(Reverse(s)) = s
<1> DEFINE n == Len(s)
           r == Reverse(s)
<1>1. n \in Nat /\ \A i \in 1..n : (n - i) + 1 = n + 1 - i /\ n + 1 - i \in 1..n
    OBVIOUS
<1>2. r = [i \in 1..n |-> s[(n - i) + 1]]
    BY DEF Reverse
<1>3. r \in [1..n -> T] /\ \A i \in 1..n : r[i] = s[n + 1 - i]
    <2>1. s \in [1..n -> T]
        OBVIOUS
    <2> HIDE DEF n, r
    <2> QED
        BY <1>1, <1>2, <2>1
<1>4. r \in Seq(T) /\ Len(r) = n
    BY <1>1, <1>3
<1>5. Reverse(r) = s
    <2>1. Reverse(r) = [i \in 1..n |-> r[(n - i) + 1]]
        <3> HIDE DEF n, r
        <3> QED
            BY <1>4 DEF Reverse
    <2>2. \A i \in 1..n : r[(n - i) + 1] = s[i]
        <3> SUFFICES ASSUME NEW i \in 1..n
                     PROVE  r[(n - i) + 1] = s[i]
            OBVIOUS
        <3>1. (n - i) + 1 \in 1..n /\ n + 1 - ((n - i) + 1) = i
            BY <1>1
        <3> HIDE DEF n, r
        <3> QED
            BY <1>3, <3>1
    <2>3. s = [i \in 1..n |-> s[i]]
        OBVIOUS
    <2> HIDE DEF n, r
    <2> QED
        BY <2>1, <2>2, <2>3
<1> QED
    BY <1>3, <1>4, <1>5

\* One turn adds a block.
LEMMA SplitAddsBlock ==
    ASSUME AtKey, blocks_length \in Nat, SplitBlock,
           AreBlocks(informations, Key, blocks_length, blocks_length + offset)
    PROVE  /\ AreBlocks(informations', Key, blocks_length, blocks_length + NextOffset)
           /\ informations' # <<>>
<1>1. HeadsAt(offset) # {} /\ offset + CutLength <= BufferLength(Key)
    BY DEF SplitBlock
<1>2. PICK m \in HeadsAt(offset) : m = CHOOSE head \in HeadsAt(offset) : TRUE
    BY <1>1
<1>3. /\ NextOffset \in LineFeeds(Key) /\ offset < NextOffset
      /\ NextOffset + 1 - offset > UnitLength =>
            IsLong(m) /\ NextOffset + 1 - offset <= MaxEntryLength(Key)
    BY <1>1, CutFacts
<1>4. Entries(Key) # {} /\ m \in Entries(Key) /\ block_map[m] = offset
    BY KeyFacts DEF AtKey, HeadsAt
<1>5. LineFeeds(Key) \in SUBSET Nat /\ offset \in Nat /\ m \in Strings
    BY <1>4, LineFeedFacts, BlockMapFacts DEF AtKey
<1> DEFINE info == [midashi |-> m, offset |-> blocks_length + offset,
                    length |-> NextOffset + 1 - offset]
<1>6. informations' = Append(informations, info)
    BY <1>2 DEF SplitBlock
<1>7. NextOffset \in Nat /\ UnitLength \in Nat
    BY <1>3, <1>5, CreatorAssumption
<1>8. info \in Information
    BY <1>3, <1>5, <1>7 DEF Information
<1>9. IsBlock(info, Key, blocks_length, blocks_length + NextOffset)
    BY <1>3, <1>4, <1>5, <1>7 DEF IsBlock
<1>10. info.offset = blocks_length + offset
    OBVIOUS
<1> HIDE DEF info
<1>11. AreBlocks(Append(informations, info), Key, blocks_length, blocks_length + NextOffset)
    BY <1>8, <1>9, <1>10, BlockAppended
<1>12. Append(informations, info) # <<>>
    <2>1. informations \in Seq(Information)
        BY DEF AreBlocks
    <2>2. Len(Append(informations, info)) = Len(informations) + 1 /\ Len(informations) \in Nat
        BY ONLY <1>8, <2>1
    <2>3. Len(<<>>) = 0
        OBVIOUS
    <2> QED
        BY ONLY <2>2, <2>3
<1> QED
    BY <1>6, <1>11, <1>12

-----------------------------------------------------------------------------
(***************************************************************************)
(* The invariant of the creator.                                           *)
(***************************************************************************)

\* Its blocks reach over the buffer of its key, whose entries are where it was put.
IsUnit(unit) ==
    \E base \in Nat :
       /\ AreAllBlocks(Reverse(unit.informations), unit.key, base)
       /\ \A m \in Entries(unit.key) : m \in DOMAIN blocks /\ blocks[m] = base + block_map[m]

Working == maker \in {"split", "index", "close", "write", "front", "blocks", "hash"}

\* What has been done with the keys that are not left.
IndexIsRight ==
    /\ block_map = CreateBlockMap /\ blocks_length \in Nat
    /\ keys_left \subseteq Keys /\ (keys_left # {} <=> maker \in {"split", "index"})
    /\ index_data \in Seq(UnitRecords)
    /\ \A n \in 1..Len(index_data) : IsUnit(index_data[n])
    /\ \A key \in Keys \ keys_left : \E n \in 1..Len(index_data) : index_data[n].key = key
    /\ DOMAIN blocks = {m \in DOMAIN dictionary : MidashiKey(m) \notin keys_left}

\* The loop goes on up to the end of the buffer, or has met a long entry.
IsCut ==
    /\ offset \in LineFeeds(Key)
    /\ offset < Max(LineFeeds(Key)) \/ \E m \in Entries(Key) : IsLong(m)
    /\ AreBlocks(informations, Key, blocks_length, blocks_length + offset)

CreatorInv ==
    /\ dictionary \in Dictionaries
    /\ Working => IndexIsRight
    /\ maker = "split" => IsCut
    /\ maker = "index" => offset \in LineFeeds(Key)
                          /\ AreAllBlocks(informations, Key, blocks_length)
    /\ OnlyLongEntriesFail

\* The definitions above depend on the jisyo and the map of its entries only.
LEMMA SameBuffers ==
    ASSUME UNCHANGED <<dictionary, block_map>>
    PROVE  /\ Keys' = Keys /\ CreateBlockMap' = CreateBlockMap
           /\ \A key : LineFeeds(key)' = LineFeeds(key) /\ Entries(key)' = Entries(key)
           /\ \A infos, key, base, end :
                 AreBlocks(infos, key, base, end)' <=> AreBlocks(infos, key, base, end)
           /\ \A infos, key, base :
                 AreAllBlocks(infos, key, base)' <=> AreAllBlocks(infos, key, base)
           /\ \A m : IsLong(m)' <=> IsLong(m)
<1>1. Keys' = Keys
    BY DEF Keys
<1>2. \A key : Entries(key)' = Entries(key)
    BY DEF Entries
<1>3. \A key : LineFeeds(key)' = LineFeeds(key)
    BY <1>2 DEF LineFeeds
<1>4. CreateBlockMap' = CreateBlockMap
    <2>1. \A S : TotalLength(S)' = TotalLength(S)
        BY DEF TotalLength, MapThenSumSet, MapThenFoldSet
    <2> QED
        BY <1>2, <2>1 DEF CreateBlockMap
<1>5. \A m : IsLong(m)' <=> IsLong(m)
    BY DEF IsLong
<1>6. \A key : MaxEntryLength(key)' = MaxEntryLength(key)
    BY <1>2 DEF MaxEntryLength
<1>7. \A info, key, base, behind :
         IsBlock(info, key, base, behind)' <=> IsBlock(info, key, base, behind)
    BY <1>2, <1>3, <1>5, <1>6 DEF IsBlock
<1>8. \A infos, key, base, end :
         AreBlocks(infos, key, base, end)' <=> AreBlocks(infos, key, base, end)
    BY <1>7 DEF AreBlocks
<1>9. \A infos, key, base :
         AreAllBlocks(infos, key, base)' <=> AreAllBlocks(infos, key, base)
    BY <1>3, <1>8 DEF AreAllBlocks
<1> QED
    BY <1>1, <1>2, <1>3, <1>4, <1>5, <1>8, <1>9

\* Other steps leave the index and the place of the entries alone.
LEMMA IndexIsKept ==
    ASSUME IndexIsRight, maker' \in {"split", "index"} <=> maker \in {"split", "index"},
           UNCHANGED <<dictionary, block_map, keys_left, blocks, blocks_length, index_data>>
    PROVE  IndexIsRight'
<1>1. /\ Keys' = Keys /\ CreateBlockMap' = CreateBlockMap
      /\ \A key : Entries(key)' = Entries(key)
      /\ \A infos, key, base :
            AreAllBlocks(infos, key, base)' <=> AreAllBlocks(infos, key, base)
    BY SameBuffers
<1>2. \A unit : IsUnit(unit) => IsUnit(unit)'
    BY <1>1 DEF IsUnit
<1> QED
    BY <1>1, <1>2 DEF IndexIsRight

\* The buffer of a key is not empty, and none of it is cut yet.
AtStart ==
    /\ dictionary \in Dictionaries /\ block_map = CreateBlockMap /\ blocks_length \in Nat
    /\ keys_left \subseteq Keys /\ keys_left # {}
    /\ offset = 0 /\ informations = <<>>

LEMMA StartIsCut ==
    ASSUME AtStart
    PROVE  IsCut
<1>1. Entries(Key) # {}
    BY KeyFacts DEF AtStart
<1>2. 0 \in LineFeeds(Key) /\ Max(LineFeeds(Key)) > 0 /\ Max(LineFeeds(Key)) \in Nat
    BY <1>1, LineFeedFacts DEF AtStart
<1>3. AreBlocks(<<>>, Key, blocks_length, blocks_length + 0)
    BY DEF AreBlocks, AtStart
<1> QED
    BY <1>2, <1>3 DEF IsCut, AtStart

\* The first step of a run: no key is done.
LEMMA CreatorStarts ==
    ASSUME dictionary \in Dictionaries, StartMaker
    PROVE  CreatorInv'
<1>1. UNCHANGED dictionary /\ block_map' = CreateBlockMap /\ keys_left' = Keys
      /\ offset' = 0 /\ informations' = <<>> /\ blocks' = <<>> /\ blocks_length' = 0
      /\ index_data' = <<>>
    BY DEF StartMaker, Keys
<1>2. maker' = IF DOMAIN dictionary = {} THEN "close" ELSE "split"
    BY DEF StartMaker
<1>3. CreateBlockMap' = CreateBlockMap /\ Keys' = Keys
    <2>1. \A S : TotalLength(S)' = TotalLength(S)
        BY <1>1 DEF TotalLength, MapThenSumSet, MapThenFoldSet
    <2>2. \A key : Entries(key)' = Entries(key)
        BY <1>1 DEF Entries
    <2> QED
        BY <1>1, <2>1, <2>2 DEF CreateBlockMap, Keys
<1>4. IndexIsRight'
    <2>1. keys_left' # {} <=> maker' \in {"split", "index"}
        BY <1>1, <1>2 DEF Keys
    <2>2. \A m \in DOMAIN dictionary : MidashiKey(m) \in Keys
        BY DEF Keys
    <2>3. DOMAIN blocks' = {m \in DOMAIN dictionary' : MidashiKey(m) \notin keys_left'}
        BY <1>1, <2>2
    <2>4. index_data' \in Seq(UnitRecords) /\ Len(index_data') = 0 /\ 1..0 = {}
        BY <1>1
    <2> QED
        BY <1>1, <1>3, <2>1, <2>3, <2>4 DEF IndexIsRight
<1>5. IsCut' \/ maker' # "split"
    <2> SUFFICES ASSUME keys_left' # {}
                 PROVE  IsCut'
        BY <1>4 DEF IndexIsRight
    <2>1. AtStart'
        BY <1>1, <1>3 DEF AtStart
    <2> QED
        BY <2>1, StartIsCut, PTL
<1> QED
    BY <1>1, <1>2, <1>4, <1>5 DEF CreatorInv, OnlyLongEntriesFail

\* One turn of the loop, whatever its outcome.
LEMMA CreatorCuts ==
    ASSUME CreatorInv, SplitBlock \/ SplitFindsNoEntry \/ SplitPanics
    PROVE  CreatorInv'
<1>1. /\ UNCHANGED <<dictionary, block_map, keys_left, blocks, blocks_length, index_data>>
      /\ maker = "split"
    BY DEF SplitBlock, SplitFindsNoEntry, SplitPanics, indexVars
<1>2. /\ dictionary \in Dictionaries /\ IndexIsRight /\ IsCut
      /\ \A m : IsLong(m)' <=> IsLong(m)
    BY <1>1, SameBuffers DEF CreatorInv, Working
<1>3. AtKey /\ Entries(Key) # {} /\ blocks_length \in Nat
    BY <1>1, <1>2, KeyFacts DEF AtKey, IndexIsRight, IsCut
<1>4. LineFeeds(Key) \in SUBSET Nat /\ offset \in Nat
    BY <1>2, <1>3, LineFeedFacts DEF AtKey, IsCut
<1>5. CASE SplitBlock
    <2>1. PICK m \in HeadsAt(offset) : offset + CutLength <= BufferLength(Key)
        BY <1>5 DEF SplitBlock
    <2>2. /\ NextOffset \in LineFeeds(Key)
          /\ IsLastBlock => NextOffset = Max(LineFeeds(Key))
          /\ ~IsLastBlock => NextOffset < Max(LineFeeds(Key)) \/ IsLong(m)
        BY <1>3, <2>1, CutFacts
    <2>3. AreBlocks(informations', Key, blocks_length, blocks_length + NextOffset)
          /\ informations' # <<>>
        BY <1>2, <1>3, <1>5, SplitAddsBlock DEF IsCut
    <2>4. m \in Entries(Key)
        BY DEF HeadsAt
    <2>5. Key' = Key
        BY <1>1 DEF Key
    <2>6. CASE IsLastBlock
        <3>1. maker' = "index" /\ offset' = offset
            BY <1>5, <2>6 DEF SplitBlock
        <3>2. AreAllBlocks(informations', Key, blocks_length)
            BY <2>2, <2>3, <2>6 DEF AreAllBlocks
        <3>3. AreAllBlocks(informations, Key, blocks_length)'
            BY <1>1, <2>5, <3>2, SameBuffers
        <3>4. IndexIsRight'
            BY <1>1, <1>2, <3>1, IndexIsKept
        <3>5. (offset \in LineFeeds(Key))'
            BY <1>1, <1>2, <2>5, <3>1, SameBuffers DEF IsCut
        <3> QED
            BY <1>1, <1>2, <3>1, <3>3, <3>4, <3>5 DEF CreatorInv, OnlyLongEntriesFail
    <2>7. CASE ~IsLastBlock
        <3>1. maker' = "split" /\ offset' = NextOffset
            BY <1>1, <1>5, <2>7 DEF SplitBlock
        <3>2. AreBlocks(informations, Key, blocks_length, blocks_length + offset)'
            BY <1>1, <2>3, <2>5, <3>1, SameBuffers
        <3>3. IndexIsRight'
            BY <1>1, <1>2, <3>1, IndexIsKept
        <3>4. LineFeeds(Key)' = LineFeeds(Key) /\ Entries(Key)' = Entries(Key)
            BY <1>1, <2>5, SameBuffers
        <3>5. IsCut'
            BY <1>2, <2>2, <2>4, <2>7, <3>1, <3>2, <3>4 DEF IsCut
        <3> QED
            BY <1>1, <1>2, <3>1, <3>3, <3>5 DEF CreatorInv, OnlyLongEntriesFail
    <2> QED
        BY <2>6, <2>7
<1>6. CASE SplitFindsNoEntry \/ SplitPanics
    <2>1. \E m \in Entries(Key) : IsLong(m)
        <3>1. CASE HeadsAt(offset) = {}
            <4>1. ~(offset < Max(LineFeeds(Key)))
                BY <1>2, <1>3, <3>1, LineFeedFacts DEF AtKey, HeadsAt, IsCut
            <4> QED
                BY <1>2, <4>1 DEF IsCut
        <3>2. CASE HeadsAt(offset) # {} /\ offset + CutLength > BufferLength(Key)
            <4>1. PICK m \in HeadsAt(offset) : TRUE
                BY <3>2
            <4>2. BufferLength(Key) \in Nat /\ UnitLength \in Nat
                BY <1>3, LineFeedFacts, CreatorAssumption DEF AtKey
            <4>3. offset + FirstLength <= BufferLength(Key)
                BY <1>4, <4>2 DEF FirstLength, EndIsNear
            <4>4. FirstLength \in Int
                BY <1>4, <4>2 DEF FirstLength
            <4>5. NothingFits
                BY <1>4, <3>2, <4>2, <4>3, <4>4 DEF CutLength
            <4>6. IsLong(m) /\ m \in Entries(Key)
                BY <1>3, <4>1, <4>5, ShortHeadFits DEF HeadsAt
            <4> QED
                BY <4>6
        <3> QED
            BY <1>6, <3>1, <3>2 DEF SplitFindsNoEntry, SplitPanics
    <2>2. maker' \in {"format_error", "panic"}
        BY <1>6 DEF SplitFindsNoEntry, SplitPanics
    <2>3. \E m \in DOMAIN dictionary' : IsLong(m)'
        BY <1>1, <1>2, <2>1 DEF Entries
    <2> QED
        BY <1>1, <1>2, <2>2, <2>3 DEF CreatorInv, OnlyLongEntriesFail, Working
<1> QED
    BY <1>5, <1>6

\* The blocks of a key are put behind the others, its unit into the index.
LEMMA CreatorAddsUnit ==
    ASSUME CreatorInv, AddIndexData
    PROVE  CreatorInv'
<1>1. maker = "index" /\ UNCHANGED <<dictionary, block_map>>
    BY DEF AddIndexData
<1>2. /\ dictionary \in Dictionaries /\ IndexIsRight
      /\ AreAllBlocks(informations, Key, blocks_length)
    BY <1>1 DEF CreatorInv, Working
<1>3. Key \in keys_left /\ Entries(Key) # {} /\ blocks_length \in Nat
      /\ Keys \subseteq Strings /\ keys_left \subseteq Keys
    BY <1>1, <1>2, KeyFacts, KeysFacts DEF IndexIsRight
<1> PICK key : key = Key
    OBVIOUS
<1> PICK unit : unit = Unit
    OBVIOUS
<1>4. unit = [key |-> key, informations |-> Reverse(informations)]
    BY DEF Unit, InformationsReversed
<1>5. informations \in Seq(Information)
    BY <1>2 DEF AreAllBlocks, AreBlocks
<1>6. Reverse(informations) \in Seq(Information) /\ Reverse(Reverse(informations)) = informations
    BY <1>5, ReverseFacts
<1>7. unit \in UnitRecords /\ unit.key = key /\ Reverse(unit.informations) = informations
    BY <1>3, <1>4, <1>6 DEF UnitRecords
<1>8. /\ index_data' = Append(index_data, unit)
      /\ keys_left' = keys_left \ {key}
      /\ maker' = IF keys_left' = {} THEN "close" ELSE "split"
      /\ blocks' = [m \in DOMAIN blocks \cup Entries(key) |->
                       IF m \in DOMAIN blocks THEN blocks[m] ELSE blocks_length + block_map[m]]
      /\ blocks_length' = blocks_length + Aligned(BufferLength(key))
      /\ offset' = 0 /\ informations' = <<>>
    BY Zenon DEF AddIndexData
<1>9. /\ Keys' = Keys /\ CreateBlockMap' = CreateBlockMap
      /\ \A k : Entries(k)' = Entries(k)
      /\ \A infos, k, base :
            AreAllBlocks(infos, k, base)' <=> AreAllBlocks(infos, k, base)
    BY <1>1, SameBuffers
<1>10. DOMAIN blocks = {m \in DOMAIN dictionary : MidashiKey(m) \notin keys_left}
    BY <1>2 DEF IndexIsRight
<1>11. blocks_length' \in Nat
    <2>1. BufferLength(key) \in Nat /\ Alignment \in Nat \ {0}
        BY <1>1, <1>2, <1>3, LineFeedFacts, CreatorAssumption DEF IndexIsRight
    <2>2. BufferLength(key) % Alignment \in 0..(Alignment - 1)
        BY ONLY <2>1
    <2>3. Aligned(BufferLength(key)) \in Nat
        BY <2>1, <2>2 DEF Aligned
    <2> QED
        BY <1>3, <1>8, <2>3
<1>12. ASSUME NEW old, IsUnit(old)
       PROVE  IsUnit(old)'
    <2>1. PICK base \in Nat :
             /\ AreAllBlocks(Reverse(old.informations), old.key, base)
             /\ \A m \in Entries(old.key) : m \in DOMAIN blocks /\ blocks[m] = base + block_map[m]
        BY <1>12 DEF IsUnit
    <2>2. \A m \in Entries(old.key) : m \in DOMAIN blocks' /\ blocks'[m] = base + block_map[m]
        BY <1>8, <2>1
    <2> QED
        BY <1>1, <1>9, <2>1, <2>2 DEF IsUnit
<1>13. IsUnit(unit)'
    <2> PICK base \in Nat : base = blocks_length
        BY <1>3
    <2>1. \A m \in Entries(key) : m \notin DOMAIN blocks
        BY <1>3, <1>10 DEF Entries
    <2>2. \A m \in Entries(key) : m \in DOMAIN blocks' /\ blocks'[m] = base + block_map[m]
        BY <1>8, <2>1
    <2>3. AreAllBlocks(Reverse(unit.informations), unit.key, base)'
        BY <1>2, <1>7, <1>9
    <2> QED
        BY <1>1, <1>3, <1>7, <1>9, <2>2, <2>3 DEF IsUnit
<1>14. /\ index_data' \in Seq(UnitRecords) /\ Len(index_data') = Len(index_data) + 1
       /\ index_data'[Len(index_data) + 1] = unit
       /\ \A n \in 1..Len(index_data) : index_data'[n] = index_data[n]
       /\ index_data \in Seq(UnitRecords) /\ Len(index_data) \in Nat
    BY <1>2, <1>7, <1>8 DEF IndexIsRight
<1>15. \A n \in 1..Len(index_data') : IsUnit(index_data[n])'
    <2> SUFFICES ASSUME NEW n \in 1..Len(index_data')
                 PROVE  IsUnit(index_data[n])'
        OBVIOUS
    <2>1. CASE n = Len(index_data) + 1
        BY <1>13, <1>14, <2>1
    <2>2. CASE n \in 1..Len(index_data)
        BY <1>2, <1>12, <1>14, <2>2 DEF IndexIsRight
    <2> QED
        BY <1>14, <2>1, <2>2
<1>16. ASSUME NEW k \in Keys \ keys_left'
       PROVE  \E n \in 1..Len(index_data') : index_data'[n].key = k
    <2>1. CASE k = key
        <3>1. Len(index_data) + 1 \in 1..Len(index_data')
            BY <1>14
        <3> QED
            BY <1>7, <1>14, <2>1, <3>1
    <2>2. CASE k # key
        <3>1. PICK n \in 1..Len(index_data) : index_data[n].key = k
            BY <1>2, <1>8, <2>2 DEF IndexIsRight
        <3>2. n \in 1..Len(index_data') /\ index_data'[n] = index_data[n]
            BY <1>14
        <3> QED
            BY <3>1, <3>2
    <2> QED
        BY <2>1, <2>2
<1>17. DOMAIN blocks' = {m \in DOMAIN dictionary' : MidashiKey(m) \notin keys_left'}
    <2>1. Entries(key) = {m \in DOMAIN dictionary : MidashiKey(m) = key}
        BY DEF Entries
    <2> QED
        BY <1>1, <1>3, <1>8, <1>10, <2>1
<1>18. IndexIsRight'
    <2>1. block_map' = CreateBlockMap'
        BY <1>1, <1>2, <1>9 DEF IndexIsRight
    <2>2. keys_left' \subseteq Keys' /\ (keys_left' # {} <=> maker' \in {"split", "index"})
        BY <1>3, <1>8, <1>9
    <2> QED
        BY <1>9, <1>11, <1>14, <1>15, <1>16, <1>17, <2>1, <2>2 DEF IndexIsRight
<1>19. maker' = "split" => IsCut'
    <2> SUFFICES ASSUME keys_left' # {}
                 PROVE  IsCut'
        BY <1>8
    <2>1. AtStart'
        BY <1>1, <1>2, <1>8, <1>18 DEF AtStart, IndexIsRight
    <2> QED
        BY <2>1, StartIsCut, PTL
<1> QED
    BY <1>1, <1>2, <1>8, <1>18, <1>19 DEF CreatorInv, OnlyLongEntriesFail

LEMMA CreatorInvHolds ==
    ASSUME CreatorInv, [Next]_vars
    PROVE  CreatorInv'
<1>1. CASE StartMaker
    BY <1>1, CreatorStarts DEF CreatorInv
<1>2. CASE SplitBlock \/ SplitFindsNoEntry \/ SplitPanics
    BY <1>2, CreatorCuts
<1>3. CASE AddIndexData
    BY <1>3, CreatorAddsUnit
<1>4. CASE ReviseJisyo
    <2>1. maker' = "idle" /\ dictionary' \in Revised(dictionary)
        BY <1>4 DEF ReviseJisyo
    <2>2. dictionary' \in Dictionaries
        BY <2>1, CreatorAssumption DEF CreatorInv
    <2> QED
        BY <2>1, <2>2 DEF CreatorInv, Working, OnlyLongEntriesFail
<1>5. CASE CloseIndex \/ TruncateFile \/ WriteFront \/ WriteBlocks \/ WriteHash \/ StopMaker
    <2>1. /\ UNCHANGED <<dictionary, block_map, keys_left, blocks, blocks_length, index_data>>
          /\ maker' \notin {"split", "index", "format_error", "panic"}
          /\ Working' => Working /\ maker \notin {"split", "index"}
        BY <1>5 DEF CloseIndex, TruncateFile, WriteFront, WriteBlocks, WriteHash, StopMaker,
                    indexVars, Working
    <2>2. Working' => IndexIsRight'
        BY <2>1, IndexIsKept DEF CreatorInv
    <2> QED
        BY <2>1, <2>2 DEF CreatorInv, OnlyLongEntriesFail
<1>6. CASE UNCHANGED makerVars
    <2>1. /\ UNCHANGED <<dictionary, maker, block_map, keys_left, offset, informations>>
          /\ UNCHANGED <<blocks, blocks_length, index_data>>
        BY <1>6 DEF makerVars, indexVars
    <2>2. /\ IndexIsRight => IndexIsRight'
          /\ Key' = Key
          /\ \A m : IsLong(m)' <=> IsLong(m)
        BY <2>1, IndexIsKept, SameBuffers DEF Key
    <2>3. IsCut => IsCut'
        BY <2>1, <2>2, SameBuffers DEF IsCut
    <2>4. AreAllBlocks(informations, Key, blocks_length) =>
             AreAllBlocks(informations, Key, blocks_length)'
        BY <2>1, <2>2, SameBuffers
    <2>5. (offset \in LineFeeds(Key))' <=> offset \in LineFeeds(Key)
        BY <2>1, <2>2, SameBuffers
    <2> QED
        BY <2>1, <2>2, <2>3, <2>4, <2>5 DEF CreatorInv, Working, OnlyLongEntriesFail
<1> QED
    BY <1>1, <1>2, <1>3, <1>4, <1>5, <1>6 DEF Next, NextMaker, MakerStep, SetupStep, SearchStep,
        ValidateHash, SetupIsUnreliable, LoadTable, LoadIndexBlock, FinishSetup, Ask,
        HintOfFew, StartBinarySearch, LeaveBinarySearch, EndBinarySearch, ContinueBinarySearch,
        ReadIsUnreliable, ReadCandidates, StartCompletion, ReadCompletions, SendReply, vars

\* What the creator has put into index and blocks, and how far it is with the next key.
THEOREM CreatorInvariant == Spec => []CreatorInv
<1>1. Init => CreatorInv
    BY DEF Init, InitMaker, CreatorInv, Working, OnlyLongEntriesFail
<1>2. CreatorInv /\ [Next]_vars => CreatorInv'
    BY CreatorInvHolds
<1> QED
    BY <1>1, <1>2, PTL DEF Spec

\* get_dictionary_block_informations gives up with "dictionary format B", or panics at a
\* slice behind the buffer, only where an entry is longer than a block.
THEOREM LongEntriesAlone == Spec => []OnlyLongEntriesFail
<1>1. CreatorInv => OnlyLongEntriesFail
    BY DEF CreatorInv
<1> QED
    BY <1>1, CreatorInvariant, PTL

\* Every block create_index_data puts into the index ends with the line feed the next
\* one starts with, the last one of a key at the end of its buffer, and none is longer
\* than a unit but for a long entry.
THEOREM BlocksAreTiles == Spec => []BlocksTileTheBuffer
<1>1. CreatorInv => BlocksTileTheBuffer
    <2> SUFFICES ASSUME CreatorInv, maker = "close", NEW n \in DOMAIN index_data
                 PROVE  LET unit == index_data[n]
                            infos == Reverse(unit.informations)
                            base == infos[1].offset
                            line_feeds == LineFeeds(unit.key)
                            end == base + BufferLength(unit.key) - 1
                        IN  \A i \in DOMAIN infos :
                               /\ infos[i].length > UnitLength =>
                                     /\ IsLong(infos[i].midashi)
                                     /\ infos[i].length <= MaxEntryLength(unit.key)
                               /\ infos[i].offset - base \in line_feeds
                               /\ infos[i].offset + infos[i].length - 1 =
                                     IF i = Len(infos) THEN end ELSE infos[i + 1].offset
        BY DEF BlocksTileTheBuffer
    <2> DEFINE unit == index_data[n]
               infos == Reverse(unit.informations)
    <2>1. IndexIsRight /\ dictionary \in Dictionaries /\ IsUnit(unit)
        BY DEF CreatorInv, Working, IndexIsRight
    <2> PICK key : key = unit.key
        OBVIOUS
    <2> HIDE DEF infos, unit
    <2>2. PICK base \in Nat : AreAllBlocks(infos, key, base)
        BY <2>1 DEF IsUnit, infos
    <2>3. /\ infos \in Seq(Information) /\ infos # <<>> /\ infos[1].offset = base
          /\ \A i \in 1..Len(infos) :
                IsBlock(infos[i], key, base, Behind(infos, i, base + Max(LineFeeds(key))))
        BY <2>2 DEF AreAllBlocks, AreBlocks
    <2>4. 1 \in 1..Len(infos)
        BY <2>3
    <2>5. Entries(key) # {}
        BY <2>3, <2>4 DEF IsBlock
    <2>6. /\ LineFeeds(key) \in SUBSET Nat /\ Max(LineFeeds(key)) \in Nat
          /\ base + BufferLength(key) - 1 = base + Max(LineFeeds(key))
          /\ \A m \in Entries(key) : block_map[m] \in LineFeeds(key)
        BY <2>1, <2>5, LineFeedFacts DEF IndexIsRight
    <2>7. ASSUME NEW i \in 1..Len(infos)
          PROVE  /\ infos[i].length > UnitLength =>
                       IsLong(infos[i].midashi) /\ infos[i].length <= MaxEntryLength(key)
                 /\ infos[i].offset - base \in LineFeeds(key)
                 /\ infos[i].offset + infos[i].length - 1 =
                       IF i = Len(infos) THEN base + BufferLength(key) - 1
                       ELSE infos[i + 1].offset
        <3> DEFINE behind == Behind(infos, i, base + Max(LineFeeds(key)))
        <3>1. IsBlock(infos[i], key, base, behind)
            BY <2>3
        <3>2. behind = IF i = Len(infos) THEN base + BufferLength(key) - 1
                       ELSE infos[i + 1].offset
            BY <2>6 DEF Behind
        <3>3. behind - base \in Nat
            BY <2>6, <3>1 DEF IsBlock
        <3>4. infos[i].offset \in Nat /\ infos[i].length \in Nat
            <4>1. infos[i] \in Information
                BY <2>3
            <4> QED
                BY <4>1 DEF Information
        <3>5. behind \in Int
            <4>1. i # Len(infos) => i + 1 \in 1..Len(infos)
                BY <2>3
            <4>2. i # Len(infos) => infos[i + 1] \in Information
                BY <2>3, <4>1
            <4>3. \A info \in Information : info.offset \in Nat
                BY DEF Information
            <4> QED
                BY <2>6, <3>2, <4>2, <4>3
        <3> HIDE DEF behind
        <3>6. infos[i].offset - base \in LineFeeds(key)
            <4>1. block_map[infos[i].midashi] \in LineFeeds(key)
                BY <2>6, <3>1 DEF IsBlock
            <4>2. infos[i].offset = base + block_map[infos[i].midashi]
                BY <3>1 DEF IsBlock
            <4>3. block_map[infos[i].midashi] \in Nat
                BY <2>6, <4>1
            <4> QED
                BY ONLY <4>1, <4>2, <4>3, base \in Nat
        <3>7. infos[i].offset + infos[i].length - 1 = behind
            BY <3>1, <3>4, <3>5 DEF IsBlock
        <3> QED
            BY <3>1, <3>2, <3>6, <3>7 DEF IsBlock
    <2>8. DOMAIN infos = 1..Len(infos)
        BY <2>3
    <2> QED
        BY <2>3, <2>7, <2>8 DEF infos, unit
<1> QED
    BY <1>1, CreatorInvariant, PTL

-----------------------------------------------------------------------------
(***************************************************************************)
(* What the server can rely on in a complete file.                         *)
(***************************************************************************)

IsDescending(infos) ==
    \A i, j \in 1..Len(infos) : i < j => Precedes(infos[j].midashi, infos[i].midashi)

\* The first block whose midashi is not behind this one.
IsFirstFor(infos, i, m) ==
    ~Precedes(m, infos[i].midashi) /\ \A j \in 1..(i - 1) : Precedes(m, infos[j].midashi)

\* With both its line feeds.
LiesIn(info, place, length) ==
    info.offset <= place /\ place + length + 1 <= info.offset + info.length

\* The blocks of a key start with ever greater midashi, and an entry lies in a block if
\* and only if its midashi lies between that one and the next.
LEMMA BlocksAscend ==
    ASSUME dictionary \in Dictionaries, block_map = CreateBlockMap,
           NEW infos, NEW key, NEW base \in Nat, AreAllBlocks(infos, key, base)
    PROVE  /\ \A i \in 1..Len(infos) : infos[i].midashi \in Entries(key)
           /\ \A i, j \in 1..Len(infos) : i < j => Precedes(infos[i].midashi, infos[j].midashi)
           /\ \A m \in Entries(key) :
                 /\ ~Precedes(m, infos[1].midashi)
                 /\ \A i \in 1..Len(infos) :
                       LiesIn(infos[i], base + block_map[m], dictionary[m]) <=>
                          /\ ~Precedes(m, infos[i].midashi)
                          /\ i # Len(infos) => Precedes(m, infos[i + 1].midashi)
<1> DEFINE L == Len(infos)
           last == Max(LineFeeds(key))
           First(i) == infos[i].midashi
           BehindOf(i) == IF i = L THEN base + last ELSE infos[i + 1].offset
<1>1. /\ infos \in Seq(Information) /\ L \in Nat /\ 1 \in 1..L /\ infos[1].offset = base
      /\ \A i \in 1..L : IsBlock(infos[i], key, base, BehindOf(i))
    BY DEF AreAllBlocks, AreBlocks, Behind
<1>2. /\ \A i \in 1..L : First(i) \in Entries(key) /\ infos[i].offset = base + block_map[First(i)]
      /\ \A i \in 1..L : infos[i].length = BehindOf(i) + 1 - infos[i].offset
                         /\ infos[i].offset < BehindOf(i)
    BY <1>1 DEF IsBlock
<1>3. Entries(key) # {}
    BY <1>1, <1>2
<1>4. /\ Entries(key) \subseteq Strings
      /\ \A m \in Entries(key) : block_map[m] \in Nat /\ dictionary[m] \in Nat \ {0}
      /\ \A e, m \in Entries(key) :
            Precedes(e, m) => block_map[e] + dictionary[e] <= block_map[m]
    BY BlockMapFacts
<1>5. last \in Nat /\ \A m \in Entries(key) : block_map[m] + dictionary[m] <= last
    BY <1>3, LineFeedFacts
<1> HIDE DEF last, L
<1>6. ASSUME NEW e \in Entries(key), NEW m \in Entries(key), block_map[e] < block_map[m]
      PROVE  Precedes(e, m)
    <2>1. e # m
        BY <1>4, <1>6
    <2>2. ~Precedes(m, e)
        BY <1>4, <1>6
    <2> QED
        BY <1>4, <2>1, <2>2, PrecedesIsTotal
<1>7. ASSUME NEW i \in 1..(L - 1)
      PROVE  Precedes(First(i), First(i + 1))
    <2>1. i \in 1..L /\ i + 1 \in 1..L /\ i # L
        BY <1>1
    <2>2. infos[i].offset < infos[i + 1].offset
        BY <1>2, <2>1
    <2>3. block_map[First(i)] < block_map[First(i + 1)]
        BY <1>2, <1>4, <2>1, <2>2
    <2> QED
        BY <1>2, <1>6, <2>1, <2>3
<1>8. \A i, j \in 1..L : i < j => Precedes(First(i), First(j))
    <2> DEFINE G == {d \in 0..L : \A i \in 1..L : i + d + 1 <= L =>
                                     Precedes(First(i), First(i + d + 1))}
    <2>1. 0 \in G
        <3>1. \A i \in 1..L : i + 0 + 1 <= L => i \in 1..(L - 1) /\ i + 0 + 1 = i + 1
            BY <1>1
        <3> QED
            BY <1>1, <1>7, <3>1
    <2>2. ASSUME NEW d \in 0..(L - 1), d \in G
          PROVE  d + 1 \in G
        <3> SUFFICES ASSUME NEW i \in 1..L, i + (d + 1) + 1 <= L
                     PROVE  Precedes(First(i), First(i + (d + 1) + 1))
            BY <1>1
        <3> DEFINE j == i + d + 1
        <3>1. j \in 1..(L - 1) /\ j \in 1..L /\ j + 1 \in 1..L /\ i + (d + 1) + 1 = j + 1
            BY <1>1
        <3>2. Precedes(First(i), First(j))
            BY <1>1, <2>2, <3>1
        <3> HIDE DEF j
        <3>3. Precedes(First(j), First(j + 1))
            BY <1>7, <3>1
        <3>4. First(i) \in Strings /\ First(j) \in Strings /\ First(j + 1) \in Strings
            BY <1>2, <1>4, <3>1
        <3>5. Precedes(First(i), First(j + 1))
            BY <3>2, <3>3, <3>4, PrecedesIsTransitive
        <3> QED
            BY <3>1, <3>5
    <2> HIDE DEF G
    <2>3. 0..L \subseteq G
        BY <1>1, <2>1, <2>2, BoundedInduction
    <2> TAKE i, j \in 1..L
    <2> HAVE i < j
    <2>4. j - i - 1 \in G /\ i + (j - i - 1) + 1 = j
        BY <1>1, <2>3
    <2> QED
        BY <2>4 DEF G
<1>9. ASSUME NEW m \in Entries(key)
      PROVE  ~Precedes(m, First(1))
    <2>1. block_map[First(1)] = 0 /\ First(1) \in Entries(key)
        BY <1>1, <1>2, <1>4
    <2>2. Precedes(m, First(1)) => block_map[m] + dictionary[m] <= block_map[First(1)]
        BY <1>4, <2>1
    <2>3. block_map[m] \in Nat /\ dictionary[m] \in Nat \ {0}
        BY <1>4
    <2> QED
        BY ONLY <2>1, <2>2, <2>3
<1>10. ASSUME NEW m \in Entries(key), NEW i \in 1..L
       PROVE  LiesIn(infos[i], base + block_map[m], dictionary[m]) <=>
                 /\ ~Precedes(m, First(i))
                 /\ i # L => Precedes(m, First(i + 1))
    <2>1. block_map[m] \in Nat /\ dictionary[m] \in Nat \ {0} /\ First(i) \in Entries(key)
          /\ block_map[First(i)] \in Nat /\ m \in Strings /\ First(i) \in Strings
        BY <1>2, <1>4
    <2>2. BehindOf(i) \in Int
        <3>1. i # L => i + 1 \in 1..L
            BY <1>1
        <3>2. i # L => infos[i + 1].offset = base + block_map[First(i + 1)]
                       /\ block_map[First(i + 1)] \in Nat
            BY <1>2, <1>4, <3>1
        <3> QED
            BY <1>5, <3>2
    <2>3. infos[i].offset = base + block_map[First(i)]
          /\ infos[i].offset + infos[i].length = BehindOf(i) + 1
        BY <1>2, <2>1, <2>2
    <2>4. LiesIn(infos[i], base + block_map[m], dictionary[m]) <=>
             /\ block_map[First(i)] <= block_map[m]
             /\ base + block_map[m] + dictionary[m] <= BehindOf(i)
        BY <2>1, <2>2, <2>3 DEF LiesIn
    <2>5. block_map[First(i)] <= block_map[m] <=> ~Precedes(m, First(i))
        <3>1. Precedes(m, First(i)) => block_map[m] + dictionary[m] <= block_map[First(i)]
            BY <1>4, <2>1
        <3>2. block_map[m] < block_map[First(i)] => Precedes(m, First(i))
            BY <1>6, <2>1
        <3> QED
            BY <2>1, <3>1, <3>2
    <2>6. base + block_map[m] + dictionary[m] <= BehindOf(i)
             <=> (i # L => Precedes(m, First(i + 1)))
        <3>1. CASE i = L
            BY <1>5, <2>1, <3>1
        <3>2. CASE i # L
            <4>1. i + 1 \in 1..L
                BY <1>1, <3>2
            <4>2. First(i + 1) \in Entries(key) /\ block_map[First(i + 1)] \in Nat
                  /\ BehindOf(i) = base + block_map[First(i + 1)]
                BY <1>2, <1>4, <3>2, <4>1
            <4>3. Precedes(m, First(i + 1)) =>
                     block_map[m] + dictionary[m] <= block_map[First(i + 1)]
                BY <1>4, <4>2
            <4>4. block_map[m] < block_map[First(i + 1)] => Precedes(m, First(i + 1))
                BY <1>6, <4>2
            <4> QED
                BY <2>1, <3>2, <4>2, <4>3, <4>4
        <3> QED
            BY <3>1, <3>2
    <2> QED
        BY <2>4, <2>5, <2>6
<1> QED
    BY <1>2, <1>8, <1>9, <1>10 DEF L

\* The server keeps them the other way round.
LEMMA BlocksDescend ==
    ASSUME dictionary \in Dictionaries, block_map = CreateBlockMap, NEW key, NEW base \in Nat,
           NEW reversed \in Seq(Information), AreAllBlocks(Reverse(reversed), key, base)
    PROVE  /\ reversed # <<>> /\ IsDescending(reversed)
           /\ \A m \in Entries(key) :
                 /\ \E i \in 1..Len(reversed) : ~Precedes(m, reversed[i].midashi)
                 /\ \A i \in 1..Len(reversed) :
                       IsFirstFor(reversed, i, m) <=>
                          LiesIn(reversed[i], base + block_map[m], dictionary[m])
<1> PICK infos : infos = Reverse(reversed)
    OBVIOUS
<1> DEFINE L == Len(reversed)
<1>1. /\ infos \in Seq(Information) /\ Len(infos) = L /\ L \in Nat
      /\ \A i \in 1..L : infos[i] = reversed[L + 1 - i]
    BY ReverseFacts
<1>2. infos # <<>>
    BY DEF AreAllBlocks
<1>3. L # 0 /\ reversed # <<>>
    BY <1>1, <1>2
<1> HIDE DEF L
<1>4. \A i \in 1..L : L + 1 - i \in 1..L /\ reversed[i] = infos[L + 1 - i]
    <2> TAKE i \in 1..L
    <2>1. L + 1 - i \in 1..L /\ L + 1 - (L + 1 - i) = i
        BY <1>1
    <2> QED
        BY <1>1, <2>1
<1>5. /\ \A i \in 1..L : infos[i].midashi \in Entries(key)
      /\ \A i, j \in 1..L : i < j => Precedes(infos[i].midashi, infos[j].midashi)
      /\ \A m \in Entries(key) :
            /\ ~Precedes(m, infos[1].midashi)
            /\ \A i \in 1..L :
                  LiesIn(infos[i], base + block_map[m], dictionary[m]) <=>
                     /\ ~Precedes(m, infos[i].midashi)
                     /\ i # L => Precedes(m, infos[i + 1].midashi)
    <2>1. L = Len(infos)
        BY <1>1
    <2>2. /\ \A i \in 1..Len(infos) : infos[i].midashi \in Entries(key)
          /\ \A i, j \in 1..Len(infos) : i < j => Precedes(infos[i].midashi, infos[j].midashi)
          /\ \A m \in Entries(key) :
                /\ ~Precedes(m, infos[1].midashi)
                /\ \A i \in 1..Len(infos) :
                      LiesIn(infos[i], base + block_map[m], dictionary[m]) <=>
                         /\ ~Precedes(m, infos[i].midashi)
                         /\ i # Len(infos) => Precedes(m, infos[i + 1].midashi)
        BY BlocksAscend, Zenon
    <2> QED
        BY ONLY <2>1, <2>2
<1>6. Entries(key) \subseteq Strings
    BY BlockMapFacts
<1>7. IsDescending(reversed)
    <2> SUFFICES ASSUME NEW i \in 1..L, NEW j \in 1..L, i < j
                 PROVE  Precedes(reversed[j].midashi, reversed[i].midashi)
        BY DEF IsDescending, L
    <2>1. L + 1 - j < L + 1 - i /\ L + 1 - j \in 1..L /\ L + 1 - i \in 1..L
        BY <1>1
    <2>2. Precedes(infos[L + 1 - j].midashi, infos[L + 1 - i].midashi)
        BY ONLY <1>5, <2>1
    <2>3. reversed[j] = infos[L + 1 - j] /\ reversed[i] = infos[L + 1 - i]
        BY <1>4
    <2> QED
        BY ONLY <2>2, <2>3
<1>8. ASSUME NEW m \in Entries(key)
      PROVE  \E i \in 1..L : ~Precedes(m, reversed[i].midashi)
    <2>1. L \in 1..L /\ L + 1 - L = 1
        BY <1>1, <1>3
    <2>2. reversed[L] = infos[1]
        BY <1>4, <2>1
    <2>3. ~Precedes(m, infos[1].midashi)
        BY <1>5
    <2> QED
        BY ONLY <2>1, <2>2, <2>3
<1>9. ASSUME NEW m \in Entries(key), NEW i \in 1..L
      PROVE  IsFirstFor(reversed, i, m) <=>
                LiesIn(reversed[i], base + block_map[m], dictionary[m])
    <2> DEFINE k == L + 1 - i
    <2>1. /\ k \in 1..L /\ reversed[i] = infos[k]
          /\ i = 1 <=> k = L
          /\ k # L => k + 1 \in 1..L /\ i - 1 \in 1..L /\ L + 1 - (i - 1) = k + 1
          /\ \A j \in 1..(i - 1) : j \in 1..L /\ L + 1 - j \in (k + 1)..L
        <3>1. L \in Nat /\ reversed[i] = infos[L + 1 - i]
            BY <1>1, <1>4
        <3> QED
            BY ONLY <3>1, i \in 1..L
    <2> HIDE DEF k
    <2>2. \A e, f \in 1..L : e < f /\ Precedes(m, infos[e].midashi) =>
                                Precedes(m, infos[f].midashi)
        BY <1>5, <1>6, PrecedesIsTransitive
    <2>3. (\A j \in 1..(i - 1) : Precedes(m, reversed[j].midashi)) <=>
             (k # L => Precedes(m, infos[k + 1].midashi))
        <3>1. ASSUME \A j \in 1..(i - 1) : Precedes(m, reversed[j].midashi), k # L
              PROVE  Precedes(m, infos[k + 1].midashi)
            <4>1. i - 1 \in 1..(i - 1)
                BY <1>1, <2>1, <3>1
            <4>2. reversed[i - 1] = infos[k + 1]
                BY <1>4, <2>1, <3>1
            <4> QED
                BY <3>1, <4>1, <4>2
        <3>2. ASSUME k # L => Precedes(m, infos[k + 1].midashi), NEW j \in 1..(i - 1)
              PROVE  Precedes(m, reversed[j].midashi)
            <4>1. j \in 1..L /\ L + 1 - j \in (k + 1)..L /\ k # L /\ k + 1 \in 1..L
                BY <1>1, <2>1
            <4>2. reversed[j] = infos[L + 1 - j] /\ L + 1 - j \in 1..L
                BY <1>4, <4>1
            <4>3. L + 1 - j = k + 1 \/ k + 1 < L + 1 - j
                BY <1>1, <2>1, <4>1
            <4> QED
                BY <2>2, <3>2, <4>1, <4>2, <4>3
        <3> QED
            BY <3>1, <3>2
    <2> QED
        BY <1>5, <2>1, <2>3 DEF IsFirstFor
<1> QED
    BY <1>3, <1>7, <1>8, <1>9 DEF L

\* The informations of its key lead to the block that holds the entry, and to no other.
LeadsTo(infos, m, place, length) ==
    /\ \E i \in 1..Len(infos) : ~Precedes(m, infos[i].midashi)
    /\ \A i \in 1..Len(infos) : IsFirstFor(infos, i, m) <=> LiesIn(infos[i], place, length)

\* A whole first character.
IsWord(m) == m # <<>> /\ m \in Seq(0..255) /\ StartsWhole(m)

IsDictionary(f) ==
    /\ DOMAIN f.blocks = DOMAIN f.jisyo /\ DOMAIN f.jisyo \subseteq Strings
    /\ IsFiniteSet(DOMAIN f.jisyo) /\ \A m \in DOMAIN f.jisyo : IsWord(m)
    /\ f.units \in Seq(UnitRecords)
    /\ \A n \in 1..Len(f.units) :
          f.units[n].informations # <<>> /\ IsDescending(f.units[n].informations)
    /\ \A m \in DOMAIN f.jisyo :
          /\ f.blocks[m] \in Nat /\ f.jisyo[m] \in Nat \ {0}
          /\ \E n \in 1..Len(f.units) :
                /\ f.units[n].key = MidashiKey(m)
                /\ LeadsTo(f.units[n].informations, m, f.blocks[m], f.jisyo[m])

LEMMA MadeDictionary ==
    ASSUME dictionary \in Dictionaries, IndexIsRight, keys_left = {},
           NEW f, f.jisyo = dictionary, f.units = index_data, f.blocks = blocks
    PROVE  IsDictionary(f)
<1>1. /\ block_map = CreateBlockMap
      /\ index_data \in Seq(UnitRecords)
      /\ \A n \in 1..Len(index_data) : IsUnit(index_data[n])
      /\ \A key \in Keys : \E n \in 1..Len(index_data) : index_data[n].key = key
      /\ DOMAIN blocks = DOMAIN dictionary
    BY DEF IndexIsRight
<1>2. IsFiniteSet(DOMAIN dictionary) /\ DOMAIN dictionary \subseteq Strings
      /\ \A m \in DOMAIN dictionary : dictionary[m] \in Nat \ {0}
    BY DictionaryFacts
<1>3. ASSUME NEW n \in 1..Len(index_data)
      PROVE  /\ index_data[n].informations # <<>> /\ IsDescending(index_data[n].informations)
             /\ \A m \in Entries(index_data[n].key) :
                   blocks[m] \in Nat
                   /\ LeadsTo(index_data[n].informations, m, blocks[m], dictionary[m])
    <2> PICK unit \in UnitRecords : unit = index_data[n]
        BY <1>1
    <2> PICK key, infos : key = unit.key /\ infos = unit.informations
        OBVIOUS
    <2>1. infos \in Seq(Information)
        BY DEF UnitRecords
    <2>2. PICK base \in Nat :
             /\ AreAllBlocks(Reverse(infos), key, base)
             /\ \A m \in Entries(key) : m \in DOMAIN blocks /\ blocks[m] = base + block_map[m]
        BY <1>1 DEF IsUnit
    <2>3. /\ infos # <<>> /\ IsDescending(infos)
          /\ \A m \in Entries(key) :
                /\ \E i \in 1..Len(infos) : ~Precedes(m, infos[i].midashi)
                /\ \A i \in 1..Len(infos) :
                      IsFirstFor(infos, i, m) <=>
                         LiesIn(infos[i], base + block_map[m], dictionary[m])
        BY <1>1, <2>1, <2>2, BlocksDescend
    <2>4. \A m \in Entries(key) : block_map[m] \in Nat
        BY <1>1, BlockMapFacts
    <2>5. \A m \in Entries(key) : LeadsTo(infos, m, blocks[m], dictionary[m])
        BY <2>2, <2>3 DEF LeadsTo
    <2> QED
        BY <2>2, <2>3, <2>4, <2>5
<1>4. ASSUME NEW m \in DOMAIN dictionary
      PROVE  /\ blocks[m] \in Nat
             /\ \E n \in 1..Len(index_data) :
                   /\ index_data[n].key = MidashiKey(m)
                   /\ LeadsTo(index_data[n].informations, m, blocks[m], dictionary[m])
    <2>1. PICK n \in 1..Len(index_data) : index_data[n].key = MidashiKey(m)
        BY <1>1 DEF Keys
    <2>2. m \in Entries(index_data[n].key)
        BY <2>1 DEF Entries
    <2> QED
        BY <1>3, <2>1, <2>2
<1>5. ASSUME NEW m \in DOMAIN dictionary
      PROVE  IsWord(m)
    <2>1. m # <<>> /\ m \in Seq(0..255 \ {Space}) /\ StartsWhole(m)
        BY CreatorAssumption
    <2>2. m \in Seq(0..255)
        BY <2>1
    <2> QED
        BY <2>1, <2>2 DEF IsWord
<1> QED
    BY <1>1, <1>2, <1>3, <1>4, <1>5 DEF IsDictionary

\* A hash is in the file only when all it stands for is.
FileInv ==
    /\ file # NoFile /\ file.hashed => IsDictionary(file)
    /\ maker \in {"blocks", "hash"} =>
          \E front, places : file = [front |-> front, blocks |-> places, hashed |-> FALSE,
                                      jisyo |-> dictionary, units |-> index_data]
    /\ maker = "hash" => file.blocks = blocks

\* The server goes on only with such a file.
FoundInv == server # "down" => IsDictionary(found)

LEMMA FileInvHolds ==
    ASSUME CreatorInv, FileInv, [Next]_vars
    PROVE  FileInv'
<1>1. CASE TruncateFile
    BY <1>1 DEF TruncateFile, FileInv, Truncated
<1>2. CASE WriteFront
    <2>1. UNCHANGED <<dictionary, index_data, blocks>> /\ maker' \in {"blocks", "io_error"}
        BY <1>2 DEF WriteFront, indexVars
    <2>2. CASE file' = WithFront /\ maker' = "blocks"
        <3>1. PICK front : file' = [front |-> front, blocks |-> <<>>, hashed |-> FALSE,
                                    jisyo |-> dictionary, units |-> index_data]
            BY <2>2 DEF WithFront
        <3>2. ~file'.hashed
            BY ONLY <3>1
        <3>3. \E f, places : file' = [front |-> f, blocks |-> places, hashed |-> FALSE,
                                      jisyo |-> dictionary', units |-> index_data']
            BY ONLY <2>1, <3>1
        <3>4. maker' # "hash"
            BY <2>2
        <3> QED
            BY ONLY <3>2, <3>3, <3>4, Zenon DEF FileInv
    <2>3. CASE file' = Truncated /\ maker' = "io_error"
        BY <2>1, <2>3 DEF FileInv, Truncated
    <2> QED
        BY <1>2, <2>2, <2>3 DEF WriteFront
<1>3. CASE WriteBlocks
    <2>1. UNCHANGED <<dictionary, index_data, blocks>> /\ maker = "blocks"
        BY <1>3 DEF WriteBlocks, indexVars
    <2>2. CASE file' = [file EXCEPT !.blocks = blocks] /\ maker' = "hash"
        <3>1. PICK front, places : file = [front |-> front, blocks |-> places, hashed |-> FALSE,
                                            jisyo |-> dictionary, units |-> index_data]
            BY <2>1 DEF FileInv
        <3>2. file' = [front |-> front, blocks |-> blocks, hashed |-> FALSE,
                       jisyo |-> dictionary, units |-> index_data]
            BY ONLY <2>2, <3>1
        <3>3. ~file'.hashed /\ file'.blocks = blocks
            BY ONLY <3>2
        <3>4. \E f, other : file' = [front |-> f, blocks |-> other, hashed |-> FALSE,
                                       jisyo |-> dictionary', units |-> index_data']
            BY ONLY <2>1, <3>2
        <3>5. file'.blocks = blocks'
            BY ONLY <2>1, <3>3
        <3> QED
            BY ONLY <3>3, <3>4, <3>5, Zenon DEF FileInv
    <2>3. CASE file' = file /\ maker' = "io_error"
        BY <2>1, <2>3 DEF FileInv
    <2> QED
        BY <1>3, <2>2, <2>3 DEF WriteBlocks
<1>4. CASE WriteHash
    <2>1. UNCHANGED <<dictionary, index_data, blocks>> /\ maker = "hash"
        BY <1>4 DEF WriteHash, indexVars
    <2>2. CASE file' = [file EXCEPT !.hashed = TRUE] /\ maker' = "done"
        <3> PICK f : f = file'
            OBVIOUS
        <3>1. f.jisyo = dictionary /\ f.units = index_data /\ f.blocks = blocks
            BY <2>1, <2>2 DEF FileInv
        <3>2. IndexIsRight /\ keys_left = {} /\ dictionary \in Dictionaries
            BY <2>1 DEF CreatorInv, Working, IndexIsRight
        <3>3. IsDictionary(f)
            BY <3>1, <3>2, MadeDictionary
        <3> QED
            BY <2>2, <3>3 DEF FileInv
    <2>3. CASE file' = file /\ maker' = "io_error"
        BY <2>1, <2>3 DEF FileInv
    <2> QED
        BY <1>4, <2>2, <2>3 DEF WriteHash
<1>5. CASE UNCHANGED file /\ maker' \notin {"blocks", "hash"}
    BY <1>5 DEF FileInv
<1>6. CASE UNCHANGED makerVars
    BY <1>6 DEF FileInv, makerVars, indexVars
<1>7. ReviseJisyo \/ StartMaker \/ SplitBlock \/ SplitFindsNoEntry \/ SplitPanics
         \/ AddIndexData \/ CloseIndex \/ StopMaker => UNCHANGED file /\ maker' \notin {"blocks", "hash"}
    BY DEF ReviseJisyo, StartMaker, SplitBlock, SplitFindsNoEntry, SplitPanics,
           AddIndexData, CloseIndex, StopMaker
<1> QED
    BY <1>1, <1>2, <1>3, <1>4, <1>5, <1>6, <1>7 DEF Next, NextMaker, MakerStep, SetupStep,
        SearchStep, ValidateHash, SetupIsUnreliable, LoadTable, LoadIndexBlock, FinishSetup, Ask,
        HintOfFew, StartBinarySearch, LeaveBinarySearch, EndBinarySearch, ContinueBinarySearch,
        ReadIsUnreliable, ReadCandidates, StartCompletion, ReadCompletions, SendReply, vars

LEMMA FoundInvHolds ==
    ASSUME FileInv, FoundInv, [Next]_vars
    PROVE  FoundInv'
<1>1. CASE ValidateHash
    BY <1>1 DEF ValidateHash, FileInv, FoundInv
<1>2. CASE UNCHANGED <<server, found>>
    BY <1>2 DEF FoundInv
<1>3. CASE UNCHANGED found /\ server # "down"
    BY <1>3 DEF FoundInv
<1> QED
    BY <1>1, <1>2, <1>3 DEF Next, SetupStep,
        SearchStep, SetupIsUnreliable, LoadTable, LoadIndexBlock, FinishSetup, Ask,
        HintOfFew, StartBinarySearch, LeaveBinarySearch, EndBinarySearch, ContinueBinarySearch,
        ReadIsUnreliable, ReadCandidates, StartCompletion, ReadCompletions, SendReply, vars,
        setupVars

-----------------------------------------------------------------------------
(***************************************************************************)
(* What the creator has of the index.                                      *)
(***************************************************************************)

\* The headers of all blocks of the index, that of the open one among them.
Headers ==
    IF maker \in {"split", "index", "close"} THEN Append(index_header, open_block)
    ELSE index_header

\* No key comes twice.
HaveKeys(us) ==
    \A i \in 1..Len(us) : \A j \in 1..Len(us) : us[i].key = us[j].key => i = j

IndexIsCovered ==
    \E place, first : UnitPlaces(index_data, place) /\ Covers(Headers, index_data, place, first)

IndexIsWritten ==
    /\ AreWhole(index_data) /\ HaveKeys(index_data)
    /\ \A n \in 1..Len(index_data) : index_data[n].key \in Keys \ keys_left
    /\ index_header \in Seq(HeaderRecords) /\ open_block \in HeaderRecords
    /\ IndexIsCovered

WrittenInv == Working => IndexIsWritten

\* Nothing of it is changed.
LEMMA WrittenIsKept ==
    ASSUME IndexIsWritten, maker \in {"split", "index", "close"} <=> maker' \in {"split", "index", "close"},
           UNCHANGED <<dictionary, keys_left, index_data, index_header, open_block>>
    PROVE  IndexIsWritten'
<1>1. Headers' = Headers /\ Keys' = Keys
    BY DEF Headers, Keys
<1> QED
    BY <1>1 DEF IndexIsWritten, IndexIsCovered

\* At the start there are no units, and the open block is empty.
LEMMA WrittenAtStart ==
    ASSUME StartMaker
    PROVE  IndexIsWritten'
<1>1. index_data' = <<>> /\ index_header' = <<>> /\ open_block' = Unwritten
      /\ maker' \in {"split", "index", "close"}
    BY DEF StartMaker
<1> PICK headers : headers = Append(<<>>, Unwritten)
    OBVIOUS
<1>2. Unwritten \in HeaderRecords
    BY DEF Unwritten, HeaderRecords
<1>3. headers \in Seq(HeaderRecords) /\ Len(headers) = 1 /\ headers[1] = Unwritten
    BY <1>2
<1> PICK us : us = <<>>
    OBVIOUS
<1>4. us \in Seq(UnitRecords) /\ Len(us) = 0 /\ 1..Len(us) = {}
    OBVIOUS
<1> PICK place : place = [n \in 0..0 |-> 0]
    OBVIOUS
<1>5. UnitPlaces(us, place)
    BY <1>4 DEF UnitPlaces
<1> PICK first : first = [i \in 1..2 |-> 0]
    OBVIOUS
<1>6. Covers(headers, us, place, first)
    <2>1. IndexLength \in Nat \ {0}
        BY CreatorAssumption
    <2>2. IsIndexBlock(Unwritten, place, 0, 0)
        BY <2>1 DEF IsIndexBlock, HeaderFor, Unwritten
    <2>3. first \in [1..2 -> 0..0] /\ first[1] = 0 /\ first[2] = 0
        OBVIOUS
    <2>4. \A i \in 1..Len(headers) : IsIndexBlock(headers[i], place, first[i], first[i + 1])
        <3> SUFFICES ASSUME NEW i \in 1..Len(headers)
                     PROVE  IsIndexBlock(headers[i], place, first[i], first[i + 1])
            OBVIOUS
        <3>1. i = 1 /\ i + 1 = 2
            BY <1>3
        <3> QED
            BY ONLY <1>3, <2>2, <2>3, <3>1
    <2>5. Len(headers) + 1 = 2
        BY <1>3
    <2> QED
        BY ONLY <1>3, <1>4, <2>3, <2>4, <2>5 DEF Covers
<1>7. Headers' = headers
    BY <1>1 DEF Headers
<1>8. AreWhole(us) /\ HaveKeys(us)
    BY ONLY <1>4 DEF AreWhole, HaveKeys
<1>9. <<>> \in Seq(HeaderRecords)
    OBVIOUS
<1> QED
    BY <1>1, <1>2, <1>4, <1>5, <1>6, <1>7, <1>8, <1>9 DEF IndexIsWritten, IndexIsCovered

\* The informations of a key make a whole unit.
LEMMA UnitIsWhole ==
    ASSUME CreatorInv, maker = "index"
    PROVE  IsWhole(Unit) /\ Unit.key = Key /\ Key \in keys_left
<1>1. /\ dictionary \in Dictionaries /\ IndexIsRight
      /\ AreAllBlocks(informations, Key, blocks_length)
    BY DEF CreatorInv, Working
<1>2. Key \in keys_left /\ Keys \subseteq Strings /\ keys_left \subseteq Keys
    BY <1>1, KeyFacts, KeysFacts DEF IndexIsRight
<1> PICK infos : infos = informations
    OBVIOUS
<1>3. infos \in Seq(Information) /\ infos # <<>>
      /\ \A i \in 1..Len(infos) : infos[i].midashi \in Entries(Key)
    BY <1>1 DEF AreAllBlocks, AreBlocks, IsBlock
<1> PICK back : back = Reverse(infos)
    OBVIOUS
<1>4. /\ back \in Seq(Information) /\ Len(back) = Len(infos)
      /\ \A i \in 1..Len(infos) : back[i] = infos[(Len(infos) + 1) - i]
    BY <1>3, ReverseFacts
<1>5. back # <<>> /\ \A i \in 1..Len(back) : back[i].midashi \in DOMAIN dictionary
    <2>1. Len(infos) \in Nat /\ Len(infos) # 0
        BY <1>3
    <2>2. ASSUME NEW i \in 1..Len(infos)
          PROVE  back[i].midashi \in DOMAIN dictionary
        <3>1. (Len(infos) + 1) - i \in 1..Len(infos)
            BY <2>1
        <3>2. back[i].midashi \in Entries(Key)
            BY ONLY <1>3, <1>4, <2>2, <3>1
        <3> QED
            BY <3>2 DEF Entries
    <2> QED
        BY <1>4, <2>1, <2>2
<1>6. AreWords(back)
    <2> SUFFICES ASSUME NEW i \in 1..Len(back)
                 PROVE  back[i].midashi # <<>>
                        /\ \A j \in 1..Len(back[i].midashi) : back[i].midashi[j] # Space
        BY DEF AreWords
    <2> PICK m \in DOMAIN dictionary : m = back[i].midashi
        BY <1>5
    <2>1. m # <<>> /\ m \in Seq(0..255 \ {Space})
        BY <1>1, CreatorAssumption
    <2>2. \A j \in 1..Len(m) : m[j] # Space
        <3> PICK T : T = 0..255 \ {Space}
            OBVIOUS
        <3>1. m \in Seq(T) /\ Space \notin T
            BY <2>1
        <3>2. \A j \in 1..Len(m) : m[j] \in T
            BY ONLY <3>1
        <3> QED
            BY ONLY <3>1, <3>2
    <2> QED
        BY <2>1, <2>2
<1>7. Len(Key) = 4
    <2>1. PICK m \in DOMAIN dictionary : MidashiKey(m) = Key
        BY <1>2 DEF Keys
    <2>2. m # <<>> /\ m \in Seq(0..255 \ {Space}) /\ StartsWhole(m) /\ MidashiKey(m) # NoKey
        BY <1>1, CreatorAssumption
    <2>3. m \in Seq(0..255)
        BY <2>2
    <2> QED
        BY <2>1, <2>2, <2>3, MidashiKeyFacts
<1>8. Unit = [key |-> Key, informations |-> back]
    BY DEF Unit, InformationsReversed
<1> PICK key : key = Key
    OBVIOUS
<1>9. [key |-> key, informations |-> back] \in UnitRecords
    BY <1>2, <1>4 DEF UnitRecords
<1>10. IsWhole([key |-> key, informations |-> back])
    BY <1>5, <1>6, <1>7, <1>9 DEF IsWhole
<1> QED
    BY <1>2, <1>8, <1>10

LEMMA WrittenAddsUnit ==
    ASSUME CreatorInv, WrittenInv, AddIndexData
    PROVE  IndexIsWritten'
<1>1. maker = "index" /\ UNCHANGED dictionary
    BY DEF AddIndexData
<1>2. IndexIsWritten
    BY <1>1 DEF WrittenInv, Working
<1> PICK us, unit, header, open :
        us = index_data /\ unit = Unit /\ header = index_header /\ open = open_block
    OBVIOUS
<1>3. IsWhole(unit) /\ unit.key = Key /\ Key \in keys_left
    BY <1>1, UnitIsWhole
<1>4. /\ AreWhole(us) /\ HaveKeys(us)
      /\ \A n \in 1..Len(us) : us[n].key \in Keys \ keys_left
      /\ header \in Seq(HeaderRecords) /\ open \in HeaderRecords
    BY <1>2 DEF IndexIsWritten
<1>5. PICK place, first : UnitPlaces(us, place) /\ Covers(Append(header, open), us, place, first)
    BY <1>1, <1>2 DEF IndexIsWritten, IndexIsCovered, Headers
<1> PICK more, others : more = Append(us, unit) /\ others = MorePlaces(us, place, unit)
    OBVIOUS
<1>6. AreWhole(more) /\ UnitPlaces(more, others)
    BY <1>3, <1>4, <1>5, PlacesAppended
<1> PICK k \in Nat : k = Len(us)
    BY <1>4 DEF AreWhole
<1>7. /\ Len(more) = k + 1 /\ \A i \in 1..k : more[i] = us[i]
      /\ more[k + 1] = unit
    BY <1>3, <1>4, AppendElements DEF AreWhole, IsWhole
<1>8. HaveKeys(more)
    <2> SUFFICES ASSUME NEW i \in 1..(k + 1), NEW j \in 1..(k + 1), more[i].key = more[j].key
                 PROVE  i = j
        BY <1>7 DEF HaveKeys
    <2>1. \A n \in 1..k : more[n].key # unit.key
        BY <1>3, <1>4, <1>7
    <2>2. CASE i \in 1..k /\ j \in 1..k
        BY <1>4, <1>7, <2>2 DEF HaveKeys
    <2>3. CASE i = k + 1 /\ j \in 1..k
        BY ONLY <1>7, <2>1, <2>3, more[i].key = more[j].key
    <2>4. CASE i \in 1..k /\ j = k + 1
        BY ONLY <1>7, <2>1, <2>4, more[i].key = more[j].key
    <2> QED
        BY <2>2, <2>3, <2>4
<1>9. \A n \in 1..Len(more) : more[n].key \in Keys' \ keys_left'
    <2>1. keys_left' = keys_left \ {Key} /\ Keys' = Keys
        BY <1>1 DEF AddIndexData, Keys
    <2>2. Key \in Keys
        BY <1>1, <1>3 DEF CreatorInv, Working, IndexIsRight
    <2> SUFFICES ASSUME NEW n \in 1..(k + 1)
                 PROVE  more[n].key \in Keys \ (keys_left \ {Key})
        BY <1>7, <2>1
    <2>3. CASE n = k + 1
        BY ONLY <1>3, <1>7, <2>2, <2>3
    <2>4. CASE n \in 1..k
        BY ONLY <1>4, <1>7, <2>4, k = Len(us)
    <2> QED
        BY <2>3, <2>4
<1> PICK size \in Nat : size = UnitSize(unit)
    BY <1>3, SizeOfWhole
<1>10. index_data' = more /\ maker' \in {"split", "close"} /\ AddUnit(size)
    BY DEF AddIndexData
<1>11. Len(IndexData) = place[k]
    <2>1. IndexData = IndexDataOf(us)
        BY DEF IndexData, IndexDataOf
    <2> QED
        BY <1>4, <1>5, <2>1, UnitsAreHeld
<1>12. CASE IsFull(size)
    <2> PICK next : next = [offset |-> place[k], length |-> size, unit_length |-> 1]
        OBVIOUS
    <2>1. index_header' = Append(header, open) /\ open_block' = next
        BY <1>10, <1>11, <1>12 DEF AddUnit
    <2>2. \E f : Covers(Append(Append(header, open), next), more, others, f)
        BY <1>3, <1>4, <1>5, CoversNext
    <2>3. next \in HeaderRecords
        <3>1. place[k] \in Nat
            BY <1>5 DEF UnitPlaces
        <3> QED
            BY <3>1 DEF HeaderRecords
    <2>4. Append(header, open) \in Seq(HeaderRecords)
        BY <1>4
    <2>5. Headers' = Append(Append(header, open), next)
        BY <1>10, <2>1 DEF Headers
    <2>6. IndexIsCovered'
        BY <1>6, <1>10, <2>2, <2>5 DEF IndexIsCovered
    <2> QED
        BY <1>6, <1>8, <1>9, <1>10, <2>1, <2>3, <2>4, <2>6 DEF IndexIsWritten
<1>13. CASE ~IsFull(size)
    <2> PICK longer : longer = Longer(open, UnitSize(unit))
        OBVIOUS
    <2>1. index_header' = header /\ open_block' = longer
        BY <1>10, <1>13 DEF AddUnit, Longer
    <2>2. open.length + UnitSize(unit) < IndexLength
        <3>1. IndexLength \in Nat /\ open.length \in Nat
            BY <1>4, CreatorAssumption DEF HeaderRecords
        <3>2. ~(open.length + size >= IndexLength)
            BY <1>13 DEF IsFull
        <3> QED
            BY ONLY <3>1, <3>2, size \in Nat, size = UnitSize(unit)
    <2>3. longer \in HeaderRecords /\ \E f : Covers(Append(header, longer), more, others, f)
        <3>1. longer \in HeaderRecords
              /\ \E f : Covers(Append(header, longer), Append(us, unit), others, f)
            BY ONLY <1>3, <1>4, <1>5, <2>2, others = MorePlaces(us, place, unit), CoversMore,
                    longer = Longer(open, UnitSize(unit))
        <3> QED
            BY ONLY <3>1, more = Append(us, unit)
    <2>4. Headers' = Append(header, longer)
        BY <1>10, <2>1 DEF Headers
    <2>5. IndexIsCovered'
        BY <1>6, <1>10, <2>3, <2>4 DEF IndexIsCovered
    <2> QED
        BY <1>4, <1>6, <1>8, <1>9, <1>10, <2>1, <2>3, <2>5 DEF IndexIsWritten
<1> QED
    BY <1>12, <1>13

LEMMA WrittenIsClosed ==
    ASSUME WrittenInv, CloseIndex
    PROVE  IndexIsWritten'
<1>1. maker = "close" /\ maker' = "write"
      /\ UNCHANGED <<dictionary, keys_left, index_data, open_block>>
    BY DEF CloseIndex
<1>2. IndexIsWritten
    BY <1>1 DEF WrittenInv, Working
<1> PICK us, header, open : us = index_data /\ header = index_header /\ open = open_block
    OBVIOUS
<1>3. /\ AreWhole(us) /\ HaveKeys(us)
      /\ \A n \in 1..Len(us) : us[n].key \in Keys \ keys_left
      /\ header \in Seq(HeaderRecords) /\ open \in HeaderRecords
    BY <1>2 DEF IndexIsWritten
<1>4. PICK place, first : UnitPlaces(us, place) /\ Covers(Append(header, open), us, place, first)
    BY <1>1, <1>2 DEF IndexIsWritten, IndexIsCovered, Headers
<1>5. Keys' = Keys /\ Headers' = index_header'
    BY <1>1 DEF Keys, Headers
<1>6. index_header' \in Seq(HeaderRecords) /\ \E f : Covers(index_header', us, place, f)
    <2>1. CASE open.length > 0
        <3>1. index_header' = Append(header, open)
            BY <2>1 DEF CloseIndex
        <3> QED
            BY <1>3, <1>4, <3>1
    <2>2. CASE ~(open.length > 0)
        <3>1. index_header' = header
            BY <2>2 DEF CloseIndex
        <3>2. open.length = 0
            BY <1>3, <2>2 DEF HeaderRecords
        <3> QED
            BY <1>3, <1>4, <3>1, <3>2, CoversLess
    <2> QED
        BY <2>1, <2>2
<1>7. IndexIsCovered'
    BY <1>1, <1>4, <1>5, <1>6 DEF IndexIsCovered
<1> QED
    BY <1>1, <1>3, <1>5, <1>6, <1>7 DEF IndexIsWritten

LEMMA WrittenInvHolds ==
    ASSUME CreatorInv, WrittenInv, [Next]_vars
    PROVE  WrittenInv'
<1>1. CASE StartMaker
    BY <1>1, WrittenAtStart DEF WrittenInv
<1>2. CASE AddIndexData
    BY <1>2, WrittenAddsUnit DEF WrittenInv
<1>3. CASE CloseIndex
    BY <1>3, WrittenIsClosed DEF WrittenInv
<1>4. CASE SplitBlock \/ TruncateFile \/ WriteFront \/ WriteBlocks \/ WriteHash
    <2>1. /\ UNCHANGED <<dictionary, keys_left, index_data, index_header, open_block>>
          /\ Working' => (maker \in {"split", "index", "close"} <=>
                             maker' \in {"split", "index", "close"}) /\ Working
        BY <1>4 DEF SplitBlock, TruncateFile, WriteFront, WriteBlocks, WriteHash, indexVars, Working
    <2> QED
        BY <2>1, WrittenIsKept DEF WrittenInv
<1>5. CASE ReviseJisyo \/ SplitFindsNoEntry \/ SplitPanics \/ StopMaker
    BY <1>5 DEF ReviseJisyo, SplitFindsNoEntry, SplitPanics, StopMaker, WrittenInv, Working
<1>6. CASE UNCHANGED makerVars
    <2>1. UNCHANGED <<dictionary, maker, keys_left, index_data, index_header, open_block>>
        BY <1>6 DEF makerVars, indexVars
    <2> QED
        BY <2>1, WrittenIsKept DEF WrittenInv, Working
<1> QED
    BY <1>1, <1>2, <1>3, <1>4, <1>5, <1>6 DEF Next, NextMaker, MakerStep, SetupStep, SearchStep,
        ValidateHash, SetupIsUnreliable, LoadTable, LoadIndexBlock, FinishSetup, Ask,
        HintOfFew, StartBinarySearch, LeaveBinarySearch, EndBinarySearch, ContinueBinarySearch,
        ReadIsUnreliable, ReadCandidates, StartCompletion, ReadCompletions, SendReply, vars

-----------------------------------------------------------------------------
(***************************************************************************)
(* What is in the file, and what the server has read of it.               *)
(***************************************************************************)

\* How the units of a file became its front.
IsLayout(f, headers, length, place, first) ==
    /\ AreWhole(f.units) /\ HaveSlots(f.units) /\ length \in Nat
    /\ UnitPlaces(f.units, place) /\ Covers(headers, f.units, place, first)
    /\ f.front = FrontOf(f.units, headers, length)

IsWritten(f) == \E headers, length, place, first : IsLayout(f, headers, length, place, first)

LEMMA SameFront ==
    ASSUME NEW f, IsWritten(f), NEW g, g.front = f.front, g.units = f.units
    PROVE  IsWritten(g)
BY DEF IsWritten, IsLayout

\* The creator writes such a front.
LEMMA FrontIsWritten ==
    ASSUME CreatorInv, IndexIsWritten, maker = "front"
    PROVE  IsWritten(WithFront)
<1>1. dictionary \in Dictionaries /\ blocks_length \in Nat
    BY DEF CreatorInv, Working, IndexIsRight
<1> PICK us, headers : us = index_data /\ headers = index_header
    OBVIOUS
<1>2. AreWhole(us) /\ HaveKeys(us) /\ \A n \in 1..Len(us) : us[n].key \in Keys
    BY DEF IndexIsWritten
<1>3. PICK place, first : UnitPlaces(us, place) /\ Covers(headers, us, place, first)
    BY DEF IndexIsWritten, IndexIsCovered, Headers
<1>4. \A key \in Keys : IsKey(key)
    <2> SUFFICES ASSUME NEW m \in DOMAIN dictionary
                 PROVE  IsKey(MidashiKey(m))
        BY DEF Keys
    <2>1. m # <<>> /\ m \in Seq(0..255 \ {Space}) /\ StartsWhole(m) /\ MidashiKey(m) # NoKey
        BY <1>1, CreatorAssumption
    <2>2. m \in Seq(0..255)
        BY <2>1
    <2> QED
        BY <2>1, <2>2 DEF IsKey
<1>5. HaveSlots(us)
    <2> SUFFICES ASSUME NEW i \in 1..Len(us), NEW j \in 1..Len(us),
                        Slot(us[i].key) = Slot(us[j].key)
                 PROVE  i = j
        BY DEF HaveSlots
    <2>1. us[i].key = us[j].key
        BY <1>2, <1>4, SlotsDiffer
    <2> QED
        BY <1>2, <2>1 DEF HaveKeys
<1>6. IndexData = IndexDataOf(us)
    BY DEF IndexData, IndexDataOf
<1> PICK l \in Nat : l = blocks_length
    BY <1>1
<1>7. Header = FixedOf(us, headers, l)
    BY <1>6 DEF Header, FixedOf, IndexHeader
<1>8. WithFront.front = FrontOf(us, headers, l) /\ WithFront.units = us
    BY <1>6, <1>7 DEF WithFront, FrontOf, IndexHeader
<1>9. IsLayout(WithFront, headers, l, place, first)
    BY ONLY <1>2, <1>3, <1>5, <1>8, l \in Nat DEF IsLayout
<1> QED
    BY <1>9 DEF IsWritten

\* A file with a hash has a front that can be read.
FrontInv ==
    /\ file # NoFile /\ file.hashed => IsWritten(file)
    /\ maker \in {"blocks", "hash"} => IsWritten(file)

FoundIsWritten == server # "down" => IsWritten(found)

LEMMA FrontInvHolds ==
    ASSUME CreatorInv, WrittenInv, FileInv, FrontInv, [Next]_vars
    PROVE  FrontInv'
<1>1. CASE TruncateFile
    BY <1>1 DEF TruncateFile, FrontInv, Truncated
<1>2. CASE WriteFront
    <2>1. maker = "front" /\ maker' \in {"blocks", "io_error"}
        BY <1>2 DEF WriteFront
    <2>2. CASE file' = WithFront /\ maker' = "blocks"
        <3>1. IsWritten(WithFront)
            BY <2>1, FrontIsWritten DEF WrittenInv, Working
        <3>2. IsWritten(file')
            BY ONLY <2>2, <3>1
        <3> QED
            BY ONLY <3>2 DEF FrontInv
    <2>3. CASE file' = Truncated /\ maker' = "io_error"
        BY <2>3 DEF FrontInv, Truncated
    <2> QED
        BY <1>2, <2>2, <2>3 DEF WriteFront
<1>3. CASE WriteBlocks \/ WriteHash
    <2>1. maker \in {"blocks", "hash"} /\ maker' \in {"hash", "done", "io_error"}
        BY <1>3 DEF WriteBlocks, WriteHash
    <2>2. IsWritten(file)
        BY <2>1 DEF FrontInv
    <2>3. PICK front, places : file = [front |-> front, blocks |-> places, hashed |-> FALSE,
                                        jisyo |-> dictionary, units |-> index_data]
        BY <2>1 DEF FileInv
    <2>4. \/ file' = [file EXCEPT !.blocks = blocks] \/ file' = [file EXCEPT !.hashed = TRUE]
          \/ file' = file
        BY <1>3 DEF WriteBlocks, WriteHash
    <2>5. file'.front = file.front /\ file'.units = file.units
        BY ONLY <2>3, <2>4
    <2> PICK f : f = file'
        OBVIOUS
    <2>6. IsWritten(f)
        BY <2>2, <2>5, SameFront
    <2>7. IsWritten(file')
        BY ONLY <2>6, f = file'
    <2> QED
        BY ONLY <2>7 DEF FrontInv
<1>4. CASE UNCHANGED file /\ maker' \notin {"blocks", "hash"}
    BY <1>4 DEF FrontInv
<1>5. CASE UNCHANGED makerVars
    BY <1>5 DEF FrontInv, makerVars
<1>6. ReviseJisyo \/ StartMaker \/ SplitBlock \/ SplitFindsNoEntry \/ SplitPanics
         \/ AddIndexData \/ CloseIndex \/ StopMaker => UNCHANGED file /\ maker' \notin {"blocks", "hash"}
    BY DEF ReviseJisyo, StartMaker, SplitBlock, SplitFindsNoEntry, SplitPanics,
           AddIndexData, CloseIndex, StopMaker
<1> QED
    BY <1>1, <1>2, <1>3, <1>4, <1>5, <1>6 DEF Next, NextMaker, MakerStep, SetupStep,
        SearchStep, ValidateHash, SetupIsUnreliable, LoadTable, LoadIndexBlock, FinishSetup, Ask,
        HintOfFew, StartBinarySearch, LeaveBinarySearch, EndBinarySearch, ContinueBinarySearch,
        ReadIsUnreliable, ReadCandidates, StartCompletion, ReadCompletions, SendReply, vars

LEMMA FoundIsWrittenHolds ==
    ASSUME FrontInv, FoundIsWritten, [Next]_vars
    PROVE  FoundIsWritten'
<1>1. CASE ValidateHash
    BY <1>1 DEF ValidateHash, FrontInv, FoundIsWritten
<1>2. CASE UNCHANGED <<server, found>>
    BY <1>2 DEF FoundIsWritten
<1>3. CASE UNCHANGED found /\ server # "down"
    BY <1>3 DEF FoundIsWritten
<1> QED
    BY <1>1, <1>2, <1>3 DEF Next, SetupStep,
        SearchStep, SetupIsUnreliable, LoadTable, LoadIndexBlock, FinishSetup, Ask,
        HintOfFew, StartBinarySearch, LeaveBinarySearch, EndBinarySearch, ContinueBinarySearch,
        ReadIsUnreliable, ReadCandidates, StartCompletion, ReadCompletions, SendReply, vars,
        setupVars

LEMMA EmptyIndex ==
    ASSUME NEW us
    PROVE  IndexOf(us, 0) = <<>>
<1> PICK S : S = {Slot(us[n].key) : n \in 1..0}
    OBVIOUS
<1>1. S = {}
    OBVIOUS
<1>2. IndexOf(us, 0) = [slot \in S |-> us[UnitFor(us, slot)].informations]
    BY DEF IndexOf
<1> QED
    BY ONLY <1>1, <1>2

\* With all units the index is what the creator meant.
LEMMA FullIndex ==
    ASSUME NEW us, AreWhole(us), HaveSlots(us), NEW idx, idx = IndexOf(us, Len(us))
    PROVE  /\ DOMAIN idx = {Slot(us[n].key) : n \in DOMAIN us}
           /\ \A n \in DOMAIN us : idx[Slot(us[n].key)] = us[n].informations
<1>1. DOMAIN us = 1..Len(us)
    BY DEF AreWhole
<1> PICK S : S = {Slot(us[n].key) : n \in 1..Len(us)}
    OBVIOUS
<1>2. idx = [slot \in S |-> us[UnitFor(us, slot)].informations]
    BY DEF IndexOf
<1>3. ASSUME NEW n \in 1..Len(us)
      PROVE  idx[Slot(us[n].key)] = us[n].informations
    <2>1. Slot(us[n].key) \in S /\ UnitFor(us, Slot(us[n].key)) = n
        BY UnitForSlot
    <2> QED
        BY ONLY <1>2, <2>1
<1> QED
    BY ONLY <1>1, <1>2, <1>3, S = {Slot(us[n].key) : n \in 1..Len(us)}

NextBlock(f, block, n) ==
    UnitsRead(ReadExact(f.front, FixedHeaderOf(f.front).index_data_offset + block.offset,
                        block.length),
              block.unit_length, IndexOf(f.units, n))

\* The next block of the index: its units, and how long it may be.
LEMMA NextBlockIsRead ==
    ASSUME NEW f, NEW headers, NEW length, NEW place, NEW first,
           IsLayout(f, headers, length, place, first),
           NEW n \in Nat, n < Len(headers)
    PROVE  /\ NextBlock(f, headers[n + 1], first[n + 1]).index = IndexOf(f.units, first[n + 2])
           /\ NextBlock(f, headers[n + 1], first[n + 1]).is_consistent = TRUE
           /\ headers[n + 1].length > IndexLength =>
                 \E m \in DOMAIN f.units : UnitSize(f.units[m]) > IndexLength
<1> PICK header, block : header = FixedHeaderOf(f.front) /\ block = headers[n + 1]
    OBVIOUS
<1> PICK read : read = NextBlock(f, block, first[n + 1])
    OBVIOUS
<1> PICK us, front : us = f.units /\ front = f.front
    OBVIOUS
<1>1. /\ AreWhole(us) /\ HaveSlots(us) /\ UnitPlaces(us, place) /\ Covers(headers, us, place, first)
      /\ front = FrontOf(us, headers, length) /\ length \in Nat
    BY DEF IsLayout
<1> PICK k \in Nat : k = Len(us)
    BY <1>1 DEF AreWhole
<1>2. headers \in Seq(HeaderRecords)
    BY <1>1 DEF Covers
<1> PICK o : o = header.index_data_offset
    OBVIOUS
<1>3. Holds(front, o, IndexDataOf(us))
    BY <1>1, <1>2, FrontIsRead
<1>4. n + 1 \in 1..Len(headers) /\ n + 1 \in 1..(Len(headers) + 1) /\ n + 2 \in 1..(Len(headers) + 1)
      /\ (n + 1) + 1 = n + 2
    BY <1>2
<1> PICK i \in 0..k, j \in 0..k : i = first[n + 1] /\ j = first[n + 2]
    <2>1. first \in [1..(Len(headers) + 1) -> 0..k]
        BY <1>1 DEF Covers
    <2> QED
        BY ONLY <1>4, <2>1
<1>5. IsIndexBlock(block, place, i, j)
    <2>1. IsIndexBlock(headers[n + 1], place, first[n + 1], first[(n + 1) + 1])
        BY ONLY <1>1, <1>4 DEF Covers
    <2> QED
        BY ONLY <1>4, <2>1, i = first[n + 1], j = first[n + 2], block = headers[n + 1]
<1>6. /\ i <= j /\ block.offset = place[i] /\ block.length = place[j] - place[i]
      /\ block.unit_length = j - i
      /\ block.length < IndexLength \/ j <= i + 1
    BY ONLY <1>5 DEF IsIndexBlock, HeaderFor
<1>7. i \in 0..Len(us) /\ j \in i..Len(us)
    BY <1>6
<1>8. UnitsRead(ReadExact(front, o + place[i], place[j] - place[i]), j - i, IndexOf(us, i))
         = [at |-> place[j] - place[i], index |-> IndexOf(us, j), is_consistent |-> TRUE]
    BY ONLY <1>1, <1>3, <1>7, BlockIsRead
<1>9. read = [at |-> place[j] - place[i], index |-> IndexOf(us, j), is_consistent |-> TRUE]
    BY ONLY <1>6, <1>8, us = f.units, front = f.front, o = header.index_data_offset,
            i = first[n + 1], header = FixedHeaderOf(f.front),
            read = NextBlock(f, block, first[n + 1]) DEF NextBlock
<1>10. ASSUME block.length > IndexLength
       PROVE  \E m \in DOMAIN us : UnitSize(us[m]) > IndexLength
    <2>1. IndexLength \in Nat
        BY CreatorAssumption
    <2>2. place[i] \in Nat /\ place[j] \in Nat
        BY <1>1 DEF UnitPlaces
    <2>3. j <= i + 1
        BY ONLY <1>6, <1>10, <2>1, <2>2
    <2>4. j # i
        BY <1>6, <1>10, <2>1, <2>2
    <2>5. j = i + 1 /\ j \in 1..k /\ j - 1 = i
        BY <1>6, <2>3, <2>4
    <2>6. place[j] = place[j - 1] + UnitSize(us[j])
        BY ONLY <1>1, <2>5, k = Len(us) DEF UnitPlaces
    <2>7. UnitSize(us[j]) \in Nat
        BY ONLY <1>1, <2>5, k = Len(us), UnitSizes
    <2>8. UnitSize(us[j]) > IndexLength
        BY ONLY <1>6, <1>10, <2>1, <2>2, <2>5, <2>6, <2>7
    <2>9. j \in DOMAIN us
        BY <1>1, <2>5 DEF AreWhole
    <2> QED
        BY <2>8, <2>9
<1> QED
    BY ONLY <1>9, <1>10, us = f.units, j = first[n + 2], block = headers[n + 1],
            read = NextBlock(f, block, first[n + 1])

\* The first n blocks of the index are read.
IsLoading(f, n, idx) ==
    \E headers, length, place, first :
       /\ IsLayout(f, headers, length, place, first)
       /\ n \in 0..Len(headers) /\ idx = IndexOf(f.units, first[n + 1])

TableIsLoaded ==
    encoding_table = [combinations |-> CombinationUnits, characters |-> CharacterUnits]

SetupInv ==
    /\ server = "table" => blocks_read = 0 /\ index = <<>>
    /\ server = "index" => IsLoading(found, blocks_read, index) /\ TableIsLoaded
    /\ LoadedIsWritten


\* What the header of the index tells the server.
LEMMA LayoutIsRead ==
    ASSUME NEW f, NEW headers, NEW length, NEW place, NEW first,
           IsLayout(f, headers, length, place, first),
           NEW header, header = FixedHeaderOf(f.front),
           NEW bytes, bytes = ReadExact(f.front, header.index_data_header_offset,
                                        header.index_data_header_length)
    PROVE  /\ header.blocks_offset = Len(f.front)
           /\ header.encoding = ToU32(DictionaryEncoding)
           /\ ReadExact(f.front, header.encoding_table_offset, header.encoding_table_length)
                 = TableBytes
           /\ IndexHeaderOf(bytes).block_buffer_length = IndexLength
           /\ IndexHeaderOf(bytes).block_header_length = Len(headers)
           /\ \A i \in 1..Len(headers) : BlockHeaderOf(bytes, i - 1) = headers[i]
<1>1. /\ AreWhole(f.units) /\ UnitPlaces(f.units, place) /\ headers \in Seq(HeaderRecords)
      /\ f.front = FrontOf(f.units, headers, length) /\ length \in Nat
    BY DEF IsLayout, Covers
<1> PICK us, front : us = f.units /\ front = f.front
    OBVIOUS
<1>2. /\ header.blocks_offset = Len(front) /\ header.encoding = ToU32(DictionaryEncoding)
      /\ ReadExact(front, header.encoding_table_offset, header.encoding_table_length) = TableBytes
      /\ bytes = IndexHeaderBytes(IndexLength, headers)
    BY <1>1, FrontIsRead
<1>3. IndexLength \in Nat
    BY CreatorAssumption
<1>4. /\ IndexHeaderOf(IndexHeaderBytes(IndexLength, headers)) =
            [block_buffer_length |-> IndexLength, block_header_length |-> Len(headers)]
      /\ \A i \in 1..Len(headers) :
            BlockHeaderOf(IndexHeaderBytes(IndexLength, headers), i - 1) = headers[i]
    BY ONLY <1>1, <1>3, IndexHeaderIsRead
<1>5. IndexHeaderOf(bytes) = [block_buffer_length |-> IndexLength,
                              block_header_length |-> Len(headers)]
    BY ONLY <1>2, <1>4
<1>6. \A i \in 1..Len(headers) : BlockHeaderOf(bytes, i - 1) = headers[i]
    BY ONLY <1>2, <1>4
<1> QED
    BY ONLY <1>2, <1>5, <1>6, front = f.front

\* The table, read first.
LEMMA SetupReadsTable ==
    ASSUME FoundIsWritten, SetupInv, LoadTable
    PROVE  SetupInv'
<1>1. server = "table" /\ server' = "index" /\ IsUnchanged /\ UNCHANGED <<found, blocks_read, index>>
    BY DEF LoadTable
<1>2. blocks_read = 0 /\ index = <<>>
    BY <1>1 DEF SetupInv
<1>3. IsWritten(found)
    BY <1>1 DEF FoundIsWritten
<1> PICK headers, length, place, first : IsLayout(found, headers, length, place, first)
    BY <1>3 DEF IsWritten
<1>4. TableIsLoaded'
    <2> PICK bytes : bytes = ReadExact(file.front, LoadedHeader.encoding_table_offset,
                                       LoadedHeader.encoding_table_length)
        OBVIOUS
    <2>1. encoding_table' = [combinations |-> CombinationsIn(bytes),
                             characters |-> CharactersIn(bytes)]
        BY DEF LoadTable
    <2>2. file.front = found.front
        BY <1>1 DEF IsUnchanged
    <2>3. bytes = TableBytes
        BY <2>2, LayoutIsRead DEF LoadedHeader
    <2> QED
        BY <2>1, <2>3, TableIsRead DEF TableIsLoaded
<1>5. IsLoading(found, blocks_read, index)
    <2>1. 0 \in 0..Len(headers)
        BY DEF IsLayout, Covers
    <2>2. first[0 + 1] = 0
        BY DEF IsLayout, Covers
    <2>3. index = IndexOf(found.units, first[0 + 1])
        BY ONLY <1>2, <2>2, EmptyIndex
    <2>4. blocks_read \in 0..Len(headers) /\ index = IndexOf(found.units, first[blocks_read + 1])
        BY ONLY <1>2, <2>1, <2>3
    <2> QED
        BY <2>4 DEF IsLoading
<1>6. IsLoading(found, blocks_read, index)'
    BY ONLY <1>1, <1>5 DEF IsLoading
<1> QED
    BY ONLY <1>1, <1>4, <1>6 DEF SetupInv, LoadedIsWritten

\* The index, one block after the other; what makes a block too long for the buffer is one key.
LEMMA SetupReadsIndex ==
    ASSUME SetupInv, LoadIndexBlock
    PROVE  /\ SetupInv'
           /\ server' = "panic" =>
                 \E m \in DOMAIN found.units : UnitSize(found.units[m]) > IndexLength
<1>1. /\ server = "index" /\ IsUnchanged /\ UNCHANGED <<found, encoding_table>>
      /\ blocks_read < IndexHeaderOf(LoadedIndexHeader).block_header_length
      /\ blocks_read' = blocks_read + 1 /\ file.front = found.front
    BY DEF LoadIndexBlock, IsUnchanged
<1>2. IsLoading(found, blocks_read, index) /\ TableIsLoaded
    BY <1>1 DEF SetupInv
<1> PICK headers, length, place, first :
        /\ IsLayout(found, headers, length, place, first)
        /\ blocks_read \in 0..Len(headers) /\ index = IndexOf(found.units, first[blocks_read + 1])
    BY <1>2 DEF IsLoading
<1> PICK n \in Nat : n = blocks_read
    OBVIOUS
<1>3. /\ IndexHeaderOf(LoadedIndexHeader).block_buffer_length = IndexLength
      /\ IndexHeaderOf(LoadedIndexHeader).block_header_length = Len(headers)
      /\ \A i \in 1..Len(headers) : BlockHeaderOf(LoadedIndexHeader, i - 1) = headers[i]
    BY LayoutIsRead DEF LoadedIndexHeader, LoadedHeader
<1>4. Len(headers) \in Nat /\ n < Len(headers)
    BY <1>1, <1>3 DEF IsLayout, Covers
<1> PICK block : block = BlockHeaderOf(LoadedIndexHeader, n)
    OBVIOUS
<1>5. block = headers[n + 1]
    <2> PICK i \in 1..Len(headers) : i = n + 1
        BY <1>4
    <2>1. i - 1 = n
        OBVIOUS
    <2> QED
        BY ONLY <1>3, <2>1, i = n + 1, block = BlockHeaderOf(LoadedIndexHeader, n)
<1> PICK read : read = UnitsRead(ReadExact(found.front, LoadedHeader.index_data_offset + block.offset,
                                           block.length),
                                 block.unit_length, index)
    OBVIOUS
<1>6. /\ read.index = IndexOf(found.units, first[n + 2]) /\ read.is_consistent = TRUE
      /\ block.length > IndexLength =>
            \E m \in DOMAIN found.units : UnitSize(found.units[m]) > IndexLength
    <2>1. IsLayout(found, headers, length, place, first) /\ n \in Nat /\ n < Len(headers)
          /\ block = headers[n + 1]
        BY ONLY <1>4, <1>5, n \in Nat, IsLayout(found, headers, length, place, first)
    <2>2. read = NextBlock(found, headers[n + 1], first[n + 1])
        BY <1>5 DEF LoadedHeader, NextBlock
    <2>3. /\ NextBlock(found, headers[n + 1], first[n + 1]).index
                = IndexOf(found.units, first[n + 2])
          /\ NextBlock(found, headers[n + 1], first[n + 1]).is_consistent = TRUE
          /\ headers[n + 1].length > IndexLength =>
                \E m \in DOMAIN found.units : UnitSize(found.units[m]) > IndexLength
        BY ONLY <2>1, NextBlockIsRead
    <2> QED
        BY ONLY <2>1, <2>2, <2>3
<1>7. IF block.length <= IndexLength /\ read.is_consistent
      THEN index' = read.index /\ UNCHANGED server
      ELSE server' = "panic" /\ UNCHANGED index
    BY <1>1, <1>3 DEF LoadIndexBlock
<1>8. CASE index' = read.index /\ UNCHANGED server
    <2>1. blocks_read' \in 0..Len(headers) /\ blocks_read' + 1 = n + 2
        BY ONLY <1>1, <1>4, n \in Nat, n = blocks_read
    <2>2. index' = IndexOf(found.units, first[blocks_read' + 1])
        BY ONLY <1>6, <1>8, <2>1
    <2>3. IsLoading(found, blocks_read', index')
        BY <2>1, <2>2 DEF IsLoading
    <2>4. IsLoading(found, blocks_read, index)'
        BY ONLY <1>1, <2>3 DEF IsLoading
    <2>5. TableIsLoaded'
        BY <1>1, <1>2 DEF TableIsLoaded
    <2>6. server' = "index"
        BY <1>1, <1>8
    <2>7. SetupInv'
        BY ONLY <2>4, <2>5, <2>6 DEF SetupInv, LoadedIsWritten
    <2> QED
        BY ONLY <2>6, <2>7
<1>9. CASE server' = "panic" /\ ~(block.length <= IndexLength /\ read.is_consistent)
    <2>1. block.length \in Nat /\ IndexLength \in Nat
        <3>1. headers \in Seq(HeaderRecords) /\ n + 1 \in 1..Len(headers)
            BY <1>4 DEF IsLayout, Covers
        <3>2. headers[n + 1] \in HeaderRecords
            BY ONLY <3>1
        <3> QED
            BY <1>5, <3>2, CreatorAssumption DEF HeaderRecords
    <2>2. \E m \in DOMAIN found.units : UnitSize(found.units[m]) > IndexLength
        BY ONLY <1>6, <1>9, <2>1
    <2>3. SetupInv'
        BY ONLY <1>9 DEF SetupInv, LoadedIsWritten
    <2> QED
        BY ONLY <2>2, <2>3
<1> QED
    BY <1>1, <1>7, <1>8, <1>9

\* All of it is read.
LEMMA SetupEnds ==
    ASSUME SetupInv, FinishSetup
    PROVE  SetupInv'
<1>1. /\ server = "index" /\ server' = "up" /\ UNCHANGED <<found, encoding_table, blocks_read, index>>
      /\ blocks_read = IndexHeaderOf(LoadedIndexHeader).block_header_length
    BY DEF FinishSetup
<1>2. IsLoading(found, blocks_read, index) /\ TableIsLoaded
    BY <1>1 DEF SetupInv
<1> PICK headers, length, place, first :
        /\ IsLayout(found, headers, length, place, first)
        /\ blocks_read \in 0..Len(headers) /\ index = IndexOf(found.units, first[blocks_read + 1])
    BY <1>2 DEF IsLoading
<1>3. /\ IndexHeaderOf(LoadedIndexHeader).block_header_length = Len(headers)
      /\ LoadedHeader.blocks_offset = Len(found.front)
      /\ FromU32(LoadedHeader.encoding) = DictionaryEncoding
    BY LayoutIsRead, EncodingIsNamed DEF LoadedIndexHeader, LoadedHeader
<1>4. AreWhole(found.units) /\ HaveSlots(found.units) /\ first[Len(headers) + 1] = Len(found.units)
    BY DEF IsLayout, Covers
<1>5. index = IndexOf(found.units, Len(found.units))
    BY <1>1, <1>3, <1>4
<1>6. /\ DOMAIN index = {Slot(found.units[n].key) : n \in DOMAIN found.units}
      /\ \A n \in DOMAIN found.units :
            index[Slot(found.units[n].key)] = found.units[n].informations
    BY <1>4, <1>5, FullIndex
<1>7. encoding_table = [combinations |-> CombinationUnits, characters |-> CharacterUnits]
    BY <1>2 DEF TableIsLoaded
<1>8. LoadedIsWritten'
    <2> PICK us, idx, l, t : us = found.units /\ idx = index /\ l = found.front /\ t = encoding_table
        OBVIOUS
    <2>1. us = found'.units /\ idx = index' /\ t = encoding_table' /\ l = found'.front
        BY <1>1
    <2> QED
        BY <1>1, <1>3, <1>6, <1>7 DEF LoadedIsWritten, LoadedHeader
<1> QED
    BY ONLY <1>1, <1>8 DEF SetupInv

LEMMA SetupInvHolds ==
    ASSUME FoundIsWritten, SetupInv, [Next]_vars
    PROVE  SetupInv'
<1>1. CASE ValidateHash
    BY <1>1 DEF ValidateHash, SetupInv, LoadedIsWritten
<1>2. CASE SetupIsUnreliable
    BY <1>2 DEF SetupIsUnreliable, SetupInv, LoadedIsWritten
<1>3. CASE UNCHANGED setupVars
    BY <1>3 DEF setupVars, SetupInv, LoadedIsWritten, IsLoading,
                TableIsLoaded, LoadedHeader
<1> QED
    BY <1>1, <1>2, <1>3, SetupReadsTable, SetupReadsIndex, SetupEnds DEF Next, SetupStep,
        SearchStep, Ask,
        HintOfFew, StartBinarySearch, LeaveBinarySearch, EndBinarySearch, ContinueBinarySearch,
        ReadIsUnreliable, ReadCandidates, StartCompletion, ReadCompletions, SendReply, vars

-----------------------------------------------------------------------------
(***************************************************************************)
(* The search for the block to start from, in an index that is the one     *)
(* that was written.                                                       *)
(***************************************************************************)

\* What the index holds are the informations of one of the units.
LEMMA InfosFacts ==
    ASSUME IsDictionary(found), LoadedIsWritten, server = "up", HasBlocks(MidashiKey(midashi))
    PROVE  /\ Infos \in Seq(Information) /\ N \in Nat \ {0} /\ IsDescending(Infos)
           /\ \A m \in DOMAIN found.jisyo :
                 MidashiKey(m) = MidashiKey(midashi) =>
                    LeadsTo(Infos, m, found.blocks[m], found.jisyo[m])
<1>1. /\ found.units \in Seq(UnitRecords)
      /\ \A n \in 1..Len(found.units) :
            found.units[n].informations # <<>> /\ IsDescending(found.units[n].informations)
    BY DEF IsDictionary
<1>2. /\ DOMAIN found.units = 1..Len(found.units)
      /\ DOMAIN index = {Slot(found.units[n].key) : n \in DOMAIN found.units}
      /\ \A n \in DOMAIN found.units :
            index[Slot(found.units[n].key)] = found.units[n].informations
    BY <1>1 DEF LoadedIsWritten
<1>3. PICK n \in 1..Len(found.units) : Slot(MidashiKey(midashi)) = Slot(found.units[n].key)
    BY <1>2 DEF HasBlocks
<1>4. Infos = found.units[n].informations
    BY <1>2, <1>3 DEF Infos
<1>5. found.units[n] \in UnitRecords
    BY <1>1
<1>6. Infos \in Seq(Information) /\ Infos # <<>> /\ IsDescending(Infos)
    BY <1>1, <1>4, <1>5 DEF UnitRecords
<1>7. N \in Nat \ {0}
    BY <1>6 DEF N
<1>8. ASSUME NEW m \in DOMAIN found.jisyo, MidashiKey(m) = MidashiKey(midashi)
      PROVE  LeadsTo(Infos, m, found.blocks[m], found.jisyo[m])
    <2>1. PICK k \in 1..Len(found.units) :
             /\ found.units[k].key = MidashiKey(midashi)
             /\ LeadsTo(found.units[k].informations, m, found.blocks[m], found.jisyo[m])
        BY <1>8 DEF IsDictionary
    <2>2. Infos = found.units[k].informations
        BY <1>2, <2>1 DEF Infos
    <2> QED
        BY <2>1, <2>2
<1> QED
    BY <1>6, <1>7, <1>8

\* The block to start from.
Target == Min({i \in 0..(N - 1) : ~Precedes(midashi, Info(i).midashi)} \cup {N})

Searchable ==
    Infos \in Seq(Information) /\ N \in Nat \ {0} /\ IsDescending(Infos) /\ midashi \in Strings

LEMMA TargetFacts ==
    ASSUME Searchable
    PROVE  /\ Target \in 0..N
           /\ Target < N => ~Precedes(midashi, Info(Target).midashi)
           /\ \A i \in 0..(N - 1) : i < Target => Precedes(midashi, Info(i).midashi)
           /\ \A i \in 0..(N - 1) : ~Precedes(midashi, Info(i).midashi) => Target <= i
           /\ \A i \in 0..(N - 1) : IF IsGreaterThan(i) THEN Target <= i ELSE i <= Target
<1> DEFINE S == {i \in 0..(N - 1) : ~Precedes(midashi, Info(i).midashi)}
<1>1. Infos \in Seq(Information) /\ N \in Nat /\ IsDescending(Infos) /\ midashi \in Strings
      /\ Len(Infos) = N
    BY DEF Searchable, N
<1>2. S \cup {N} \in SUBSET Nat /\ S \cup {N} # {}
    BY <1>1
<1>3. Target \in S \cup {N} /\ \A e \in S \cup {N} : Target <= e
    BY <1>2, MinIsLeast DEF Target
<1>4. Target \in 0..N /\ (Target < N => ~Precedes(midashi, Info(Target).midashi))
    BY <1>1, <1>3
<1>5. \A i \in 0..(N - 1) : i < Target => Precedes(midashi, Info(i).midashi)
    BY <1>3, <1>4
<1>6. \A i \in 0..(N - 1) : ~Precedes(midashi, Info(i).midashi) => Target <= i
    BY <1>3
<1>7. ASSUME NEW i \in 0..(N - 1)
      PROVE  Info(i).midashi \in Strings
    <2>1. Infos[i + 1] \in Information
        BY <1>1
    <2> QED
        BY <2>1 DEF Info, Information
<1>8. ASSUME NEW i \in 0..(N - 1)
      PROVE  IF IsGreaterThan(i) THEN Target <= i ELSE i <= Target
    <2> PICK word \in Strings : word = midashi
        BY <1>1
    <2> PICK head \in Strings : head = Info(i).midashi
        BY <1>7
    <2>1. CASE IsGreaterThan(i)
        <3>1. Precedes(head, word)
            BY <2>1 DEF IsGreaterThan
        <3>2. ~Precedes(word, head)
            BY <3>1, PrecedesIsTransitive, PrecedesIsIrreflexive
        <3> QED
            BY <1>6, <2>1, <3>2
    <2>2. CASE ~IsGreaterThan(i)
        <3>1. word = head \/ Precedes(word, head)
            BY <2>2, PrecedesIsTotal DEF IsGreaterThan
        <3>2. CASE Target < i
            <4>1. Target + 1 \in 1..N /\ i + 1 \in 1..N /\ Target + 1 < i + 1 /\ Target < N
                  /\ Target \in 0..(N - 1)
                BY <1>1, <1>4, <3>2
            <4> PICK other \in Strings : other = Info(Target).midashi
                BY <1>7, <4>1
            <4>2. Precedes(head, other)
                BY <1>1, <4>1 DEF IsDescending, Info
            <4>3. Precedes(word, other)
                BY <3>1, <4>2, PrecedesIsTransitive
            <4> QED
                BY <1>4, <4>1, <4>3
        <3> QED
            BY <1>4, <2>2, <3>2
    <2> QED
        BY <2>1, <2>2
<1> QED
    BY <1>4, <1>5, <1>6, <1>8

\* In the binary search at is well inside as long as the steps are longer than one, and
\* then between a block that was too small and one that was not.
Narrowing ==
    /\ N >= BINARY_SEARCH_THRESHOLD
    /\ at \in 0..(N - 1) /\ diff \in Nat \ {0}
    /\ diff_zero_count \in {0, 1} /\ previous_direction \in {0, 1}
    /\ diff_zero_count = 0 => at - 2 * diff >= 0 /\ at + 2 * diff <= N
    /\ diff_zero_count = 1 =>
          /\ diff = 1
          /\ previous_direction = 0 => at + 1 \in 0..(N - 1) /\ IsGreaterThan(at + 1)
          /\ previous_direction = 1 => at - 1 \in 0..(N - 1) /\ ~IsGreaterThan(at - 1)

IsClose ==
    /\ at \in Nat /\ at <= Target
    /\ Target - at <= IF N < BINARY_SEARCH_THRESHOLD THEN BINARY_SEARCH_THRESHOLD \div 2 ELSE 2

LEMMA FewAreClose ==
    ASSUME Searchable, HintOfFew
    PROVE  /\ at' \in Nat /\ at' <= Target
           /\ Target - at' <= BINARY_SEARCH_THRESHOLD \div 2
           /\ N < BINARY_SEARCH_THRESHOLD
<1>1. /\ N < BINARY_SEARCH_THRESHOLD
      /\ at' = IF N < RETURN_ZERO_THRESHOLD \/ IsGreaterThan(N \div 2) THEN 0 ELSE N \div 2
    BY DEF HintOfFew
<1>2. /\ {RETURN_ZERO_THRESHOLD, BINARY_SEARCH_THRESHOLD} \subseteq Nat
      /\ RETURN_ZERO_THRESHOLD - 1 <= BINARY_SEARCH_THRESHOLD \div 2
    BY SearchAssumption
<1> PICK n \in Nat : n = N /\ n # 0
    BY DEF Searchable
<1> PICK t \in 0..n : t = Target
    BY TargetFacts
<1> PICK rzt \in Nat, bst \in Nat :
        rzt = RETURN_ZERO_THRESHOLD /\ bst = BINARY_SEARCH_THRESHOLD
    BY <1>2
<1>3. n \div 2 \in 0..(n - 1)
    OBVIOUS
<1>4. IF IsGreaterThan(n \div 2) THEN t <= n \div 2 ELSE n \div 2 <= t
    BY <1>3, TargetFacts
<1>5. n < bst /\ rzt - 1 <= bst \div 2
    BY <1>1, <1>2
<1>6. CASE n < rzt
    <2>1. at' = 0
        BY <1>1, <1>6
    <2> QED
        BY <1>5, <1>6, <2>1
<1>7. CASE ~(n < rzt) /\ IsGreaterThan(n \div 2)
    <2>1. at' = 0 /\ t <= n \div 2
        BY <1>1, <1>4, <1>7
    <2> QED
        BY <1>5, <2>1
<1>8. CASE ~(n < rzt) /\ ~IsGreaterThan(n \div 2)
    <2>1. at' = n \div 2 /\ n \div 2 <= t
        BY <1>1, <1>4, <1>8
    <2> QED
        BY <1>5, <2>1
<1> QED
    BY <1>6, <1>7, <1>8

LEMMA BinaryIsClose ==
    ASSUME Searchable, Narrowing, LeaveBinarySearch \/ EndBinarySearch
    PROVE  at' \in Nat /\ at' <= Target /\ Target - at' <= 2
<1> PICK n \in Nat : n = N /\ n # 0
    BY DEF Searchable
<1> PICK t \in 0..n : t = Target
    BY TargetFacts
<1> PICK a \in 0..(n - 1), d \in Nat \ {0} : a = at /\ d = diff
    BY DEF Narrowing
<1>1. \A i \in 0..(n - 1) : IF IsGreaterThan(i) THEN t <= i ELSE i <= t
    BY TargetFacts
<1>2. Moved = IF IsGreaterThan(a) THEN a - d ELSE a + d
    BY DEF Moved, Direction
<1>3. diff_zero_count \in {0, 1} /\ (diff_zero_count = 0 => a - 2 * d >= 0 /\ a + 2 * d <= n)
      /\ (diff_zero_count = 1 => d = 1)
    BY DEF Narrowing
<1>4. CASE LeaveBinarySearch
    <2>1. Moved \notin 0..(n - 1) /\ at' = IF Moved < 0 THEN 0 ELSE n - 1
        BY <1>4 DEF LeaveBinarySearch, IsInside
    <2>2. d = 1
        BY <1>2, <1>3, <2>1
    <2>3. CASE IsGreaterThan(a)
        <3>1. a = 0 /\ at' = 0
            BY <1>2, <2>1, <2>2, <2>3
        <3> QED
            BY <1>1, <2>3, <3>1
    <2>4. CASE ~IsGreaterThan(a)
        <3>1. a = n - 1 /\ at' = n - 1
            BY <1>2, <2>1, <2>2, <2>4
        <3> QED
            BY <1>1, <2>4, <3>1
    <2> QED
        BY <2>3, <2>4
<1>5. CASE EndBinarySearch
    <2>1. /\ Moved \in 0..(n - 1) /\ at' = Hint /\ diff_zero_count = 1
          /\ Direction # previous_direction
        BY <1>5 DEF EndBinarySearch, IsInside, TurnsBack
    <2>2. d = 1
        BY <1>3, <2>1
    <2>3. at' = Max({0, Moved - 1}) /\ {0, Moved - 1} # {}
        BY <2>1 DEF Hint
    <2>4. at' = IF Moved = 0 THEN 0 ELSE Moved - 1
        <3>1. \E e \in {0, Moved - 1} : \A o \in {0, Moved - 1} : e >= o
            BY <2>1
        <3>2. at' \in {0, Moved - 1} /\ \A o \in {0, Moved - 1} : at' >= o
            BY <2>3, <3>1, Zenon DEF Max
        <3> QED
            BY <2>1, <3>2
    <2>5. CASE IsGreaterThan(a)
        <3>1. previous_direction = 1
            BY <2>1, <2>5 DEF Direction, Narrowing
        <3>2. a - 1 \in 0..(n - 1) /\ ~IsGreaterThan(a - 1)
            BY <2>1, <3>1 DEF Narrowing
        <3>3. t <= a /\ a - 1 <= t
            BY <1>1, <2>5, <3>2
        <3>4. Moved = a - 1
            BY <1>2, <2>2, <2>5
        <3> QED
            BY <2>4, <3>2, <3>3, <3>4
    <2>6. CASE ~IsGreaterThan(a)
        <3>1. previous_direction = 0
            BY <2>1, <2>6 DEF Direction, Narrowing
        <3>2. a + 1 \in 0..(n - 1) /\ IsGreaterThan(a + 1)
            BY <2>1, <3>1 DEF Narrowing
        <3>3. t <= a + 1 /\ a <= t
            BY <1>1, <2>6, <3>2
        <3>4. Moved = a + 1
            BY <1>2, <2>2, <2>6
        <3> QED
            BY <2>4, <3>2, <3>3, <3>4
    <2> QED
        BY <2>5, <2>6
<1> QED
    BY <1>4, <1>5

\* What is searched, and how far the search is.
SearchInv ==
    /\ pc # "idle" => server = "up" /\ midashi \in Strings /\ HasBlocks(MidashiKey(midashi))
                        /\ IsWord(midashi)
    /\ pc = "binary" => Narrowing
    /\ pc = "search" => IsClose

LEMMA SearchIsPossible ==
    ASSUME FoundInv, SearchInv, LoadedIsWritten, pc # "idle"
    PROVE  Searchable
BY InfosFacts DEF FoundInv, SearchInv, Searchable

LEMMA SameSearch ==
    ASSUME UNCHANGED <<midashi, index>>
    PROVE  /\ N' = N /\ Target' = Target /\ \A i : IsGreaterThan(i)' <=> IsGreaterThan(i)
           /\ HasBlocks(MidashiKey(midashi))' <=> HasBlocks(MidashiKey(midashi))
<1>1. Infos' = Infos
    BY DEF Infos
<1>2. N' = N /\ \A i : Info(i)' = Info(i)
    BY <1>1 DEF N, Info
<1>3. \A i : IsGreaterThan(i)' <=> IsGreaterThan(i)
    BY <1>2 DEF IsGreaterThan
<1>4. Target' = Target
    BY <1>2 DEF Target
<1> QED
    BY <1>2, <1>3, <1>4 DEF HasBlocks

LEMMA BinaryNarrows ==
    ASSUME Searchable, StartBinarySearch \/ (Narrowing /\ ContinueBinarySearch)
    PROVE  Narrowing'
<1>1. UNCHANGED <<midashi, index>>
    BY DEF StartBinarySearch, ContinueBinarySearch, askVars, setupVars
<1>2. N' = N /\ \A i : IsGreaterThan(i)' <=> IsGreaterThan(i)
    BY <1>1, SameSearch
<1> PICK n \in Nat : n = N /\ n # 0
    BY DEF Searchable
<1>3. CASE StartBinarySearch
    <2>1. /\ n >= BINARY_SEARCH_THRESHOLD /\ at' = n \div 2 /\ diff' = (n \div 2) \div 2
          /\ previous_direction' = 0 /\ diff_zero_count' = 0
        BY <1>3 DEF StartBinarySearch
    <2>2. n >= 4
        BY <2>1, SearchAssumption
    <2>3. at' \in 0..(n - 1) /\ diff' \in Nat \ {0} /\ at' - 2 * diff' >= 0
          /\ at' + 2 * diff' <= n
        BY <2>1, <2>2
    <2> QED
        BY <1>2, <2>1, <2>3 DEF Narrowing
<1>4. CASE Narrowing /\ ContinueBinarySearch
    <2> PICK a \in 0..(n - 1), d \in Nat \ {0} : a = at /\ d = diff
        BY <1>4 DEF Narrowing
    <2>1. /\ n >= BINARY_SEARCH_THRESHOLD
          /\ diff_zero_count \in {0, 1}
          /\ diff_zero_count = 0 => a - 2 * d >= 0 /\ a + 2 * d <= n
          /\ diff_zero_count = 1 => d = 1
        BY <1>4 DEF Narrowing
    <2>2. /\ at' = Moved /\ Moved \in 0..(n - 1) /\ previous_direction' = Direction
          /\ IF d \div 2 = 0 THEN diff' = 1 /\ diff_zero_count' = 1
             ELSE diff' = d \div 2 /\ diff_zero_count' = diff_zero_count
        BY <1>4 DEF ContinueBinarySearch, IsInside
    <2>3. Moved = IF IsGreaterThan(a) THEN a - d ELSE a + d
        BY DEF Moved, Direction
    <2>4. Direction = IF IsGreaterThan(a) THEN 0 ELSE 1
        BY DEF Direction
    <2>5. CASE d \div 2 = 0
        <3>1. d = 1 /\ diff' = 1 /\ diff_zero_count' = 1
            BY <2>2, <2>5
        <3>2. CASE IsGreaterThan(a)
            <4>1. at' + 1 = a /\ previous_direction' = 0
                BY <2>2, <2>3, <2>4, <3>1, <3>2
            <4>2. at' + 1 \in 0..(N' - 1) /\ IsGreaterThan(at + 1)'
                BY <1>2, <3>2, <4>1
            <4> QED
                BY <1>2, <2>1, <2>2, <3>1, <4>1, <4>2 DEF Narrowing
        <3>3. CASE ~IsGreaterThan(a)
            <4>1. at' - 1 = a /\ previous_direction' = 1
                BY <2>2, <2>3, <2>4, <3>1, <3>3
            <4>2. at' - 1 \in 0..(N' - 1) /\ ~IsGreaterThan(at - 1)'
                BY <1>2, <3>3, <4>1
            <4> QED
                BY <1>2, <2>1, <2>2, <3>1, <4>1, <4>2 DEF Narrowing
        <3> QED
            BY <3>2, <3>3
    <2>6. CASE d \div 2 # 0
        <3>1. diff' = d \div 2 /\ diff_zero_count' = 0 /\ diff' \in Nat \ {0}
            BY <2>1, <2>2, <2>6
        <3>2. at' - 2 * diff' >= 0 /\ at' + 2 * diff' <= n
            BY <2>1, <2>2, <2>3, <2>6
        <3>3. previous_direction' \in {0, 1}
            BY <2>2, <2>4
        <3> QED
            BY <1>2, <2>1, <2>2, <3>1, <3>2, <3>3 DEF Narrowing
    <2> QED
        BY <2>5, <2>6
<1> QED
    BY <1>3, <1>4

LEMMA SearchInvHolds ==
    ASSUME CreatorInv, FoundInv, SearchInv, LoadedIsWritten, [Next]_vars
    PROVE  SearchInv'
<1>1. CASE UNCHANGED <<pc, server, midashi, index>> /\ pc \notin {"binary", "search"}
    BY <1>1, SameSearch DEF SearchInv, IsWord
<1>2. CASE UNCHANGED <<setupVars, searchVars>>
    <2>1. UNCHANGED <<pc, server, midashi, index, at, diff, previous_direction, diff_zero_count>>
        BY <1>2 DEF setupVars, searchVars, askVars, hintVars
    <2> QED
        BY <2>1, SameSearch DEF SearchInv, Narrowing, IsClose, IsWord
<1>3. CASE SetupStep
    <2>1. server # "up" /\ UNCHANGED pc
        BY <1>3 DEF SetupStep, ValidateHash, SetupIsUnreliable, LoadTable, LoadIndexBlock,
                    FinishSetup, searchVars
    <2> QED
        BY <2>1 DEF SearchInv
<1>4. ASSUME NEW word \in Midashi(dictionary), NEW number, Ask(word, number)
      PROVE  SearchInv'
    <2>1. server' = "up" /\ UNCHANGED index /\ midashi' = word /\ pc' \in {"idle", "hint"}
        BY <1>4 DEF Ask, setupVars
    <2>2. pc' = "hint" => HasBlocks(MidashiKey(word))
        BY <1>4 DEF Ask
    <2>3. word \in Strings
        <3>1. word \in Seq(0..255)
            BY <1>4, SearchAssumption DEF CreatorInv
        <3>2. 0..255 \subseteq Nat
            OBVIOUS
        <3> QED
            BY ONLY <3>1, <3>2, BytesAreStrings
    <2>4. IsWord(word)
        BY <1>4, SearchAssumption DEF CreatorInv, IsWord
    <2>5. IsWord(midashi)'
        BY ONLY <2>1, <2>4 DEF IsWord
    <2> QED
        BY <2>1, <2>2, <2>3, <2>5 DEF SearchInv, HasBlocks
<1>5. CASE HintOfFew \/ StartBinarySearch \/ LeaveBinarySearch \/ EndBinarySearch
               \/ ContinueBinarySearch
    <2>1. UNCHANGED <<server, midashi, index>> /\ pc # "idle"
        BY <1>5 DEF HintOfFew, StartBinarySearch, LeaveBinarySearch, EndBinarySearch,
                    ContinueBinarySearch, setupVars, askVars
    <2>2. N' = N /\ Target' = Target
          /\ server = "up" /\ midashi \in Strings /\ HasBlocks(MidashiKey(midashi))
          /\ HasBlocks(MidashiKey(midashi))' /\ IsWord(midashi)'
        BY <2>1, SameSearch DEF SearchInv, IsWord
    <2>3. Searchable
        BY <2>1, SearchIsPossible
    <2>4. CASE HintOfFew
        <3>1. pc' = "search"
            BY <2>4 DEF HintOfFew
        <3> QED
            BY <2>1, <2>2, <2>3, <2>4, <3>1, FewAreClose DEF SearchInv, IsClose
    <2>5. CASE LeaveBinarySearch \/ EndBinarySearch
        <3>1. pc' = "search" /\ pc = "binary"
            BY <2>5 DEF LeaveBinarySearch, EndBinarySearch
        <3>2. Narrowing /\ N >= BINARY_SEARCH_THRESHOLD /\ N \in Nat
              /\ BINARY_SEARCH_THRESHOLD \in Nat
            BY <2>3, <3>1, SearchAssumption DEF SearchInv, Narrowing, Searchable
        <3>3. at' \in Nat /\ at' <= Target /\ Target - at' <= 2
            BY <2>3, <2>5, <3>2, BinaryIsClose
        <3> QED
            BY <2>1, <2>2, <3>1, <3>2, <3>3 DEF SearchInv, IsClose
    <2>6. CASE StartBinarySearch \/ ContinueBinarySearch
        <3>1. pc' = "binary"
            BY <2>6 DEF StartBinarySearch, ContinueBinarySearch
        <3>2. ContinueBinarySearch => Narrowing
            BY DEF SearchInv, ContinueBinarySearch
        <3>3. Narrowing'
            BY <2>3, <2>6, <3>2, BinaryNarrows
        <3> QED
            BY <2>1, <2>2, <3>1, <3>3 DEF SearchInv
    <2> QED
        BY <1>5, <2>4, <2>5, <2>6
<1>6. CASE ReadIsUnreliable \/ ReadCandidates \/ SendReply
    <2>1. pc' = "idle"
        BY <1>6 DEF ReadIsUnreliable, ReadCandidates, SendReply
    <2> QED
        BY <2>1 DEF SearchInv
<1>7. CASE StartCompletion \/ ReadCompletions
    <2>1. UNCHANGED <<server, midashi, index>> /\ pc # "idle" /\ pc' \in {"idle", "completion"}
        BY <1>7 DEF StartCompletion, ReadCompletions, setupVars, askVars
    <2> QED
        BY <2>1, SameSearch DEF SearchInv, IsWord
<1>8. CASE UNCHANGED vars
    BY <1>2, <1>8 DEF vars
<1> QED
    BY <1>2, <1>3, <1>4, <1>5, <1>6, <1>7, <1>8 DEF Next, SearchStep

-----------------------------------------------------------------------------
(***************************************************************************)
(* What the reads of a block bring, as long as the file is the same.       *)
(***************************************************************************)

\* The search found its informations in a file that is what it was.
AtBlocks ==
    /\ IsDictionary(found) /\ LoadedIsWritten /\ server = "up" /\ Len(found.front) \in Nat
    /\ HasBlocks(MidashiKey(midashi)) /\ midashi \in Strings
    /\ IsUnchanged

LEMMA BlocksAreSearchable ==
    ASSUME AtBlocks
    PROVE  /\ Searchable
           /\ \A m \in DOMAIN found.jisyo :
                 MidashiKey(m) = MidashiKey(midashi) =>
                    LeadsTo(Infos, m, found.blocks[m], found.jisyo[m])
BY InfosFacts DEF AtBlocks, Searchable

\* The place of an entry counts from where the blocks start.
LEMMA EntriesAreThoseOfTheBlock ==
    ASSUME AtBlocks, NEW i \in 0..(N - 1)
    PROVE  EntriesIn(Info(i)) =
              {m \in DOMAIN found.jisyo : LiesIn(Info(i), found.blocks[m], found.jisyo[m])}
<1> PICK info \in Information : info = Info(i)
    <2>1. Infos \in Seq(Information) /\ N \in Nat /\ i + 1 \in 1..Len(Infos)
        BY BlocksAreSearchable DEF Searchable, N
    <2> QED
        BY <2>1 DEF Info
<1> PICK front \in Nat : front = Len(found.front)
    BY DEF AtBlocks
<1>1. /\ LoadedHeader.blocks_offset = front /\ Len(file.front) = front
      /\ file.blocks = found.blocks /\ file.jisyo = found.jisyo
      /\ DOMAIN found.blocks = DOMAIN found.jisyo
    BY DEF AtBlocks, LoadedIsWritten, IsUnchanged, IsDictionary
<1>2. ASSUME NEW m \in DOMAIN found.jisyo
      PROVE  LET start == front + info.offset
                 entry == front + found.blocks[m]
             IN  start <= entry /\ entry + found.jisyo[m] + 1 <= start + info.length
                    <=> LiesIn(info, found.blocks[m], found.jisyo[m])
    <2>1. found.blocks[m] \in Nat /\ found.jisyo[m] \in Nat
        BY DEF AtBlocks, IsDictionary
    <2>2. info.offset \in Nat /\ info.length \in Nat
        BY DEF Information
    <2> PICK place \in Nat, length \in Nat, o \in Nat, l \in Nat :
            /\ place = found.blocks[m] /\ length = found.jisyo[m]
            /\ o = info.offset /\ l = info.length
        BY <2>1, <2>2
    <2>3. (front + o <= front + place /\ front + place + length + 1 <= front + o + l)
             <=> (o <= place /\ place + length + 1 <= o + l)
        BY ONLY front \in Nat, o \in Nat, l \in Nat, place \in Nat, length \in Nat
    <2> QED
        BY <2>3 DEF LiesIn
<1>3. EntriesIn(info) =
         {m \in DOMAIN found.jisyo :
            LET start == front + info.offset
                entry == front + found.blocks[m]
            IN  start <= entry /\ entry + found.jisyo[m] + 1 <= start + info.length}
    BY <1>1 DEF EntriesIn
<1> QED
    BY <1>2, <1>3

\* Going on from a hint that is not behind the block leads to it.
LEMMA BlockIndexIsTarget ==
    ASSUME Searchable, IsClose
    PROVE  BlockIndex = Target
<1>1. /\ Target \in 0..N /\ at \in Nat /\ at <= Target /\ N \in Nat
      /\ \A i \in 0..(N - 1) : ~Precedes(midashi, Info(i).midashi) => Target <= i
    BY TargetFacts DEF IsClose, Searchable
<1>2. {i \in at..(N - 1) : ~Precedes(midashi, Info(i).midashi)}
         = {i \in 0..(N - 1) : ~Precedes(midashi, Info(i).midashi)}
    BY <1>1
<1> QED
    BY <1>2 DEF BlockIndex, Target

\* The entries of the key are where the search goes to.
LEMMA EntryIsAtItsBlock ==
    ASSUME AtBlocks, NEW m \in DOMAIN found.jisyo, MidashiKey(m) = MidashiKey(midashi)
    PROVE  /\ \E i \in 0..(N - 1) : ~Precedes(m, Info(i).midashi)
           /\ \A i \in 0..(N - 1) :
                 m \in EntriesIn(Info(i)) <=>
                    /\ ~Precedes(m, Info(i).midashi)
                    /\ \A j \in 0..(i - 1) : Precedes(m, Info(j).midashi)
<1>1. LeadsTo(Infos, m, found.blocks[m], found.jisyo[m]) /\ N \in Nat /\ N = Len(Infos)
    BY BlocksAreSearchable DEF Searchable, N
<1>2. \E i \in 0..(N - 1) : ~Precedes(m, Info(i).midashi)
    <2>1. PICK i \in 1..N : ~Precedes(m, Infos[i].midashi)
        BY <1>1 DEF LeadsTo
    <2>2. i - 1 \in 0..(N - 1) /\ (i - 1) + 1 = i
        BY <1>1
    <2>3. Info(i - 1) = Infos[i]
        BY <2>2 DEF Info
    <2> QED
        BY <2>1, <2>2, <2>3
<1>3. ASSUME NEW i \in 0..(N - 1)
      PROVE  m \in EntriesIn(Info(i)) <=>
                /\ ~Precedes(m, Info(i).midashi)
                /\ \A j \in 0..(i - 1) : Precedes(m, Info(j).midashi)
    <2>1. i + 1 \in 1..N
        BY <1>1
    <2>2. m \in EntriesIn(Info(i)) <=> LiesIn(Infos[i + 1], found.blocks[m], found.jisyo[m])
        BY EntriesAreThoseOfTheBlock DEF Info
    <2>3. m \in EntriesIn(Info(i)) <=> IsFirstFor(Infos, i + 1, m)
        BY <1>1, <2>1, <2>2 DEF LeadsTo
    <2>4. (\A j \in 1..(i + 1 - 1) : Precedes(m, Infos[j].midashi)) <=>
             \A j \in 0..(i - 1) : Precedes(m, Infos[j + 1].midashi)
        <3>1. \A j \in 1..(i + 1 - 1) : j - 1 \in 0..(i - 1) /\ (j - 1) + 1 = j
            BY <2>1
        <3>2. \A j \in 0..(i - 1) : j + 1 \in 1..(i + 1 - 1)
            BY <2>1
        <3> QED
            BY <3>1, <3>2
    <2> QED
        BY <2>3, <2>4 DEF IsFirstFor, Info
<1> QED
    BY <1>2, <1>3

LEMMA WordIsInItsBlock ==
    ASSUME AtBlocks, IsClose, midashi \in DOMAIN found.jisyo
    PROVE  BlockIndex < N /\ midashi \in EntriesIn(Info(BlockIndex))
<1>1. Searchable /\ BlockIndex = Target
    BY BlocksAreSearchable, BlockIndexIsTarget
<1>2. PICK i \in 0..(N - 1) : ~Precedes(midashi, Info(i).midashi)
    BY EntryIsAtItsBlock
<1>3. /\ Target \in 0..N /\ Target <= i /\ N \in Nat
      /\ \A j \in 0..(N - 1) : j < Target => Precedes(midashi, Info(j).midashi)
      /\ Target < N => ~Precedes(midashi, Info(Target).midashi)
    BY <1>1, <1>2, TargetFacts DEF Searchable
<1>4. Target \in 0..(N - 1) /\ Target < N
    BY <1>3
<1>5. \A j \in 0..(Target - 1) : j \in 0..(N - 1) /\ j < Target
    BY <1>3, <1>4
<1> QED
    BY <1>1, <1>3, <1>4, <1>5, EntryIsAtItsBlock

-----------------------------------------------------------------------------
(***************************************************************************)
(* Prefixes and the first of a set of strings.                             *)
(***************************************************************************)

\* What starts with a string does not precede it.
LEMMA PrefixIsNotBehind ==
    ASSUME NEW s \in Strings, NEW t \in Strings, IsPrefix(s, t)
    PROVE  ~Precedes(t, s)
<1>1. s = t \/ Precedes(s, t)
    BY DEF Precedes, IsStrictPrefix
<1> QED
    BY <1>1, PrecedesIsIrreflexive, PrecedesIsTransitive

\* What lies between two strings with a common start has this start.
LEMMA PrefixesAreTogether ==
    ASSUME NEW p \in Strings, NEW s \in Strings, NEW t \in Strings, NEW u \in Strings,
           IsPrefix(p, s), IsPrefix(p, u), Precedes(s, t), ~Precedes(u, t)
    PROVE  IsPrefix(p, t)
<1>1. /\ Len(p) \in Nat /\ Len(s) \in Nat /\ Len(t) \in Nat /\ Len(u) \in Nat
      /\ \A i \in 1..Len(s) : s[i] \in Nat
      /\ \A i \in 1..Len(t) : t[i] \in Nat
      /\ \A i \in 1..Len(u) : u[i] \in Nat
    BY DEF Strings
<1>2. /\ Len(p) <= Len(s) /\ \A i \in 1..Len(p) : p[i] = s[i]
      /\ Len(p) <= Len(u) /\ \A i \in 1..Len(p) : p[i] = u[i]
    BY PrefixElements
<1>3. PICK n : PrecedesAt(s, t, n)
    BY PrecedesHasPlace
<1>4. /\ n \in Nat /\ n <= Len(s) /\ n <= Len(t) /\ \A i \in 1..n : s[i] = t[i]
      /\ (n = Len(s) /\ n < Len(t)) \/ (n < Len(s) /\ n < Len(t) /\ s[n + 1] < t[n + 1])
    BY <1>3 DEF PrecedesAt
<1>5. CASE n >= Len(p)
    <2>1. Len(p) <= Len(t) /\ \A i \in 1..Len(p) : p[i] = t[i]
        BY <1>1, <1>2, <1>4, <1>5
    <2> QED
        BY <2>1, PrefixElements
<1>6. CASE n < Len(p)
    <2>1. /\ n + 1 \in 1..Len(p) /\ n + 1 \in 1..Len(s) /\ n + 1 \in 1..Len(t)
          /\ n + 1 \in 1..Len(u) /\ s[n + 1] < t[n + 1] /\ s[n + 1] = u[n + 1]
        BY <1>1, <1>2, <1>4, <1>6
    <2>2. /\ u[n + 1] < t[n + 1] /\ n < Len(u) /\ n < Len(t) /\ n <= Len(u) /\ n <= Len(t)
        BY <1>1, <1>4, <2>1
    <2>3. \A i \in 1..n : i \in 1..Len(p)
        BY <1>1, <1>4, <1>6
    <2>4. \A i \in 1..n : u[i] = t[i]
        BY <1>2, <1>4, <2>3
    <2>5. PrecedesAt(u, t, n)
        BY <1>4, <2>2, <2>4 DEF PrecedesAt
    <2> QED
        BY <2>5, PrecedesHasPlace
<1> QED
    BY <1>1, <1>4, <1>5, <1>6

\* Fewer than asked for are all.
LEMMA FewAreAll ==
    ASSUME NEW S \in SUBSET Strings, IsFiniteSet(S), NEW n \in Nat,
           Cardinality(FirstOf(S, n)) < n
    PROVE  FirstOf(S, n) = S
<1> PICK F : F = FirstOf(S, n)
    OBVIOUS
<1>1. F = {m \in S : Cardinality({e \in S : Precedes(e, m)}) < n}
    BY DEF FirstOf
<1> SUFFICES ASSUME S \ F # {}
             PROVE  FALSE
    BY <1>1
<1>2. IsFiniteSet(S \ F) /\ S \ F \subseteq Strings /\ IsFiniteSet(F)
    BY <1>1, FS_Subset
<1>3. PICK m \in S \ F : \A e \in (S \ F) \ {m} : Precedes(m, e)
    BY <1>2, FirstString
<1> PICK before : before = {e \in S : Precedes(e, m)}
    OBVIOUS
<1>4. before \subseteq F
    <2> SUFFICES ASSUME NEW e \in S, Precedes(e, m), e \notin F
                 PROVE  FALSE
        OBVIOUS
    <2>1. e = m \/ Precedes(m, e)
        BY <1>3
    <2> QED
        BY <2>1, PrecedesIsIrreflexive, PrecedesIsTransitive
<1>5. Cardinality(before) <= Cardinality(F) /\ Cardinality(before) \in Nat
      /\ Cardinality(F) \in Nat
    BY <1>2, <1>4, FS_Subset, FS_CardinalityType
<1>6. Cardinality(before) < n
    BY <1>5
<1> QED
    BY <1>1, <1>3, <1>6

\* The first of two sets that follow each other.
LEMMA FirstOfBoth ==
    ASSUME NEW D \in SUBSET Strings, IsFiniteSet(D), NEW E \in SUBSET Strings, IsFiniteSet(E),
           \A d \in D, e \in E : Precedes(d, e),
           NEW n \in Nat, Cardinality(D) < n
    PROVE  D \cup FirstOf(E, n - Cardinality(D)) = FirstOf(D \cup E, n)
<1>1. D \cap E = {}
    BY PrecedesIsIrreflexive
<1>2. Cardinality(D) \in Nat
    BY FS_CardinalityType
<1>3. ASSUME NEW m \in D
      PROVE  Cardinality({x \in D \cup E : Precedes(x, m)}) < n
    <2> PICK before : before = {x \in D \cup E : Precedes(x, m)}
        OBVIOUS
    <2>1. before \subseteq D
        <3> SUFFICES ASSUME NEW x \in E, Precedes(x, m)
                     PROVE  FALSE
            OBVIOUS
        <3>1. Precedes(m, x)
            OBVIOUS
        <3> QED
            BY <3>1, PrecedesIsIrreflexive, PrecedesIsTransitive
    <2>2. Cardinality(before) <= Cardinality(D) /\ Cardinality(before) \in Nat
        BY <2>1, FS_Subset, FS_CardinalityType
    <2> QED
        BY <1>2, <2>2
<1>4. ASSUME NEW m \in E
      PROVE  Cardinality({x \in D \cup E : Precedes(x, m)}) < n <=>
                Cardinality({x \in E : Precedes(x, m)}) < n - Cardinality(D)
    <2> PICK B : B = {x \in E : Precedes(x, m)}
        OBVIOUS
    <2>1. {x \in D \cup E : Precedes(x, m)} = D \cup B
        OBVIOUS
    <2>2. IsFiniteSet(B) /\ D \cap B = {}
        BY <1>1, FS_Subset
    <2>3. Cardinality(D \cup B) = Cardinality(D) + Cardinality(B) - Cardinality(D \cap B)
        BY <2>2, FS_Union
    <2>4. Cardinality(D \cap B) = 0 /\ Cardinality(B) \in Nat
        BY <2>2, FS_EmptySet, FS_CardinalityType
    <2> PICK d, b \in Nat : d = Cardinality(D) /\ b = Cardinality(B)
        BY <1>2, <2>4
    <2>5. Cardinality(D \cup B) = d + b
        BY <2>3, <2>4
    <2>6. d + b < n <=> b < n - d
        OBVIOUS
    <2> QED
        BY ONLY <2>1, <2>5, <2>6, d = Cardinality(D), b = Cardinality(B), B = {x \in E : Precedes(x, m)}
<1> QED
    BY <1>3, <1>4 DEF FirstOf

\* Enough found at the beginning is enough.
LEMMA EnoughAreFirst ==
    ASSUME NEW S \in SUBSET Strings, IsFiniteSet(S), NEW X \in SUBSET S,
           \A x \in X, r \in S \ X : Precedes(x, r),
           NEW n \in Nat, Cardinality(FirstOf(X, n)) >= n
    PROVE  FirstOf(S, n) = FirstOf(X, n)
<1>1. FirstOf(X, n) \subseteq X
    BY DEF FirstOf
<1>2. IsFiniteSet(X) /\ Cardinality(X) \in Nat /\ Cardinality(X) >= n
    <2>1. IsFiniteSet(X)
        BY FS_Subset
    <2>2. Cardinality(FirstOf(X, n)) <= Cardinality(X) /\ Cardinality(X) \in Nat
          /\ Cardinality(FirstOf(X, n)) \in Nat
        BY <1>1, <2>1, FS_Subset, FS_CardinalityType
    <2> QED
        BY <2>1, <2>2
<1>3. ASSUME NEW r \in S \ X
      PROVE  ~(Cardinality({e \in S : Precedes(e, r)}) < n)
    <2> PICK before : before = {e \in S : Precedes(e, r)}
        OBVIOUS
    <2>1. X \subseteq before /\ IsFiniteSet(before)
        BY FS_Subset
    <2>2. Cardinality(X) <= Cardinality(before) /\ Cardinality(before) \in Nat
        BY <2>1, FS_Subset, FS_CardinalityType
    <2> QED
        BY <1>2, <2>2
<1>4. ASSUME NEW x \in X
      PROVE  {e \in S : Precedes(e, x)} = {e \in X : Precedes(e, x)}
    <2> SUFFICES ASSUME NEW e \in S \ X, Precedes(e, x)
                 PROVE  FALSE
        OBVIOUS
    <2>1. Precedes(x, e)
        OBVIOUS
    <2> QED
        BY <2>1, PrecedesIsIrreflexive, PrecedesIsTransitive
<1> QED
    BY <1>3, <1>4 DEF FirstOf

-----------------------------------------------------------------------------
(***************************************************************************)
(* The replies.                                                            *)
(***************************************************************************)

\* The search is where the blocks are read.
LEMMA ReadIsAtBlocks ==
    ASSUME FoundInv, FoundIsWritten, SearchInv, LoadedIsWritten, pc # "idle", IsUnchanged
    PROVE  AtBlocks
<1>1. server = "up" /\ midashi \in Strings /\ HasBlocks(MidashiKey(midashi))
    BY DEF SearchInv
<1>2. IsDictionary(found) /\ IsWritten(found)
    BY <1>1 DEF FoundInv, FoundIsWritten
<1> PICK headers, length, place, first : IsLayout(found, headers, length, place, first)
    BY <1>2 DEF IsWritten
<1> PICK front, us : front = found.front /\ us = found.units
    OBVIOUS
<1>3. /\ AreWhole(us) /\ UnitPlaces(us, place) /\ headers \in Seq(HeaderRecords)
      /\ front = FrontOf(us, headers, length) /\ length \in Nat
    BY DEF IsLayout, Covers
<1>4. front \in Strings
    BY ONLY <1>3, FrontIsRead
<1>5. Len(front) \in Nat
    BY ONLY <1>4 DEF Strings
<1> QED
    BY <1>1, <1>2, <1>5 DEF AtBlocks

\* A reply is given once, and it is right.
ReplyInv ==
    /\ pc # "idle" => reply = NoReply
    /\ reply # NoReply => server = "up"
    /\ WordsAreFound

\* What has no blocks has no entry.
LEMMA WithoutBlocks ==
    ASSUME FoundInv, LoadedIsWritten, server = "up", NEW word, ~HasBlocks(MidashiKey(word))
    PROVE  word \notin DOMAIN found.jisyo
<1> SUFFICES ASSUME word \in DOMAIN found.jisyo
             PROVE  FALSE
    OBVIOUS
<1>1. IsDictionary(found)
    BY DEF FoundInv
<1>2. PICK n \in 1..Len(found.units) : found.units[n].key = MidashiKey(word)
    BY <1>1 DEF IsDictionary
<1>3. n \in DOMAIN found.units
    BY <1>1, <1>2 DEF IsDictionary
<1>4. Slot(MidashiKey(word)) \in DOMAIN index
    BY <1>2, <1>3 DEF LoadedIsWritten
<1> QED
    BY <1>4 DEF HasBlocks

LEMMA ReplyInvHolds ==
    ASSUME FoundInv, FoundIsWritten, SearchInv, LoadedIsWritten, ReplyInv, [Next]_vars
    PROVE  ReplyInv'
<1>1. CASE UNCHANGED <<setupVars, searchVars>>
    BY <1>1 DEF setupVars, searchVars, askVars, ReplyInv, WordsAreFound
<1>2. CASE SetupStep
    <2>1. server # "up" /\ UNCHANGED searchVars
        BY <1>2 DEF SetupStep, ValidateHash, SetupIsUnreliable, LoadTable, LoadIndexBlock,
                    FinishSetup
    <2>2. reply = NoReply
        BY <2>1 DEF ReplyInv
    <2> QED
        BY <2>1, <2>2 DEF searchVars, ReplyInv, WordsAreFound, NoReply
<1>3. ASSUME NEW word \in Midashi(dictionary), NEW number, Ask(word, number)
      PROVE  ReplyInv'
    <2>1. /\ server = "up" /\ pc = "idle" /\ UNCHANGED <<server, found, index>>
          /\ midashi' = word /\ protocol' = number
        BY <1>3 DEF Ask, setupVars
    <2>2. \/ reply' = [kind |-> "error"] /\ UNCHANGED pc
          \/ reply' = [kind |-> "not_found"] /\ ~HasBlocks(MidashiKey(word)) /\ UNCHANGED pc
          \/ reply' = NoReply
        BY <1>3 DEF Ask
    <2>3. reply'.kind = "not_found" => word \notin DOMAIN found.jisyo
        BY <2>1, <2>2, WithoutBlocks DEF NoReply
    <2>4. reply'.kind # "found"
        BY <2>2 DEF NoReply
    <2>5. WordsAreFound'
        BY <2>1, <2>3, <2>4 DEF WordsAreFound
    <2>6. pc' # "idle" => reply' = NoReply
        BY <2>1, <2>2
    <2> QED
        BY <2>1, <2>5, <2>6 DEF ReplyInv
<1>4. CASE ReadCandidates
    <2>1. /\ pc = "search" /\ IsUnchanged /\ UNCHANGED <<server, found, index, midashi, protocol>>
          /\ pc' = "idle"
          /\ reply' = IF BlockIndex < N /\ midashi \in EntriesIn(Info(BlockIndex))
                      THEN [kind |-> "found"] ELSE [kind |-> "not_found"]
        BY <1>4 DEF ReadCandidates, setupVars, askVars
    <2>2. AtBlocks /\ IsClose /\ server = "up"
        BY <2>1, ReadIsAtBlocks DEF SearchInv
    <2>3. reply'.kind = "found" => midashi \in DOMAIN found.jisyo
        <3>1. DOMAIN file.blocks = DOMAIN found.jisyo
            BY <2>2 DEF AtBlocks, IsUnchanged, IsDictionary
        <3> QED
            BY <2>1, <3>1 DEF EntriesIn
    <2>4. reply'.kind = "not_found" => midashi \notin DOMAIN found.jisyo
        BY <2>1, <2>2, WordIsInItsBlock
    <2> QED
        BY <2>1, <2>2, <2>3, <2>4 DEF ReplyInv, WordsAreFound
<1>5. CASE ReadIsUnreliable \/ SendReply
    <2>1. /\ pc' = "idle" /\ (reply' = [kind |-> "unreliable"] \/ reply' = NoReply)
          /\ reply' # NoReply => server' = "up"
        BY <1>5 DEF ReadIsUnreliable, SendReply, SearchInv, setupVars
    <2> QED
        BY <2>1 DEF ReplyInv, WordsAreFound, NoReply
<1>6. CASE ReadCompletions
    <2>1. pc = "completion" /\ server = "up" /\ UNCHANGED <<server, found>>
        BY <1>6 DEF ReadCompletions, SearchInv, setupVars
    <2>2. \/ pc' = "idle" /\ reply' = [kind |-> "completions"]
          \/ pc' = pc /\ reply' = reply
        BY <1>6 DEF ReadCompletions
    <2>3. reply = NoReply
        BY <2>1 DEF ReplyInv
    <2> QED
        BY <2>1, <2>2, <2>3 DEF ReplyInv, WordsAreFound, NoReply
<1>7. CASE HintOfFew \/ StartBinarySearch \/ LeaveBinarySearch \/ EndBinarySearch
               \/ ContinueBinarySearch \/ StartCompletion
    <2>1. UNCHANGED reply /\ pc # "idle"
        BY <1>7 DEF HintOfFew, StartBinarySearch, LeaveBinarySearch, EndBinarySearch,
                    ContinueBinarySearch, StartCompletion
    <2>2. reply' = NoReply
        BY <2>1 DEF ReplyInv
    <2> QED
        BY <2>2 DEF ReplyInv, WordsAreFound, NoReply
<1> QED
    BY <1>1, <1>2, <1>3, <1>4, <1>5, <1>6, <1>7 DEF Next, SearchStep, vars

-----------------------------------------------------------------------------
(***************************************************************************)
(* Completions.                                                            *)
(***************************************************************************)

\* All that there are, and those that lie before a block.
Completing == {m \in DOMAIN found.jisyo : IsCompletion(m)}

BeforeBlock(i) == {m \in Completing : Precedes(m, Info(i).midashi)}

LEMMA HeadsDescend ==
    ASSUME AtBlocks
    PROVE  /\ N \in Nat \ {0} /\ \A i \in 0..(N - 1) : Info(i).midashi \in Strings
           /\ \A i, j \in 0..(N - 1) : i < j => Precedes(Info(j).midashi, Info(i).midashi)
<1>1. Infos \in Seq(Information) /\ N \in Nat \ {0} /\ IsDescending(Infos)
    BY BlocksAreSearchable DEF Searchable
<1> PICK infos \in Seq(Information), n \in Nat \ {0} : infos = Infos /\ n = N
    BY <1>1
<1>2. n = Len(infos) /\ IsDescending(infos)
    BY <1>1 DEF N
<1>3. ASSUME NEW i \in 0..(n - 1)
      PROVE  i + 1 \in 1..n /\ Info(i) = infos[i + 1] /\ Info(i).midashi \in Strings
    <2>1. i + 1 \in 1..n
        OBVIOUS
    <2>2. infos[i + 1] \in Information
        BY <1>2, <2>1
    <2> QED
        BY <2>1, <2>2 DEF Info, Information
<1>4. ASSUME NEW i \in 0..(n - 1), NEW j \in 0..(n - 1), i < j
      PROVE  Precedes(Info(j).midashi, Info(i).midashi)
    <2>1. i + 1 < j + 1
        BY <1>4
    <2> QED
        BY <1>2, <1>3, <2>1 DEF IsDescending
<1> QED
    BY <1>3, <1>4

LEMMA CompletingFacts ==
    ASSUME AtBlocks, IsWord(midashi)
    PROVE  /\ Completing \in SUBSET Strings /\ IsFiniteSet(Completing)
           /\ \A m \in Completing :
                 /\ m \in DOMAIN found.jisyo /\ IsPrefix(midashi, m)
                 /\ MidashiKey(m) = MidashiKey(midashi) /\ ~Precedes(m, midashi)
<1>1. /\ DOMAIN found.jisyo \subseteq Strings /\ IsFiniteSet(DOMAIN found.jisyo)
      /\ midashi \in Strings /\ \A m \in DOMAIN found.jisyo : IsWord(m)
    BY DEF AtBlocks, IsDictionary
<1>2. Completing \subseteq DOMAIN found.jisyo
    BY DEF Completing
<1>3. IsFiniteSet(Completing)
    BY <1>1, <1>2, FS_Subset
<1>4. ASSUME NEW m \in Completing
      PROVE  /\ m \in DOMAIN found.jisyo /\ IsPrefix(midashi, m)
             /\ MidashiKey(m) = MidashiKey(midashi) /\ ~Precedes(m, midashi)
    <2>1. m \in DOMAIN found.jisyo /\ IsPrefix(midashi, m)
        BY DEF Completing, IsCompletion
    <2>2. ~Precedes(m, midashi)
        BY <1>1, <2>1, PrefixIsNotBehind
    <2>3. MidashiKey(midashi) = MidashiKey(m)
        BY <1>1, <2>1, MidashiKeyFacts DEF IsWord
    <2> QED
        BY <2>1, <2>2, <2>3
<1> QED
    BY <1>1, <1>2, <1>3, <1>4

\* What a block adds.
OfBlock(i) == {m \in EntriesIn(Info(i)) : IsCompletion(m)}

LEMMA BlockFollows ==
    ASSUME AtBlocks, IsWord(midashi), NEW i \in 0..(N - 1)
    PROVE  OfBlock(i) = {m \in Completing : /\ ~Precedes(m, Info(i).midashi)
                                            /\ i > 0 => Precedes(m, Info(i - 1).midashi)}
<1>1. OfBlock(i) = {m \in Completing : m \in EntriesIn(Info(i))}
    BY EntriesAreThoseOfTheBlock DEF OfBlock, Completing
<1>2. ASSUME NEW m \in Completing
      PROVE  m \in EntriesIn(Info(i)) <=>
                /\ ~Precedes(m, Info(i).midashi)
                /\ i > 0 => Precedes(m, Info(i - 1).midashi)
    <2>1. m \in DOMAIN found.jisyo /\ MidashiKey(m) = MidashiKey(midashi) /\ m \in Strings
        BY CompletingFacts
    <2>2. m \in EntriesIn(Info(i)) <=>
             /\ ~Precedes(m, Info(i).midashi)
             /\ \A j \in 0..(i - 1) : Precedes(m, Info(j).midashi)
        BY <2>1, EntryIsAtItsBlock
    <2>3. ASSUME i > 0, Precedes(m, Info(i - 1).midashi), NEW j \in 0..(i - 1)
          PROVE  Precedes(m, Info(j).midashi)
        <3>1. i - 1 \in 0..(N - 1) /\ j \in 0..(N - 1) /\ (j = i - 1 \/ j < i - 1)
            BY <2>3, HeadsDescend
        <3>2. /\ Info(i - 1).midashi \in Strings /\ Info(j).midashi \in Strings
              /\ j < i - 1 => Precedes(Info(i - 1).midashi, Info(j).midashi)
            BY <3>1, HeadsDescend
        <3> QED
            BY <2>1, <2>3, <3>1, <3>2, PrecedesIsTransitive
    <2>4. i > 0 => i - 1 \in 0..(i - 1)
        OBVIOUS
    <2>5. ~(i > 0) => 0..(i - 1) = {}
        OBVIOUS
    <2> QED
        BY <2>2, <2>3, <2>4, <2>5
<1> QED
    BY <1>1, <1>2

\* What is collected while the blocks are read.
IsCollected(i, some) ==
    /\ i \in 0..(N - 1) /\ some = BeforeBlock(i)
    /\ Cardinality(some) < MaxCompletions
    /\ midashi \in Completing /\ some = {} /\ i > 0 => Precedes(midashi, Info(i - 1).midashi)

Collected == IsCollected(at, completions)

\* With the block at hand these are the first of all that lie before the next one.
BeforeNext == {m \in Completing : at > 0 => Precedes(m, Info(at - 1).midashi)}

LEMMA BlockIsAdded ==
    ASSUME AtBlocks, IsWord(midashi), Collected
    PROVE  WithBlock = FirstOf(BeforeNext, MaxCompletions)
<1>1. at \in 0..(N - 1) /\ completions = BeforeBlock(at) /\ Cardinality(completions) < MaxCompletions
    BY DEF Collected, IsCollected
<1> PICK D, E : D = completions /\ E = OfBlock(at)
    OBVIOUS
<1>2. E = {m \in Completing : /\ ~Precedes(m, Info(at).midashi)
                              /\ at > 0 => Precedes(m, Info(at - 1).midashi)}
    BY <1>1, BlockFollows
<1>3. D = {m \in Completing : Precedes(m, Info(at).midashi)}
    BY <1>1 DEF BeforeBlock
<1>4. Completing \in SUBSET Strings /\ IsFiniteSet(Completing)
    BY CompletingFacts
<1>5. D \in SUBSET Strings /\ IsFiniteSet(D) /\ E \in SUBSET Strings /\ IsFiniteSet(E)
    BY <1>2, <1>3, <1>4, FS_Subset
<1>6. Info(at).midashi \in Strings /\ N \in Nat
    BY <1>1, HeadsDescend
<1>7. ASSUME NEW d \in D, NEW e \in E
      PROVE  Precedes(d, e)
    <2>1. Precedes(d, Info(at).midashi) /\ ~Precedes(e, Info(at).midashi)
        BY <1>2, <1>3
    <2>2. e = Info(at).midashi \/ Precedes(Info(at).midashi, e)
        BY <1>5, <1>6, <2>1, PrecedesIsTotal
    <2> QED
        BY <1>5, <1>6, <2>1, <2>2, PrecedesIsTransitive
<1>8. MaxCompletions \in Nat
    BY SearchAssumption
<1>9. D \cup FirstOf(E, MaxCompletions - Cardinality(D)) = FirstOf(D \cup E, MaxCompletions)
    BY ONLY <1>1, <1>5, <1>7, <1>8, D = completions, FirstOfBoth
<1>10. D \cup E = BeforeNext
    <2>1. ASSUME at > 0, NEW m \in Completing, Precedes(m, Info(at).midashi)
          PROVE  Precedes(m, Info(at - 1).midashi)
        <3>1. at - 1 \in 0..(N - 1) /\ at - 1 < at
            BY <1>1, <1>6, <2>1
        <3>2. Precedes(Info(at).midashi, Info(at - 1).midashi) /\ Info(at - 1).midashi \in Strings
            BY <1>1, <3>1, HeadsDescend
        <3> QED
            BY <1>4, <1>6, <2>1, <3>2, PrecedesIsTransitive
    <2> QED
        BY <1>2, <1>3, <2>1 DEF BeforeNext
<1> QED
    BY ONLY <1>9, <1>10, D = completions, E = OfBlock(at) DEF WithBlock, OfBlock


\* When nothing is to come, these are the first of all.
LEMMA EndIsAll ==
    ASSUME AtBlocks, IsWord(midashi), Collected, IsComplete
    PROVE  /\ WithBlock \in {{}, AllCompletions}
           /\ WithBlock = {} => midashi \notin AllCompletions
<1> PICK limit \in Nat \ {0} : limit = MaxCompletions
    BY SearchAssumption
<1> PICK S, X : S = Completing /\ X = BeforeNext
    OBVIOUS
<1>1. WithBlock = FirstOf(X, limit)
    BY BlockIsAdded
<1>2. AllCompletions = FirstOf(S, limit)
    BY DEF AllCompletions, Completing
<1>3. S \in SUBSET Strings /\ IsFiniteSet(S) /\ \A m \in S : IsPrefix(midashi, m)
    BY CompletingFacts
<1>4. X = {m \in S : at > 0 => Precedes(m, Info(at - 1).midashi)}
    BY DEF BeforeNext
<1>5. X \in SUBSET S /\ IsFiniteSet(X) /\ X \in SUBSET Strings
    BY <1>3, <1>4, FS_Subset
<1>6. at \in 0..(N - 1) /\ N \in Nat
    BY HeadsDescend DEF Collected, IsCollected
<1>7. FirstOf(X, limit) \subseteq X
    BY DEF FirstOf
<1>8. ASSUME at > 0
      PROVE  /\ Info(at - 1).midashi \in Strings
             /\ \A r \in S \ X : ~Precedes(r, Info(at - 1).midashi)
             /\ \A x \in X : Precedes(x, Info(at - 1).midashi)
             /\ \A x \in X, r \in S \ X : Precedes(x, r)
    <2>1. at - 1 \in 0..(N - 1)
        BY <1>6, <1>8
    <2> PICK h \in Strings : h = Info(at - 1).midashi
        BY <2>1, HeadsDescend
    <2>2. X = {m \in S : Precedes(m, h)}
        BY <1>4, <1>8
    <2>3. ASSUME NEW x \in X, NEW r \in S \ X
          PROVE  Precedes(x, r)
        <3>1. r = h \/ Precedes(h, r)
            BY <1>3, <2>2, PrecedesIsTotal
        <3> QED
            BY <1>3, <2>2, <3>1, PrecedesIsTransitive
    <2> QED
        BY <2>2, <2>3
<1>9. CASE WithBlock = {}
    <2>1. IsFiniteSet(FirstOf(X, limit)) /\ Cardinality(FirstOf(X, limit)) = 0
        BY <1>1, <1>9, FS_EmptySet
    <2>2. FirstOf(X, limit) = X
        BY <1>5, <2>1, FewAreAll
    <2>3. X = {}
        BY <1>1, <1>9, <2>2
    <2>4. ASSUME midashi \in S
          PROVE  FALSE
        <3>1. completions = {}
            <4>1. completions \subseteq WithBlock
                BY DEF WithBlock
            <4> QED
                BY <1>9, <4>1
        <3>2. at > 0 => Precedes(midashi, Info(at - 1).midashi)
            BY <2>4, <3>1 DEF Collected, IsCollected
        <3> QED
            BY <1>4, <2>3, <2>4, <3>2
    <2>5. AllCompletions \subseteq S
        BY <1>2 DEF FirstOf
    <2> QED
        BY <1>9, <2>4, <2>5
<1>10. CASE WithBlock # {} /\ Cardinality(WithBlock) >= limit
    <2>1. \A x \in X, r \in S \ X : Precedes(x, r)
        <3>1. CASE at > 0
            BY <1>8, <3>1
        <3>2. CASE ~(at > 0)
            BY <1>4, <3>2
        <3> QED
            BY <3>1, <3>2
    <2>2. FirstOf(S, limit) = FirstOf(X, limit)
        BY <1>1, <1>3, <1>5, <1>10, <2>1, EnoughAreFirst
    <2> QED
        BY <1>1, <1>2, <1>10, <2>2
<1>11. CASE WithBlock # {} /\ X = S
    BY <1>1, <1>2, <1>11
<1>12. ASSUME WithBlock # {}, at > 0, ~IsPrefix(midashi, Info(at - 1).midashi)
       PROVE  X = S
    <2> SUFFICES ASSUME NEW r \in S \ X
                 PROVE  FALSE
        BY <1>5
    <2>1. PICK x \in X : TRUE
        BY <1>1, <1>7, <1>12
    <2> PICK h \in Strings : h = Info(at - 1).midashi
        BY <1>8, <1>12
    <2>2. Precedes(x, h) /\ ~Precedes(r, h)
        BY <1>8, <1>12
    <2>3. midashi \in Strings
        BY DEF AtBlocks
    <2>4. IsPrefix(midashi, x) /\ IsPrefix(midashi, r) /\ x \in Strings /\ r \in Strings
        BY <1>3, <1>5
    <2>5. IsPrefix(midashi, h)
        BY ONLY <2>2, <2>3, <2>4, h \in Strings, PrefixesAreTogether
    <2> QED
        BY <1>12, <2>5
<1>13. at = 0 => X = S
    BY <1>4
<1>14. \/ Cardinality(WithBlock) >= limit \/ WithBlock = {} \/ at = 0
       \/ ~IsPrefix(midashi, Info(at - 1).midashi)
    BY DEF IsComplete
<1>15. at = 0 \/ at > 0
    BY <1>6
<1> QED
    BY <1>9, <1>10, <1>11, <1>12, <1>13, <1>14, <1>15

\* Otherwise all that lie before the next block are collected.
LEMMA NextIsCollected ==
    ASSUME AtBlocks, IsWord(midashi), Collected, ~IsComplete
    PROVE  /\ at - 1 \in 0..(N - 1) /\ WithBlock = BeforeBlock(at - 1) /\ WithBlock # {}
           /\ Cardinality(WithBlock) < MaxCompletions
<1> PICK limit \in Nat \ {0} : limit = MaxCompletions
    BY SearchAssumption
<1> PICK X : X = BeforeNext
    OBVIOUS
<1>1. WithBlock = FirstOf(X, limit)
    BY BlockIsAdded
<1>2. at \in 0..(N - 1) /\ N \in Nat /\ at # 0 /\ WithBlock # {}
      /\ ~(Cardinality(WithBlock) >= limit)
    BY HeadsDescend DEF Collected, IsCollected, IsComplete
<1>3. at > 0 /\ at - 1 \in 0..(N - 1)
    BY <1>2
<1>4. X = BeforeBlock(at - 1)
    BY <1>3 DEF BeforeNext, BeforeBlock
<1>5. X \in SUBSET Strings /\ IsFiniteSet(X)
    BY <1>4, CompletingFacts, FS_Subset DEF BeforeBlock
<1>6. FirstOf(X, limit) \subseteq X
    BY DEF FirstOf
<1>7. Cardinality(WithBlock) \in Nat
    BY <1>1, <1>5, <1>6, FS_Subset, FS_CardinalityType
<1>8. Cardinality(FirstOf(X, limit)) < limit
    BY <1>1, <1>2, <1>7
<1>9. FirstOf(X, limit) = X
    BY <1>5, <1>8, FewAreAll
<1> QED
    BY <1>1, <1>2, <1>3, <1>4, <1>8, <1>9

\* At the block to start from nothing is left behind.
LEMMA NothingIsBehind ==
    ASSUME AtBlocks, IsWord(midashi), IsClose, NEW i, i = Min({BlockIndex, N - 1})
    PROVE  /\ i \in 0..(N - 1) /\ BeforeBlock(i) = {}
           /\ midashi \in Completing /\ i > 0 => Precedes(midashi, Info(i - 1).midashi)
<1> PICK n \in Nat \ {0} : n = N
    BY HeadsDescend
<1>1. Searchable
    BY BlocksAreSearchable
<1> PICK t \in 0..n : t = Target
    BY <1>1, TargetFacts
<1>2. BlockIndex = t
    BY <1>1, BlockIndexIsTarget
<1>3. i = IF t < n THEN t ELSE n - 1
    <2>1. i = Min({t, n - 1})
        BY <1>2
    <2> QED
        BY ONLY <2>1, t \in 0..n, n \in Nat \ {0}, MinIsLeast
<1>4. i \in 0..(n - 1)
    BY <1>3
<1>5. /\ t < n => ~Precedes(midashi, Info(t).midashi)
      /\ \A j \in 0..(n - 1) : j < t => Precedes(midashi, Info(j).midashi)
      /\ \A j \in 0..(n - 1) : ~Precedes(midashi, Info(j).midashi) => t <= j
    BY <1>1, TargetFacts
<1>6. ASSUME NEW m \in BeforeBlock(i)
      PROVE  FALSE
    <2>1. m \in Completing /\ Precedes(m, Info(i).midashi)
        BY DEF BeforeBlock
    <2>2. /\ m \in DOMAIN found.jisyo /\ m \in Strings /\ ~Precedes(m, midashi)
          /\ MidashiKey(m) = MidashiKey(midashi) /\ midashi \in Strings
        BY <2>1, CompletingFacts DEF AtBlocks
    <2> PICK h \in Strings : h = Info(i).midashi
        BY <1>4, HeadsDescend
    <2>3. CASE t < n
        <3>1. ~Precedes(midashi, h) /\ Precedes(m, h)
            BY <1>3, <1>5, <2>1, <2>3
        <3>2. midashi = m \/ Precedes(midashi, m)
            BY <2>2, PrecedesIsTotal
        <3> QED
            BY ONLY <2>2, <3>1, <3>2, h \in Strings, PrecedesIsTransitive
    <2>4. CASE ~(t < n)
        <3>1. i = n - 1
            BY <1>3, <2>4
        <3>2. PICK j \in 0..(n - 1) : ~Precedes(m, Info(j).midashi)
            BY <2>2, EntryIsAtItsBlock
        <3>3. j = i \/ Precedes(h, Info(j).midashi)
            BY <1>4, <3>1, HeadsDescend
        <3>4. Info(j).midashi \in Strings /\ Precedes(m, h)
            BY <2>1, HeadsDescend
        <3> QED
            BY <2>1, <2>2, <3>2, <3>3, <3>4, PrecedesIsTransitive
    <2> QED
        BY <2>3, <2>4
<1>7. ASSUME midashi \in Completing, i > 0
      PROVE  Precedes(midashi, Info(i - 1).midashi)
    <2>1. i <= t /\ i - 1 \in 0..(n - 1) /\ i - 1 < t
        BY <1>3, <1>4, <1>7
    <2> QED
        BY <1>5, <2>1
<1> QED
    BY <1>4, <1>6, <1>7


CompletionInv ==
    /\ pc \in {"hint", "binary", "search"} => completions = {}
    /\ pc = "completion" => Collected
    /\ CompletionsAreTheFirst

\* As long as nothing of what they are about changes, neither do the completions.
LEMMA SameCompletions ==
    ASSUME UNCHANGED <<midashi, found, index>>
    PROVE  /\ AllCompletions' = AllCompletions
           /\ \A i, some : IsCollected(i, some) => IsCollected(i, some)'
<1>1. Infos' = Infos
    BY DEF Infos
<1>2. N' = N /\ \A i : Info(i)' = Info(i)
    BY <1>1 DEF N, Info
<1>3. Completing' = Completing
    BY DEF Completing, IsCompletion
<1>4. \A i : BeforeBlock(i)' = BeforeBlock(i)
    BY <1>2, <1>3 DEF BeforeBlock
<1>5. AllCompletions' = AllCompletions
    BY DEF AllCompletions, IsCompletion, FirstOf
<1> QED
    BY <1>2, <1>3, <1>4, <1>5 DEF IsCollected

LEMMA CompletionInvHolds ==
    ASSUME FoundInv, FoundIsWritten, SearchInv, LoadedIsWritten, ReplyInv, CompletionInv, [Next]_vars
    PROVE  CompletionInv'
<1>1. CASE UNCHANGED <<setupVars, searchVars>>
    <2>1. UNCHANGED <<midashi, found, index, at, completions, pc, reply>>
        BY <1>1 DEF setupVars, searchVars, askVars
    <2> PICK i, some, all : i = at /\ some = completions /\ all = AllCompletions
        OBVIOUS
    <2>2. all = AllCompletions' /\ (IsCollected(i, some) => IsCollected(i, some)')
        BY <2>1, SameCompletions
    <2>3. Collected => Collected'
        BY <2>1, <2>2 DEF Collected
    <2> QED
        BY <2>1, <2>2, <2>3 DEF CompletionInv, CompletionsAreTheFirst
<1>2. CASE SetupStep
    <2>1. server # "up" /\ UNCHANGED searchVars
        BY <1>2 DEF SetupStep, ValidateHash, SetupIsUnreliable, LoadTable, LoadIndexBlock,
                    FinishSetup
    <2>2. reply' = NoReply /\ pc' = "idle"
        BY <2>1 DEF ReplyInv, SearchInv, searchVars
    <2> QED
        BY <2>2 DEF CompletionInv, CompletionsAreTheFirst, NoReply
<1>3. ASSUME NEW word, NEW number, Ask(word, number)
      PROVE  CompletionInv'
    <2>1. pc' # "completion" /\ reply'.kind # "completions" /\ completions' = {}
        BY <1>3 DEF Ask, NoReply
    <2> QED
        BY <2>1 DEF CompletionInv, CompletionsAreTheFirst
<1>4. CASE HintOfFew \/ StartBinarySearch \/ LeaveBinarySearch \/ EndBinarySearch
               \/ ContinueBinarySearch
    <2>1. /\ pc \in {"hint", "binary"} /\ pc' \in {"hint", "binary", "search"}
          /\ UNCHANGED <<reply, completions>>
        BY <1>4 DEF HintOfFew, StartBinarySearch, LeaveBinarySearch, EndBinarySearch,
                    ContinueBinarySearch
    <2>2. reply'.kind # "completions" /\ completions' = {}
        BY <2>1 DEF ReplyInv, CompletionInv, NoReply
    <2> QED
        BY <2>1, <2>2 DEF CompletionInv, CompletionsAreTheFirst
<1>5. CASE ReadIsUnreliable \/ ReadCandidates \/ SendReply
    <2>1. pc' = "idle" /\ reply'.kind # "completions"
        BY <1>5 DEF ReadIsUnreliable, ReadCandidates, SendReply, NoReply
    <2> QED
        BY <2>1 DEF CompletionInv, CompletionsAreTheFirst
<1>6. CASE StartCompletion
    <2>1. /\ pc = "search" /\ IsUnchanged /\ pc' = "completion" /\ UNCHANGED <<reply, completions>>
          /\ UNCHANGED <<found, index, midashi>> /\ at' = Min({BlockIndex, N - 1})
        BY <1>6 DEF StartCompletion, setupVars, askVars
    <2>2. AtBlocks /\ IsWord(midashi) /\ IsClose /\ reply = NoReply /\ completions = {}
        BY <2>1, ReadIsAtBlocks DEF SearchInv, ReplyInv, CompletionInv
    <2> PICK i, none : i = Min({BlockIndex, N - 1}) /\ none = {}
        OBVIOUS
    <2>3. /\ i \in 0..(N - 1) /\ BeforeBlock(i) = {}
          /\ midashi \in Completing /\ i > 0 => Precedes(midashi, Info(i - 1).midashi)
        BY <2>2, NothingIsBehind
    <2>4. IsCollected(i, none)
        <3>1. Cardinality(none) = 0 /\ MaxCompletions \in Nat \ {0}
            BY FS_EmptySet, SearchAssumption
        <3>2. Cardinality(none) < MaxCompletions
            BY <3>1
        <3> QED
            BY ONLY <2>3, <3>2, none = {} DEF IsCollected
    <2>5. IsCollected(i, none)'
        BY <2>1, <2>4, SameCompletions
    <2>6. Collected'
        BY ONLY <2>1, <2>2, <2>5, i = Min({BlockIndex, N - 1}), none = {} DEF Collected
    <2>7. reply'.kind # "completions"
        BY <2>1, <2>2 DEF NoReply
    <2> QED
        BY <2>1, <2>6, <2>7 DEF CompletionInv, CompletionsAreTheFirst
<1>7. CASE ReadCompletions
    <2>1. /\ pc = "completion" /\ IsUnchanged /\ completions' = WithBlock
          /\ UNCHANGED <<found, index, midashi>>
          /\ \/ IsComplete /\ pc' = "idle" /\ reply' = [kind |-> "completions"]
             \/ ~IsComplete /\ at' = at - 1 /\ UNCHANGED <<pc, reply>>
        BY <1>7 DEF ReadCompletions, setupVars, askVars
    <2>2. AtBlocks /\ IsWord(midashi) /\ Collected /\ reply = NoReply
        BY <2>1, ReadIsAtBlocks DEF SearchInv, ReplyInv, CompletionInv
    <2>3. CASE IsComplete /\ pc' = "idle" /\ reply' = [kind |-> "completions"]
        <3>1. /\ WithBlock \in {{}, AllCompletions}
              /\ WithBlock = {} => midashi \notin AllCompletions
            BY <2>2, <2>3, EndIsAll
        <3> PICK some, all, word : some = WithBlock /\ all = AllCompletions /\ word = midashi
            OBVIOUS
        <3>2. all = AllCompletions' /\ some = completions' /\ word = midashi'
            BY <2>1, SameCompletions
        <3>3. CompletionsAreTheFirst'
            BY ONLY <3>1, <3>2, some = WithBlock, all = AllCompletions, word = midashi
               DEF CompletionsAreTheFirst
        <3> QED
            BY ONLY <2>3, <3>3 DEF CompletionInv
    <2>4. CASE ~IsComplete /\ at' = at - 1 /\ UNCHANGED <<pc, reply>>
        <3> PICK i, some : i = at - 1 /\ some = WithBlock
            OBVIOUS
        <3>1. i \in 0..(N - 1) /\ some = BeforeBlock(i) /\ some # {}
              /\ Cardinality(some) < MaxCompletions
            BY <2>2, <2>4, NextIsCollected
        <3>2. IsCollected(i, some)
            BY ONLY <3>1 DEF IsCollected
        <3>3. IsCollected(i, some)'
            BY <2>1, <3>2, SameCompletions
        <3>4. Collected'
            BY ONLY <2>1, <2>4, <3>3, i = at - 1, some = WithBlock DEF Collected
        <3>5. reply'.kind # "completions" /\ pc' = "completion"
            BY <2>1, <2>2, <2>4 DEF NoReply
        <3> QED
            BY ONLY <3>4, <3>5 DEF CompletionInv, CompletionsAreTheFirst
    <2> QED
        BY <2>1, <2>3, <2>4
<1> QED
    BY <1>1, <1>2, <1>3, <1>4, <1>5, <1>6, <1>7 DEF Next, SearchStep, vars

-----------------------------------------------------------------------------
(***************************************************************************)
(* The invariant of the whole.                                             *)
(***************************************************************************)

DictionaryInv ==
    /\ CreatorInv /\ WrittenInv /\ FileInv /\ FrontInv          \* the maker and its file
    /\ FoundInv /\ FoundIsWritten /\ SetupInv                   \* what the server loads
    /\ SearchInv /\ ReplyInv /\ CompletionInv                   \* what it searches

\* The search finds its way through the blocks, however often the maker runs meanwhile:
\* all that holds at the start holds after each step of the maker, the setup and the search.
THEOREM DictionaryInvariant == Spec => []DictionaryInv
<1>1. Init => DictionaryInv
    <2> SUFFICES ASSUME Init
                 PROVE  DictionaryInv
        OBVIOUS
    <2>1. CreatorInv /\ WrittenInv
        BY DEF Init, InitMaker, CreatorInv, WrittenInv, Working, OnlyLongEntriesFail
    <2>2. /\ maker = "idle" /\ file = NoFile /\ server = "down" /\ pc = "idle" /\ reply = NoReply
        BY DEF Init, InitMaker, InitServer
    <2> QED
        BY <2>1, <2>2 DEF DictionaryInv, FileInv, FrontInv, FoundInv, FoundIsWritten, SetupInv,
            SearchInv, ReplyInv, CompletionInv, LoadedIsWritten,
            WordsAreFound, CompletionsAreTheFirst, NoReply
<1>2. DictionaryInv /\ [Next]_vars => DictionaryInv'
    <2> SUFFICES ASSUME DictionaryInv, [Next]_vars
                 PROVE  DictionaryInv'
        OBVIOUS
    <2>1. /\ CreatorInv /\ WrittenInv /\ FileInv /\ FrontInv /\ FoundInv /\ FoundIsWritten
          /\ SetupInv /\ SearchInv /\ ReplyInv /\ CompletionInv /\ LoadedIsWritten
        BY DEF DictionaryInv, SetupInv
    <2>2. CreatorInv' /\ WrittenInv'
        BY <2>1, CreatorInvHolds, WrittenInvHolds
    <2>3. FileInv' /\ FrontInv' /\ FoundInv' /\ FoundIsWritten'
        BY <2>1, FileInvHolds, FrontInvHolds, FoundInvHolds, FoundIsWrittenHolds
    <2>4. SetupInv' /\ SearchInv'
        BY <2>1, SetupInvHolds, SearchInvHolds
    <2>5. ReplyInv' /\ CompletionInv'
        BY <2>1, ReplyInvHolds, CompletionInvHolds
    <2> QED
        BY <2>2, <2>3, <2>4, <2>5 DEF DictionaryInv
<1> QED
    BY <1>1, <1>2, PTL DEF Spec

\* The index and the table that the server works with are, byte for byte through the file,
\* those the maker made.
THEOREM LoadedAsWritten == Spec => []LoadedIsWritten
<1>1. DictionaryInv => LoadedIsWritten
    BY DEF DictionaryInv, SetupInv
<1> QED
    BY <1>1, DictionaryInvariant, PTL

\* The server panics on a file only if it was written anew since its hash was checked, or
\* if the data of one key exceed the buffer.
THEOREM OversizedKeysPanic == Spec => OnlyOversizedOrRewrittenPanics
<1> DEFINE Justified ==
              server # "panic" /\ server' = "panic" =>
                  \/ ~IsUnchanged
                  \/ \E n \in DOMAIN found.units : UnitSize(found.units[n]) > IndexLength
<1>1. DictionaryInv /\ [Next]_vars => [Justified]_vars
    <2> SUFFICES ASSUME DictionaryInv, [Next]_vars, server # "panic", server' = "panic"
                 PROVE  Justified
        OBVIOUS
    <2>1. CASE LoadIndexBlock
        BY <2>1, SetupReadsIndex DEF DictionaryInv
    <2>2. CASE SetupIsUnreliable
        BY <2>2 DEF SetupIsUnreliable
    <2>3. CASE UNCHANGED setupVars
        BY <2>3 DEF setupVars
    <2> QED
        BY <2>1, <2>2, <2>3 DEF Next, SetupStep, ValidateHash, LoadTable, FinishSetup,
            SearchStep, Ask, HintOfFew, StartBinarySearch, LeaveBinarySearch, EndBinarySearch,
            ContinueBinarySearch, ReadIsUnreliable, ReadCandidates, StartCompletion,
            ReadCompletions, SendReply, vars
<1> QED
    BY <1>1, DictionaryInvariant, PTL DEF Spec, OnlyOversizedOrRewrittenPanics

\* read_candidates finds a midashi if and only if the jisyo has it.
THEOREM AllWordsAreFound == Spec => []WordsAreFound
<1>1. DictionaryInv => WordsAreFound
    BY DEF DictionaryInv, ReplyInv
<1> QED
    BY <1>1, DictionaryInvariant, PTL

\* The hint the linear search starts from is not behind the block, and close to it.
THEOREM HintsAreClose == Spec => []HintIsClose
<1>1. DictionaryInv => HintIsClose
    BY SearchIsPossible, TargetFacts DEF DictionaryInv, SetupInv, SearchInv, IsClose, HintIsClose, Target
<1> QED
    BY <1>1, DictionaryInvariant, PTL

\* read_abbrev gives the first of all completions, across the blocks, or none at all.
THEOREM CompletionsAreFirst == Spec => []CompletionsAreTheFirst
<1>1. DictionaryInv => CompletionsAreTheFirst
    BY DEF DictionaryInv, CompletionInv
<1> QED
    BY <1>1, DictionaryInvariant, PTL

=============================================================================
