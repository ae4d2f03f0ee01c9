----------------------- MODULE DictionaryFormat_proofs ----------------------
(***************************************************************************)
(* The bytes in front of the blocks of a dictionary: what the creator      *)
(* writes for a table, a header or a unit of the index, the server reads   *)
(* back, wherever in the file it lies.                                      *)
(***************************************************************************)
EXTENDS DictionaryCreator, SequenceFacts, FiniteSetTheorems

-----------------------------------------------------------------------------
(***************************************************************************)
(* Strings of bytes, and the keys of midashi.                              *)
(***************************************************************************)

Strings == Seq(Nat)

LEMMA BytesAreStrings ==
    ASSUME NEW T, T \subseteq Nat
    PROVE  Seq(T) \subseteq Strings
<1> SUFFICES ASSUME NEW s \in Seq(T)
             PROVE  s \in Seq(Nat)
    BY DEF Strings
<1>1. Len(s) \in Nat /\ s \in [1..Len(s) -> T]
    OBVIOUS
<1>2. s \in [1..Len(s) -> Nat]
    BY <1>1
<1> QED
    BY <1>1, <1>2

LEMMA PrefixElements ==
    ASSUME NEW s \in Strings, NEW t \in Strings
    PROVE  IsPrefix(s, t) <=> Len(s) <= Len(t) /\ \A i \in 1..Len(s) : s[i] = t[i]
<1>1. Len(s) \in Nat /\ Len(t) \in Nat
    BY DEF Strings
<1>2. CASE Len(s) <= Len(t)
    <2>1. SubSeq(s, 1, Len(s)) = [i \in 1..Len(s) |-> s[i]]
          /\ SubSeq(t, 1, Len(s)) = [i \in 1..Len(s) |-> t[i]]
        BY <1>1, <1>2 DEF Strings
    <2>2. IsPrefix(s, t) <=> [i \in 1..Len(s) |-> s[i]] = [i \in 1..Len(s) |-> t[i]]
        BY <1>2, <2>1 DEF IsPrefix
    <2> QED
        BY <1>2, <2>2
<1> QED
    BY <1>1, <1>2 DEF IsPrefix

LEMMA StringsEqual ==
    ASSUME NEW s \in Strings, NEW t \in Strings, Len(s) = Len(t),
           \A i \in 1..Len(s) : s[i] = t[i]
    PROVE  s = t
<1>1. s = [i \in 1..Len(s) |-> s[i]] /\ t = [i \in 1..Len(t) |-> t[i]]
    BY DEF Strings
<1> QED
    BY <1>1

LEMMA AsciiKey ==
    ASSUME NEW m, m[1] \in 0..127
    PROVE  MidashiKey(m) = <<m[1], 0, 0, 0>>
<1>1. m[1] \notin (161..254) \cup {142} /\ m[1] # 143
    OBVIOUS
<1> QED
    BY <1>1 DEF MidashiKey

\* The key is made of the first bytes: all that start with the same whole character share it.
LEMMA MidashiKeyFacts ==
    ASSUME NEW m \in Seq(0..255), m # <<>>, StartsWhole(m)
    PROVE  /\ MidashiKey(m) # NoKey => MidashiKey(m) \in Seq(0..255) /\ Len(MidashiKey(m)) = 4
           /\ \A w \in Seq(0..255) : w # <<>> /\ StartsWhole(w) /\ IsPrefix(w, m) =>
                                       MidashiKey(w) = MidashiKey(m)
<1>1. Len(m) \in Nat /\ Len(m) # 0 /\ \A i \in 1..Len(m) : m[i] \in 0..255
    <2> PICK T : T = 0..255
        OBVIOUS
    <2>1. m \in Seq(T)
        OBVIOUS
    <2>2. Len(m) \in Nat /\ Len(m) # 0 /\ \A i \in 1..Len(m) : m[i] \in T
        BY ONLY <2>1, m # <<>>
    <2> QED
        BY ONLY <2>2, T = 0..255
<1> PICK f \in 0..255 : f = m[1]
    <2>1. 1 \in 1..Len(m)
        BY <1>1
    <2> QED
        BY <1>1, <2>1
<1>2. ASSUME MidashiKey(m) # NoKey
      PROVE  MidashiKey(m) \in Seq(0..255) /\ Len(MidashiKey(m)) = 4
    <2>1. CASE f \in 0..127
        <3>2. m[1] \in 0..127
            BY ONLY <2>1, f = m[1]
        <3>3. MidashiKey(m) = <<m[1], 0, 0, 0>>
            BY ONLY <3>2, AsciiKey
        <3> QED
            BY ONLY <3>3, f \in 0..255, f = m[1]
    <2>2. CASE f \in (161..254) \cup {142}
        <3>1. f \notin 0..127 /\ f # 143
            BY ONLY <2>2
        <3>2. MidashiKey(m) = <<f, m[2], 0, 0>>
            <4>1. f # 143 /\ m[1] # 143 /\ m[1] \notin 0..127 /\ m[1] \in (161..254) \cup {142}
                BY ONLY <2>2, <3>1, f = m[1]
            <4>2. MidashiKey(m) = <<m[1], m[2], 0, 0>>
                BY ONLY <4>1, Zenon DEF MidashiKey
            <4> QED
                BY ONLY <4>2, f = m[1]
        <3>3. 2 \in 1..Len(m)
            BY <1>1, <2>2 DEF StartsWhole
        <3> PICK b \in 0..255 : b = m[2]
            BY <1>1, <3>3
        <3> QED
            BY ONLY <3>2, f \in 0..255, b \in 0..255, b = m[2]
    <2>3. CASE f = 143
        <3>1. MidashiKey(m) = <<f, m[2], m[3], 0>>
            BY <2>3 DEF MidashiKey
        <3>2. 2 \in 1..Len(m) /\ 3 \in 1..Len(m)
            BY <1>1, <2>3 DEF StartsWhole
        <3> PICK b \in 0..255, c \in 0..255 : b = m[2] /\ c = m[3]
            BY <1>1, <3>2
        <3> QED
            BY ONLY <3>1, f \in 0..255, b \in 0..255, c \in 0..255, b = m[2], c = m[3]
    <2> QED
        BY <1>2, <2>1, <2>2, <2>3 DEF MidashiKey
<1>3. ASSUME NEW w \in Seq(0..255), w # <<>>, StartsWhole(w), IsPrefix(w, m)
      PROVE  MidashiKey(w) = MidashiKey(m)
    <2>1. Len(w) \in Nat /\ Len(w) # 0
        BY <1>3
    <2>2. Len(w) <= Len(m) /\ \A i \in 1..Len(w) : w[i] = m[i]
        <3>1. 0..255 \subseteq Nat
            OBVIOUS
        <3>2. w \in Strings /\ m \in Strings
            BY ONLY <3>1, BytesAreStrings, m \in Seq(0..255), w \in Seq(0..255)
        <3> QED
            BY <1>3, <3>2, PrefixElements
    <2>3. w[1] = m[1] /\ (Len(w) >= 2 => w[2] = m[2])
          /\ (Len(w) >= 3 => w[2] = m[2] /\ w[3] = m[3])
        BY <2>1, <2>2
    <2>4. CASE w[1] \in (161..254) \cup {142}
        BY <1>3, <2>3, <2>4 DEF StartsWhole, MidashiKey
    <2>5. CASE w[1] = 143
        BY <1>3, <2>3, <2>5 DEF StartsWhole, MidashiKey
    <2>6. CASE w[1] \notin (161..254) \cup {142, 143}
        BY <2>3, <2>6 DEF MidashiKey
    <2> QED
        BY <2>4, <2>5, <2>6
<1> QED
    BY <1>2, <1>3

\* What a unit of the index holds of a block, and the unit itself.
Information == [midashi : Strings, offset : Nat, length : Nat]

UnitRecords == [key : Strings, informations : Seq(Information)]

-----------------------------------------------------------------------------
(***************************************************************************)
(* Bytes that hold others at a place; places count from 0.                 *)
(***************************************************************************)

Holds(bytes, at, piece) ==
    /\ bytes \in Strings /\ piece \in Strings /\ at \in Nat
    /\ at + Len(piece) <= Len(bytes)
    /\ \A i \in 1..Len(piece) : bytes[at + i] = piece[i]

LEMMA HoldsBoth ==
    ASSUME NEW s \in Strings, NEW t \in Strings
    PROVE  s \o t \in Strings /\ Len(s \o t) = Len(s) + Len(t)
           /\ Holds(s \o t, 0, s) /\ Holds(s \o t, Len(s), t)
<1> PICK u : u = s \o t
    OBVIOUS
<1>1. u \in Strings
    BY DEF Strings
<1>2. /\ Len(s) \in Nat /\ Len(t) \in Nat
      /\ Len(u) = Len(s) + Len(t)
      /\ \A i \in 1..Len(s) : u[i] = s[i]
      /\ \A i \in 1..Len(t) : u[Len(s) + i] = t[i]
    BY ConcatElements DEF Strings
<1>3. \A i \in 1..Len(s) : 0 + i = i
    BY <1>2
<1> QED
    BY <1>1, <1>2, <1>3 DEF Holds

LEMMA HoldsPart ==
    ASSUME NEW b, NEW m, NEW p, NEW o, NEW q, Holds(b, m, p), Holds(p, o, q)
    PROVE  Holds(b, m + o, q)
<1> PICK lb \in Nat, lp \in Nat, lq \in Nat : lb = Len(b) /\ lp = Len(p) /\ lq = Len(q)
    BY DEF Holds, Strings
<1>1. /\ m \in Nat /\ o \in Nat /\ m + lp <= lb /\ o + lq <= lp
      /\ \A i \in 1..lp : b[m + i] = p[i]
      /\ \A i \in 1..lq : p[o + i] = q[i]
    BY DEF Holds
<1>2. m + o \in Nat /\ (m + o) + lq <= lb
    BY <1>1
<1>3. ASSUME NEW i \in 1..lq
      PROVE  b[(m + o) + i] = q[i]
    <2>1. o + i \in 1..lp /\ m + (o + i) = (m + o) + i
        BY <1>1
    <2>2. b[m + (o + i)] = p[o + i]
        BY <1>1, <2>1
    <2> QED
        BY <1>1, <2>1, <2>2
<1> QED
    BY <1>2, <1>3 DEF Holds

\* A read brings what is there.
LEMMA HeldIsRead ==
    ASSUME NEW b, NEW m, NEW p, Holds(b, m, p)
    PROVE  ReadExact(b, m, Len(p)) = p
<1> PICK n \in Nat : n = Len(p)
    BY DEF Holds, Strings
<1>1. /\ m \in Nat /\ m + n <= Len(b) /\ b \in Seq(Nat) /\ p \in Seq(Nat)
      /\ \A i \in 1..n : b[m + i] = p[i]
    BY DEF Holds, Strings
<1>2. ReadExact(b, m, n) = SubSeq(b, m + 1, m + n)
    BY DEF ReadExact
<1> PICK s : s = SubSeq(b, m + 1, m + n)
    OBVIOUS
<1>3. s \in Seq(Nat) /\ Len(s) = n /\ \A i \in 1..n : s[i] = b[m + i]
    <2>1. m + 1 \in 1..(Len(b) + 1) /\ m + n \in 0..Len(b)
        BY <1>1
    <2>2. ASSUME NEW i \in (m + 1)..(m + n) PROVE b[i] \in Nat
        <3>1. i \in 1..Len(b)
            BY ONLY <1>1, n \in Nat, i \in (m + 1)..(m + n)
        <3> QED
            BY ONLY <1>1, <3>1
    <2>3. s = [i \in 1..((m + n) - (m + 1) + 1) |-> b[i + (m + 1) - 1]]
        BY <1>1
    <2>4. (m + n) - (m + 1) + 1 = n /\ \A i \in 1..n : i + (m + 1) - 1 = m + i
        BY <1>1
    <2>5. s = [i \in 1..n |-> b[m + i]]
        BY <2>3, <2>4
    <2>6. ASSUME NEW i \in 1..n PROVE b[m + i] \in Nat
        <3>1. m + i \in 1..Len(b)
            BY ONLY <1>1, n \in Nat, i \in 1..n
        <3> QED
            BY ONLY <1>1, <3>1
    <2>7. s \in [1..n -> Nat] /\ \A i \in 1..n : s[i] = b[m + i]
        BY ONLY <2>5, <2>6
    <2> QED
        BY ONLY <2>7, n \in Nat
<1>4. s = p
    <2>1. s \in Strings /\ p \in Strings /\ Len(s) = Len(p) /\ \A i \in 1..Len(s) : s[i] = p[i]
        BY ONLY <1>1, <1>3, n = Len(p) DEF Strings
    <2> QED
        BY <2>1, StringsEqual
<1> QED
    BY <1>2, <1>4

\* A u32 is read back.
LEMMA NumberIsRead ==
    ASSUME NEW n \in Nat
    PROVE  /\ ToNeBytes(n) \in Strings /\ Len(ToNeBytes(n)) = 4
           /\ \A b, m : Holds(b, m, ToNeBytes(n)) => U32At(b, m) = n
<1>1. /\ n % 256 \in Nat /\ (n \div 256) % 256 \in Nat /\ (n \div 65536) % 256 \in Nat
      /\ n \div 16777216 \in Nat
    OBVIOUS
<1>2. n = (n % 256) + 256 * ((n \div 256) % 256) + 65536 * ((n \div 65536) % 256)
             + 16777216 * (n \div 16777216)
    OBVIOUS
<1> PICK w \in Nat, x \in Nat, y \in Nat, z \in Nat :
        /\ w = n % 256 /\ x = (n \div 256) % 256 /\ y = (n \div 65536) % 256
        /\ z = n \div 16777216
    BY <1>1
<1>3. ToNeBytes(n) = <<w, x, y, z>>
    BY DEF ToNeBytes
<1>4. ASSUME NEW b, NEW m, Holds(b, m, <<w, x, y, z>>)
      PROVE  U32At(b, m) = n
    <2>1. m \in Nat /\ b[m + 1] = w /\ b[m + 2] = x /\ b[m + 3] = y /\ b[m + 4] = z
        <3>1. \A i \in 1..4 : b[m + i] = <<w, x, y, z>>[i]
            BY <1>4 DEF Holds
        <3> QED
            BY <1>4, <3>1 DEF Holds
    <2> QED
        BY <1>2, <2>1 DEF U32At
<1> QED
    BY <1>3, <1>4 DEF Strings

-----------------------------------------------------------------------------
(***************************************************************************)
(* Pieces one after the other.                                             *)
(***************************************************************************)

\* Where the pieces are in what they make up.
ArePieces(start, pieces, bytes) ==
    /\ start \in [0..Len(pieces) -> Nat] /\ start[0] = 0 /\ start[Len(pieces)] = Len(bytes)
    /\ \A n \in 1..Len(pieces) :
          start[n] = start[n - 1] + Len(pieces[n]) /\ Holds(bytes, start[n - 1], pieces[n])

LEMMA PiecesAreHeld ==
    ASSUME NEW pieces \in Seq(Strings)
    PROVE  /\ FlattenSeq(pieces) \in Strings
           /\ \E start : ArePieces(start, pieces, FlattenSeq(pieces))
<1>1. pieces \in Seq(Seq(Nat))
    BY DEF Strings
<1> PICK bytes : bytes = FlattenSeq(pieces)
    OBVIOUS
<1>2. bytes \in Seq(Nat)
    BY <1>1, FlattenFacts
<1>3. PICK start : AreStarts(start, pieces, bytes)
    BY <1>1, FlattenStarts
<1>4. \A n \in 1..Len(pieces) : pieces[n] \in Strings /\ n - 1 \in 0..Len(pieces)
    OBVIOUS
<1>5. ASSUME NEW n \in 1..Len(pieces)
      PROVE  start[n] = start[n - 1] + Len(pieces[n]) /\ Holds(bytes, start[n - 1], pieces[n])
    <2>1. /\ start[n] = start[n - 1] + Len(pieces[n]) /\ start[n] <= Len(bytes)
          /\ \A i \in 1..Len(pieces[n]) : bytes[start[n - 1] + i] = pieces[n][i]
          /\ start[n - 1] \in Nat
        BY <1>3, <1>4 DEF AreStarts
    <2>2. bytes \in Strings /\ pieces[n] \in Strings
        BY <1>2, <1>4 DEF Strings
    <2> QED
        BY <2>1, <2>2 DEF Holds
<1>6. ArePieces(start, pieces, bytes)
    BY <1>3, <1>5 DEF AreStarts, ArePieces
<1> QED
    BY <1>2, <1>6 DEF Strings

\* Pieces of the same length.
LEMMA EvenPiecesAreHeld ==
    ASSUME NEW pieces \in Seq(Strings), NEW k \in Nat,
           \A n \in 1..Len(pieces) : Len(pieces[n]) = k
    PROVE  /\ FlattenSeq(pieces) \in Strings /\ Len(FlattenSeq(pieces)) = k * Len(pieces)
           /\ \A n \in 1..Len(pieces) : Holds(FlattenSeq(pieces), k * (n - 1), pieces[n])
<1> PICK bytes : bytes = FlattenSeq(pieces)
    OBVIOUS
<1> PICK N1 \in Nat : N1 = Len(pieces)
    OBVIOUS
<1>1. bytes \in Strings
    BY PiecesAreHeld
<1>2. PICK start : ArePieces(start, pieces, bytes)
    BY PiecesAreHeld
<1> DEFINE S == {n \in 0..N1 : start[n] = k * n}
<1>3. 0 \in S
    BY <1>2 DEF ArePieces
<1>4. ASSUME NEW n \in 0..(N1 - 1), n \in S
      PROVE  n + 1 \in S
    <2>1. n + 1 \in 1..N1 /\ (n + 1) - 1 = n /\ n + 1 \in 0..N1
        OBVIOUS
    <2>2. start[n + 1] = start[(n + 1) - 1] + Len(pieces[n + 1])
        BY <1>2, <2>1 DEF ArePieces
    <2>3. start[n + 1] = k * n + k
        BY <1>4, <2>1, <2>2
    <2>4. k * n + k = k * (n + 1)
        OBVIOUS
    <2> QED
        BY <2>1, <2>3, <2>4
<1>5. 0..N1 \subseteq S
    <2> HIDE DEF S
    <2> QED
        BY <1>3, <1>4, BoundedInduction
<1>6. Len(bytes) = k * N1
    <2>1. N1 \in S
        <3> HIDE DEF S
        <3> QED
            BY <1>5
    <2> QED
        BY <1>2, <2>1 DEF ArePieces
<1>7. ASSUME NEW n \in 1..N1
      PROVE  Holds(bytes, k * (n - 1), pieces[n])
    <2>1. n - 1 \in S
        <3> HIDE DEF S
        <3> QED
            BY <1>5
    <2> QED
        BY <1>2, <2>1 DEF ArePieces
<1> QED
    BY <1>1, <1>6, <1>7

LEMMA NumbersAreRead ==
    ASSUME NEW numbers \in Seq(Nat)
    PROVE  /\ U32s(numbers) \in Strings /\ Len(U32s(numbers)) = 4 * Len(numbers)
           /\ \A b, m : Holds(b, m, U32s(numbers)) =>
                 \A n \in 1..Len(numbers) : U32At(b, m + 4 * (n - 1)) = numbers[n]
<1> DEFINE pieces == [i \in DOMAIN numbers |-> ToNeBytes(numbers[i])]
<1>1. DOMAIN numbers = 1..Len(numbers) /\ Len(numbers) \in Nat
      /\ \A i \in 1..Len(numbers) : numbers[i] \in Nat
    OBVIOUS
<1>2. pieces \in Seq(Strings) /\ Len(pieces) = Len(numbers)
      /\ \A n \in 1..Len(numbers) : pieces[n] = ToNeBytes(numbers[n]) /\ Len(pieces[n]) = 4
    <2>1. \A n \in 1..Len(numbers) :
             ToNeBytes(numbers[n]) \in Strings /\ Len(ToNeBytes(numbers[n])) = 4
        BY <1>1, NumberIsRead
    <2>2. pieces \in [1..Len(numbers) -> Strings]
        BY <1>1, <2>1
    <2> QED
        BY <1>1, <2>1, <2>2
<1>3. U32s(numbers) = FlattenSeq(pieces)
    BY DEF U32s
<1> HIDE DEF pieces
<1>4. /\ FlattenSeq(pieces) \in Strings /\ Len(FlattenSeq(pieces)) = 4 * Len(pieces)
      /\ \A n \in 1..Len(pieces) : Holds(FlattenSeq(pieces), 4 * (n - 1), pieces[n])
    BY <1>2, EvenPiecesAreHeld
<1>5. ASSUME NEW b, NEW m, Holds(b, m, U32s(numbers)), NEW n \in 1..Len(numbers)
      PROVE  U32At(b, m + 4 * (n - 1)) = numbers[n]
    <2>1. Holds(b, m + 4 * (n - 1), ToNeBytes(numbers[n]))
        BY <1>2, <1>3, <1>4, <1>5, HoldsPart
    <2> QED
        BY <1>1, <2>1, NumberIsRead
<1> QED
    BY <1>2, <1>3, <1>4, <1>5

-----------------------------------------------------------------------------
(***************************************************************************)
(* The encoding table.                                                     *)
(***************************************************************************)

Chosen(s) == CHOOSE x \in s : TRUE

\* Those of the subsets of S that have up to n elements, as the fold joins their bytes.
FoldsUnits(g, S, n, enc) ==
    \A s \in SUBSET S :
      Cardinality(s) <= n =>
           g[s] = IF s = {} THEN <<>> ELSE enc[Chosen(s)] \o g[s \ {Chosen(s)}]

IsUnitFold(g, S, n, enc) ==
    /\ g \in [{s \in SUBSET S : Cardinality(s) <= n} -> Strings]
    /\ FoldsUnits(g, S, n, enc)

LEMMA ChosenIsRemoved ==
    ASSUME NEW S, IsFiniteSet(S), NEW s \in SUBSET S, s # {}
    PROVE  /\ Chosen(s) \in s /\ s \ {Chosen(s)} \in SUBSET S /\ Chosen(s) \notin s \ {Chosen(s)}
           /\ Cardinality(s) \in Nat \ {0} /\ Cardinality(s \ {Chosen(s)}) = Cardinality(s) - 1
<1>1. Chosen(s) \in s
    BY DEF Chosen
<1>2. IsFiniteSet(s) /\ Cardinality(s) \in Nat
    BY FS_Subset, FS_CardinalityType
<1>3. Cardinality(s \ {Chosen(s)}) = Cardinality(s) - 1
    BY <1>1, <1>2, FS_RemoveElement
<1>4. Cardinality(s) # 0
    BY <1>2, FS_EmptySet
<1> QED
    BY <1>1, <1>2, <1>3, <1>4

LEMMA UnitFoldExists ==
    ASSUME NEW S, IsFiniteSet(S), NEW enc \in [S -> Strings]
    PROVE  \E g : IsUnitFold(g, S, Cardinality(S), enc)
<1>1. <<>> \in Strings /\ \A s, t \in Strings : s \o t \in Strings
    BY DEF Strings
<1>2. Cardinality(S) \in Nat
    BY FS_CardinalityType
<1> DEFINE G == {n \in 0..Cardinality(S) : \E g : IsUnitFold(g, S, n, enc)}
<1>3. 0 \in G
    <2> DEFINE g == [s \in {r \in SUBSET S : Cardinality(r) <= 0} |-> <<>>]
    <2>1. \A s \in SUBSET S : Cardinality(s) <= 0 => s = {}
        <3> SUFFICES ASSUME NEW s \in SUBSET S, s # {}
                     PROVE  ~(Cardinality(s) <= 0)
            OBVIOUS
        <3>1. Cardinality(s) \in Nat \ {0}
            BY ChosenIsRemoved
        <3> QED
            BY <3>1
    <2>2. IsUnitFold(g, S, 0, enc)
        BY <1>1, <2>1 DEF IsUnitFold, FoldsUnits
    <2> QED
        BY <1>2, <2>2
<1>4. ASSUME NEW n \in 0..(Cardinality(S) - 1), n \in G
      PROVE  n + 1 \in G
    <2>1. PICK g : IsUnitFold(g, S, n, enc)
        BY <1>4
    <2> DEFINE T == {s \in SUBSET S : Cardinality(s) <= n + 1}
               h == [s \in T |->
                       IF Cardinality(s) <= n THEN g[s]
                       ELSE enc[Chosen(s)] \o g[s \ {Chosen(s)}]]
    <2>2. \A s \in SUBSET S : Cardinality(s) \in Nat
        BY FS_Subset, FS_CardinalityType
    <2>3. \A s \in SUBSET S : Cardinality(s) <= n => g[s] \in Strings
        BY <2>1 DEF IsUnitFold, FoldsUnits
    <2>4. ASSUME NEW s \in SUBSET S, s # {}, Cardinality(s) <= n + 1
          PROVE  /\ Chosen(s) \in S /\ s \ {Chosen(s)} \in SUBSET S
                 /\ Cardinality(s \ {Chosen(s)}) <= n
        BY <2>4, ChosenIsRemoved
    <2>5. ASSUME NEW s \in SUBSET S, Cardinality(s) <= n + 1
          PROVE  /\ h[s] \in Strings
                 /\ h[s] = IF s = {} THEN <<>> ELSE enc[Chosen(s)] \o h[s \ {Chosen(s)}]
        <3>1. CASE Cardinality(s) <= n
            <4>1. h[s] = g[s]
                BY <2>5, <3>1
            <4>2. g[s] = IF s = {} THEN <<>> ELSE enc[Chosen(s)] \o g[s \ {Chosen(s)}]
                BY <2>1, <3>1 DEF IsUnitFold, FoldsUnits
            <4>3. s # {} => h[s \ {Chosen(s)}] = g[s \ {Chosen(s)}]
                BY <2>2, <2>4, <2>5
            <4> QED
                BY <2>3, <3>1, <4>1, <4>2, <4>3
        <3>2. CASE ~(Cardinality(s) <= n)
            <4>1. s # {}
                BY <3>2, FS_EmptySet
            <4>2. h[s] = enc[Chosen(s)] \o g[s \ {Chosen(s)}]
                BY <2>5, <3>2
            <4>3. Chosen(s) \in S /\ s \ {Chosen(s)} \in SUBSET S
                  /\ Cardinality(s \ {Chosen(s)}) <= n
                BY <2>4, <2>5, <4>1
            <4>4. h[s \ {Chosen(s)}] = g[s \ {Chosen(s)}] /\ g[s \ {Chosen(s)}] \in Strings
                BY <2>2, <2>3, <4>3
            <4>5. enc[Chosen(s)] \in Strings
                BY ONLY <4>3, enc \in [S -> Strings]
            <4>6. enc[Chosen(s)] \o g[s \ {Chosen(s)}] \in Strings
                BY ONLY <4>4, <4>5 DEF Strings
            <4> HIDE DEF h
            <4> QED
                BY ONLY <4>1, <4>2, <4>4, <4>6
        <3> QED
            BY <3>1, <3>2
    <2>6. IsUnitFold(h, S, n + 1, enc)
        <3>1. h \in [T -> Strings]
            <4>1. \A s \in T : h[s] \in Strings
                <5> HIDE DEF h
                <5> QED
                    BY <2>5
            <4> QED
                BY <4>1
        <3> HIDE DEF h
        <3> QED
            BY <2>5, <3>1 DEF IsUnitFold, FoldsUnits
    <2> QED
        BY <1>2, <2>6
<1>5. 0..Cardinality(S) \subseteq G
    <2> HIDE DEF G
    <2> QED
        BY <1>2, <1>3, <1>4, BoundedInduction
<1> QED
    BY <1>2, <1>5

\* What a fold over the units of one length brings is read unit by unit.
AreRead(bytes, S, k, enc) ==
    /\ bytes \in Strings /\ Len(bytes) = k * Cardinality(S)
    /\ \A b, m : Holds(b, m, bytes) => UnitsAt(b, m, Cardinality(S), k) = {enc[u] : u \in S}

LEMMA UnitsAreRead ==
    ASSUME NEW S, IsFiniteSet(S), NEW k \in Nat, NEW enc \in [S -> Strings],
           \A u \in S : Len(enc[u]) = k,
           NEW g, FoldsUnits(g, S, Cardinality(S), enc)
    PROVE  AreRead(g[S], S, k, enc)
<1> PICK c \in Nat : c = Cardinality(S)
    BY FS_CardinalityType
<1> DEFINE IsRead(s) ==
              /\ g[s] \in Strings /\ Len(g[s]) = k * Cardinality(s)
              /\ \A b, m : Holds(b, m, g[s]) => UnitsAt(b, m, Cardinality(s), k) = {enc[u] : u \in s}
           G == {n \in 0..c : \A s \in SUBSET S : Cardinality(s) = n => IsRead(s)}
<1>1. \A s \in SUBSET S : IsFiniteSet(s) /\ Cardinality(s) \in Nat /\ Cardinality(s) <= c
    BY FS_Subset, FS_CardinalityType
<1>2. 0 \in G
    <2> SUFFICES ASSUME NEW s \in SUBSET S, Cardinality(s) = 0
                 PROVE  IsRead(s)
        OBVIOUS
    <2>1. s = {}
        BY <1>1, FS_EmptySet
    <2>2. g[s] = <<>>
        BY <1>1, <2>1 DEF IsUnitFold, FoldsUnits
    <2>3. \A b, m : UnitsAt(b, m, 0, k) = {}
        BY DEF UnitsAt
    <2>4. <<>> \in Strings /\ Len(<<>>) = 0 /\ k * 0 = 0
        BY DEF Strings
    <2>5. {enc[u] : u \in s} = {}
        BY <2>1
    <2> QED
        BY <2>2, <2>3, <2>4, <2>5
<1>3. ASSUME NEW n \in 0..(c - 1), n \in G
      PROVE  n + 1 \in G
    <2> SUFFICES ASSUME NEW s \in SUBSET S, Cardinality(s) = n + 1
                 PROVE  IsRead(s)
        OBVIOUS
    <2>1. s # {}
        <3>1. Cardinality({}) = 0 /\ n + 1 # 0
            BY FS_EmptySet
        <3> QED
            BY ONLY <3>1, Cardinality(s) = n + 1
    <2> PICK x, r : x = Chosen(s) /\ r = s \ {Chosen(s)}
        OBVIOUS
    <2>2. x \in s /\ r \in SUBSET S /\ Cardinality(r) = n /\ s = {x} \cup r
        BY <2>1, ChosenIsRemoved
    <2>3. g[s] = enc[x] \o g[r]
        BY <1>1, <2>1 DEF IsUnitFold, FoldsUnits
    <2>4. /\ g[r] \in Strings /\ Len(g[r]) = k * n
          /\ \A b, m : Holds(b, m, g[r]) => UnitsAt(b, m, n, k) = {enc[u] : u \in r}
        BY <1>3, <2>2
    <2>5. enc[x] \in Strings /\ Len(enc[x]) = k
        BY <2>2
    <2>6. /\ g[s] \in Strings /\ Len(g[s]) = k + k * n
          /\ Holds(g[s], 0, enc[x]) /\ Holds(g[s], k, g[r])
        BY ONLY <2>3, <2>4, <2>5, HoldsBoth
    <2>7. k + k * n = k * (n + 1)
        OBVIOUS
    <2>8. ASSUME NEW b, NEW m, Holds(b, m, g[s])
          PROVE  UnitsAt(b, m, n + 1, k) = {enc[u] : u \in s}
        <3>1. m \in Nat
            BY <2>8 DEF Holds
        <3>2. Holds(b, m + 0, enc[x]) /\ Holds(b, m + k, g[r])
            BY <2>6, <2>8, HoldsPart
        <3>3. ReadExact(b, m + 0, k) = enc[x]
            BY <2>5, <3>2, HeldIsRead
        <3>4. UnitsAt(b, m + k, n, k) = {enc[u] : u \in r}
            BY <2>4, <3>2
        <3>5. UnitsAt(b, m, n + 1, k) = {ReadExact(b, m + 0, k)} \cup UnitsAt(b, m + k, n, k)
            <4> DEFINE R(i) == ReadExact(b, m + i * k, k)
                       Q(i) == ReadExact(b, (m + k) + i * k, k)
            <4>1. R(0) = ReadExact(b, m + 0, k)
                BY 0 * k = 0
            <4>2. \A i \in Nat : R(i + 1) = Q(i)
                <5> SUFFICES ASSUME NEW i \in Nat
                             PROVE  m + (i + 1) * k = (m + k) + i * k
                    OBVIOUS
                <5> QED
                    BY <3>1
            <4> HIDE DEF R, Q
            <4>3. {R(i) : i \in 0..n} = {R(0)} \cup {Q(i) : i \in 0..(n - 1)}
                <5>1. ASSUME NEW i \in 0..n
                      PROVE  R(i) \in {R(0)} \cup {Q(j) : j \in 0..(n - 1)}
                    <6>1. CASE i = 0
                        BY <6>1
                    <6>2. CASE i # 0
                        <7>1. i - 1 \in 0..(n - 1) /\ i - 1 \in Nat /\ (i - 1) + 1 = i
                            BY <6>2
                        <7>2. R(i) = Q(i - 1)
                            BY <4>2, <7>1
                        <7> QED
                            BY <7>1, <7>2
                    <6> QED
                        BY <6>1, <6>2
                <5>2. ASSUME NEW i \in 0..(n - 1)
                      PROVE  Q(i) \in {R(j) : j \in 0..n}
                    <6>1. i + 1 \in 0..n /\ i \in Nat
                        OBVIOUS
                    <6> QED
                        BY <4>2, <6>1
                <5>3. 0 \in 0..n
                    OBVIOUS
                <5> QED
                    BY <5>1, <5>2, <5>3
            <4>4. UnitsAt(b, m, n + 1, k) = {R(i) : i \in 0..n}
                <5>1. 0..((n + 1) - 1) = 0..n
                    OBVIOUS
                <5> QED
                    BY <5>1 DEF UnitsAt, R
            <4>5. UnitsAt(b, m + k, n, k) = {Q(i) : i \in 0..(n - 1)}
                BY DEF UnitsAt, Q
            <4> QED
                BY <4>1, <4>3, <4>4, <4>5
        <3> QED
            BY <2>2, <3>3, <3>4, <3>5
    <2> QED
        BY <2>6, <2>7, <2>8
<1>4. c \in G
    <2> HIDE DEF G
    <2>1. 0..c \subseteq G
        BY <1>2, <1>3, BoundedInduction
    <2> QED
        BY <2>1
<1> QED
    BY <1>4 DEF AreRead

LEMMA CaseIsOneOf ==
    ASSUME NEW p \in BOOLEAN, NEW q \in BOOLEAN, NEW r \in BOOLEAN,
           NEW v, NEW w, NEW x, NEW y
    PROVE  (CASE p -> v [] q -> w [] r -> x [] OTHER -> y) \in {v, w, x, y}
BY Zenon

LEMMA Utf8Bytes ==
    ASSUME NEW u \in Nat
    PROVE  UnicodeToUtf8(u) \in Strings
<1> DEFINE T(bits) == \h80 + ((u \div 2^bits) % 64)
           one == u <= MaxCodePoint[1]
           two == u \in (MaxCodePoint[1] + 1)..MaxCodePoint[2]
           three == u \in (MaxCodePoint[2] + 1)..MaxCodePoint[3]
           b2 == <<\hc0 + u \div 2^6, T(0)>>
           b3 == <<\he0 + u \div 2^12, T(6), T(0)>>
           b4 == <<\hf0 + u \div 2^18, T(12), T(6), T(0)>>
<1>1. UnicodeToUtf8(u) = CASE one -> <<u>> [] two -> b2 [] three -> b3 [] OTHER -> b4
    BY Zenon DEF UnicodeToUtf8
<1>2. T(0) \in Nat /\ T(6) \in Nat /\ T(12) \in Nat
    OBVIOUS
<1>3. \hc0 + u \div 2^6 \in Nat /\ \he0 + u \div 2^12 \in Nat /\ \hf0 + u \div 2^18 \in Nat
    OBVIOUS
<1>4. <<u>> \in Strings /\ b2 \in Strings /\ b3 \in Strings /\ b4 \in Strings
    <2> HIDE DEF T
    <2> QED
        BY <1>2, <1>3 DEF Strings
<1>5. one \in BOOLEAN /\ two \in BOOLEAN /\ three \in BOOLEAN
    OBVIOUS
<1> HIDE DEF one, two, three, b2, b3, b4
<1>6. UnicodeToUtf8(u) \in {<<u>>, b2, b3, b4}
    BY ONLY <1>1, <1>5, CaseIsOneOf, Zenon
<1> QED
    BY <1>4, <1>6

LEMMA PaddedFacts ==
    ASSUME NEW b \in Strings, NEW n \in Nat
    PROVE  Padded(b, n) \in Strings /\ Len(Padded(b, n)) = n
           /\ \A i \in 1..n : Padded(b, n)[i] = IF i \in 1..Len(b) THEN b[i] ELSE 0
<1>1. DOMAIN b = 1..Len(b) /\ \A i \in 1..Len(b) : b[i] \in Nat
    BY DEF Strings
<1>2. Padded(b, n) = [i \in 1..n |-> IF i \in 1..Len(b) THEN b[i] ELSE 0]
    BY <1>1 DEF Padded
<1>3. Padded(b, n) \in [1..n -> Nat]
    BY <1>1, <1>2
<1> QED
    BY <1>2, <1>3 DEF Strings

LEMMA TableFacts ==
    /\ IsFiniteSet(Conversions)
    /\ \A line \in Conversions : line.euc \in Strings /\ line.unicode \in Strings
<1>1. IsFiniteSet(Conversions)
    BY TableAssumption
<1>2. ASSUME NEW line \in Conversions
      PROVE  line.euc \in Strings /\ line.unicode \in Strings
    <2>1. line.euc \in Seq(0..255)
        BY TableAssumption
    <2>2. line.unicode \in Seq(0..MaxCodePoint[4])
        BY TableAssumption
    <2>3. 0..255 \subseteq Nat
        OBVIOUS
    <2>4. 0..MaxCodePoint[4] \subseteq Nat
        OBVIOUS
    <2>5. line.euc \in Strings
        BY ONLY <2>1, <2>3, BytesAreStrings
    <2>6. line.unicode \in Strings
        BY ONLY <2>2, <2>4, BytesAreStrings
    <2> QED
        BY <2>5, <2>6
<1> QED
    BY <1>1, <1>2

\* The bytes of the units.
LEMMA UnitBytesFacts ==
    /\ IsFiniteSet(CharacterUnits) /\ IsFiniteSet(CombinationUnits)
    /\ \A u \in CharacterUnits :
          /\ u = [euc |-> u.euc, utf8 |-> u.utf8]
          /\ u.euc \in Strings /\ Len(u.euc) = 3 /\ u.utf8 \in Strings /\ Len(u.utf8) = 4
    /\ \A u \in CombinationUnits :
          /\ u = [euc |-> u.euc, utf8 |-> u.utf8, utf8_2 |-> u.utf8_2]
          /\ u.euc \in Strings /\ Len(u.euc) = 3 /\ u.utf8 \in Strings /\ Len(u.utf8) = 4
          /\ u.utf8_2 \in Strings /\ Len(u.utf8_2) = 4
<1>1. ASSUME NEW line \in Conversions
      PROVE  EucUnit(line) \in Strings /\ Len(EucUnit(line)) = 3
    <2>1. line.euc \in Strings
        BY TableFacts
    <2> QED
        BY <2>1, PaddedFacts DEF EucUnit
<1>2. ASSUME NEW line \in Conversions, NEW n \in 1..Len(line.unicode)
      PROVE  Utf8Unit(line, n) \in Strings /\ Len(Utf8Unit(line, n)) = 4
    <2>1. line.unicode[n] \in Nat
        BY TableFacts DEF Strings
    <2>2. UnicodeToUtf8(line.unicode[n]) \in Strings
        BY <2>1, Utf8Bytes
    <2> QED
        <3>1. 4 \in Nat
            OBVIOUS
        <3>2. Padded(UnicodeToUtf8(line.unicode[n]), 4) \in Strings
              /\ Len(Padded(UnicodeToUtf8(line.unicode[n]), 4)) = 4
            BY ONLY <2>2, <3>1, PaddedFacts, Zenon
        <3> QED
            BY ONLY <3>2, Zenon DEF Utf8Unit
<1>3. \A line \in Conversions :
         /\ Len(line.unicode) = 1 => 1 \in 1..Len(line.unicode)
         /\ Len(line.unicode) = 2 => 1 \in 1..Len(line.unicode) /\ 2 \in 1..Len(line.unicode)
    <2>1. \A n : n = 1 \/ n = 2 => 1 \in 1..n /\ (n = 2 => 2 \in 1..n)
        OBVIOUS
    <2> QED
        BY <2>1, Zenon
<1>4. IsFiniteSet(CharacterUnits)
    <2> PICK L : L = {l \in Conversions : Len(l.unicode) = 1}
        OBVIOUS
    <2> PICK f : f = [line \in L |->
                        [euc |-> EucUnit(line), utf8 |-> Utf8Unit(line, 1)]]
        OBVIOUS
    <2>1. IsFiniteSet(L)
        BY TableFacts, FS_Subset
    <2>2. IsFiniteSet({f[line] : line \in L})
        <3>1. \A line \in L : f[line] \in {f[l] : l \in L}
            OBVIOUS
        <3>2. f \in Surjection(L, {f[line] : line \in L})
            BY <3>1 DEF Surjection
        <3> QED
            BY <2>1, <3>2, FS_Surjection
    <2>3. CharacterUnits = {f[line] : line \in L}
        BY DEF CharacterUnits
    <2> QED
        BY <2>2, <2>3
<1>5. IsFiniteSet(CombinationUnits)
    <2> PICK L : L = {l \in Conversions : Len(l.unicode) = 2}
        OBVIOUS
    <2> PICK f : f = [line \in L |->
                        [euc |-> EucUnit(line), utf8 |-> Utf8Unit(line, 1),
                         utf8_2 |-> Utf8Unit(line, 2)]]
        OBVIOUS
    <2>1. IsFiniteSet(L)
        BY TableFacts, FS_Subset
    <2>2. IsFiniteSet({f[line] : line \in L})
        <3>1. \A line \in L : f[line] \in {f[l] : l \in L}
            OBVIOUS
        <3>2. f \in Surjection(L, {f[line] : line \in L})
            BY <3>1 DEF Surjection
        <3> QED
            BY <2>1, <3>2, FS_Surjection
    <2>3. CombinationUnits = {f[line] : line \in L}
        BY DEF CombinationUnits
    <2> QED
        BY <2>2, <2>3
<1>6. ASSUME NEW u \in CharacterUnits
      PROVE  /\ u = [euc |-> u.euc, utf8 |-> u.utf8]
             /\ u.euc \in Strings /\ Len(u.euc) = 3 /\ u.utf8 \in Strings /\ Len(u.utf8) = 4
    <2>1. PICK line \in Conversions :
             Len(line.unicode) = 1 /\ u = [euc |-> EucUnit(line), utf8 |-> Utf8Unit(line, 1)]
        BY DEF CharacterUnits
    <2> QED
        BY <1>1, <1>2, <1>3, <2>1
<1>7. ASSUME NEW u \in CombinationUnits
      PROVE  /\ u = [euc |-> u.euc, utf8 |-> u.utf8, utf8_2 |-> u.utf8_2]
             /\ u.euc \in Strings /\ Len(u.euc) = 3 /\ u.utf8 \in Strings /\ Len(u.utf8) = 4
             /\ u.utf8_2 \in Strings /\ Len(u.utf8_2) = 4
    <2>1. PICK line \in Conversions :
             /\ Len(line.unicode) = 2
             /\ u = [euc |-> EucUnit(line), utf8 |-> Utf8Unit(line, 1),
                     utf8_2 |-> Utf8Unit(line, 2)]
        BY DEF CombinationUnits
    <2> QED
        BY <1>1, <1>2, <1>3, <2>1
<1> QED
    BY <1>4, <1>5, <1>6, <1>7

\* All subsets of a set of units are folded.
IsTotalFold(g, S, enc) ==
    /\ g = [s \in SUBSET S |-> g[s]]
    /\ \A s \in SUBSET S :
          g[s] = IF s = {} THEN <<>> ELSE enc[Chosen(s)] \o g[s \ {Chosen(s)}]

LEMMA UnitFoldIsTotal ==
    ASSUME NEW S, IsFiniteSet(S), NEW enc \in [S -> Strings]
    PROVE  \E g : IsTotalFold(g, S, enc)
<1>1. PICK g : IsUnitFold(g, S, Cardinality(S), enc)
    BY UnitFoldExists
<1>2. \A s \in SUBSET S : Cardinality(s) <= Cardinality(S)
    BY FS_Subset
<1>3. {s \in SUBSET S : Cardinality(s) <= Cardinality(S)} = SUBSET S
    BY <1>2
<1>4. g = [s \in SUBSET S |-> g[s]]
    BY <1>1, <1>3 DEF IsUnitFold
<1>5. \A s \in SUBSET S :
         g[s] = IF s = {} THEN <<>> ELSE enc[Chosen(s)] \o g[s \ {Chosen(s)}]
    BY <1>1, <1>2 DEF IsUnitFold, FoldsUnits
<1> QED
    BY <1>4, <1>5 DEF IsTotalFold

CombinationOf == [u \in CombinationUnits |-> u.euc \o u.utf8 \o u.utf8_2]
CharacterOf == [u \in CharacterUnits |-> u.euc \o u.utf8]

\* The two folds of the table.
LEMMA CombinationBytesFold ==
    ASSUME CombinationOf \in [CombinationUnits -> Strings]
    PROVE  \E g : /\ CombinationBytes = g[CombinationUnits]
                  /\ FoldsUnits(g, CombinationUnits, Cardinality(CombinationUnits), CombinationOf)
<1> DEFINE S == CombinationUnits
           Equation(g) == g = [s \in SUBSET S |->
                                  IF s = {} THEN <<>>
                                  ELSE LET x == CHOOSE x \in s : TRUE
                                       IN  x.euc \o x.utf8 \o x.utf8_2 \o g[s \ {x}]]
           iter == CHOOSE g : Equation(g)
<1>1. CombinationBytes = iter[S]
    BY DEF CombinationBytes, FoldSet, MapThenFoldSet
<1> PICK g : IsTotalFold(g, S, CombinationOf)
    <2>1. IsFiniteSet(CombinationUnits)
        BY UnitBytesFacts
    <2> QED
        BY <2>1, UnitFoldIsTotal
<1>2. /\ g = [s \in SUBSET S |-> g[s]]
      /\ \A s \in SUBSET S :
            g[s] = IF s = {} THEN <<>> ELSE CombinationOf[Chosen(s)] \o g[s \ {Chosen(s)}]
    BY DEF IsTotalFold
<1>3. ASSUME NEW s \in SUBSET S, s # {}
      PROVE  Chosen(s) \in s
    BY <1>3 DEF Chosen
<1>4. ASSUME NEW u \in S
      PROVE  CombinationOf[u] = u.euc \o u.utf8 \o u.utf8_2
    BY DEF CombinationOf
<1>5. Equation(g)
    <2>1. ASSUME NEW s \in SUBSET S
          PROVE  g[s] = IF s = {} THEN <<>>
                        ELSE Chosen(s).euc \o Chosen(s).utf8 \o Chosen(s).utf8_2
                                \o g[s \ {Chosen(s)}]
        BY <1>2, <1>3, <1>4
    <2>2. \A s : Chosen(s) = CHOOSE x \in s : TRUE
        BY DEF Chosen
    <2>3. g = [s \in SUBSET S |->
                 IF s = {} THEN <<>>
                 ELSE Chosen(s).euc \o Chosen(s).utf8 \o Chosen(s).utf8_2 \o g[s \ {Chosen(s)}]]
        BY <1>2, <2>1
    <2> QED
        BY <2>3 DEF Chosen
<1>6. Equation(iter)
    <2> HIDE DEF Equation
    <2> QED
        BY <1>5
<1> HIDE DEF iter
<1>7. ASSUME NEW s \in SUBSET S
      PROVE  iter[s] = IF s = {} THEN <<>>
                       ELSE CombinationOf[Chosen(s)] \o iter[s \ {Chosen(s)}]
    <2>1. iter[s] = IF s = {} THEN <<>>
                    ELSE Chosen(s).euc \o Chosen(s).utf8 \o Chosen(s).utf8_2
                            \o iter[s \ {Chosen(s)}]
        BY <1>6 DEF Chosen
    <2> QED
        BY <1>3, <1>4, <2>1
<1> QED
    BY <1>1, <1>7 DEF FoldsUnits

LEMMA CharacterBytesFold ==
    ASSUME CharacterOf \in [CharacterUnits -> Strings]
    PROVE  \E g : /\ CharacterBytes = g[CharacterUnits]
                  /\ FoldsUnits(g, CharacterUnits, Cardinality(CharacterUnits), CharacterOf)
<1> DEFINE S == CharacterUnits
           Equation(g) == g = [s \in SUBSET S |->
                                  IF s = {} THEN <<>>
                                  ELSE LET x == CHOOSE x \in s : TRUE
                                       IN  x.euc \o x.utf8 \o g[s \ {x}]]
           iter == CHOOSE g : Equation(g)
<1>1. CharacterBytes = iter[S]
    BY DEF CharacterBytes, FoldSet, MapThenFoldSet
<1> PICK g : IsTotalFold(g, S, CharacterOf)
    <2>1. IsFiniteSet(CharacterUnits)
        BY UnitBytesFacts
    <2> QED
        BY <2>1, UnitFoldIsTotal
<1>2. /\ g = [s \in SUBSET S |-> g[s]]
      /\ \A s \in SUBSET S :
            g[s] = IF s = {} THEN <<>> ELSE CharacterOf[Chosen(s)] \o g[s \ {Chosen(s)}]
    BY DEF IsTotalFold
<1>3. ASSUME NEW s \in SUBSET S, s # {}
      PROVE  Chosen(s) \in s
    BY <1>3 DEF Chosen
<1>4. ASSUME NEW u \in S
      PROVE  CharacterOf[u] = u.euc \o u.utf8
    BY DEF CharacterOf
<1>5. Equation(g)
    <2>1. ASSUME NEW s \in SUBSET S
          PROVE  g[s] = IF s = {} THEN <<>>
                        ELSE Chosen(s).euc \o Chosen(s).utf8 \o g[s \ {Chosen(s)}]
        BY <1>2, <1>3, <1>4
    <2>2. g = [s \in SUBSET S |->
                 IF s = {} THEN <<>>
                 ELSE Chosen(s).euc \o Chosen(s).utf8 \o g[s \ {Chosen(s)}]]
        BY <1>2, <2>1
    <2> QED
        BY <2>2 DEF Chosen
<1>6. Equation(iter)
    <2> HIDE DEF Equation
    <2> QED
        BY <1>5
<1> HIDE DEF iter
<1>7. ASSUME NEW s \in SUBSET S
      PROVE  iter[s] = IF s = {} THEN <<>>
                       ELSE CharacterOf[Chosen(s)] \o iter[s \ {Chosen(s)}]
    <2>1. iter[s] = IF s = {} THEN <<>>
                    ELSE Chosen(s).euc \o Chosen(s).utf8 \o iter[s \ {Chosen(s)}]
        BY <1>6 DEF Chosen
    <2> QED
        BY <1>3, <1>4, <2>1
<1> QED
    BY <1>1, <1>7 DEF FoldsUnits

\* A unit of the table is read back.
LEMMA CombinationIsRead ==
    ASSUME NEW u \in CombinationUnits
    PROVE  /\ CombinationOf[u] \in Strings /\ Len(CombinationOf[u]) = 11
           /\ [euc |-> SubSeq(CombinationOf[u], 1, 3), utf8 |-> SubSeq(CombinationOf[u], 4, 7),
               utf8_2 |-> SubSeq(CombinationOf[u], 8, 11)] = u
<1> PICK b, e, f, g : b = CombinationOf[u] /\ e = u.euc /\ f = u.utf8 /\ g = u.utf8_2
    OBVIOUS
<1>1. /\ u = [euc |-> e, utf8 |-> f, utf8_2 |-> g]
      /\ e \in Strings /\ Len(e) = 3 /\ f \in Strings /\ Len(f) = 4 /\ g \in Strings /\ Len(g) = 4
    BY UnitBytesFacts, Zenon
<1>2. b = (e \o f) \o g
    BY DEF CombinationOf
<1>3. /\ e \o f \in Strings /\ Len(e \o f) = 7
      /\ Holds(e \o f, 0, e) /\ Holds(e \o f, 3, f)
    <2>1. /\ e \o f \in Strings /\ Len(e \o f) = Len(e) + Len(f)
          /\ Holds(e \o f, 0, e) /\ Holds(e \o f, Len(e), f)
        BY <1>1, HoldsBoth
    <2> QED
        BY ONLY <1>1, <2>1
<1> PICK ef : ef = e \o f
    OBVIOUS
<1>4. b \in Strings /\ Len(b) = 11 /\ Holds(b, 0, ef) /\ Holds(b, 7, g)
    <2>1. ef \in Strings /\ Len(ef) = 7
        BY <1>3
    <2>2. /\ ef \o g \in Strings /\ Len(ef \o g) = Len(ef) + Len(g)
          /\ Holds(ef \o g, 0, ef) /\ Holds(ef \o g, Len(ef), g)
        BY ONLY <1>1, <2>1, HoldsBoth
    <2>3. b = ef \o g
        BY <1>2
    <2> QED
        BY ONLY <1>1, <2>1, <2>2, <2>3
<1>5. Holds(b, 0 + 0, e) /\ Holds(b, 0 + 3, f)
    BY <1>3, <1>4, HoldsPart
<1>6. ReadExact(b, 0, 3) = e /\ ReadExact(b, 3, 4) = f /\ ReadExact(b, 7, 4) = g
    <2>1. Holds(b, 0, e) /\ Holds(b, 3, f)
        BY ONLY <1>5
    <2>2. /\ ReadExact(b, 0, Len(e)) = e /\ ReadExact(b, 3, Len(f)) = f
          /\ ReadExact(b, 7, Len(g)) = g
        BY ONLY <1>4, <2>1, HeldIsRead
    <2> QED
        BY ONLY <1>1, <2>2
<1>7. SubSeq(b, 1, 3) = e /\ SubSeq(b, 4, 7) = f /\ SubSeq(b, 8, 11) = g
    BY <1>6 DEF ReadExact
<1> QED
    BY ONLY <1>1, <1>4, <1>7, b = CombinationOf[u]

LEMMA CharacterIsRead ==
    ASSUME NEW u \in CharacterUnits
    PROVE  /\ CharacterOf[u] \in Strings /\ Len(CharacterOf[u]) = 7
           /\ [euc |-> SubSeq(CharacterOf[u], 1, 3), utf8 |-> SubSeq(CharacterOf[u], 4, 7)] = u
<1> PICK b, e, f : b = CharacterOf[u] /\ e = u.euc /\ f = u.utf8
    OBVIOUS
<1>1. /\ u = [euc |-> e, utf8 |-> f]
      /\ e \in Strings /\ Len(e) = 3 /\ f \in Strings /\ Len(f) = 4
    BY UnitBytesFacts, Zenon
<1>2. b = e \o f
    BY DEF CharacterOf
<1>3. b \in Strings /\ Len(b) = 7 /\ Holds(b, 0, e) /\ Holds(b, 3, f)
    <2>1. /\ e \o f \in Strings /\ Len(e \o f) = Len(e) + Len(f)
          /\ Holds(e \o f, 0, e) /\ Holds(e \o f, Len(e), f)
        BY <1>1, HoldsBoth
    <2> QED
        BY ONLY <1>1, <1>2, <2>1
<1>4. ReadExact(b, 0, 3) = e /\ ReadExact(b, 3, 4) = f
    <2>1. ReadExact(b, 0, Len(e)) = e /\ ReadExact(b, 3, Len(f)) = f
        BY ONLY <1>3, HeldIsRead
    <2> QED
        BY ONLY <1>1, <2>1
<1>5. SubSeq(b, 1, 3) = e /\ SubSeq(b, 4, 7) = f
    BY <1>4 DEF ReadExact
<1> QED
    BY ONLY <1>1, <1>3, <1>5, b = CharacterOf[u]

LEMMA TableHeaderFacts ==
    /\ TableHeader \in Seq(Nat) /\ Len(TableHeader) = 8
    /\ TableHeader[2] = 32 /\ TableHeader[3] = Cardinality(CombinationUnits)
    /\ TableHeader[4] = Cardinality(CharacterUnits)
    /\ Cardinality(CombinationUnits) \in Nat /\ Cardinality(CharacterUnits) \in Nat
<1>1. Cardinality(CombinationUnits) \in Nat /\ Cardinality(CharacterUnits) \in Nat
    BY UnitBytesFacts, FS_CardinalityType
<1> PICK c \in Nat, d \in Nat : c = Cardinality(CombinationUnits) /\ d = Cardinality(CharacterUnits)
    BY <1>1
<1> PICK s, t : s = <<1, 32, c, d>> /\ t = Zeros(4)
    OBVIOUS
<1>2. s \in Seq(Nat) /\ Len(s) = 4 /\ s[2] = 32 /\ s[3] = c /\ s[4] = d
    OBVIOUS
<1>3. t \in Seq(Nat) /\ Len(t) = 4
    BY DEF Zeros
<1> PICK u : u = s \o t
    OBVIOUS
<1>4. TableHeader = u
    BY DEF TableHeader, TableHeaderLength
<1>5. /\ u \in Seq(Nat) /\ Len(u) = Len(s) + Len(t)
      /\ \A i \in 1..Len(s) : u[i] = s[i]
    BY <1>2, <1>3, ConcatElements
<1>6. Len(u) = 8 /\ u[2] = 32 /\ u[3] = c /\ u[4] = d
    BY ONLY <1>2, <1>3, <1>5
<1> QED
    BY <1>1, <1>4, <1>5, <1>6

\* The table that is read is the one that was written.
LEMMA TableIsRead ==
    /\ TableBytes \in Strings
    /\ CombinationsIn(TableBytes) = CombinationUnits
    /\ CharactersIn(TableBytes) = CharacterUnits
<1> PICK c \in Nat, d \in Nat : c = Cardinality(CombinationUnits) /\ d = Cardinality(CharacterUnits)
    BY TableHeaderFacts
<1> PICK h, p, q, b : h = TableHeaderBytes /\ p = CombinationBytes /\ q = CharacterBytes
                      /\ b = TableBytes
    OBVIOUS
<1>1. /\ h \in Strings /\ Len(h) = 32
      /\ \A x, m : Holds(x, m, h) =>
            U32At(x, m + 4) = 32 /\ U32At(x, m + 8) = c /\ U32At(x, m + 12) = d
    <2>1. /\ h \in Strings /\ Len(h) = 4 * Len(TableHeader)
          /\ \A x, m : Holds(x, m, h) =>
                \A n \in 1..Len(TableHeader) : U32At(x, m + 4 * (n - 1)) = TableHeader[n]
        <3>1. TableHeader \in Seq(Nat) /\ h = U32s(TableHeader)
            BY TableHeaderFacts DEF TableHeaderBytes
        <3> QED
            BY ONLY <3>1, NumbersAreRead
    <2>2. Len(TableHeader) = 8 /\ 2 \in 1..8 /\ 3 \in 1..8 /\ 4 \in 1..8
          /\ 4 * (2 - 1) = 4 /\ 4 * (3 - 1) = 8 /\ 4 * (4 - 1) = 12
        BY TableHeaderFacts
    <2>3. ASSUME NEW x, NEW m, Holds(x, m, h)
          PROVE  U32At(x, m + 4) = 32 /\ U32At(x, m + 8) = c /\ U32At(x, m + 12) = d
        <3>1. \A n \in 1..8 : U32At(x, m + 4 * (n - 1)) = TableHeader[n]
            <4>1. \A n \in 1..Len(TableHeader) : U32At(x, m + 4 * (n - 1)) = TableHeader[n]
                BY <2>1, <2>3, Zenon
            <4> QED
                BY ONLY <2>2, <4>1
        <3>2. /\ U32At(x, m + 4 * (2 - 1)) = TableHeader[2]
              /\ U32At(x, m + 4 * (3 - 1)) = TableHeader[3]
              /\ U32At(x, m + 4 * (4 - 1)) = TableHeader[4]
            BY <2>2, <3>1
        <3>3. TableHeader[2] = 32 /\ TableHeader[3] = c /\ TableHeader[4] = d
            BY TableHeaderFacts
        <3> QED
            BY ONLY <2>2, <3>2, <3>3
    <2> QED
        BY <2>1, <2>2, <2>3
<1>2. CombinationOf \in [CombinationUnits -> Strings]
      /\ \A u \in CombinationUnits : Len(CombinationOf[u]) = 11
    BY CombinationIsRead DEF CombinationOf
<1>3. CharacterOf \in [CharacterUnits -> Strings]
      /\ \A u \in CharacterUnits : Len(CharacterOf[u]) = 7
    BY CharacterIsRead DEF CharacterOf
<1>4. /\ p \in Strings /\ Len(p) = 11 * c
      /\ \A x, m : Holds(x, m, p) => UnitsAt(x, m, c, 11) = {CombinationOf[u] : u \in CombinationUnits}
    <2>1. PICK g : /\ p = g[CombinationUnits]
                   /\ FoldsUnits(g, CombinationUnits, Cardinality(CombinationUnits), CombinationOf)
        BY <1>2, CombinationBytesFold
    <2>2. IsFiniteSet(CombinationUnits)
        BY UnitBytesFacts
    <2>3. PICK k \in Nat : k = 11
        OBVIOUS
    <2>4. AreRead(g[CombinationUnits], CombinationUnits, k, CombinationOf)
        BY ONLY <1>2, <2>1, <2>2, <2>3, UnitsAreRead
    <2> QED
        BY ONLY <2>1, <2>3, <2>4, c = Cardinality(CombinationUnits) DEF AreRead
<1>5. /\ q \in Strings /\ Len(q) = 7 * d
      /\ \A x, m : Holds(x, m, q) => UnitsAt(x, m, d, 7) = {CharacterOf[u] : u \in CharacterUnits}
    <2>1. PICK g : /\ q = g[CharacterUnits]
                   /\ FoldsUnits(g, CharacterUnits, Cardinality(CharacterUnits), CharacterOf)
        BY <1>3, CharacterBytesFold
    <2>2. IsFiniteSet(CharacterUnits)
        BY UnitBytesFacts
    <2>3. PICK k \in Nat : k = 7
        OBVIOUS
    <2>4. AreRead(g[CharacterUnits], CharacterUnits, k, CharacterOf)
        BY ONLY <1>3, <2>1, <2>2, <2>3, UnitsAreRead
    <2> QED
        BY ONLY <2>1, <2>3, <2>4, d = Cardinality(CharacterUnits) DEF AreRead
<1>6. b = (h \o p) \o q
    BY DEF TableBytes
<1>7. /\ h \o p \in Strings /\ Len(h \o p) = 32 + 11 * c
      /\ Holds(h \o p, 0, h) /\ Holds(h \o p, 32, p)
    BY <1>1, <1>4, HoldsBoth
<1>8. /\ b \in Strings /\ Holds(b, 0, h \o p) /\ Holds(b, 32 + 11 * c, q)
    BY ONLY <1>5, <1>6, <1>7, HoldsBoth
<1>9. Holds(b, 0 + 0, h) /\ Holds(b, 0 + 32, p)
    BY <1>7, <1>8, HoldsPart
<1>10. U32At(b, 4) = 32 /\ U32At(b, 8) = c /\ U32At(b, 12) = d
    <2>1. Holds(b, 0, h)
        BY <1>9
    <2>2. U32At(b, 0 + 4) = 32 /\ U32At(b, 0 + 8) = c /\ U32At(b, 0 + 12) = d
        BY <1>1, <2>1
    <2> QED
        BY <2>2
<1>11. UnitsAt(b, 32, c, 11) = {CombinationOf[u] : u \in CombinationUnits}
    BY <1>4, <1>9
<1>12. UnitsAt(b, 32 + c * 11, d, 7) = {CharacterOf[u] : u \in CharacterUnits}
    <2>1. 32 + c * 11 = 32 + 11 * c
        OBVIOUS
    <2> QED
        BY <1>5, <1>8, <2>1
<1>13. CombinationsIn(b) = CombinationUnits
    <2> DEFINE Back(x) == [euc |-> SubSeq(x, 1, 3), utf8 |-> SubSeq(x, 4, 7),
                           utf8_2 |-> SubSeq(x, 8, 11)]
    <2>1. CombinationsIn(b) =
             {Back(x) : x \in {CombinationOf[u] : u \in CombinationUnits}}
        BY <1>10, <1>11 DEF CombinationsIn, CombinationLength
    <2>2. \A u \in CombinationUnits : Back(CombinationOf[u]) = u
        BY CombinationIsRead
    <2> HIDE DEF Back
    <2> QED
        BY <2>1, <2>2
<1>14. CharactersIn(b) = CharacterUnits
    <2>1. CharactersIn(b) =
             {[euc |-> SubSeq(x, 1, 3), utf8 |-> SubSeq(x, 4, 7)] :
                 x \in {CharacterOf[u] : u \in CharacterUnits}}
        BY <1>10, <1>12 DEF CharactersIn, CombinationLength, CharacterLength
    <2> QED
        BY <2>1, CharacterIsRead
<1> QED
    BY <1>8, <1>13, <1>14

-----------------------------------------------------------------------------
(***************************************************************************)
(* The midashi of a unit of the index, joined and split.                   *)
(***************************************************************************)

\* The midashi of the first n informations, joined, for each n.
JoinedWith(joined, word) ==
    IF joined = <<>> THEN word ELSE joined \o <<Space>> \o word

LEMMA JoinedSteps ==
    ASSUME NEW infos \in Seq(Information)
    PROVE  \E chain \in [0..Len(infos) -> Strings] :
              /\ chain[0] = <<>>
              /\ \A n \in 1..Len(infos) : chain[n] = JoinedWith(chain[n - 1], infos[n].midashi)
              /\ JoinedMidashi(infos) = chain[Len(infos)]
<1> DEFINE N1 == Len(infos)
           V == Strings
           step == [p \in V \X (1..N1) |-> JoinedWith(p[1], infos[p[2]].midashi)]
           Equation(g) == g = [s \in SUBSET (1..N1) |->
                                  IF s = {} THEN <<>>
                                  ELSE JoinedWith(g[s \ {Max(s)}], infos[Max(s)].midashi)]
           iter == CHOOSE g : Equation(g)
<1>1. N1 \in Nat /\ <<>> \in V /\ DOMAIN infos = 1..N1 /\ \A i \in 1..N1 : infos[i].midashi \in V
    <2>1. \A i \in 1..N1 : infos[i] \in Information
        OBVIOUS
    <2>2. \A info \in Information : info.midashi \in Strings
        BY DEF Information
    <2>3. <<>> \in Strings
        BY DEF Strings
    <2> QED
        BY <2>1, <2>2, <2>3
<1>2. \A v \in V : \A w \in V : JoinedWith(v, w) \in V
    BY DEF JoinedWith, Strings, Space
<1>3. JoinedMidashi(infos) = iter[1..N1]
    BY <1>1 DEF JoinedMidashi, FoldLeft, MapThenFoldSet, JoinedWith
<1>4. ASSUME NEW s \in SUBSET (1..N1), s # {}
      PROVE  Max(s) \in 1..N1 /\ s \ {Max(s)} \in SUBSET (1..N1)
    BY <1>1, <1>4, MaxIsGreatest
<1> HIDE DEF N1, V
<1>5. step \in [V \X (1..N1) -> V]
    BY <1>1, <1>2
<1>6. PICK g : IsFold(g, V, N1, <<>>, step)
    <2> HIDE DEF step
    <2> QED
        BY <1>1, <1>5, FoldExists
<1>7. Equation(g)
    <2>1. ASSUME NEW s \in SUBSET (1..N1)
          PROVE  g[s] = IF s = {} THEN <<>> ELSE JoinedWith(g[s \ {Max(s)}], infos[Max(s)].midashi)
        BY <1>4, <1>6 DEF IsFold
    <2>2. g = [s \in SUBSET (1..N1) |-> g[s]]
        BY <1>6 DEF IsFold
    <2> QED
        BY <2>1, <2>2
<1>8. Equation(iter)
    BY <1>7
<1> HIDE DEF iter
<1>9. iter[{}] = <<>>
    BY <1>8
<1>10. ASSUME NEW s \in SUBSET (1..N1), s # {}, iter[s \ {Max(s)}] \in V
       PROVE  iter[s] = step[<<iter[s \ {Max(s)}], Max(s)>>]
    BY <1>4, <1>8, <1>10
<1>11. PICK chain : IsChainTo(chain, V, N1, <<>>, step, iter[1..N1])
    <2> HIDE DEF step
    <2>1. FoldsWithin(iter, V, N1, <<>>, step)
        BY <1>9, <1>10 DEF FoldsWithin
    <2> QED
        BY <1>1, <1>5, <2>1, IterIsChain
<1>12. ASSUME NEW n \in 1..N1
       PROVE  chain[n] = JoinedWith(chain[n - 1], infos[n].midashi)
    <2>1. chain[n - 1] \in V
        BY <1>1, <1>11 DEF IsChain, IsChainTo
    <2> QED
        BY <1>11, <2>1 DEF IsChain, IsChainTo
<1> QED
    BY <1>3, <1>11, <1>12 DEF IsChain, IsChainTo, N1, V

LEMMA SplitAtSpacesIs ==
    ASSUME NEW bytes
    PROVE  SplitAtSpaces(bytes) = SplitAt(Space, bytes)
BY DEF SplitAtSpaces, SplitAt

LEMMA SplitAppendAtSpaces ==
    ASSUME NEW s \in Strings, NEW b \in Nat
    PROVE  SplitAtSpaces(Append(s, b)) = SplitNext(Space, SplitAtSpaces(s), b)
BY SplitAtSpacesIs, SplitAppend DEF Strings

\* A word without a space comes whole behind what was done.
LEMMA SplitWordAtSpaces ==
    ASSUME NEW s \in Strings, NEW done \in Seq(Strings), SplitAtSpaces(s) = Append(done, <<>>),
           NEW w \in Strings, \A i \in 1..Len(w) : w[i] # Space
    PROVE  SplitAtSpaces(s \o w) = Append(done, w)
<1>1. SplitAt(Space, s) = Append(done, <<>>)
    BY ONLY SplitAtSpaces(s) = Append(done, <<>>), SplitAtSpacesIs
<1> PICK T : T = Nat
    OBVIOUS
<1>2. s \in Seq(T) /\ done \in Seq(Seq(T)) /\ w \in Seq(T)
    BY ONLY s \in Strings, done \in Seq(Strings), w \in Strings, T = Nat DEF Strings
<1>3. SplitAt(Space, s \o w) = Append(done, w)
    <2>1. Lacks(w, Space)
        BY DEF Lacks
    <2> QED
        BY ONLY <1>1, <1>2, <2>1, SplitWord
<1> QED
    BY ONLY <1>3, SplitAtSpacesIs

Words(infos) == [i \in 1..Len(infos) |-> infos[i].midashi]

AreWords(infos) ==
    \A i \in 1..Len(infos) :
       infos[i].midashi # <<>> /\ \A j \in 1..Len(infos[i].midashi) : infos[i].midashi[j] # Space

\* The joined midashi are those that are split again.
LEMMA JoinedIsSplit ==
    ASSUME NEW infos \in Seq(Information), infos # <<>>, AreWords(infos)
    PROVE  JoinedMidashi(infos) \in Strings
           /\ SplitAtSpaces(JoinedMidashi(infos)) = Words(infos)
<1> PICK k \in Nat : k = Len(infos)
    OBVIOUS
<1>1. PICK c \in [0..k -> Strings] :
              /\ c[0] = <<>>
              /\ \A n \in 1..k : c[n] = JoinedWith(c[n - 1], infos[n].midashi)
              /\ JoinedMidashi(infos) = c[k]
    BY JoinedSteps
<1> DEFINE W(n) == [i \in 1..n |-> infos[i].midashi]
           S == {n \in 0..k : n = 0 \/ (c[n] # <<>> /\ SplitAtSpaces(c[n]) = W(n))}
<1>2. \A i \in 1..k : infos[i].midashi \in Strings /\ infos[i].midashi # <<>>
                      /\ \A j \in 1..Len(infos[i].midashi) : infos[i].midashi[j] # Space
    <2>1. \A i \in 1..k : infos[i] \in Information
        OBVIOUS
    <2> QED
        BY <2>1 DEF Information, AreWords
<1>3. 0 \in S
    OBVIOUS
<1>4. ASSUME NEW n \in 0..(k - 1), n \in S
      PROVE  n + 1 \in S
    <2> PICK s, t, w, done : s = c[n] /\ t = c[n + 1] /\ w = infos[n + 1].midashi /\ done = W(n)
        OBVIOUS
    <2>1. n + 1 \in 1..k /\ n + 1 \in 0..k /\ (n + 1) - 1 = n
        OBVIOUS
    <2>2. t = JoinedWith(s, w)
        BY <1>1, <2>1
    <2>3. w \in Strings /\ w # <<>> /\ \A j \in 1..Len(w) : w[j] # Space
        BY <1>2, <2>1
    <2>4. s \in Strings /\ t \in Strings
        BY <2>1
    <2>5. done \in Seq(Strings) /\ Len(done) = n /\ \A i \in 1..n : done[i] = infos[i].midashi
        <3>1. \A i \in 1..n : infos[i].midashi \in Strings
            BY <1>2
        <3> QED
            BY <3>1
    <2>6. W(n + 1) = Append(done, w)
        <3> PICK x, y : x = W(n + 1) /\ y = Append(done, w)
            OBVIOUS
        <3>1. x \in Seq(Strings) /\ Len(x) = n + 1 /\ x[n + 1] = w
              /\ \A i \in 1..n : x[i] = infos[i].midashi
            <4>1. \A i \in 1..(n + 1) : infos[i].midashi \in Strings
                BY <1>2
            <4> QED
                BY <4>1
        <3>2. y \in Seq(Strings) /\ Len(y) = n + 1 /\ y[n + 1] = w
              /\ \A i \in 1..n : y[i] = infos[i].midashi
            BY <2>3, <2>5
        <3>3. \A i \in 1..(n + 1) : x[i] = y[i]
            <4>1. \A i \in 1..(n + 1) : i \in 1..n \/ i = n + 1
                OBVIOUS
            <4> QED
                BY ONLY <3>1, <3>2, <4>1
        <3>4. x = y
            BY ONLY <3>1, <3>2, <3>3, SequencesEqual
        <3> QED
            BY <3>4
    <2>7. t # <<>> /\ SplitAtSpaces(t) = Append(done, w)
        <3>1. CASE n = 0
            <4>1. s = <<>> /\ done = <<>>
                BY <1>1, <2>5, <3>1
            <4>2. t = w
                BY <2>2, <4>1 DEF JoinedWith
            <4>3. SplitAtSpaces(<<>>) = Append(<<>>, <<>>)
                BY SplitAtSpacesIs, SplitOfNone
            <4>4. <<>> \o w = w
                BY <2>3 DEF Strings
            <4>5. SplitAtSpaces(<<>> \o w) = Append(<<>>, w)
                <5>1. <<>> \in Strings /\ <<>> \in Seq(Strings)
                    BY DEF Strings
                <5> QED
                    BY <2>3, <4>3, <5>1, SplitWordAtSpaces
            <4> QED
                BY <2>3, <4>1, <4>2, <4>4, <4>5
        <3>2. CASE n # 0
            <4>1. s # <<>> /\ SplitAtSpaces(s) = done
                BY <1>4, <3>2
            <4>2. t = (s \o <<Space>>) \o w
                BY <2>2, <4>1 DEF JoinedWith
            <4> PICK u : u = s \o <<Space>>
                OBVIOUS
            <4>3. u = Append(s, Space) /\ u \in Strings /\ Space \in Nat
                BY <2>4 DEF Strings, Space
            <4>4. SplitAtSpaces(u) = Append(done, <<>>)
                BY <2>4, <4>1, <4>3, SplitAppendAtSpaces DEF SplitNext
            <4>5. SplitAtSpaces(u \o w) = Append(done, w)
                BY <2>3, <2>5, <4>3, <4>4, SplitWordAtSpaces
            <4>6. u \o w # <<>>
                <5>1. Len(u \o w) = Len(u) + Len(w) /\ Len(u) \in Nat /\ Len(w) \in Nat
                    BY <2>3, <4>3 DEF Strings
                <5>2. Len(w) # 0
                    BY <2>3 DEF Strings
                <5>3. Len(<<>>) = 0
                    OBVIOUS
                <5> QED
                    BY ONLY <5>1, <5>2, <5>3
            <4> QED
                BY <4>2, <4>5, <4>6
        <3> QED
            BY <3>1, <3>2
    <2> QED
        BY <2>1, <2>6, <2>7
<1>5. k \in S /\ k # 0
    <2>1. 0..k \subseteq S
        <3> HIDE DEF S
        <3> QED
            BY <1>3, <1>4, BoundedInduction
    <2> QED
        BY <2>1
<1> QED
    BY <1>1, <1>5 DEF Words

-----------------------------------------------------------------------------
(***************************************************************************)
(* A unit of the index as bytes.                                           *)
(***************************************************************************)

\* A unit that its bytes tell everything about.
IsWhole(unit) ==
    /\ unit \in UnitRecords /\ Len(unit.key) = 4
    /\ unit.informations # <<>> /\ AreWords(unit.informations)

LEMMA InfoBytesFacts ==
    ASSUME NEW info \in Information
    PROVE  /\ InfoBytes(info) \in Strings /\ Len(InfoBytes(info)) = 8
           /\ \A b, m : Holds(b, m, InfoBytes(info)) => InfoOf(b, m, info.midashi) = info
<1> PICK o \in Nat, l \in Nat : o = info.offset /\ l = info.length
    BY DEF Information
<1> PICK two : two = <<o, l>>
    OBVIOUS
<1>1. two \in Seq(Nat) /\ Len(two) = 2 /\ two[1] = o /\ two[2] = l /\ InfoBytes(info) = U32s(two)
    BY DEF InfoBytes
<1>2. /\ U32s(two) \in Strings /\ Len(U32s(two)) = 4 * Len(two)
      /\ \A b, m : Holds(b, m, U32s(two)) =>
            \A n \in 1..Len(two) : U32At(b, m + 4 * (n - 1)) = two[n]
    BY <1>1, NumbersAreRead
<1>3. ASSUME NEW b, NEW m, Holds(b, m, InfoBytes(info))
      PROVE  InfoOf(b, m, info.midashi) = info
    <2>0. Holds(b, m, U32s(two))
        BY <1>1, <1>3
    <2>1. \A n \in 1..Len(two) : U32At(b, m + 4 * (n - 1)) = two[n]
        BY ONLY <1>2, <2>0, Zenon
    <2>2. m \in Nat
        BY <1>3 DEF Holds
    <2>3. 1 \in 1..Len(two) /\ 2 \in 1..Len(two) /\ m + 4 * (1 - 1) = m /\ m + 4 * (2 - 1) = m + 4
        BY <1>1, <2>2
    <2>4. U32At(b, m) = o /\ U32At(b, m + 4) = l
        <3>1. U32At(b, m + 4 * (1 - 1)) = two[1] /\ U32At(b, m + 4 * (2 - 1)) = two[2]
            BY ONLY <2>1, <2>3
        <3> QED
            BY ONLY <1>1, <2>3, <3>1
    <2>5. InfoOf(b, m, info.midashi) = [midashi |-> info.midashi, offset |-> o, length |-> l]
        BY ONLY <2>4 DEF InfoOf
    <2>6. info = [midashi |-> info.midashi, offset |-> info.offset, length |-> info.length]
        BY DEF Information
    <2> QED
        BY ONLY <2>5, <2>6, o = info.offset, l = info.length
<1> QED
    BY <1>1, <1>2, <1>3

\* The parts of a unit, and where they are.
LEMMA UnitParts ==
    ASSUME NEW unit, IsWhole(unit)
    PROVE  LET n == Len(unit.informations)
               l == Len(JoinedMidashi(unit.informations))
           IN  /\ UnitBytes(unit) \in Strings /\ UnitSize(unit) = 12 + 8 * n + l
               /\ n \in Nat \ {0} /\ l \in Nat
               /\ \A b, m : Holds(b, m, UnitBytes(unit)) =>
                     /\ U32At(b, m) = n /\ U32At(b, m + 4) = l
                     /\ Holds(b, m + 8, unit.key)
                     /\ \A i \in 1..n : Holds(b, m + 12 + (i - 1) * 8, InfoBytes(unit.informations[i]))
                     /\ Holds(b, m + 12 + 8 * n, JoinedMidashi(unit.informations))
<1> PICK infos, key : infos = unit.informations /\ key = unit.key
    OBVIOUS
<1>1. infos \in Seq(Information) /\ infos # <<>> /\ AreWords(infos) /\ key \in Strings
      /\ Len(key) = 4
    BY DEF IsWhole, UnitRecords
<1> PICK n \in Nat : n = Len(infos)
    BY <1>1
<1> PICK joined \in Strings : joined = JoinedMidashi(infos)
    BY <1>1, JoinedIsSplit
<1> PICK l \in Nat : l = Len(joined)
    BY DEF Strings
<1>2. n # 0
    BY <1>1
<1> PICK two, four, pieces, middle, heads :
        /\ two = <<n, l>> /\ four = U32s(two)
        /\ heads = four \o key
        /\ pieces = [i \in DOMAIN infos |-> InfoBytes(infos[i])]
        /\ middle = FlattenSeq(pieces)
    OBVIOUS
<1>3. /\ four \in Strings /\ Len(four) = 8
      /\ \A b, m : Holds(b, m, four) => U32At(b, m) = n /\ U32At(b, m + 4) = l
    <2>1. two \in Seq(Nat) /\ Len(two) = 2 /\ two[1] = n /\ two[2] = l
        OBVIOUS
    <2>2. /\ U32s(two) \in Strings /\ Len(U32s(two)) = 4 * Len(two)
          /\ \A b, m : Holds(b, m, U32s(two)) =>
                \A k \in 1..Len(two) : U32At(b, m + 4 * (k - 1)) = two[k]
        BY <2>1, NumbersAreRead
    <2>3. ASSUME NEW b, NEW m, Holds(b, m, four)
          PROVE  U32At(b, m) = n /\ U32At(b, m + 4) = l
        <3>1. \A k \in 1..Len(two) : U32At(b, m + 4 * (k - 1)) = two[k]
            BY ONLY <2>2, <2>3, four = U32s(two), Zenon
        <3>2. m \in Nat
            BY <2>3 DEF Holds
        <3>3. 1 \in 1..Len(two) /\ 2 \in 1..Len(two) /\ m + 4 * (1 - 1) = m
              /\ m + 4 * (2 - 1) = m + 4
            BY <2>1, <3>2
        <3>4. U32At(b, m + 4 * (1 - 1)) = two[1] /\ U32At(b, m + 4 * (2 - 1)) = two[2]
            BY ONLY <3>1, <3>3
        <3> QED
            BY ONLY <2>1, <3>3, <3>4
    <2> QED
        BY ONLY <2>1, <2>2, <2>3, four = U32s(two)
<1>4. pieces \in Seq(Strings) /\ Len(pieces) = n
      /\ \A i \in 1..n : pieces[i] = InfoBytes(infos[i]) /\ Len(pieces[i]) = 8
    <2>1. \A i \in 1..n : InfoBytes(infos[i]) \in Strings /\ Len(InfoBytes(infos[i])) = 8
        BY <1>1, InfoBytesFacts
    <2>2. DOMAIN infos = 1..n
        BY <1>1
    <2>3. pieces \in [1..n -> Strings]
        BY <2>1, <2>2
    <2> QED
        BY <2>1, <2>2, <2>3
<1>5. /\ middle \in Strings /\ Len(middle) = 8 * n
      /\ \A i \in 1..n : Holds(middle, 8 * (i - 1), InfoBytes(infos[i]))
    <2> PICK k \in Nat : k = 8
        OBVIOUS
    <2>1. /\ FlattenSeq(pieces) \in Strings /\ Len(FlattenSeq(pieces)) = k * Len(pieces)
          /\ \A i \in 1..Len(pieces) : Holds(FlattenSeq(pieces), k * (i - 1), pieces[i])
        <3>1. \A i \in 1..Len(pieces) : Len(pieces[i]) = k
            BY ONLY <1>4, k = 8
        <3>2. pieces \in Seq(Strings)
            BY ONLY <1>4
        <3> QED
            BY ONLY <3>1, <3>2, k \in Nat, EvenPiecesAreHeld
    <2> QED
        BY ONLY <1>4, <2>1, k = 8, middle = FlattenSeq(pieces)
<1> PICK most, all : most = heads \o middle /\ all = most \o joined
    OBVIOUS
<1>6. UnitBytes(unit) = all
    BY DEF UnitBytes, HeadsBytes
<1>7. heads \in Strings /\ Len(heads) = 12 /\ Holds(heads, 0, four) /\ Holds(heads, 8, key)
    <2>1. /\ four \o key \in Strings /\ Len(four \o key) = Len(four) + Len(key)
          /\ Holds(four \o key, 0, four) /\ Holds(four \o key, Len(four), key)
        BY <1>1, <1>3, HoldsBoth
    <2> QED
        BY ONLY <1>1, <1>3, <2>1, heads = four \o key
<1>8. /\ most \in Strings /\ Len(most) = 12 + 8 * n
      /\ Holds(most, 0, heads) /\ Holds(most, 12, middle)
    <2>1. /\ heads \o middle \in Strings /\ Len(heads \o middle) = Len(heads) + Len(middle)
          /\ Holds(heads \o middle, 0, heads) /\ Holds(heads \o middle, Len(heads), middle)
        BY <1>5, <1>7, HoldsBoth
    <2> QED
        BY ONLY <1>5, <1>7, <2>1, most = heads \o middle
<1>9. /\ all \in Strings /\ Len(all) = 12 + 8 * n + l
      /\ Holds(all, 0, most) /\ Holds(all, 12 + 8 * n, joined)
    <2>1. /\ most \o joined \in Strings /\ Len(most \o joined) = Len(most) + Len(joined)
          /\ Holds(most \o joined, 0, most) /\ Holds(most \o joined, Len(most), joined)
        BY <1>8, HoldsBoth
    <2> QED
        BY ONLY <1>8, <2>1, all = most \o joined, l = Len(joined)
<1>10. ASSUME NEW b, NEW m, Holds(b, m, all)
       PROVE  /\ U32At(b, m) = n /\ U32At(b, m + 4) = l
              /\ Holds(b, m + 8, key)
              /\ \A i \in 1..n : Holds(b, m + 12 + (i - 1) * 8, InfoBytes(infos[i]))
              /\ Holds(b, m + 12 + 8 * n, joined)
    <2>1. m \in Nat
        BY <1>10 DEF Holds
    <2>2. Holds(b, m + 0, most) /\ Holds(b, m + (12 + 8 * n), joined)
        BY <1>9, <1>10, HoldsPart
    <2>3. Holds(b, m, most)
        BY ONLY <2>1, <2>2
    <2>4. Holds(b, m + 0, heads) /\ Holds(b, m + 12, middle)
        BY <1>8, <2>3, HoldsPart
    <2>5. Holds(b, m, heads)
        BY ONLY <2>1, <2>4
    <2>6. Holds(b, m + 0, four) /\ Holds(b, m + 8, key)
        BY <1>7, <2>5, HoldsPart
    <2>7. Holds(b, m, four)
        BY ONLY <2>1, <2>6
    <2>8. \A i \in 1..n : Holds(b, m + 12 + (i - 1) * 8, InfoBytes(infos[i]))
        <3> SUFFICES ASSUME NEW i \in 1..n
                     PROVE  Holds(b, m + 12 + (i - 1) * 8, InfoBytes(infos[i]))
            OBVIOUS
        <3>1. Holds(b, (m + 12) + 8 * (i - 1), InfoBytes(infos[i]))
            BY <1>5, <2>4, HoldsPart
        <3>2. (m + 12) + 8 * (i - 1) = m + 12 + (i - 1) * 8
            BY <2>1
        <3> QED
            BY ONLY <3>1, <3>2
    <2>9. m + (12 + 8 * n) = m + 12 + 8 * n
        BY ONLY <2>1, n \in Nat
    <2>10. U32At(b, m) = n /\ U32At(b, m + 4) = l
        BY <1>3, <2>7
    <2>11. Holds(b, m + 12 + 8 * n, joined)
        BY ONLY <2>2, <2>9
    <2> QED
        BY <2>6, <2>8, <2>10, <2>11
<1>11. UnitSize(unit) = 12 + 8 * n + l
    BY <1>6, <1>9 DEF UnitSize
<1> QED
    BY ONLY <1>2, <1>6, <1>9, <1>10, <1>11, infos = unit.informations, key = unit.key,
            n \in Nat, l \in Nat, n = Len(infos), joined = JoinedMidashi(infos), l = Len(joined)

\* A unit is read again as it was written.
LEMMA UnitIsRead ==
    ASSUME NEW unit, IsWhole(unit), NEW b, NEW m, Holds(b, m, UnitBytes(unit))
    PROVE  UnitOf(b, m) = [slot |-> Slot(unit.key), informations |-> unit.informations,
                           is_consistent |-> TRUE, end |-> m + UnitSize(unit)]
<1> PICK infos, key : infos = unit.informations /\ key = unit.key
    OBVIOUS
<1>1. infos \in Seq(Information) /\ infos # <<>> /\ AreWords(infos) /\ key \in Strings
      /\ Len(key) = 4
    BY DEF IsWhole, UnitRecords
<1> PICK n \in Nat : n = Len(infos)
    BY <1>1
<1> PICK joined \in Strings : joined = JoinedMidashi(infos)
    BY <1>1, JoinedIsSplit
<1> PICK l \in Nat : l = Len(joined)
    BY DEF Strings
<1>2. /\ UnitSize(unit) = 12 + 8 * n + l
      /\ U32At(b, m) = n /\ U32At(b, m + 4) = l
      /\ Holds(b, m + 8, key)
      /\ \A i \in 1..n : Holds(b, m + 12 + (i - 1) * 8, InfoBytes(infos[i]))
      /\ Holds(b, m + 12 + 8 * n, joined)
    BY UnitParts
<1>3. m \in Nat
    BY DEF Holds
<1> PICK heads : heads = HeadsOf(b, m)
    OBVIOUS
<1>4. heads = [information_length |-> n, midashi_length |-> l, key |-> key]
    <2>1. ReadExact(b, m + 8, Len(key)) = key
        BY <1>2, HeldIsRead
    <2> QED
        BY ONLY <1>1, <1>2, <2>1, heads = HeadsOf(b, m) DEF HeadsOf
<1>5. heads.information_length = n /\ heads.midashi_length = l /\ heads.key = key
    BY ONLY <1>4
<1> PICK words : words = Words(infos)
    OBVIOUS
<1>6. JoinedMidashiOf(b, m, heads) = words
    <2>1. ReadExact(b, m + 12 + 8 * n, Len(joined)) = joined
        BY <1>2, HeldIsRead
    <2>2. m + HeadsLength + n * InfoLength = m + 12 + 8 * n
        BY ONLY <1>3, n \in Nat DEF HeadsLength, InfoLength
    <2>3. ReadExact(b, m + HeadsLength + heads.information_length * InfoLength,
                    heads.midashi_length) = joined
        BY ONLY <1>5, <2>1, <2>2, l = Len(joined)
    <2>4. SplitAtSpaces(joined) = words
        BY <1>1, JoinedIsSplit
    <2> QED
        BY ONLY <2>3, <2>4 DEF JoinedMidashiOf
<1>7. words \in Seq(Strings) /\ Len(words) = n /\ DOMAIN words = 1..n
      /\ \A i \in 1..n : words[i] = infos[i].midashi
    <2>1. words = [i \in 1..n |-> infos[i].midashi]
        BY ONLY words = Words(infos), n = Len(infos) DEF Words
    <2>2. \A i \in 1..n : infos[i] \in Information
        BY <1>1
    <2>3. \A i \in 1..n : infos[i].midashi \in Strings
        BY ONLY <2>2 DEF Information
    <2> HIDE DEF Strings
    <2>4. words \in [1..n -> Strings]
        BY ONLY <2>1, <2>3
    <2> QED
        BY ONLY <2>1, <2>4, n \in Nat
<1> PICK others : others = [i \in DOMAIN words |-> InfoOf(b, m + HeadsLength + (i - 1) * InfoLength,
                                                          words[i])]
    OBVIOUS
<1>8. others = infos
    <2>1. \A i \in 1..n : others[i] = infos[i]
        <3> SUFFICES ASSUME NEW i \in 1..n PROVE others[i] = infos[i]
            OBVIOUS
        <3>1. infos[i] \in Information
            BY <1>1
        <3>2. Holds(b, m + 12 + (i - 1) * 8, InfoBytes(infos[i]))
            BY <1>2
        <3>3. InfoOf(b, m + 12 + (i - 1) * 8, infos[i].midashi) = infos[i]
            BY <3>1, <3>2, InfoBytesFacts
        <3>4. others[i] = InfoOf(b, m + HeadsLength + (i - 1) * InfoLength, words[i])
            BY <1>7
        <3> QED
            BY ONLY <1>7, <3>3, <3>4, i \in 1..n DEF HeadsLength, InfoLength
    <2>2. others = [i \in 1..n |-> others[i]]
        BY <1>7
    <2>3. infos = [i \in 1..n |-> infos[i]]
        BY <1>1
    <2> QED
        BY ONLY <2>1, <2>2, <2>3
<1>9. m + HeadsLength + n * InfoLength + l = m + UnitSize(unit)
    BY ONLY <1>2, <1>3, n \in Nat, l \in Nat DEF HeadsLength, InfoLength
<1>10. UnitOf(b, m) = [slot |-> Slot(key), informations |-> others,
                       is_consistent |-> Len(words) = n,
                       end |-> m + HeadsLength + n * InfoLength + l]
    BY ONLY <1>5, <1>6, heads = HeadsOf(b, m),
            others = [i \in DOMAIN words |-> InfoOf(b, m + HeadsLength + (i - 1) * InfoLength,
                                                    words[i])]
       DEF UnitOf
<1>11. (Len(words) = n) = TRUE
    BY <1>7
<1> QED
    BY ONLY <1>8, <1>9, <1>10, <1>11, infos = unit.informations, key = unit.key

\* One unit more.
ReadNext(bytes, read) ==
    LET unit == UnitOf(bytes, read.at)
    IN [at |-> unit.end,
        index |-> [slot \in DOMAIN read.index \cup {unit.slot} |->
                      IF slot = unit.slot THEN unit.informations ELSE read.index[slot]],
        is_consistent |-> read.is_consistent /\ unit.is_consistent]

\* What is read, unit after unit.
AreReads(v, bytes, k, start) ==
    /\ v[0] = [at |-> 0, index |-> start, is_consistent |-> TRUE]
    /\ \A n \in 1..k : v[n] = ReadNext(bytes, v[n - 1])

LEMMA UnitsReadSteps ==
    ASSUME NEW bytes, NEW k \in Nat, NEW start, NEW v, AreReads(v, bytes, k, start)
    PROVE  UnitsRead(bytes, k, start) = v[k]
<1>0. /\ v[0] = [at |-> 0, index |-> start, is_consistent |-> TRUE]
      /\ \A n \in 1..k : v[n] = ReadNext(bytes, v[n - 1])
    BY DEF AreReads
<1> PICK first : first = [at |-> 0, index |-> start, is_consistent |-> TRUE]
    OBVIOUS
<1> DEFINE Equation(g) == g = [s \in SUBSET (1..k) |->
                                  IF s = {} THEN first ELSE ReadNext(bytes, g[s \ {Max(s)}])]
           iter == CHOOSE g : Equation(g)
<1>1. UnitsRead(bytes, k, start) = iter[1..k]
    BY DEF UnitsRead, FoldLeft, MapThenFoldSet, ReadNext
<1>2. ASSUME NEW s \in SUBSET (1..k), s # {}
      PROVE  /\ Max(s) \in s /\ s \ {Max(s)} \in SUBSET (1..k)
             /\ Cardinality(s) \in 1..k /\ Cardinality(s \ {Max(s)}) = Cardinality(s) - 1
    <2>1. Max(s) \in s
        BY <1>2, MaxIsGreatest
    <2>2. IsFiniteSet(1..k) /\ Cardinality(1..k) = k
        BY FS_Interval
    <2>3. IsFiniteSet(s) /\ Cardinality(s) \in Nat /\ Cardinality(s) <= k
        BY <2>2, FS_Subset, FS_CardinalityType
    <2>4. Cardinality(s) # 0
        BY <1>2, <2>3, FS_EmptySet
    <2>5. Cardinality(s \ {Max(s)}) = Cardinality(s) - 1
        BY <2>1, <2>3, FS_RemoveElement
    <2>6. Cardinality(s) \in 1..k
        BY ONLY <2>3, <2>4, k \in Nat
    <2>7. s \ {Max(s)} \in SUBSET (1..k)
        BY ONLY s \in SUBSET (1..k)
    <2> QED
        BY ONLY <2>1, <2>5, <2>6, <2>7
<1> PICK g : g = [s \in SUBSET (1..k) |-> v[Cardinality(s)]]
    OBVIOUS
<1>3. Equation(g)
    <2>1. Cardinality({}) = 0
        BY FS_EmptySet
    <2>2. ASSUME NEW s \in SUBSET (1..k)
          PROVE  g[s] = IF s = {} THEN first ELSE ReadNext(bytes, g[s \ {Max(s)}])
        BY <1>0, <1>2, <2>1
    <2> QED
        BY ONLY <2>2, g = [s \in SUBSET (1..k) |-> v[Cardinality(s)]]
<1>4. Equation(iter)
    BY <1>3
<1> HIDE DEF iter
<1> DEFINE S == {n \in 0..k : iter[1..n] = v[n]}
<1>5. 0 \in S
    <2>1. 1..0 = {} /\ {} \in SUBSET (1..k) /\ 0 \in 0..k
        OBVIOUS
    <2>2. iter[{}] = first
        BY <1>4
    <2> QED
        BY ONLY <1>0, <2>1, <2>2, first = [at |-> 0, index |-> start, is_consistent |-> TRUE]
<1>6. ASSUME NEW n \in 0..(k - 1), n \in S
      PROVE  n + 1 \in S
    <2>1. 1..(n + 1) \in SUBSET (1..k) /\ 1..(n + 1) # {} /\ n + 1 \in 1..k /\ n + 1 - 1 = n
        OBVIOUS
    <2>2. Max(1..(n + 1)) = n + 1
        <3> PICK s \in SUBSET (1..k) : s = 1..(n + 1)
            BY <2>1
        <3>1. Max(s) \in s /\ \A e \in s : Max(s) >= e
            BY <2>1, MaxIsGreatest
        <3>2. n + 1 \in s
            OBVIOUS
        <3> QED
            BY ONLY <3>1, <3>2, s = 1..(n + 1), n \in 0..(k - 1)
    <2>3. (1..(n + 1)) \ {n + 1} = 1..n
        OBVIOUS
    <2>4. iter[1..(n + 1)] = ReadNext(bytes, iter[1..n])
        <3>1. \A s \in SUBSET (1..k) : s # {} => iter[s] = ReadNext(bytes, iter[s \ {Max(s)}])
            BY ONLY <1>4
        <3> QED
            BY ONLY <2>1, <2>2, <2>3, <3>1
    <2>5. v[n + 1] = ReadNext(bytes, v[n])
        BY ONLY <1>0, <2>1
    <2> QED
        BY <1>6, <2>1, <2>4, <2>5
<1>7. 0..k \subseteq S
    <2> HIDE DEF S
    <2> QED
        BY <1>5, <1>6, BoundedInduction
<1>8. iter[1..k] = v[k]
    BY <1>7
<1> QED
    BY <1>1, <1>8

-----------------------------------------------------------------------------
(***************************************************************************)
(* The units one after the other, and what is read of a block of them.    *)
(***************************************************************************)

\* A part of what is read is where it was.
LEMMA HoldsInside ==
    ASSUME NEW b, NEW m, NEW p, Holds(b, m, p),
           NEW o \in Nat, NEW l \in Nat, o <= m, m + Len(p) <= o + l, o + l <= Len(b)
    PROVE  Holds(ReadExact(b, o, l), m - o, p)
<1> PICK lb \in Nat, lp \in Nat : lb = Len(b) /\ lp = Len(p)
    BY DEF Holds, Strings
<1>1. /\ m \in Nat /\ m + lp <= lb /\ b \in Seq(Nat) /\ p \in Seq(Nat)
      /\ \A i \in 1..lp : b[m + i] = p[i]
    BY DEF Holds, Strings
<1> PICK c : c = SubSeq(b, o + 1, o + l)
    OBVIOUS
<1>2. c \in Seq(Nat) /\ Len(c) = l /\ \A i \in 1..l : c[i] = b[o + i]
    <2>1. c = [i \in 1..((o + l) - (o + 1) + 1) |-> b[i + (o + 1) - 1]]
        BY ONLY <1>1, c = SubSeq(b, o + 1, o + l)
    <2>2. ASSUME NEW i \in 1..l PROVE b[i + (o + 1) - 1] = b[o + i] /\ b[o + i] \in Nat
        <3>1. i + (o + 1) - 1 = o + i /\ o + i \in 1..lb
            OBVIOUS
        <3> QED
            BY <1>1, <3>1
    <2>3. (o + l) - (o + 1) + 1 = l
        OBVIOUS
    <2>4. c = [i \in 1..l |-> b[i + (o + 1) - 1]]
        BY ONLY <2>1, <2>3
    <2>5. c = [i \in 1..l |-> b[o + i]]
        BY ONLY <2>2, <2>4
    <2>6. c \in [1..l -> Nat]
        BY ONLY <2>2, <2>5
    <2>7. c \in Seq(Nat) /\ Len(c) = l
        BY ONLY <2>6, l \in Nat
    <2>8. \A i \in 1..l : c[i] = b[o + i]
        BY ONLY <2>5
    <2> QED
        BY ONLY <2>7, <2>8
<1>3. ASSUME NEW i \in 1..lp
      PROVE  c[(m - o) + i] = p[i]
    <2>1. (m - o) + i \in 1..l /\ o + ((m - o) + i) = m + i
        BY <1>1
    <2>2. c[(m - o) + i] = b[o + ((m - o) + i)]
        BY <1>2, <2>1
    <2> QED
        BY <1>1, <2>1, <2>2
<1>4. m - o \in Nat /\ (m - o) + lp <= l
    BY <1>1
<1>5. Holds(c, m - o, p)
    BY ONLY <1>1, <1>2, <1>3, <1>4, lp = Len(p) DEF Holds, Strings
<1> QED
    BY <1>5 DEF ReadExact

\* Where the units are.
UnitPlaces(us, place) ==
    /\ place \in [0..Len(us) -> Nat] /\ place[0] = 0
    /\ \A n \in 1..Len(us) : place[n] = place[n - 1] + UnitSize(us[n])

IndexDataOf(us) == FlattenSeq([i \in DOMAIN us |-> UnitBytes(us[i])])

AreWhole(us) == us \in Seq(UnitRecords) /\ \A n \in 1..Len(us) : IsWhole(us[n])

LEMMA UnitsAreHeld ==
    ASSUME NEW us, AreWhole(us), NEW place, UnitPlaces(us, place)
    PROVE  /\ IndexDataOf(us) \in Strings /\ Len(IndexDataOf(us)) = place[Len(us)]
           /\ \A n \in 1..Len(us) : Holds(IndexDataOf(us), place[n - 1], UnitBytes(us[n]))
<1> PICK k \in Nat : k = Len(us)
    BY DEF AreWhole
<1> PICK pieces : pieces = [i \in DOMAIN us |-> UnitBytes(us[i])]
    OBVIOUS
<1>1. pieces \in Seq(Strings) /\ Len(pieces) = k
      /\ \A n \in 1..k : pieces[n] = UnitBytes(us[n])
    <2>1. DOMAIN us = 1..k
        BY DEF AreWhole
    <2>2. \A n \in 1..k : UnitBytes(us[n]) \in Strings
        BY UnitParts DEF AreWhole
    <2>3. pieces \in [1..k -> Strings]
        BY ONLY <2>1, <2>2, pieces = [i \in DOMAIN us |-> UnitBytes(us[i])]
    <2> QED
        BY ONLY <2>1, <2>3, pieces = [i \in DOMAIN us |-> UnitBytes(us[i])], k \in Nat
<1> PICK bytes : bytes = FlattenSeq(pieces)
    OBVIOUS
<1>2. bytes \in Strings
    BY <1>1, PiecesAreHeld
<1>3. PICK start : ArePieces(start, pieces, bytes)
    BY <1>1, PiecesAreHeld
<1>4. /\ start \in [0..k -> Nat] /\ start[0] = 0 /\ start[k] = Len(bytes)
      /\ \A n \in 1..k : /\ start[n] = start[n - 1] + Len(pieces[n])
                         /\ Holds(bytes, start[n - 1], pieces[n])
    BY ONLY <1>1, <1>3 DEF ArePieces
<1>5. /\ place[0] = 0
      /\ \A n \in 1..k : place[n] = place[n - 1] + Len(pieces[n])
    BY <1>1 DEF UnitPlaces, UnitSize
<1> DEFINE S == {n \in 0..k : start[n] = place[n]}
<1>6. 0 \in S
    BY <1>4, <1>5
<1>7. ASSUME NEW n \in 0..(k - 1), n \in S PROVE n + 1 \in S
    <2>1. n + 1 \in 1..k /\ n + 1 - 1 = n /\ n + 1 \in 0..k
        OBVIOUS
    <2>2. start[n + 1] = start[n] + Len(pieces[n + 1]) /\ place[n + 1] = place[n] + Len(pieces[n + 1])
        <3>1. start[n + 1] = start[n + 1 - 1] + Len(pieces[n + 1])
              /\ place[n + 1] = place[n + 1 - 1] + Len(pieces[n + 1])
            BY ONLY <1>4, <1>5, <2>1
        <3> QED
            BY ONLY <2>1, <3>1
    <2>3. start[n] = place[n]
        BY <1>7
    <2> QED
        BY ONLY <2>1, <2>2, <2>3
<1>8. 0..k \subseteq S
    <2> HIDE DEF S
    <2> QED
        BY <1>6, <1>7, BoundedInduction
<1>9. \A n \in 0..k : start[n] = place[n]
    BY <1>8
<1>10. \A n \in 1..k : n - 1 \in 0..k
    OBVIOUS
<1>11. \A n \in 1..k : Holds(bytes, place[n - 1], UnitBytes(us[n]))
    BY ONLY <1>1, <1>4, <1>9, <1>10
<1>12. Len(bytes) = place[k]
    BY <1>4, <1>9
<1> QED
    BY ONLY <1>2, <1>11, <1>12, k = Len(us), bytes = FlattenSeq(pieces),
            pieces = [i \in DOMAIN us |-> UnitBytes(us[i])] DEF IndexDataOf

-----------------------------------------------------------------------------
(***************************************************************************)
(* The index with the first units in it.                                   *)
(***************************************************************************)

\* The key of a midashi of the jisyo.
IsKey(key) ==
    \E m \in Seq(0..255) :
       m # <<>> /\ StartsWhole(m) /\ MidashiKey(m) # NoKey /\ key = MidashiKey(m)

LEMMA BytesAreNumbers == 0..255 \subseteq Nat
OBVIOUS

\* What a key is of.
LEMMA KeyKinds ==
    ASSUME NEW key, IsKey(key)
    PROVE  \/ key[1] \in 0..127 /\ key = <<key[1], 0, 0, 0>> /\ Slot(key) = <<key[1]>>
           \/ /\ key[1] = 164 /\ key[2] >= 128 /\ key = <<164, key[2], 0, 0>>
              /\ Slot(key) = <<key[2]>> /\ key[2] \in Nat
           \/ key[1] \notin 0..127 /\ key[1] # 164 /\ Slot(key) = key /\ Len(key) = 4
<1>1. PICK m \in Seq(0..255) :
         m # <<>> /\ StartsWhole(m) /\ MidashiKey(m) # NoKey /\ key = MidashiKey(m)
    BY DEF IsKey
<1>2. key \in Seq(0..255) /\ Len(key) = 4
    BY <1>1, MidashiKeyFacts
<1>3. CASE m[1] \in 0..127
    <2> PICK x : x = m[1]
        OBVIOUS
    <2>1. key = <<x, 0, 0, 0>>
        BY <1>1, <1>3, AsciiKey
    <2>2. key[1] = x /\ x \in 0..127
        BY ONLY <1>3, <2>1, x = m[1]
    <2>3. key[1] \in 0..127 /\ key = <<key[1], 0, 0, 0>>
        BY ONLY <2>1, <2>2
    <2>4. key[1] # 164
        BY ONLY <2>2
    <2>5. Slot(key) = <<key[1]>>
        BY ONLY <2>3, <2>4, Zenon DEF Slot
    <2> QED
        BY ONLY <2>3, <2>5
<1>4. CASE m[1] = 164
    <2>1. m[1] \in (161..254) \cup {142} /\ m[1] \notin 0..127
        BY <1>4
    <2>2. Len(m) >= 2 /\ m[2] >= 128
        BY <1>1, <2>1 DEF StartsWhole
    <2>3. key = <<m[1], m[2], 0, 0>>
        <3>1. m[1] # 143
            BY <1>4
        <3>2. MidashiKey(m) = <<m[1], m[2], 0, 0>>
            BY ONLY <2>1, <3>1, Zenon DEF MidashiKey
        <3> QED
            BY ONLY <1>1, <3>2
    <2>4. m[2] \in Nat
        <3> PICK T : T = 0..255 /\ T \subseteq Nat
            BY BytesAreNumbers, Zenon
        <3>1. m \in Seq(T) /\ Len(m) \in Nat
            BY <1>1
        <3>2. 2 \in 1..Len(m)
            BY ONLY <2>2, <3>1
        <3>3. m[2] \in T
            BY ONLY <3>1, <3>2
        <3> QED
            BY ONLY <3>3, T \subseteq Nat
    <2> PICK x \in Nat : x = m[2]
        BY <2>4
    <2>5. key = <<164, x, 0, 0>> /\ x >= 128
        BY ONLY <1>4, <2>2, <2>3, x = m[2]
    <2>6. key[1] = 164 /\ key[2] = x /\ 164 \notin 0..127
        BY ONLY <2>5
    <2>7. Slot(key) = <<key[2]>>
        BY ONLY <2>6 DEF Slot
    <2> QED
        BY ONLY <2>5, <2>6, <2>7, x \in Nat
<1>5. CASE m[1] \notin 0..127 /\ m[1] # 164
    <2>1. key[1] = m[1]
        <3>1. CASE m[1] \in (161..254) \cup {142}
            BY ONLY <1>1, <1>5, <3>1 DEF MidashiKey
        <3>2. CASE m[1] = 143
            BY ONLY <1>1, <1>5, <3>2 DEF MidashiKey
        <3>3. CASE m[1] \notin (161..254) \cup {142} /\ m[1] # 143
            BY ONLY <1>1, <1>5, <3>3 DEF MidashiKey
        <3> QED
            BY ONLY <3>1, <3>2, <3>3
    <2>2. Slot(key) = key
        BY ONLY <1>5, <2>1 DEF Slot
    <2> QED
        BY ONLY <1>2, <1>5, <2>1, <2>2
<1> QED
    BY ONLY <1>3, <1>4, <1>5

\* ASCII and Hiragana do not meet in the vector, nor with what is in the map.
LEMMA SlotsDiffer ==
    ASSUME NEW k1, IsKey(k1), NEW k2, IsKey(k2), Slot(k1) = Slot(k2)
    PROVE  k1 = k2
<1> DEFINE Ascii(key) == key[1] \in 0..127 /\ key = <<key[1], 0, 0, 0>> /\ Slot(key) = <<key[1]>>
           Hiragana(key) == /\ key[1] = 164 /\ key[2] >= 128 /\ key = <<164, key[2], 0, 0>>
                            /\ Slot(key) = <<key[2]>> /\ key[2] \in Nat
           Other(key) == key[1] \notin 0..127 /\ key[1] # 164 /\ Slot(key) = key /\ Len(key) = 4
<1>1. (Ascii(k1) \/ Hiragana(k1) \/ Other(k1)) /\ (Ascii(k2) \/ Hiragana(k2) \/ Other(k2))
    BY KeyKinds
<1>2. \A x, y : <<x>> = <<y>> => x = y
    OBVIOUS
<1>3. \A x : Len(<<x>>) # 4
    OBVIOUS
<1>4. CASE Ascii(k1) /\ Ascii(k2)
    <2>1. k1[1] = k2[1]
        BY ONLY <1>2, <1>4, Slot(k1) = Slot(k2)
    <2> QED
        BY ONLY <1>4, <2>1
<1>5. CASE Hiragana(k1) /\ Hiragana(k2)
    <2>1. k1[2] = k2[2]
        BY ONLY <1>2, <1>5, Slot(k1) = Slot(k2)
    <2> QED
        BY ONLY <1>5, <2>1
<1>6. CASE Other(k1) /\ Other(k2)
    BY ONLY <1>6, Slot(k1) = Slot(k2)
<1>7. CASE Ascii(k1) /\ Hiragana(k2)
    <2>1. k1[1] = k2[2]
        BY ONLY <1>2, <1>7, Slot(k1) = Slot(k2)
    <2> QED
        BY ONLY <1>7, <2>1
<1>8. CASE Hiragana(k1) /\ Ascii(k2)
    <2>1. k1[2] = k2[1]
        BY ONLY <1>2, <1>8, Slot(k1) = Slot(k2)
    <2> QED
        BY ONLY <1>8, <2>1
<1>9. CASE (Other(k1) /\ ~Other(k2)) \/ (~Other(k1) /\ Other(k2))
    <2> HIDE DEF Ascii, Hiragana, Other
    <2>1. \A key : Ascii(key) \/ Hiragana(key) => Len(Slot(key)) # 4
        BY <1>3 DEF Ascii, Hiragana
    <2>2. \A key : Other(key) => Len(Slot(key)) = 4
        BY DEF Other
    <2> QED
        BY ONLY <1>1, <1>9, <2>1, <2>2, Slot(k1) = Slot(k2)
<1> HIDE DEF Ascii, Hiragana, Other
<1> QED
    BY ONLY <1>1, <1>4, <1>5, <1>6, <1>7, <1>8, <1>9

HaveSlots(us) ==
    \A i \in 1..Len(us) : \A j \in 1..Len(us) : Slot(us[i].key) = Slot(us[j].key) => i = j

UnitFor(us, slot) == CHOOSE n \in 1..Len(us) : Slot(us[n].key) = slot

\* The index with the first k units.
IndexOf(us, k) ==
    [slot \in {Slot(us[n].key) : n \in 1..k} |-> us[UnitFor(us, slot)].informations]

LEMMA UnitForSlot ==
    ASSUME NEW us, HaveSlots(us), NEW n \in 1..Len(us)
    PROVE  UnitFor(us, Slot(us[n].key)) = n
<1> PICK slot : slot = Slot(us[n].key)
    OBVIOUS
<1> PICK m : m = UnitFor(us, slot)
    OBVIOUS
<1>1. m \in 1..Len(us) /\ Slot(us[m].key) = slot
    BY Zenon DEF UnitFor
<1> QED
    BY <1>1 DEF HaveSlots

\* With the kth unit in it.
GrownIndex(us, k) ==
    [slot \in DOMAIN IndexOf(us, k - 1) \cup {Slot(us[k].key)} |->
        IF slot = Slot(us[k].key) THEN us[k].informations ELSE IndexOf(us, k - 1)[slot]]

LEMMA IndexGrows ==
    ASSUME NEW us, us \in Seq(UnitRecords), HaveSlots(us), NEW k \in 1..Len(us)
    PROVE  IndexOf(us, k) = GrownIndex(us, k)
<1> PICK slot, infos : slot = Slot(us[k].key) /\ infos = us[k].informations
    OBVIOUS
<1> PICK f, g : f = IndexOf(us, k - 1) /\ g = IndexOf(us, k)
    OBVIOUS
<1> PICK S, T : S = {Slot(us[n].key) : n \in 1..(k - 1)} /\ T = {Slot(us[n].key) : n \in 1..k}
    OBVIOUS
<1>1. T = {slot} \cup S
    <2>1. 1..k = (1..(k - 1)) \cup {k}
        OBVIOUS
    <2> QED
        BY <2>1
<1>2. /\ f = [x \in S |-> us[UnitFor(us, x)].informations]
      /\ g = [x \in T |-> us[UnitFor(us, x)].informations]
    BY DEF IndexOf
<1>3. us[UnitFor(us, slot)].informations = infos
    BY UnitForSlot
<1>4. ASSUME NEW x \in T
      PROVE  (IF x = slot THEN infos ELSE f[x]) = us[UnitFor(us, x)].informations
    BY ONLY <1>1, <1>2, <1>3, x \in T
<1>5. DOMAIN f \cup {slot} = T
    BY ONLY <1>1, <1>2
<1>6. [x \in DOMAIN f \cup {slot} |-> IF x = slot THEN infos ELSE f[x]] =
          [x \in T |-> us[UnitFor(us, x)].informations]
    BY ONLY <1>4, <1>5
<1> QED
    BY ONLY <1>2, <1>6, slot = Slot(us[k].key), infos = us[k].informations,
            f = IndexOf(us, k - 1), g = IndexOf(us, k) DEF GrownIndex

LEMMA UnitSizes ==
    ASSUME NEW us, AreWhole(us), NEW n \in 1..Len(us)
    PROVE  UnitSize(us[n]) \in Nat
<1> PICK unit : unit = us[n] /\ IsWhole(unit)
    BY DEF AreWhole
<1> PICK k, l : k = Len(unit.informations) /\ l = Len(JoinedMidashi(unit.informations))
    OBVIOUS
<1>1. k \in Nat /\ l \in Nat /\ UnitSize(unit) = 12 + 8 * k + l
    BY UnitParts
<1> QED
    BY ONLY <1>1, unit = us[n]

LEMMA PlacesAscend ==
    ASSUME NEW us, AreWhole(us), NEW place, UnitPlaces(us, place),
           NEW i \in 0..Len(us), NEW j \in i..Len(us)
    PROVE  place[i] \in Nat /\ place[j] \in Nat /\ place[i] <= place[j]
<1> PICK k \in Nat : k = Len(us)
    BY DEF AreWhole
<1>1. /\ place \in [0..k -> Nat]
      /\ \A n \in 1..k : place[n] = place[n - 1] + UnitSize(us[n]) /\ UnitSize(us[n]) \in Nat
    BY UnitSizes DEF UnitPlaces
<1> DEFINE S == {n \in 0..(k - i) : place[i] <= place[i + n]}
<1>2. 0 \in S
    <2>1. i + 0 = i /\ i \in 0..k /\ 0 \in 0..(k - i)
        OBVIOUS
    <2> QED
        BY ONLY <1>1, <2>1
<1>3. ASSUME NEW n \in 0..((k - i) - 1), n \in S
      PROVE  n + 1 \in S
    <2>1. i + (n + 1) \in 1..k /\ i + (n + 1) - 1 = i + n /\ i + n \in 0..k /\ i \in 0..k
          /\ n + 1 \in 0..(k - i)
        OBVIOUS
    <2>2. place[i + (n + 1)] = place[i + (n + 1) - 1] + UnitSize(us[i + (n + 1)])
          /\ UnitSize(us[i + (n + 1)]) \in Nat
        BY ONLY <1>1, <2>1
    <2>3. place[i] <= place[i + n]
        BY <1>3
    <2>4. place[i] \in Nat /\ place[i + n] \in Nat
        BY ONLY <1>1, <2>1
    <2>5. place[i] <= place[i + (n + 1)]
        BY ONLY <2>1, <2>2, <2>3, <2>4
    <2> QED
        BY <2>1, <2>5
<1>4. 0..(k - i) \subseteq S
    <2>1. k - i \in Nat
        OBVIOUS
    <2> HIDE DEF S
    <2> QED
        BY <1>2, <1>3, <2>1, BoundedInduction
<1>5. j - i \in 0..(k - i) /\ i + (j - i) = j /\ i \in 0..k /\ j \in 0..k
    OBVIOUS
<1>6. place[i] <= place[i + (j - i)]
    BY <1>4, <1>5
<1> QED
    BY ONLY <1>1, <1>5, <1>6

\* A block of the index brings the units it was made of.
LEMMA BlockIsRead ==
    ASSUME NEW us, AreWhole(us), HaveSlots(us), NEW place, UnitPlaces(us, place),
           NEW i \in 0..Len(us), NEW j \in i..Len(us),
           NEW front, NEW o, Holds(front, o, IndexDataOf(us))
    PROVE  UnitsRead(ReadExact(front, o + place[i], place[j] - place[i]), j - i, IndexOf(us, i))
               = [at |-> place[j] - place[i], index |-> IndexOf(us, j), is_consistent |-> TRUE]
<1> PICK k \in Nat : k = Len(us)
    BY DEF AreWhole
<1>0. i \in Nat /\ j \in Nat /\ i <= j /\ j <= k
    OBVIOUS
<1> PICK base \in Nat, top \in Nat : base = place[i] /\ top = place[j] /\ base <= top
    BY PlacesAscend
<1> PICK d \in Nat : d = j - i
    BY <1>0
<1> PICK l \in Nat : l = top - base
    BY ONLY base \in Nat, top \in Nat, base <= top
<1> PICK b : b = ReadExact(front, o + base, l)
    OBVIOUS
<1>1. /\ IndexDataOf(us) \in Strings /\ Len(IndexDataOf(us)) = place[k]
      /\ \A n \in 1..k : Holds(IndexDataOf(us), place[n - 1], UnitBytes(us[n]))
    BY UnitsAreHeld
<1>2. top <= place[k] /\ place[k] \in Nat
    <2>1. j \in 0..Len(us) /\ k \in j..Len(us)
        BY <1>0
    <2> QED
        BY <2>1, PlacesAscend
<1>3. o \in Nat /\ o + place[k] <= Len(front)
    BY <1>1 DEF Holds
<1>4. ASSUME NEW n \in 1..d
      PROVE  /\ i + n \in 1..k /\ i + n - 1 = i + (n - 1)
             /\ place[i + (n - 1)] \in Nat /\ place[i + n] \in Nat
             /\ base <= place[i + (n - 1)] /\ place[i + n] <= top
             /\ place[i + n] = place[i + (n - 1)] + UnitSize(us[i + n])
             /\ UnitSize(us[i + n]) \in Nat
    <2>1. /\ i + n \in 1..k /\ i + n - 1 = i + (n - 1) /\ i + n \in 0..k
          /\ i + (n - 1) \in i..k /\ j \in (i + n)..k
        BY <1>0
    <2>2. place[i + (n - 1)] \in Nat /\ base <= place[i + (n - 1)]
        BY ONLY <2>1, AreWhole(us), UnitPlaces(us, place), k = Len(us), base = place[i],
                i \in 0..Len(us), PlacesAscend
    <2>3. place[i + n] \in Nat /\ place[i + n] <= top
        BY ONLY <2>1, AreWhole(us), UnitPlaces(us, place), k = Len(us), top = place[j], PlacesAscend
    <2>4. \A m \in 1..k : place[m] = place[m - 1] + UnitSize(us[m]) /\ UnitSize(us[m]) \in Nat
        BY UnitSizes DEF UnitPlaces
    <2> QED
        BY ONLY <2>1, <2>2, <2>3, <2>4
<1>5. ASSUME NEW n \in 1..d
      PROVE  UnitOf(b, place[i + (n - 1)] - base) =
                [slot |-> Slot(us[i + n].key), informations |-> us[i + n].informations,
                 is_consistent |-> TRUE, end |-> place[i + n] - base]
    <2> PICK u : u = us[i + n]
        OBVIOUS
    <2> PICK p \in Nat, q \in Nat : p = place[i + (n - 1)] /\ q = place[i + n]
        BY <1>4
    <2>1. base <= p /\ q <= top /\ q = p + UnitSize(u) /\ UnitSize(u) \in Nat
        BY <1>4
    <2>2. Holds(IndexDataOf(us), p, UnitBytes(u))
        <3>1. Holds(IndexDataOf(us), place[i + n - 1], UnitBytes(us[i + n]))
            <4> PICK m \in 1..k : m = i + n
                BY <1>4
            <4>1. Holds(IndexDataOf(us), place[m - 1], UnitBytes(us[m]))
                BY ONLY <1>1, m \in 1..k
            <4> QED
                BY ONLY <4>1, m = i + n
        <3> QED
            BY ONLY <1>4, <3>1, u = us[i + n], p = place[i + (n - 1)]
    <2>3. Holds(front, o + p, UnitBytes(u))
        BY ONLY <2>2, HoldsPart, Holds(front, o, IndexDataOf(us))
    <2>4. o + base \in Nat /\ o + base <= o + p /\ (o + p) + Len(UnitBytes(u)) <= (o + base) + l
          /\ (o + base) + l <= Len(front)
        <3>1. Len(UnitBytes(u)) = UnitSize(u)
            BY DEF UnitSize
        <3> PICK size \in Nat : size = UnitSize(u)
            BY <2>1
        <3>2. o + base \in Nat /\ o + base <= o + p /\ (o + p) + size <= (o + base) + l
            BY ONLY <1>3, <2>1, size \in Nat, size = UnitSize(u), p \in Nat, q \in Nat, l \in Nat,
                    l = top - base, base \in Nat, top \in Nat
        <3> PICK lf \in Nat, all \in Nat : lf = Len(front) /\ all = place[k]
            BY <1>2 DEF Holds, Strings
        <3>3. (o + base) + l <= lf
            BY ONLY <1>2, <1>3, lf \in Nat, all \in Nat, lf = Len(front), all = place[k],
                    l = top - base, base \in Nat, top \in Nat
        <3> QED
            BY ONLY <3>1, <3>2, <3>3, size = UnitSize(u), lf = Len(front)
    <2>5. Holds(b, (o + p) - (o + base), UnitBytes(u))
        BY <2>3, <2>4, HoldsInside
    <2>6. (o + p) - (o + base) = p - base
        BY ONLY <1>3, p \in Nat, base \in Nat
    <2>7. Holds(b, p - base, UnitBytes(u))
        BY ONLY <2>5, <2>6
    <2>8. IsWhole(u)
        BY <1>4 DEF AreWhole
    <2>9. UnitOf(b, p - base) = [slot |-> Slot(u.key), informations |-> u.informations,
                                 is_consistent |-> TRUE, end |-> (p - base) + UnitSize(u)]
        BY <2>7, <2>8, UnitIsRead
    <2>10. (p - base) + UnitSize(u) = q - base
        BY ONLY <2>1, p \in Nat, q \in Nat, base \in Nat
    <2> QED
        BY ONLY <2>9, <2>10, u = us[i + n], p = place[i + (n - 1)], q = place[i + n]
<1> PICK v : v = [n \in 0..d |-> [at |-> place[i + n] - base, index |-> IndexOf(us, i + n),
                                  is_consistent |-> TRUE]]
    OBVIOUS
<1>6. v[0] = [at |-> 0, index |-> IndexOf(us, i), is_consistent |-> TRUE]
    <2>1. i + 0 = i /\ base - base = 0 /\ 0 \in 0..d
        OBVIOUS
    <2>2. v[0] = [at |-> place[i + 0] - base, index |-> IndexOf(us, i + 0),
                  is_consistent |-> TRUE]
        BY <2>1
    <2> QED
        BY ONLY <2>1, <2>2, base = place[i]
<1>7. ASSUME NEW n \in 1..d
      PROVE  v[n] = ReadNext(b, v[n - 1])
    <2> PICK u, old, new : u = us[i + n] /\ old = IndexOf(us, i + (n - 1)) /\ new = IndexOf(us, i + n)
        OBVIOUS
    <2>1. n - 1 \in 0..d /\ n \in 0..d
        OBVIOUS
    <2>2. v[n] = [at |-> place[i + n] - base, index |-> new, is_consistent |-> TRUE]
          /\ v[n - 1] = [at |-> place[i + (n - 1)] - base, index |-> old, is_consistent |-> TRUE]
        BY <2>1
    <2> PICK unit : unit = UnitOf(b, place[i + (n - 1)] - base)
        OBVIOUS
    <2>3. unit = [slot |-> Slot(u.key), informations |-> u.informations,
                  is_consistent |-> TRUE, end |-> place[i + n] - base]
        BY <1>5
    <2>4. unit.slot = Slot(u.key) /\ unit.informations = u.informations
          /\ unit.is_consistent = TRUE /\ unit.end = place[i + n] - base
        BY ONLY <2>3
    <2>5. new = [slot \in DOMAIN old \cup {Slot(u.key)} |->
                    IF slot = Slot(u.key) THEN u.informations ELSE old[slot]]
        <3>1. IndexOf(us, i + n) =
                 [slot \in DOMAIN IndexOf(us, i + n - 1) \cup {Slot(us[i + n].key)} |->
                     IF slot = Slot(us[i + n].key) THEN us[i + n].informations
                     ELSE IndexOf(us, i + n - 1)[slot]]
            <4>1. us \in Seq(UnitRecords) /\ i + n \in 1..Len(us)
                BY <1>4 DEF AreWhole
            <4>2. IndexOf(us, i + n) = GrownIndex(us, i + n)
                BY ONLY <4>1, HaveSlots(us), IndexGrows
            <4> QED
                BY ONLY <4>2 DEF GrownIndex
        <3> QED
            BY ONLY <1>4, <3>1, u = us[i + n], old = IndexOf(us, i + (n - 1)),
                    new = IndexOf(us, i + n)
    <2>6. v[n - 1].at = place[i + (n - 1)] - base /\ v[n - 1].index = old
          /\ v[n - 1].is_consistent = TRUE
        BY ONLY <2>2
    <2>7. ReadNext(b, v[n - 1]) =
             [at |-> unit.end,
              index |-> [slot \in DOMAIN old \cup {unit.slot} |->
                            IF slot = unit.slot THEN unit.informations ELSE old[slot]],
              is_consistent |-> (TRUE /\ unit.is_consistent)]
        BY ONLY <2>6, unit = UnitOf(b, place[i + (n - 1)] - base) DEF ReadNext
    <2>8. ReadNext(b, v[n - 1]) = [at |-> place[i + n] - base, index |-> new,
                                   is_consistent |-> TRUE]
        BY ONLY <2>4, <2>5, <2>7
    <2> QED
        BY ONLY <2>2, <2>8
<1>8. UnitsRead(b, d, IndexOf(us, i)) = v[d]
    <2>1. AreReads(v, b, d, IndexOf(us, i))
        BY ONLY <1>6, <1>7 DEF AreReads
    <2> QED
        BY ONLY <2>1, d \in Nat, UnitsReadSteps
<1>9. v[d] = [at |-> top - base, index |-> IndexOf(us, j), is_consistent |-> TRUE]
    <2>1. i + d = j /\ d \in 0..d
        BY <1>0
    <2>2. v[d] = [at |-> place[i + d] - base, index |-> IndexOf(us, i + d),
                  is_consistent |-> TRUE]
        BY <2>1
    <2> QED
        BY ONLY <2>1, <2>2, top = place[j]
<1> QED
    BY ONLY <1>8, <1>9, b = ReadExact(front, o + base, l), d = j - i, l = top - base,
            base = place[i], top = place[j]

-----------------------------------------------------------------------------
(***************************************************************************)
(* The header of the index.                                                *)
(***************************************************************************)

HeaderRecords == [offset : Nat, length : Nat, unit_length : Nat]

LEMMA BlockHeaderFacts ==
    ASSUME NEW header \in HeaderRecords
    PROVE  /\ BlockHeaderBytes(header) \in Strings /\ Len(BlockHeaderBytes(header)) = 12
           /\ \A b, m : Holds(b, m, BlockHeaderBytes(header)) =>
                 [offset |-> U32At(b, m), length |-> U32At(b, m + 4),
                  unit_length |-> U32At(b, m + 8)] = header
<1> PICK o \in Nat, l \in Nat, u \in Nat :
        o = header.offset /\ l = header.length /\ u = header.unit_length
    BY DEF HeaderRecords
<1> PICK three : three = <<o, l, u>>
    OBVIOUS
<1>1. /\ three \in Seq(Nat) /\ Len(three) = 3 /\ three[1] = o /\ three[2] = l /\ three[3] = u
      /\ BlockHeaderBytes(header) = U32s(three)
    BY DEF BlockHeaderBytes
<1>2. /\ U32s(three) \in Strings /\ Len(U32s(three)) = 4 * Len(three)
      /\ \A b, m : Holds(b, m, U32s(three)) =>
            \A n \in 1..Len(three) : U32At(b, m + 4 * (n - 1)) = three[n]
    BY <1>1, NumbersAreRead
<1>3. header = [offset |-> o, length |-> l, unit_length |-> u]
    BY DEF HeaderRecords
<1>4. ASSUME NEW b, NEW m, Holds(b, m, BlockHeaderBytes(header))
      PROVE  [offset |-> U32At(b, m), length |-> U32At(b, m + 4),
              unit_length |-> U32At(b, m + 8)] = header
    <2>1. Holds(b, m, U32s(three))
        BY <1>1, <1>4
    <2>2. \A n \in 1..Len(three) : U32At(b, m + 4 * (n - 1)) = three[n]
        BY ONLY <1>2, <2>1, Zenon
    <2>3. m \in Nat
        BY <1>4 DEF Holds
    <2>4. /\ 1 \in 1..Len(three) /\ 2 \in 1..Len(three) /\ 3 \in 1..Len(three)
          /\ m + 4 * (1 - 1) = m /\ m + 4 * (2 - 1) = m + 4 /\ m + 4 * (3 - 1) = m + 8
        BY ONLY <1>1, <2>3
    <2>5. /\ U32At(b, m + 4 * (1 - 1)) = three[1] /\ U32At(b, m + 4 * (2 - 1)) = three[2]
          /\ U32At(b, m + 4 * (3 - 1)) = three[3]
        BY ONLY <2>2, <2>4
    <2>6. U32At(b, m) = o /\ U32At(b, m + 4) = l /\ U32At(b, m + 8) = u
        BY ONLY <1>1, <2>4, <2>5
    <2> QED
        BY ONLY <1>3, <2>6
<1> QED
    BY ONLY <1>1, <1>2, <1>4

LEMMA IndexHeaderIsRead ==
    ASSUME NEW headers \in Seq(HeaderRecords), NEW room \in Nat
    PROVE  /\ IndexHeaderBytes(room, headers) \in Strings
           /\ IndexHeaderOf(IndexHeaderBytes(room, headers)) =
                 [block_buffer_length |-> room, block_header_length |-> Len(headers)]
           /\ \A i \in 1..Len(headers) :
                 BlockHeaderOf(IndexHeaderBytes(room, headers), i - 1) = headers[i]
<1> PICK n \in Nat : n = Len(headers)
    OBVIOUS
<1> PICK two, four, pieces, rest, all :
        /\ two = <<room, n>> /\ four = U32s(two)
        /\ pieces = [i \in DOMAIN headers |-> BlockHeaderBytes(headers[i])]
        /\ rest = FlattenSeq(pieces) /\ all = four \o rest
    OBVIOUS
<1>1. IndexHeaderBytes(room, headers) = all
    BY DEF IndexHeaderBytes
<1>2. two \in Seq(Nat) /\ Len(two) = 2 /\ two[1] = room /\ two[2] = n
    OBVIOUS
<1>3. /\ four \in Strings /\ Len(four) = 4 * Len(two)
      /\ \A b, m : Holds(b, m, four) =>
            \A k \in 1..Len(two) : U32At(b, m + 4 * (k - 1)) = two[k]
    <2>1. /\ U32s(two) \in Strings /\ Len(U32s(two)) = 4 * Len(two)
          /\ \A b, m : Holds(b, m, U32s(two)) =>
                \A k \in 1..Len(two) : U32At(b, m + 4 * (k - 1)) = two[k]
        BY <1>2, NumbersAreRead
    <2> QED
        BY ONLY <2>1, four = U32s(two)
<1>4. pieces \in Seq(Strings) /\ Len(pieces) = n
      /\ \A i \in 1..n : pieces[i] = BlockHeaderBytes(headers[i]) /\ Len(pieces[i]) = 12
    <2>1. \A i \in 1..n : BlockHeaderBytes(headers[i]) \in Strings
                          /\ Len(BlockHeaderBytes(headers[i])) = 12
        BY BlockHeaderFacts
    <2>2. DOMAIN headers = 1..n
        OBVIOUS
    <2>3. pieces \in [1..n -> Strings]
        BY <2>1, <2>2
    <2> QED
        BY <2>1, <2>2, <2>3
<1>5. /\ rest \in Strings /\ Len(rest) = 12 * n
      /\ \A i \in 1..n : Holds(rest, 12 * (i - 1), BlockHeaderBytes(headers[i]))
    <2> PICK k \in Nat : k = 12
        OBVIOUS
    <2>1. /\ FlattenSeq(pieces) \in Strings /\ Len(FlattenSeq(pieces)) = k * Len(pieces)
          /\ \A i \in 1..Len(pieces) : Holds(FlattenSeq(pieces), k * (i - 1), pieces[i])
        <3>1. \A i \in 1..Len(pieces) : Len(pieces[i]) = k
            BY ONLY <1>4, k = 12
        <3>2. pieces \in Seq(Strings)
            BY ONLY <1>4
        <3> QED
            BY ONLY <3>1, <3>2, k \in Nat, EvenPiecesAreHeld
    <2> QED
        BY ONLY <1>4, <2>1, k = 12, rest = FlattenSeq(pieces)
<1>6. /\ all \in Strings /\ Holds(all, 0, four) /\ Holds(all, 8, rest)
    <2>1. /\ four \o rest \in Strings
          /\ Holds(four \o rest, 0, four) /\ Holds(four \o rest, Len(four), rest)
        BY <1>3, <1>5, HoldsBoth
    <2>2. Len(four) = 8
        BY ONLY <1>2, <1>3
    <2> QED
        BY ONLY <2>1, <2>2, all = four \o rest
<1>7. U32At(all, 0) = room /\ U32At(all, 4) = n
    <2>1. \A k \in 1..Len(two) : U32At(all, 0 + 4 * (k - 1)) = two[k]
        BY ONLY <1>3, <1>6, Zenon
    <2>2. /\ 1 \in 1..Len(two) /\ 2 \in 1..Len(two)
          /\ 0 + 4 * (1 - 1) = 0 /\ 0 + 4 * (2 - 1) = 4
        BY ONLY <1>2
    <2>3. U32At(all, 0 + 4 * (1 - 1)) = two[1] /\ U32At(all, 0 + 4 * (2 - 1)) = two[2]
        BY ONLY <2>1, <2>2
    <2> QED
        BY ONLY <1>2, <2>2, <2>3
<1>8. IndexHeaderOf(all) = [block_buffer_length |-> room, block_header_length |-> n]
    BY ONLY <1>7 DEF IndexHeaderOf
<1>9. ASSUME NEW i \in 1..n
      PROVE  BlockHeaderOf(all, i - 1) = headers[i]
    <2>1. Holds(rest, 12 * (i - 1), BlockHeaderBytes(headers[i]))
        BY <1>5
    <2>2. Holds(all, 8 + 12 * (i - 1), BlockHeaderBytes(headers[i]))
        BY <1>6, <2>1, HoldsPart
    <2> PICK m : m = 8 + 12 * (i - 1)
        OBVIOUS
    <2>3. headers[i] \in HeaderRecords
        OBVIOUS
    <2>4. [offset |-> U32At(all, m), length |-> U32At(all, m + 4),
           unit_length |-> U32At(all, m + 8)] = headers[i]
        BY ONLY <2>2, <2>3, m = 8 + 12 * (i - 1), BlockHeaderFacts
    <2>5. IndexHeaderLength + BlockHeaderLength * (i - 1) = m
        BY DEF IndexHeaderLength, BlockHeaderLength
    <2> QED
        BY ONLY <2>4, <2>5 DEF BlockHeaderOf
<1> QED
    BY ONLY <1>1, <1>6, <1>8, <1>9, n = Len(headers)

-----------------------------------------------------------------------------
(***************************************************************************)
(* The fixed header.                                                       *)
(***************************************************************************)

LEMMA FieldsFacts ==
    /\ Len(HeaderFields) = 11 /\ DOMAIN HeaderFields = 1..11
    /\ HeaderFields[1] = "dictionary_version"
    /\ HeaderFields[2] = "encoding_table_offset" /\ HeaderFields[3] = "encoding_table_length"
    /\ HeaderFields[4] = "index_data_header_offset"
    /\ HeaderFields[5] = "index_data_header_length"
    /\ HeaderFields[6] = "index_data_offset" /\ HeaderFields[7] = "index_data_length"
    /\ HeaderFields[8] = "blocks_offset" /\ HeaderFields[9] = "blocks_length"
    /\ HeaderFields[10] = "dictionary_length" /\ HeaderFields[11] = "encoding"
BY DEF HeaderFields

\* A name is found where it is: the names are all different.
LEMMA FieldPlace ==
    ASSUME NEW i \in 1..11
    PROVE  (CHOOSE j \in DOMAIN HeaderFields : HeaderFields[j] = HeaderFields[i]) = i
           /\ HeaderFields[i] \in ToSet(HeaderFields)
<1>1. \A j \in 1..11 : HeaderFields[j] = HeaderFields[i] => j = i
    <2>1. ASSUME NEW k \in 1..11
          PROVE  \/ k = 1 \/ k = 2 \/ k = 3 \/ k = 4 \/ k = 5 \/ k = 6 \/ k = 7 \/ k = 8 \/ k = 9
                 \/ k = 10 \/ k = 11
        OBVIOUS
    <2> DEFINE Number(name) ==
            CASE name = "dictionary_version" -> 1 [] name = "encoding_table_offset" -> 2
              [] name = "encoding_table_length" -> 3 [] name = "index_data_header_offset" -> 4
              [] name = "index_data_header_length" -> 5 [] name = "index_data_offset" -> 6
              [] name = "index_data_length" -> 7 [] name = "blocks_offset" -> 8
              [] name = "blocks_length" -> 9 [] name = "dictionary_length" -> 10
              [] OTHER -> 11
    <2>2. ASSUME NEW k \in 1..11
          PROVE  Number(HeaderFields[k]) = k
        BY ONLY <2>1, FieldsFacts, k \in 1..11
    <2> HIDE DEF Number
    <2> QED
        BY <2>2
<1>2. i \in DOMAIN HeaderFields /\ DOMAIN HeaderFields = 1..11
    BY FieldsFacts
<1>3. HeaderFields[i] \in ToSet(HeaderFields)
    BY <1>2 DEF ToSet
<1> QED
    BY <1>1, <1>2, <1>3, Zenon

\* What is written into a field is read from it.
LEMMA FixedHeaderIsRead ==
    ASSUME NEW fixed, \A i \in 1..11 : fixed[HeaderFields[i]] \in Nat
    PROVE  /\ FixedHeaderBytes(fixed) \in Strings /\ Len(FixedHeaderBytes(fixed)) = AreaLength
           /\ \A b : Holds(b, 0, FixedHeaderBytes(fixed)) =>
                 \A i \in 1..11 : FixedHeaderOf(b)[HeaderFields[i]] = fixed[HeaderFields[i]]
<1> PICK numbers : numbers = [i \in DOMAIN HeaderFields |-> fixed[HeaderFields[i]]]
    OBVIOUS
<1>1. numbers \in Seq(Nat) /\ Len(numbers) = 11
      /\ \A i \in 1..11 : numbers[i] = fixed[HeaderFields[i]]
    BY FieldsFacts
<1> PICK s : s = U32s(numbers)
    OBVIOUS
<1>2. /\ s \in Strings /\ Len(s) = 44
      /\ \A b, m : Holds(b, m, s) =>
            \A n \in 1..Len(numbers) : U32At(b, m + 4 * (n - 1)) = numbers[n]
    <2>1. /\ U32s(numbers) \in Strings /\ Len(U32s(numbers)) = 4 * Len(numbers)
          /\ \A b, m : Holds(b, m, U32s(numbers)) =>
                \A n \in 1..Len(numbers) : U32At(b, m + 4 * (n - 1)) = numbers[n]
        BY <1>1, NumbersAreRead
    <2> QED
        BY ONLY <1>1, <2>1, s = U32s(numbers)
<1> PICK l \in Nat : l = AreaLength
    BY FormatAssumption
<1> PICK all : all = Padded(s, l)
    OBVIOUS
<1>3. FixedHeaderBytes(fixed) = all
    BY DEF FixedHeaderBytes
<1>4. all \in Strings /\ Len(all) = l /\ \A i \in 1..l : all[i] = IF i \in 1..Len(s) THEN s[i] ELSE 0
    <2>1. Padded(s, l) \in Strings /\ Len(Padded(s, l)) = l
          /\ \A i \in 1..l : Padded(s, l)[i] = IF i \in 1..Len(s) THEN s[i] ELSE 0
        BY <1>2, PaddedFacts
    <2> QED
        BY ONLY <2>1, all = Padded(s, l)
<1>5. l >= 44
    BY FormatAssumption
<1>6. Holds(all, 0, s)
    <2>1. \A i \in 1..44 : i \in 1..l /\ 0 + i = i
        BY <1>5
    <2>2. \A i \in 1..44 : all[0 + i] = s[i]
        BY ONLY <1>2, <1>4, <2>1
    <2>3. 0 + 44 <= l /\ 0 \in Nat
        BY <1>5
    <2> QED
        BY ONLY <1>2, <1>4, <2>2, <2>3 DEF Holds
<1>7. ASSUME NEW b, Holds(b, 0, all), NEW i \in 1..11
      PROVE  FixedHeaderOf(b)[HeaderFields[i]] = fixed[HeaderFields[i]]
    <2>1. Holds(b, 0 + 0, s)
        BY <1>6, <1>7, HoldsPart
    <2>2. Holds(b, 0, s)
        BY ONLY <2>1
    <2>3. \A n \in 1..Len(numbers) : U32At(b, 0 + 4 * (n - 1)) = numbers[n]
        <3>1. \A c, m : Holds(c, m, s) =>
                 \A n \in 1..Len(numbers) : U32At(c, m + 4 * (n - 1)) = numbers[n]
            BY ONLY <1>2
        <3> QED
            BY ONLY <2>2, <3>1, Zenon
    <2>4. U32At(b, 4 * (i - 1)) = numbers[i]
        <3>1. U32At(b, 0 + 4 * (i - 1)) = numbers[i]
            BY ONLY <1>1, <2>3, i \in 1..11
        <3>2. 0 + 4 * (i - 1) = 4 * (i - 1)
            OBVIOUS
        <3> QED
            BY ONLY <3>1, <3>2
    <2> PICK name : name = HeaderFields[i]
        OBVIOUS
    <2>5. name \in ToSet(HeaderFields)
          /\ (CHOOSE j \in DOMAIN HeaderFields : HeaderFields[j] = name) = i
        BY FieldPlace
    <2>6. FixedHeaderOf(b)[name] = U32At(b, 4 * (i - 1))
        BY ONLY <2>5 DEF FixedHeaderOf
    <2> QED
        BY ONLY <1>1, <2>4, <2>6, name = HeaderFields[i], i \in 1..11
<1> QED
    BY ONLY <1>3, <1>4, <1>7, l = AreaLength

-----------------------------------------------------------------------------
(***************************************************************************)
(* The bytes before the blocks.                                            *)
(***************************************************************************)

FixedOf(us, headers, length) ==
    FixedHeader(Len(TableBytes), Len(IndexHeaderBytes(IndexLength, headers)),
                Len(IndexDataOf(us)), length)

\* What is written for these units, with these headers of the blocks of the index.
FrontOf(us, headers, length) ==
    FixedHeaderBytes(FixedOf(us, headers, length)) \o TableBytes
        \o IndexHeaderBytes(IndexLength, headers) \o IndexDataOf(us)
        \o Zeros(PaddingLength(FixedOf(us, headers, length)))

LEMMA AlignedFacts ==
    ASSUME NEW n \in Nat
    PROVE  HeaderAligned(n) \in Nat /\ HeaderAligned(n) >= n
<1> PICK a \in Nat \ {0} : a = HeaderAlignment
    BY FormatAssumption
<1> PICK r : r = n % a
    OBVIOUS
<1>1. r \in 0..(a - 1)
    OBVIOUS
<1>2. HeaderAligned(n) = n + (a - r)
    BY DEF HeaderAligned
<1> QED
    BY <1>1, <1>2

LEMMA ZerosFacts ==
    ASSUME NEW n \in Nat
    PROVE  Zeros(n) \in Strings /\ Len(Zeros(n)) = n
BY DEF Zeros, Strings

\* The fields that are read, all of them numbers.
AreFields(fixed, area, t, h, d) ==
    /\ \A i \in 1..11 : fixed[HeaderFields[i]] \in Nat
    /\ fixed.encoding_table_offset = area /\ fixed.encoding_table_length = t
    /\ fixed.index_data_header_offset = area + t /\ fixed.index_data_header_length = h
    /\ fixed.index_data_offset = area + t + h /\ fixed.index_data_length = d
    /\ fixed.blocks_offset = HeaderAligned(area + t + h + d)
    /\ fixed.encoding = ToU32(DictionaryEncoding)

\* The number of an encoding names it.
LEMMA EncodingIsNamed ==
    ToU32(DictionaryEncoding) \in Nat /\ FromU32(ToU32(DictionaryEncoding)) = DictionaryEncoding
<1>1. \A S : S \in {{1}, {2}} => Min(S) \in S
    BY DEF Min
<1>2. CASE DictionaryEncoding = "euc"
    <2>1. {i \in 1..Len(Encodings) : Encodings[i] = "euc"} = {1}
        BY DEF Encodings
    <2>2. ToU32("euc") = 1 - 1
        BY ONLY <1>1, <2>1 DEF ToU32, SelectInSeq
    <2> QED
        BY <1>2, <2>2 DEF FromU32, Encodings
<1>3. CASE DictionaryEncoding = "utf8"
    <2>1. {i \in 1..Len(Encodings) : Encodings[i] = "utf8"} = {2}
        BY DEF Encodings
    <2>2. ToU32("utf8") = 2 - 1
        BY ONLY <1>1, <2>1 DEF ToU32, SelectInSeq
    <2> QED
        BY <1>3, <2>2 DEF FromU32, Encodings
<1> QED
    BY <1>2, <1>3, FormatAssumption

LEMMA FixedFields ==
    ASSUME NEW t \in Nat, NEW h \in Nat, NEW d \in Nat, NEW l \in Nat, NEW area \in Nat,
           area = AreaLength,
           NEW fixed, fixed = FixedHeader(t, h, d, l)
    PROVE  AreFields(fixed, area, t, h, d)
<1> PICK a \in Nat : a = HeaderAligned(area + t + h + d)
    BY AlignedFacts
<1> PICK encoding \in Nat : encoding = ToU32(DictionaryEncoding)
    BY EncodingIsNamed
<1>1. fixed = [dictionary_version |-> 1,
        encoding_table_offset |-> area, encoding_table_length |-> t,
        index_data_header_offset |-> area + t, index_data_header_length |-> h,
        index_data_offset |-> area + t + h, index_data_length |-> d,
        blocks_offset |-> a, blocks_length |-> l,
        dictionary_length |-> a + l, encoding |-> encoding]
    BY ONLY area = AreaLength, fixed = FixedHeader(t, h, d, l), a = HeaderAligned(area + t + h + d),
            encoding = ToU32(DictionaryEncoding) DEF FixedHeader
<1>2. /\ fixed["dictionary_version"] = 1
      /\ fixed["encoding_table_offset"] = area /\ fixed["encoding_table_length"] = t
      /\ fixed["index_data_header_offset"] = area + t /\ fixed["index_data_header_length"] = h
      /\ fixed["index_data_offset"] = area + t + h /\ fixed["index_data_length"] = d
      /\ fixed["blocks_offset"] = a /\ fixed["blocks_length"] = l
      /\ fixed["dictionary_length"] = a + l /\ fixed["encoding"] = encoding
    BY ONLY <1>1
<1>3. ASSUME NEW i \in 1..11
      PROVE  fixed[HeaderFields[i]] \in Nat
    <2>1. \/ i = 1 \/ i = 2 \/ i = 3 \/ i = 4 \/ i = 5 \/ i = 6 \/ i = 7 \/ i = 8 \/ i = 9
          \/ i = 10 \/ i = 11
        OBVIOUS
    <2>2. area + t \in Nat /\ area + t + h \in Nat /\ a + l \in Nat
        OBVIOUS
    <2> QED
        BY ONLY <1>2, <2>1, <2>2, FieldsFacts, area \in Nat, t \in Nat, h \in Nat, d \in Nat,
                l \in Nat, a \in Nat, encoding \in Nat
<1> QED
    BY ONLY <1>2, <1>3, a = HeaderAligned(area + t + h + d),
            encoding = ToU32(DictionaryEncoding) DEF AreFields

\* Everything is found where the header says, and the blocks start where all that ends.
LEMMA FrontIsRead ==
    ASSUME NEW us, AreWhole(us), NEW place, UnitPlaces(us, place),
           NEW headers \in Seq(HeaderRecords), NEW length \in Nat,
           NEW front, front = FrontOf(us, headers, length),
           NEW header, header = FixedHeaderOf(front)
    PROVE  /\ front \in Strings /\ header.blocks_offset = Len(front)
           /\ header.encoding = ToU32(DictionaryEncoding)
           /\ ReadExact(front, header.encoding_table_offset, header.encoding_table_length)
                 = TableBytes
           /\ ReadExact(front, header.index_data_header_offset, header.index_data_header_length)
                 = IndexHeaderBytes(IndexLength, headers)
           /\ Holds(front, header.index_data_offset, IndexDataOf(us))
<1>1. TableBytes \in Strings /\ IndexHeaderBytes(IndexLength, headers) \in Strings
      /\ IndexDataOf(us) \in Strings
    <2>1. IndexLength \in Nat
        BY CreatorAssumption
    <2> QED
        BY <2>1, TableIsRead, IndexHeaderIsRead, UnitsAreHeld
<1> PICK table \in Strings, heads \in Strings, data \in Strings :
        /\ table = TableBytes /\ heads = IndexHeaderBytes(IndexLength, headers)
        /\ data = IndexDataOf(us)
    BY <1>1
<1> PICK t \in Nat, h \in Nat, d \in Nat, area \in Nat :
        t = Len(table) /\ h = Len(heads) /\ d = Len(data) /\ area = AreaLength
    BY FormatAssumption DEF Strings
<1> PICK fixed : fixed = FixedHeader(t, h, d, length)
    OBVIOUS
<1>2. fixed = FixedOf(us, headers, length)
    BY DEF FixedOf
<1>3. /\ \A i \in 1..11 : fixed[HeaderFields[i]] \in Nat
      /\ fixed.encoding_table_offset = area /\ fixed.encoding_table_length = t
      /\ fixed.index_data_header_offset = area + t /\ fixed.index_data_header_length = h
      /\ fixed.index_data_offset = area + t + h /\ fixed.index_data_length = d
      /\ fixed.blocks_offset = HeaderAligned(area + t + h + d)
      /\ fixed.encoding = ToU32(DictionaryEncoding)
    <2>1. AreFields(fixed, area, t, h, d)
        BY ONLY fixed = FixedHeader(t, h, d, length), area = AreaLength, t \in Nat, h \in Nat,
                d \in Nat, area \in Nat, length \in Nat, FixedFields
    <2> QED
        BY ONLY <2>1 DEF AreFields
<1> PICK sum \in Nat : sum = area + t + h + d
    OBVIOUS
<1> PICK a \in Nat : a = HeaderAligned(sum) /\ a >= sum
    BY ONLY sum \in Nat, AlignedFacts
<1> PICK n \in Nat : n = a - sum
    BY ONLY a \in Nat, sum \in Nat, a >= sum
<1>4. PaddingLength(fixed) = n
    BY ONLY <1>3, a = HeaderAligned(sum), n = a - sum, sum = area + t + h + d
       DEF PaddingLength
<1> PICK f, zeros : f = FixedHeaderBytes(fixed) /\ zeros = Zeros(n)
    OBVIOUS
<1>5. f \in Strings /\ Len(f) = area
      /\ \A b : Holds(b, 0, f) =>
            \A i \in 1..11 : FixedHeaderOf(b)[HeaderFields[i]] = fixed[HeaderFields[i]]
    <2>1. \A i \in 1..11 : fixed[HeaderFields[i]] \in Nat
        BY ONLY <1>3
    <2> QED
        <3>1. /\ FixedHeaderBytes(fixed) \in Strings /\ Len(FixedHeaderBytes(fixed)) = AreaLength
              /\ \A b : Holds(b, 0, FixedHeaderBytes(fixed)) =>
                    \A i \in 1..11 : FixedHeaderOf(b)[HeaderFields[i]] = fixed[HeaderFields[i]]
            BY ONLY <2>1, FixedHeaderIsRead, Zenon
        <3> QED
            BY ONLY <3>1, f = FixedHeaderBytes(fixed), area = AreaLength
<1>6. zeros \in Strings /\ Len(zeros) = n
    BY ZerosFacts
<1> PICK p1, p2, p3 : p1 = f \o table /\ p2 = p1 \o heads /\ p3 = p2 \o data
    OBVIOUS
<1>7. front = p3 \o zeros
    BY <1>2, <1>4 DEF FrontOf
<1>8. /\ p1 \in Strings /\ Len(p1) = area + t /\ Holds(p1, 0, f) /\ Holds(p1, area, table)
    <2>1. f \o table \in Strings /\ Len(f \o table) = Len(f) + Len(table)
          /\ Holds(f \o table, 0, f) /\ Holds(f \o table, Len(f), table)
        BY <1>5, HoldsBoth
    <2> QED
        BY ONLY <1>5, <2>1, p1 = f \o table, t = Len(table)
<1>9. /\ p2 \in Strings /\ Len(p2) = area + t + h /\ Holds(p2, 0, p1)
      /\ Holds(p2, area + t, heads)
    <2>1. p1 \o heads \in Strings /\ Len(p1 \o heads) = Len(p1) + Len(heads)
          /\ Holds(p1 \o heads, 0, p1) /\ Holds(p1 \o heads, Len(p1), heads)
        BY <1>8, HoldsBoth
    <2> QED
        BY ONLY <1>8, <2>1, p2 = p1 \o heads, h = Len(heads)
<1>10. /\ p3 \in Strings /\ Len(p3) = area + t + h + d /\ Holds(p3, 0, p2)
       /\ Holds(p3, area + t + h, data)
    <2>1. p2 \o data \in Strings /\ Len(p2 \o data) = Len(p2) + Len(data)
          /\ Holds(p2 \o data, 0, p2) /\ Holds(p2 \o data, Len(p2), data)
        BY <1>9, HoldsBoth
    <2> QED
        BY ONLY <1>9, <2>1, p3 = p2 \o data, d = Len(data)
<1>11. /\ front \in Strings /\ Len(front) = area + t + h + d + n /\ Holds(front, 0, p3)
    <2>1. p3 \o zeros \in Strings /\ Len(p3 \o zeros) = Len(p3) + Len(zeros)
          /\ Holds(p3 \o zeros, 0, p3)
        BY ONLY <1>6, <1>10, HoldsBoth
    <2> QED
        BY ONLY <1>6, <1>7, <1>10, <2>1
<1>12. /\ Holds(front, 0, f) /\ Holds(front, area, table) /\ Holds(front, area + t, heads)
       /\ Holds(front, area + t + h, data)
    <2>1. Holds(front, 0 + (area + t + h), data) /\ Holds(front, 0 + 0, p2)
        BY <1>10, <1>11, HoldsPart
    <2>2. Holds(front, area + t + h, data) /\ Holds(front, 0, p2)
        <3>1. 0 + (area + t + h) = area + t + h /\ 0 + 0 = 0
            OBVIOUS
        <3> QED
            BY ONLY <2>1, <3>1
    <2>3. Holds(front, 0 + (area + t), heads) /\ Holds(front, 0 + 0, p1)
        BY <1>9, <2>2, HoldsPart
    <2>4. Holds(front, area + t, heads) /\ Holds(front, 0, p1)
        <3>1. 0 + (area + t) = area + t /\ 0 + 0 = 0
            OBVIOUS
        <3> QED
            BY ONLY <2>3, <3>1
    <2>5. Holds(front, 0 + area, table) /\ Holds(front, 0 + 0, f)
        BY <1>8, <2>4, HoldsPart
    <2>6. Holds(front, area, table) /\ Holds(front, 0, f)
        <3>1. 0 + area = area /\ 0 + 0 = 0
            OBVIOUS
        <3> QED
            BY ONLY <2>5, <3>1
    <2> QED
        BY <2>2, <2>4, <2>6
<1>13. \A i \in 1..11 : header[HeaderFields[i]] = fixed[HeaderFields[i]]
    BY ONLY <1>5, <1>12, header = FixedHeaderOf(front), Zenon
<1>14. /\ header.encoding_table_offset = area /\ header.encoding_table_length = t
       /\ header.index_data_header_offset = area + t /\ header.index_data_header_length = h
       /\ header.index_data_offset = area + t + h /\ header.blocks_offset = a
       /\ header.encoding = ToU32(DictionaryEncoding)
    <2>1. /\ header[HeaderFields[2]] = fixed[HeaderFields[2]]
          /\ header[HeaderFields[3]] = fixed[HeaderFields[3]]
          /\ header[HeaderFields[4]] = fixed[HeaderFields[4]]
          /\ header[HeaderFields[5]] = fixed[HeaderFields[5]]
          /\ header[HeaderFields[6]] = fixed[HeaderFields[6]]
          /\ header[HeaderFields[8]] = fixed[HeaderFields[8]]
          /\ header[HeaderFields[11]] = fixed[HeaderFields[11]]
        BY ONLY <1>13
    <2>2. /\ header.encoding_table_offset = fixed.encoding_table_offset
          /\ header.encoding_table_length = fixed.encoding_table_length
          /\ header.index_data_header_offset = fixed.index_data_header_offset
          /\ header.index_data_header_length = fixed.index_data_header_length
          /\ header.index_data_offset = fixed.index_data_offset
          /\ header.blocks_offset = fixed.blocks_offset
          /\ header.encoding = fixed.encoding
        BY ONLY <2>1, FieldsFacts
    <2> QED
        BY ONLY <1>3, <2>2, a = HeaderAligned(sum), sum = area + t + h + d
<1>15. ReadExact(front, area, t) = table /\ ReadExact(front, area + t, h) = heads
    <2>1. ReadExact(front, area, Len(table)) = table
          /\ ReadExact(front, area + t, Len(heads)) = heads
        BY <1>12, HeldIsRead
    <2> QED
        BY ONLY <2>1, t = Len(table), h = Len(heads)
<1>16. Len(front) = a
    BY ONLY <1>11, n = a - sum, sum = area + t + h + d, a \in Nat, area \in Nat, t \in Nat, h \in Nat,
            d \in Nat
<1> QED
    BY ONLY <1>11, <1>12, <1>14, <1>15, <1>16, table = TableBytes,
            heads = IndexHeaderBytes(IndexLength, headers), data = IndexDataOf(us)

-----------------------------------------------------------------------------
(***************************************************************************)
(* The headers of the blocks of the index.                                 *)
(***************************************************************************)

\* They cut the units into blocks, first[i] units lie before the ith one.
HeaderFor(place, i, j) ==
    [offset |-> place[i], length |-> place[j] - place[i], unit_length |-> j - i]

\* A block with the units behind the ith up to the jth: a long one has but one.
IsIndexBlock(header, place, i, j) ==
    /\ i <= j /\ header = HeaderFor(place, i, j)
    /\ header.length < IndexLength \/ j <= i + 1

Covers(headers, us, place, first) ==
    /\ headers \in Seq(HeaderRecords)
    /\ first \in [1..(Len(headers) + 1) -> 0..Len(us)]
    /\ first[1] = 0 /\ first[Len(headers) + 1] = Len(us)
    /\ \A i \in 1..Len(headers) : IsIndexBlock(headers[i], place, first[i], first[i + 1])

LEMMA AppendElements ==
    ASSUME NEW T, NEW s \in Seq(T), NEW e \in T, NEW more, more = Append(s, e)
    PROVE  /\ more \in Seq(T) /\ Len(s) \in Nat /\ Len(more) = Len(s) + 1
           /\ \A i \in 1..Len(s) : more[i] = s[i]
           /\ more[Len(s) + 1] = e
OBVIOUS

\* One unit more.
MorePlaces(us, place, unit) ==
    [n \in 0..(Len(us) + 1) |-> IF n <= Len(us) THEN place[n]
                                ELSE place[Len(us)] + UnitSize(unit)]

LEMMA SizeOfWhole ==
    ASSUME NEW unit, IsWhole(unit)
    PROVE  UnitSize(unit) \in Nat \ {0}
<1> PICK k, l : k = Len(unit.informations) /\ l = Len(JoinedMidashi(unit.informations))
    OBVIOUS
<1>1. k \in Nat /\ l \in Nat /\ UnitSize(unit) = 12 + 8 * k + l
    BY UnitParts
<1> QED
    BY ONLY <1>1

LEMMA PlacesAppended ==
    ASSUME NEW us, AreWhole(us), NEW place, UnitPlaces(us, place), NEW unit, IsWhole(unit),
           NEW more, more = Append(us, unit),
           NEW others, others = MorePlaces(us, place, unit)
    PROVE  /\ AreWhole(more) /\ UnitPlaces(more, others)
           /\ \A n \in 0..Len(us) : others[n] = place[n]
           /\ others[Len(us) + 1] = place[Len(us)] + UnitSize(unit)
<1> PICK k \in Nat : k = Len(us)
    BY DEF AreWhole
<1>1. /\ more \in Seq(UnitRecords) /\ Len(more) = k + 1
      /\ \A i \in 1..k : more[i] = us[i]
      /\ more[k + 1] = unit
    BY AppendElements DEF AreWhole, IsWhole
<1>2. AreWhole(more)
    <2>1. ASSUME NEW n \in 1..(k + 1) PROVE IsWhole(more[n])
        <3>1. CASE n = k + 1
            BY <1>1, <3>1
        <3>2. CASE n \in 1..k
            BY <1>1, <3>2 DEF AreWhole
        <3> QED
            BY <3>1, <3>2
    <2> QED
        BY <1>1, <2>1 DEF AreWhole
<1> PICK size \in Nat : size = UnitSize(unit)
    BY SizeOfWhole
<1>3. others = [n \in 0..(k + 1) |-> IF n <= k THEN place[n] ELSE place[k] + size]
    BY DEF MorePlaces
<1>4. /\ place \in [0..k -> Nat] /\ place[0] = 0
      /\ \A n \in 1..k : place[n] = place[n - 1] + UnitSize(us[n])
    BY DEF UnitPlaces
<1>5. others \in [0..(k + 1) -> Nat]
    <2>1. \A n \in 0..(k + 1) : (IF n <= k THEN place[n] ELSE place[k] + size) \in Nat
        <3> TAKE n \in 0..(k + 1)
        <3>1. n <= k => n \in 0..k /\ k \in 0..k
            BY ONLY k \in Nat, n \in 0..(k + 1)
        <3>2. place[k] \in Nat
            BY ONLY <1>4, k \in Nat
        <3> QED
            BY ONLY <1>4, <3>1, <3>2, size \in Nat
    <2> QED
        BY ONLY <1>3, <2>1
<1>6. (\A n \in 0..k : others[n] = place[n]) /\ others[k + 1] = place[k] + size
    BY ONLY <1>3, k \in Nat
<1>7. ASSUME NEW n \in 1..(k + 1)
      PROVE  others[n] = others[n - 1] + UnitSize(more[n])
    <2>1. CASE n = k + 1
        <3>1. n - 1 = k /\ k \in 0..k
            BY <2>1
        <3> QED
            BY ONLY <1>1, <1>6, <2>1, <3>1, size = UnitSize(unit)
    <2>2. CASE n \in 1..k
        <3>1. n - 1 \in 0..k /\ n \in 0..k
            BY <2>2
        <3> QED
            BY ONLY <1>1, <1>4, <1>6, <2>2, <3>1
    <2> QED
        BY <2>1, <2>2
<1>8. others[0] = 0
    BY <1>4, <1>6
<1>9. UnitPlaces(more, others)
    BY ONLY <1>1, <1>5, <1>7, <1>8 DEF UnitPlaces
<1> QED
    BY ONLY <1>2, <1>6, <1>9, k = Len(us), size = UnitSize(unit)

\* The first headers are not about the unit.
LEMMA HeadersKept ==
    ASSUME NEW headers, NEW us, NEW place, NEW first, NEW k \in Nat, k = Len(us),
           Covers(headers, us, place, first),
           NEW others, \A n \in 0..k : others[n] = place[n],
           NEW i \in 1..Len(headers)
    PROVE  IsIndexBlock(headers[i], others, first[i], first[i + 1])
<1>1. i \in 1..(Len(headers) + 1) /\ i + 1 \in 1..(Len(headers) + 1)
    BY DEF Covers
<1>2. first[i] \in 0..k /\ first[i + 1] \in 0..k
    BY <1>1 DEF Covers
<1>3. IsIndexBlock(headers[i], place, first[i], first[i + 1])
    BY DEF Covers
<1>4. HeaderFor(place, first[i], first[i + 1]) = HeaderFor(others, first[i], first[i + 1])
    BY <1>2 DEF HeaderFor
<1> QED
    BY ONLY <1>3, <1>4 DEF IsIndexBlock

\* The unit opens the next block.
LEMMA CoversNext ==
    ASSUME NEW us, AreWhole(us), NEW place, UnitPlaces(us, place), NEW unit, IsWhole(unit),
           NEW headers, NEW first, Covers(headers, us, place, first),
           NEW others, others = MorePlaces(us, place, unit),
           NEW header, header = [offset |-> place[Len(us)], length |-> UnitSize(unit),
                                 unit_length |-> 1]
    PROVE  \E f : Covers(Append(headers, header), Append(us, unit), others, f)
<1> PICK k \in Nat, n \in Nat : k = Len(us) /\ n = Len(headers)
    BY DEF AreWhole, Covers
<1> PICK size \in Nat, p \in Nat : size = UnitSize(unit) /\ p = place[k]
    BY SizeOfWhole DEF UnitPlaces
<1> PICK more, all : more = Append(us, unit) /\ all = Append(headers, header)
    OBVIOUS
<1>1. Len(more) = k + 1
    BY AppendElements DEF AreWhole, IsWhole
<1>2. (\A m \in 0..k : others[m] = place[m]) /\ others[k + 1] = p + size
    BY ONLY PlacesAppended, AreWhole(us), UnitPlaces(us, place), IsWhole(unit),
            more = Append(us, unit), others = MorePlaces(us, place, unit), k = Len(us),
            size = UnitSize(unit), p = place[k]
<1>3. header \in HeaderRecords /\ header = HeaderFor(others, k, k + 1)
    <2>1. p \in Nat /\ others[k] = p /\ others[k + 1] = p + size /\ (p + size) - p = size
          /\ (k + 1) - k = 1
        BY ONLY <1>2, k \in Nat, p \in Nat, size \in Nat, p = place[k]
    <2>2. header = [offset |-> p, length |-> size, unit_length |-> 1]
        BY p = place[k], k = Len(us), size = UnitSize(unit)
    <2> QED
        BY ONLY <2>1, <2>2, size \in Nat DEF HeaderRecords, HeaderFor
<1>4. /\ all \in Seq(HeaderRecords) /\ Len(all) = n + 1
      /\ \A i \in 1..n : all[i] = headers[i]
      /\ all[n + 1] = header
    BY <1>3, AppendElements DEF Covers
<1> PICK f : f = [i \in 1..(n + 2) |-> IF i <= n + 1 THEN first[i] ELSE k + 1]
    OBVIOUS
<1>5. first \in [1..(n + 1) -> 0..k] /\ first[1] = 0 /\ first[n + 1] = k
    BY DEF Covers
<1>6. (\A i \in 1..(n + 1) : f[i] = first[i]) /\ f[n + 2] = k + 1
    BY ONLY n \in Nat, f = [i \in 1..(n + 2) |-> IF i <= n + 1 THEN first[i] ELSE k + 1]
<1>7. f \in [1..(n + 2) -> 0..(k + 1)]
    <2>1. \A i \in 1..(n + 2) : (IF i <= n + 1 THEN first[i] ELSE k + 1) \in 0..(k + 1)
        <3>1. \A i \in 1..(n + 2) : i <= n + 1 => first[i] \in 0..k
            BY ONLY <1>5, n \in Nat, k \in Nat
        <3> QED
            BY ONLY <3>1, k \in Nat
    <2> QED
        BY ONLY <2>1, f = [i \in 1..(n + 2) |-> IF i <= n + 1 THEN first[i] ELSE k + 1]
<1>8. ASSUME NEW i \in 1..(n + 1)
      PROVE  IsIndexBlock(all[i], others, f[i], f[i + 1])
    <2>1. CASE i = n + 1
        <3>1. f[i] = k /\ f[i + 1] = k + 1
            <4>1. n + 1 \in 1..(n + 1) /\ (n + 1) + 1 = n + 2
                OBVIOUS
            <4> QED
                BY ONLY <1>5, <1>6, <2>1, <4>1
        <3> QED
            BY ONLY <1>3, <1>4, <2>1, <3>1, k \in Nat DEF IsIndexBlock
    <2>2. CASE i \in 1..n
        <3>1. f[i] = first[i] /\ f[i + 1] = first[i + 1]
            BY <1>6, <2>2
        <3>2. IsIndexBlock(headers[i], others, first[i], first[i + 1])
            <4>1. i \in 1..Len(headers)
                BY ONLY <2>2, n = Len(headers)
            <4> QED
                BY ONLY <1>2, <4>1, k \in Nat, k = Len(us),
                        Covers(headers, us, place, first), HeadersKept, Zenon
        <3> QED
            BY ONLY <1>4, <2>2, <3>1, <3>2
    <2> QED
        BY <2>1, <2>2
<1>9. f[1] = 0
    BY <1>5, <1>6
<1>10. (n + 1) + 1 = n + 2
    OBVIOUS
<1>11. Covers(all, more, others, f)
    BY ONLY <1>1, <1>4, <1>6, <1>7, <1>8, <1>9, <1>10 DEF Covers
<1> QED
    BY <1>11

Longer(open, size) == [open EXCEPT !.length = @ + size, !.unit_length = @ + 1]

\* The unit goes into the last block.
LEMMA CoversMore ==
    ASSUME NEW us, AreWhole(us), NEW place, UnitPlaces(us, place), NEW unit, IsWhole(unit),
           NEW headers \in Seq(HeaderRecords), NEW open \in HeaderRecords, NEW first,
           Covers(Append(headers, open), us, place, first),
           open.length + UnitSize(unit) < IndexLength,
           NEW others, others = MorePlaces(us, place, unit),
           NEW longer, longer = Longer(open, UnitSize(unit))
    PROVE  longer \in HeaderRecords
           /\ \E f : Covers(Append(headers, longer), Append(us, unit), others, f)
<1> PICK k \in Nat, n \in Nat : k = Len(us) /\ n = Len(headers)
    BY DEF AreWhole
<1> PICK size \in Nat, p \in Nat : size = UnitSize(unit) /\ p = place[k]
    BY SizeOfWhole DEF UnitPlaces
<1> PICK more, old, all :
        more = Append(us, unit) /\ old = Append(headers, open) /\ all = Append(headers, longer)
    OBVIOUS
<1>1. Len(more) = k + 1
    BY AppendElements DEF AreWhole, IsWhole
<1>2. (\A m \in 0..k : others[m] = place[m]) /\ others[k + 1] = p + size
    BY ONLY PlacesAppended, AreWhole(us), UnitPlaces(us, place), IsWhole(unit),
            more = Append(us, unit), others = MorePlaces(us, place, unit), k = Len(us),
            size = UnitSize(unit), p = place[k]
<1>3. /\ old \in Seq(HeaderRecords) /\ Len(old) = n + 1
      /\ \A i \in 1..n : old[i] = headers[i]
      /\ old[n + 1] = open
    BY AppendElements
<1>4. Covers(old, us, place, first)
    OBVIOUS
<1>5. first \in [1..(n + 2) -> 0..k] /\ first[1] = 0 /\ first[n + 2] = k
    <2>1. (n + 1) + 1 = n + 2
        OBVIOUS
    <2> QED
        BY ONLY <1>3, <1>4, <2>1, k = Len(us) DEF Covers
<1> PICK j \in 0..k : j = first[n + 1]
    <2>1. n + 1 \in 1..(n + 2)
        OBVIOUS
    <2> QED
        BY ONLY <1>5, <2>1
<1>6. IsIndexBlock(open, place, j, k)
    <2>1. n + 1 \in 1..Len(old) /\ (n + 1) + 1 = n + 2
        BY <1>3
    <2>2. IsIndexBlock(old[n + 1], place, first[n + 1], first[(n + 1) + 1])
        BY ONLY <1>4, <2>1 DEF Covers
    <2> QED
        BY ONLY <1>3, <1>5, <2>1, <2>2, j = first[n + 1]
<1> PICK q \in Nat : q = place[j]
    BY DEF UnitPlaces
<1>7. open.offset = q /\ open.length = p - q /\ open.unit_length = k - j
    BY ONLY <1>6, p = place[k], q = place[j] DEF IsIndexBlock, HeaderFor
<1>8. open = [offset |-> open.offset, length |-> open.length, unit_length |-> open.unit_length]
    BY DEF HeaderRecords
<1>9. longer = [offset |-> q, length |-> (p - q) + size, unit_length |-> (k - j) + 1]
    BY ONLY <1>7, <1>8, size = UnitSize(unit),
            longer = Longer(open, UnitSize(unit)) DEF Longer
<1>10. longer = HeaderFor(others, j, k + 1) /\ longer.length < IndexLength
    <2>1. others[j] = q
        BY ONLY <1>2, j \in 0..k, q = place[j]
    <2>2. (p - q) + size = (p + size) - q /\ (k - j) + 1 = (k + 1) - j
        BY ONLY p \in Nat, q \in Nat, size \in Nat, k \in Nat, j \in 0..k
    <2>3. (p - q) + size < IndexLength
        BY ONLY <1>7, open.length + UnitSize(unit) < IndexLength, size = UnitSize(unit)
    <2> QED
        BY ONLY <1>2, <1>9, <2>1, <2>2, <2>3 DEF HeaderFor
<1>11. IsIndexBlock(longer, others, j, k + 1)
    <2>1. j <= k + 1
        OBVIOUS
    <2> QED
        BY ONLY <1>10, <2>1 DEF IsIndexBlock
<1>12. longer \in HeaderRecords
    <2>1. p - q \in Nat
        BY <1>7 DEF HeaderRecords
    <2>2. (p - q) + size \in Nat /\ (k - j) + 1 \in Nat
        BY ONLY <2>1, size \in Nat, k \in Nat, j \in 0..k
    <2> QED
        BY ONLY <1>9, <2>2, q \in Nat DEF HeaderRecords
<1>13. /\ all \in Seq(HeaderRecords) /\ Len(all) = n + 1
       /\ \A i \in 1..n : all[i] = headers[i]
       /\ all[n + 1] = longer
    BY <1>12, AppendElements
<1> PICK f : f = [i \in 1..(n + 2) |-> IF i <= n + 1 THEN first[i] ELSE k + 1]
    OBVIOUS
<1>14. (\A i \in 1..(n + 1) : f[i] = first[i]) /\ f[n + 2] = k + 1
    BY ONLY n \in Nat, f = [i \in 1..(n + 2) |-> IF i <= n + 1 THEN first[i] ELSE k + 1]
<1>15. f \in [1..(n + 2) -> 0..(k + 1)]
    <2>1. \A i \in 1..(n + 2) : first[i] \in 0..k
        BY ONLY <1>5
    <2>2. \A i \in 1..(n + 2) : (IF i <= n + 1 THEN first[i] ELSE k + 1) \in 0..(k + 1)
        BY ONLY <2>1, k \in Nat
    <2> QED
        BY ONLY <2>2, f = [i \in 1..(n + 2) |-> IF i <= n + 1 THEN first[i] ELSE k + 1]
<1>16. ASSUME NEW i \in 1..(n + 1)
       PROVE  IsIndexBlock(all[i], others, f[i], f[i + 1])
    <2>1. CASE i = n + 1
        <3>1. f[i] = j /\ f[i + 1] = k + 1
            <4>1. n + 1 \in 1..(n + 1) /\ (n + 1) + 1 = n + 2
                OBVIOUS
            <4> QED
                BY ONLY <1>14, <2>1, <4>1, j = first[n + 1]
        <3> QED
            BY ONLY <1>11, <1>13, <2>1, <3>1
    <2>2. CASE i \in 1..n
        <3>1. f[i] = first[i] /\ f[i + 1] = first[i + 1]
            BY <1>14, <2>2
        <3>2. i \in 1..Len(old)
            BY <1>3, <2>2
        <3>3. IsIndexBlock(old[i], others, first[i], first[i + 1])
            BY ONLY <1>2, <1>4, <3>2, k \in Nat, k = Len(us), HeadersKept
        <3> QED
            BY ONLY <1>3, <1>13, <2>2, <3>1, <3>3
    <2> QED
        BY <2>1, <2>2
<1>17. f[1] = 0
    BY <1>5, <1>14
<1>18. (n + 1) + 1 = n + 2
    OBVIOUS
<1>19. Covers(all, more, others, f)
    BY ONLY <1>1, <1>13, <1>14, <1>15, <1>16, <1>17, <1>18 DEF Covers
<1> QED
    BY <1>12, <1>19

\* A last block without bytes is one without units.
LEMMA CoversLess ==
    ASSUME NEW us, AreWhole(us), NEW place, UnitPlaces(us, place),
           NEW headers \in Seq(HeaderRecords), NEW open \in HeaderRecords, NEW first,
           Covers(Append(headers, open), us, place, first), open.length = 0
    PROVE  \E f : Covers(headers, us, place, f)
<1> PICK k \in Nat, n \in Nat : k = Len(us) /\ n = Len(headers)
    BY DEF AreWhole
<1> PICK old : old = Append(headers, open)
    OBVIOUS
<1>1. /\ old \in Seq(HeaderRecords) /\ Len(old) = n + 1
      /\ \A i \in 1..n : old[i] = headers[i]
      /\ old[n + 1] = open
    BY AppendElements
<1>2. Covers(old, us, place, first)
    OBVIOUS
<1>3. first \in [1..(n + 2) -> 0..k] /\ first[1] = 0 /\ first[n + 2] = k
    <2>1. (n + 1) + 1 = n + 2
        OBVIOUS
    <2> QED
        BY ONLY <1>1, <1>2, <2>1, k = Len(us) DEF Covers
<1> PICK j \in 0..k : j = first[n + 1]
    <2>1. n + 1 \in 1..(n + 2)
        OBVIOUS
    <2> QED
        BY ONLY <1>3, <2>1
<1>4. IsIndexBlock(open, place, j, k)
    <2>1. n + 1 \in 1..Len(old) /\ (n + 1) + 1 = n + 2
        BY <1>1
    <2>2. IsIndexBlock(old[n + 1], place, first[n + 1], first[(n + 1) + 1])
        BY ONLY <1>2, <2>1 DEF Covers
    <2> QED
        BY ONLY <1>1, <1>3, <2>1, <2>2, j = first[n + 1]
<1>5. place[k] - place[j] = 0
    BY <1>4 DEF IsIndexBlock, HeaderFor
<1>6. j = k
    <2> SUFFICES ASSUME j < k PROVE FALSE
        OBVIOUS
    <2> PICK i \in 1..k : i = j + 1
        OBVIOUS
    <2>1. place[i] = place[j] + UnitSize(us[i])
        <3>1. i - 1 = j
            OBVIOUS
        <3>2. place[i] = place[i - 1] + UnitSize(us[i])
            BY DEF UnitPlaces
        <3> QED
            BY ONLY <3>1, <3>2
    <2>2. UnitSize(us[i]) \in Nat \ {0}
        BY SizeOfWhole DEF AreWhole
    <2>3. place[i] \in Nat /\ place[k] \in Nat /\ place[i] <= place[k] /\ place[j] \in Nat
        <3>1. i \in 0..Len(us) /\ k \in i..Len(us) /\ j \in 0..k
            OBVIOUS
        <3>2. place[i] \in Nat /\ place[k] \in Nat /\ place[i] <= place[k]
            BY ONLY <3>1, AreWhole(us), UnitPlaces(us, place), PlacesAscend
        <3>3. place[j] \in Nat
            BY ONLY <3>1, UnitPlaces(us, place), k = Len(us) DEF UnitPlaces
        <3> QED
            BY <3>2, <3>3
    <2> QED
        BY ONLY <1>5, <2>1, <2>2, <2>3
<1> PICK f : f = [i \in 1..(n + 1) |-> first[i]]
    OBVIOUS
<1>7. \A i \in 1..(n + 1) : f[i] = first[i] /\ first[i] \in 0..k
    BY <1>3
<1>8. f \in [1..(n + 1) -> 0..k]
    BY ONLY <1>7, f = [i \in 1..(n + 1) |-> first[i]]
<1>9. f[1] = 0 /\ f[n + 1] = k
    <2>1. 1 \in 1..(n + 1) /\ n + 1 \in 1..(n + 1)
        OBVIOUS
    <2> QED
        BY ONLY <1>3, <1>6, <1>7, <2>1, j = first[n + 1]
<1>10. ASSUME NEW i \in 1..n
       PROVE  IsIndexBlock(headers[i], place, f[i], f[i + 1])
    <2>1. i \in 1..Len(old) /\ i \in 1..(n + 1) /\ i + 1 \in 1..(n + 1)
        BY <1>1
    <2>2. IsIndexBlock(old[i], place, first[i], first[i + 1])
        BY ONLY <1>2, <2>1 DEF Covers
    <2> QED
        BY ONLY <1>1, <1>7, <2>1, <2>2, i \in 1..n
<1>11. Covers(headers, us, place, f)
    BY ONLY <1>8, <1>9, <1>10, headers \in Seq(HeaderRecords), n = Len(headers), k = Len(us)
       DEF Covers
<1> QED
    BY <1>11

=============================================================================
