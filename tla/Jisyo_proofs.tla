---------------------------- MODULE Jisyo_proofs ----------------------------
(***************************************************************************)
(* The jisyo reader, for whatever jisyo, table and encodings: what a line *)
(* does to the candidates that were read before it.                        *)
(***************************************************************************)
EXTENDS JisyoReader, Candidates_proofs

-----------------------------------------------------------------------------
(***************************************************************************)
(* What is converted is a sequence, of whatever elements the table has.    *)
(***************************************************************************)

Elements(s, n) == {s[i] : i \in 1..n}

OutBytes ==
    Nat \cup UNION {Elements(u.euc, 3) \cup Elements(u.utf8, 4) \cup Elements(u.utf8_2, 4) :
                        u \in Characters \cup Combinations}

LEMMA BytesAreOut == Nat \subseteq OutBytes /\ 0..255 \subseteq OutBytes
<1>1. Nat \subseteq OutBytes
    BY DEF OutBytes
<1>2. 0..255 \subseteq Nat
    OBVIOUS
<1> QED
    BY <1>1, <1>2

LEMMA MapOfFacts ==
    ASSUME NEW pairs, NEW key \in DOMAIN MapOf(pairs)
    PROVE  \E pair \in pairs : MapOf(pairs)[key] = pair[2]
<1>1. \E pair \in pairs : pair[1] = key
    BY DEF MapOf
<1>2. MapOf(pairs)[key] = (CHOOSE pair \in pairs : pair[1] = key)[2]
    BY DEF MapOf
<1> QED
    BY <1>1, <1>2

LEMMA SequenceWithin ==
    ASSUME NEW T, NEW S \in SUBSET T, NEW s \in Seq(S)
    PROVE  s \in Seq(T)
OBVIOUS

LEMMA FunctionIsSequence ==
    ASSUME NEW T, NEW k \in Nat, NEW f \in [1..k -> T]
    PROVE  f \in Seq(T)
OBVIOUS

LEMMA ElementType ==
    ASSUME NEW T, NEW s \in Seq(T), NEW i \in 1..Len(s)
    PROVE  s[i] \in T
OBVIOUS

LEMMA HexDigitsType ==
    ASSUME NEW b \in 0..255
    PROVE  HexDigit(b \div 16) \in Nat /\ HexDigit(b % 16) \in Nat
<1>1. b \div 16 \in Nat /\ b % 16 \in Nat
    OBVIOUS
<1> QED
    BY <1>1 DEF HexDigit

LEMMA TableUnitType ==
    ASSUME NEW u \in Characters \cup Combinations
    PROVE  /\ EucBytes(u.euc) \in Seq(OutBytes) /\ Utf8Bytes(u.utf8) \in Seq(OutBytes)
           /\ CombinedUtf8(u) \in Seq(OutBytes)
<1>1. ASSUME NEW s, NEW n \in 1..4, NEW k \in 1..n
      PROVE  SubSeq(s, 1, k) \in Seq(Elements(s, n))
    <2>1. SubSeq(s, 1, k) = [i \in 1..k |-> s[i]]
        OBVIOUS
    <2>2. \A i \in 1..k : s[i] \in Elements(s, n)
        BY DEF Elements
    <2>3. SubSeq(s, 1, k) \in [1..k -> Elements(s, n)]
        BY <2>1, <2>2
    <2>4. k \in Nat
        OBVIOUS
    <2> QED
        BY ONLY <2>3, <2>4, FunctionIsSequence
<1>2. /\ Elements(u.euc, 3) \subseteq OutBytes /\ Elements(u.utf8, 4) \subseteq OutBytes
      /\ Elements(u.utf8_2, 4) \subseteq OutBytes
    BY DEF OutBytes
<1>3. EucBytes(u.euc) \in Seq(Elements(u.euc, 3))
    <2>1. PICK k \in 1..3 : EucBytes(u.euc) = SubSeq(u.euc, 1, k)
        BY DEF EucBytes
    <2> QED
        BY <1>1, <2>1
<1>4. ASSUME NEW s
      PROVE  Utf8Bytes(s) \in Seq(Elements(s, 4))
    <2>1. PICK k \in 1..4 : Utf8Bytes(s) = SubSeq(s, 1, k)
        BY DEF Utf8Bytes
    <2> QED
        BY <1>1, <2>1
<1>5. \A S \in SUBSET OutBytes : Seq(S) \subseteq Seq(OutBytes)
    OBVIOUS
<1>6. Utf8Bytes(u.utf8) \in Seq(OutBytes) /\ Utf8Bytes(u.utf8_2) \in Seq(OutBytes)
    BY <1>2, <1>4, <1>5
<1>7. \A s, t \in Seq(OutBytes) : s \o t \in Seq(OutBytes)
    OBVIOUS
<1> QED
    BY <1>2, <1>3, <1>5, <1>6, <1>7 DEF CombinedUtf8

\* Whatever is looked up in the arrays and maps.
LEMMA TablesType ==
    /\ \A key \in DOMAIN EUC_2_TO_UTF8_VEC : EUC_2_TO_UTF8_VEC[key] \in Seq(OutBytes)
    /\ \A key \in DOMAIN EUC_3_TO_UTF8_MAP : EUC_3_TO_UTF8_MAP[key] \in Seq(OutBytes)
    /\ \A key \in DOMAIN UTF8_3_TO_EUC_VEC : UTF8_3_TO_EUC_VEC[key] \in Seq(OutBytes)
    /\ \A key \in DOMAIN UTF8_2_4_TO_EUC_MAP : UTF8_2_4_TO_EUC_MAP[key] \in Seq(OutBytes)
    /\ \A key \in DOMAIN COMBINE_EUC_TO_UTF8_MAP : COMBINE_EUC_TO_UTF8_MAP[key] \in Seq(OutBytes)
    /\ \A key \in DOMAIN COMBINE_UTF8_TO_EUC_MAP : COMBINE_UTF8_TO_EUC_MAP[key] \in Seq(OutBytes)
<1> DEFINE Typed(pairs) == \A pair \in pairs : pair[2] \in Seq(OutBytes)
<1>1. ASSUME NEW pairs, Typed(pairs)
      PROVE  \A key \in DOMAIN MapOf(pairs) : MapOf(pairs)[key] \in Seq(OutBytes)
    BY <1>1, MapOfFacts
<1>2. /\ Typed({<<EucIndex(unit.euc[1], unit.euc[2]), Utf8Bytes(unit.utf8)>> :
                    unit \in {u \in Characters : u.euc[1] \in {\h8e} \cup \ha0..\hff}})
      /\ Typed({<<unit.euc, Utf8Bytes(unit.utf8)>> : unit \in {u \in Characters : u.euc[1] = \h8f}})
    BY TableUnitType
<1>3. /\ Typed({<<Utf8Index(unit.utf8), EucBytes(unit.euc)>> :
                    unit \in {u \in Characters : u.utf8[1] \in \he0..\hef}})
      /\ Typed({<<Utf8Bytes(unit.utf8), EucBytes(unit.euc)>> :
                    unit \in {u \in Characters : u.utf8[1] \in \h80..\hff \ \he0..\hef}})
    BY TableUnitType
<1>4. /\ Typed({<<EucBytes(unit.euc), CombinedUtf8(unit)>> : unit \in Combinations})
      /\ Typed({<<CombinedUtf8(unit), EucBytes(unit.euc)>> : unit \in Combinations})
    BY TableUnitType
<1> HIDE DEF Typed
<1>5. /\ \A key \in DOMAIN EUC_2_TO_UTF8_VEC : EUC_2_TO_UTF8_VEC[key] \in Seq(OutBytes)
      /\ \A key \in DOMAIN EUC_3_TO_UTF8_MAP : EUC_3_TO_UTF8_MAP[key] \in Seq(OutBytes)
    BY <1>1, <1>2 DEF EUC_2_TO_UTF8_VEC, EUC_3_TO_UTF8_MAP
<1>6. /\ \A key \in DOMAIN UTF8_3_TO_EUC_VEC : UTF8_3_TO_EUC_VEC[key] \in Seq(OutBytes)
      /\ \A key \in DOMAIN UTF8_2_4_TO_EUC_MAP : UTF8_2_4_TO_EUC_MAP[key] \in Seq(OutBytes)
    BY <1>1, <1>3 DEF UTF8_3_TO_EUC_VEC, UTF8_2_4_TO_EUC_MAP
<1>7. /\ \A key \in DOMAIN COMBINE_EUC_TO_UTF8_MAP : COMBINE_EUC_TO_UTF8_MAP[key] \in Seq(OutBytes)
      /\ \A key \in DOMAIN COMBINE_UTF8_TO_EUC_MAP : COMBINE_UTF8_TO_EUC_MAP[key] \in Seq(OutBytes)
    BY <1>1, <1>4 DEF COMBINE_EUC_TO_UTF8_MAP, COMBINE_UTF8_TO_EUC_MAP
<1> QED
    BY <1>5, <1>6, <1>7

LEMMA EscapeType ==
    ASSUME NEW bytes \in Seq(0..255)
    PROVE  Escape(bytes) \in Seq(OutBytes)
<1> DEFINE Pair(i) == <<HexDigit(bytes[i] \div 16), HexDigit(bytes[i] % 16)>>
<1> PICK pairs : pairs = [i \in DOMAIN bytes |-> Pair(i)]
    OBVIOUS
<1>1. ASSUME NEW i \in DOMAIN bytes
      PROVE  Pair(i) \in Seq(Nat)
    <2>0. i \in 1..Len(bytes)
        OBVIOUS
    <2>1. bytes[i] \in 0..255
        BY ONLY bytes \in Seq(0..255), <2>0, ElementType
    <2>2. HexDigit(bytes[i] \div 16) \in Nat /\ HexDigit(bytes[i] % 16) \in Nat
        BY ONLY <2>1, HexDigitsType
    <2> QED
        BY <2>2
<1>2. pairs \in Seq(Seq(Nat))
    <2>1. pairs \in [1..Len(bytes) -> Seq(Nat)]
        BY <1>1
    <2> QED
        BY <2>1
<1>3. FlattenSeq(pairs) \in Seq(Nat)
    BY ONLY <1>2, FlattenFacts
<1>4. Escape(bytes) = <<38, 35, 120>> \o FlattenSeq(pairs)
    BY DEF Escape
<1>5. Escape(bytes) \in Seq(Nat)
    BY <1>3, <1>4
<1> QED
    BY ONLY <1>5, BytesAreOut, SequenceWithin

LEMMA ByteType ==
    ASSUME NEW text \in Seq(0..255), NEW i \in 1..Len(text)
    PROVE  text[i] \in 0..255 /\ text[i] \in OutBytes
<1>1. text[i] \in 0..255
    BY ONLY text \in Seq(0..255), i \in 1..Len(text), ElementType
<1> QED
    BY ONLY <1>1, BytesAreOut

LEMMA EscapedByteType ==
    ASSUME NEW b \in 0..255
    PROVE  Escape(<<b>>) \in Seq(OutBytes)
<1>1. <<b>> \in Seq(0..255)
    OBVIOUS
<1> QED
    BY ONLY <1>1, EscapeType

LEMMA KnownType ==
    ASSUME NEW map, \A key \in DOMAIN map : map[key] \in Seq(OutBytes),
           NEW key, NEW bytes \in Seq(0..255)
    PROVE  Known(map, key, bytes) \in Seq(OutBytes)
<1>1. Escape(bytes) \in Seq(OutBytes)
    BY EscapeType
<1> QED
    BY <1>1 DEF Known, IsKnown

LEMMA BytesType ==
    ASSUME NEW text \in Seq(0..255), NEW i \in 1..Len(text), NEW n \in Nat \ {0},
           IsEnough(text, i, n)
    PROVE  Bytes(text, i, n) \in Seq(0..255)
<1>1. i + n - 1 \in Nat /\ i + n - 1 <= Len(text)
    BY DEF IsEnough
<1>2. \A j \in i..(i + n - 1) : j \in 1..Len(text)
    BY <1>1
<1>3. \A j \in i..(i + n - 1) : text[j] \in 0..255
    BY ONLY text \in Seq(0..255), <1>2, ByteType
<1> QED
    BY <1>1, <1>3 DEF Bytes

IsUnit(text, i, unit) ==
    /\ unit.output \in Seq(OutBytes) /\ unit.length \in Nat \ {0}
    /\ i + unit.length <= Len(text) + 1

LEMMA EncodeUnitType ==
    ASSUME NEW text \in Seq(0..255), NEW i \in 1..Len(text)
    PROVE  IsUnit(text, i, EncodeUnit(text, i))
<1> DEFINE Single(map, key, n) == Unit(Known(map, key, Bytes(text, i, n)), n)
           Combined(n) == Unit(COMBINE_UTF8_TO_EUC_MAP[Bytes(text, i, n)], n)
<1>1. ASSUME NEW map, \A key \in DOMAIN map : map[key] \in Seq(OutBytes),
             NEW key, NEW n \in 1..6, IsEnough(text, i, n)
      PROVE  IsUnit(text, i, Single(map, key, n))
    <2>0. n \in Nat \ {0}
        OBVIOUS
    <2>1. Bytes(text, i, n) \in Seq(0..255)
        BY ONLY <1>1, <2>0, text \in Seq(0..255), i \in 1..Len(text), BytesType
    <2>2. Known(map, key, Bytes(text, i, n)) \in Seq(OutBytes)
        BY ONLY <1>1, <2>1, KnownType
    <2> QED
        BY <1>1, <2>2 DEF IsUnit, Unit, IsEnough
<1>2. ASSUME NEW n \in 1..6, IsCombined(text, i, n)
      PROVE  IsUnit(text, i, Combined(n))
    <2>1. COMBINE_UTF8_TO_EUC_MAP[Bytes(text, i, n)] \in Seq(OutBytes)
        BY <1>2, TablesType DEF IsCombined
    <2>2. IsEnough(text, i, n)
        BY <1>2 DEF IsCombined
    <2> QED
        BY <2>1, <2>2 DEF IsUnit, Unit, IsEnough
<1>3. ASSUME NEW n \in 1..6, Continues(text, i, n)
      PROVE  IsEnough(text, i, n)
    BY <1>3 DEF Continues
<1>4. IsUnit(text, i, Unit(<<text[i]>>, 1)) /\ IsUnit(text, i, Unit(Escape(<<text[i]>>), 1))
    <2>1. text[i] \in 0..255 /\ text[i] \in OutBytes
        BY ONLY text \in Seq(0..255), i \in 1..Len(text), ByteType
    <2>2. Escape(<<text[i]>>) \in Seq(OutBytes)
        BY ONLY <2>1, EscapedByteType
    <2> QED
        BY <2>1, <2>2 DEF IsUnit, Unit
<1>5. \/ /\ Continues(text, i, 3)
         /\ \/ IsCombined(text, i, 6) /\ EncodeUnit(text, i) = Combined(6)
            \/ EncodeUnit(text, i) = Single(UTF8_3_TO_EUC_VEC, Utf8Index(Bytes(text, i, 3)), 3)
      \/ EncodeUnit(text, i) = Unit(<<text[i]>>, 1)
      \/ /\ Continues(text, i, 2)
         /\ \/ IsCombined(text, i, 4) /\ EncodeUnit(text, i) = Combined(4)
            \/ EncodeUnit(text, i) = Single(UTF8_2_4_TO_EUC_MAP, Bytes(text, i, 2), 2)
      \/ /\ Continues(text, i, 4)
         /\ EncodeUnit(text, i) = Single(UTF8_2_4_TO_EUC_MAP, Bytes(text, i, 4), 4)
      \/ EncodeUnit(text, i) = Unit(Escape(<<text[i]>>), 1)
    BY DEF EncodeUnit
<1> HIDE DEF Single, Combined
<1>6. ASSUME NEW n \in 1..6, Continues(text, i, n), NEW key
      PROVE  /\ IsUnit(text, i, Single(UTF8_3_TO_EUC_VEC, key, n))
             /\ IsUnit(text, i, Single(UTF8_2_4_TO_EUC_MAP, key, n))
    BY <1>1, <1>3, <1>6, TablesType
<1>7. {2, 3, 4, 6} \subseteq 1..6
    OBVIOUS
<1> QED
    BY ONLY <1>2, <1>4, <1>5, <1>6, <1>7

LEMMA DecodeUnitType ==
    ASSUME NEW text \in Seq(0..255), NEW i \in 1..Len(text)
    PROVE  IsUnit(text, i, DecodeUnit(text, i))
<1> DEFINE rest == SubSeq(text, i, Len(text))
           pair == Bytes(text, i, 2)
           triple == Bytes(text, i, 3)
           index == EucIndex(pair[1], pair[2])
<1>1. IsUnit(text, i, Unit(Escape(rest), Len(text) - i + 1))
    <2>0. \A j \in i..Len(text) : j \in 1..Len(text)
        OBVIOUS
    <2>1. \A j \in i..Len(text) : text[j] \in 0..255
        BY ONLY <2>0, text \in Seq(0..255), ByteType
    <2>2. rest \in Seq(0..255)
        BY <2>1
    <2>3. Escape(rest) \in Seq(OutBytes)
        BY <2>2, EscapeType
    <2> QED
        BY <2>3 DEF IsUnit, Unit
<1>2. IsUnit(text, i, Unit(<<text[i]>>, 1)) /\ IsUnit(text, i, Unit(Escape(<<text[i]>>), 1))
    <2>1. text[i] \in 0..255 /\ text[i] \in OutBytes
        BY ONLY text \in Seq(0..255), i \in 1..Len(text), ByteType
    <2>2. Escape(<<text[i]>>) \in Seq(OutBytes)
        BY ONLY <2>1, EscapedByteType
    <2> QED
        BY <2>1, <2>2 DEF IsUnit, Unit
<1>3. ASSUME IsEnough(text, i, 2)
      PROVE  /\ IsUnit(text, i, Unit(Known(COMBINE_EUC_TO_UTF8_MAP, pair, pair), 2))
             /\ index \in DOMAIN EUC_2_TO_UTF8_VEC =>
                   IsUnit(text, i, Unit(EUC_2_TO_UTF8_VEC[index], 2))
    <2>0. pair \in Seq(0..255)
        BY <1>3, BytesType
    <2>1. Known(COMBINE_EUC_TO_UTF8_MAP, pair, pair) \in Seq(OutBytes)
        BY ONLY <2>0, TablesType, KnownType
    <2>2. index \in DOMAIN EUC_2_TO_UTF8_VEC => EUC_2_TO_UTF8_VEC[index] \in Seq(OutBytes)
        BY TablesType
    <2> HIDE DEF pair, index
    <2> QED
        BY <1>3, <2>1, <2>2 DEF IsUnit, Unit, IsEnough
<1>4. ASSUME IsEnough(text, i, 3)
      PROVE  IsUnit(text, i, Unit(Known(EUC_3_TO_UTF8_MAP, triple, triple), 3))
    <2>0. triple \in Seq(0..255)
        BY <1>4, BytesType
    <2>1. Known(EUC_3_TO_UTF8_MAP, triple, triple) \in Seq(OutBytes)
        BY ONLY <2>0, TablesType, KnownType
    <2> HIDE DEF triple
    <2> QED
        BY <1>4, <2>1 DEF IsUnit, Unit, IsEnough
<1>5. \/ DecodeUnit(text, i) = Unit(Escape(rest), Len(text) - i + 1)
      \/ /\ IsEnough(text, i, 2)
         /\ \/ /\ index \in DOMAIN EUC_2_TO_UTF8_VEC
               /\ DecodeUnit(text, i) = Unit(EUC_2_TO_UTF8_VEC[index], 2)
            \/ DecodeUnit(text, i) = Unit(Known(COMBINE_EUC_TO_UTF8_MAP, pair, pair), 2)
      \/ DecodeUnit(text, i) = Unit(<<text[i]>>, 1)
      \/ /\ IsEnough(text, i, 3)
         /\ DecodeUnit(text, i) = Unit(Known(EUC_3_TO_UTF8_MAP, triple, triple), 3)
      \/ DecodeUnit(text, i) = Unit(Escape(<<text[i]>>), 1)
    BY DEF DecodeUnit
<1> HIDE DEF rest, pair, triple, index
<1> QED
    BY <1>1, <1>2, <1>3, <1>4, <1>5

-----------------------------------------------------------------------------
(***************************************************************************)
(* A text is converted from its end on: what starts at i is the unit       *)
(* there and what starts behind it.                                        *)
(***************************************************************************)

AreUnits(T, u, n) ==
    \A i \in 1..n : /\ u[i].output \in Seq(T) /\ u[i].length \in Nat \ {0}
                    /\ i + u[i].length <= n + 1

FromAt(f, u, n, i) == IF i > n THEN <<>> ELSE u[i].output \o f[i + u[i].length]

LEMMA FromAtType ==
    ASSUME NEW T, NEW n \in Nat, NEW u, AreUnits(T, u, n), NEW f, NEW i \in 1..(n + 1),
           \A j \in (i + 1)..(n + 1) : f[j] \in Seq(T)
    PROVE  FromAt(f, u, n, i) \in Seq(T)
<1>1. ASSUME i <= n
      PROVE  u[i].output \in Seq(T) /\ f[i + u[i].length] \in Seq(T)
    <2>1. /\ u[i].output \in Seq(T) /\ u[i].length \in Nat \ {0}
          /\ i + u[i].length <= n + 1
        BY <1>1 DEF AreUnits
    <2>2. i + u[i].length \in (i + 1)..(n + 1)
        BY <2>1
    <2> QED
        BY <2>1, <2>2
<1>2. \A s, t \in Seq(T) : s \o t \in Seq(T)
    OBVIOUS
<1> QED
    BY <1>1, <1>2 DEF FromAt

LEMMA FromIsTyped ==
    ASSUME NEW T, NEW n \in Nat, NEW u, AreUnits(T, u, n),
           NEW f, \A i \in 1..(n + 1) : f[i] = FromAt(f, u, n, i)
    PROVE  f[1] \in Seq(T)
<1> DEFINE S == {d \in 0..n : \A i \in (n + 1 - d)..(n + 1) : f[i] \in Seq(T)}
<1>1. 0 \in S
    <2>1. f[n + 1] = <<>>
        BY DEF FromAt
    <2>2. \A i \in (n + 1 - 0)..(n + 1) : i = n + 1
        OBVIOUS
    <2>3. f[n + 1] \in Seq(T)
        BY <2>1
    <2>4. \A i \in (n + 1 - 0)..(n + 1) : f[i] \in Seq(T)
        BY ONLY <2>2, <2>3
    <2> QED
        BY <2>4
<1>2. ASSUME NEW d \in 0..(n - 1), d \in S
      PROVE  d + 1 \in S
    <2>1. /\ n - d \in 1..n /\ n - d \in 1..(n + 1) /\ d + 1 \in 0..n
          /\ (n - d) + 1 = n + 1 - d /\ n + 1 - (d + 1) = n - d
        OBVIOUS
    <2>2. \A j \in ((n - d) + 1)..(n + 1) : f[j] \in Seq(T)
        BY <1>2, <2>1
    <2>3. f[n - d] \in Seq(T)
        <3>1. FromAt(f, u, n, n - d) \in Seq(T)
            BY ONLY n \in Nat, AreUnits(T, u, n), <2>1, <2>2, FromAtType
        <3> QED
            BY <2>1, <3>1
    <2>4. \A i \in (n - d)..(n + 1) : i = n - d \/ i \in ((n - d) + 1)..(n + 1)
        OBVIOUS
    <2>5. \A i \in (n + 1 - (d + 1))..(n + 1) : f[i] \in Seq(T)
        BY <2>1, <2>2, <2>3, <2>4
    <2> QED
        BY <2>1, <2>5
<1> HIDE DEF S
<1>3. 0..n \subseteq S
    BY ONLY n \in Nat, <1>1, <1>2, BoundedInduction
<1>4. n \in S
    BY <1>3
<1>5. 1 \in (n + 1 - n)..(n + 1)
    OBVIOUS
<1> QED
    BY <1>4, <1>5 DEF S

LEMMA FromExists ==
    ASSUME NEW T, NEW n \in Nat, NEW u, AreUnits(T, u, n)
    PROVE  \E f : f = [i \in 1..(n + 1) |-> FromAt(f, u, n, i)]
<1> DEFINE Solves(f, d) == f = [i \in (n + 1 - d)..(n + 1) |-> FromAt(f, u, n, i)]
           S == {d \in 0..n : \E f : Solves(f, d)}
<1>1. 0 \in S
    <2> DEFINE f == [i \in (n + 1)..(n + 1) |-> <<>>]
    <2>1. \A i \in (n + 1)..(n + 1) : FromAt(f, u, n, i) = <<>>
        BY DEF FromAt
    <2>2. f = [i \in (n + 1)..(n + 1) |-> FromAt(f, u, n, i)]
        BY <2>1
    <2>3. n + 1 - 0 = n + 1 /\ 0 \in 0..n
        OBVIOUS
    <2> HIDE DEF f
    <2>4. Solves(f, 0)
        BY <2>2, <2>3
    <2>5. \E h : Solves(h, 0)
        BY <2>4
    <2> HIDE DEF Solves
    <2> QED
        BY <2>3, <2>5
<1>2. ASSUME NEW d \in 0..(n - 1), d \in S
      PROVE  d + 1 \in S
    <2> PICK f : Solves(f, d)
        BY <1>2
    <2> DEFINE g == [i \in (n - d)..(n + 1) |-> IF i = n - d THEN FromAt(f, u, n, i) ELSE f[i]]
    <2>1. /\ n - d \in 1..n /\ d + 1 \in 0..n
          /\ n + 1 - d = (n - d) + 1 /\ n + 1 - (d + 1) = n - d
        OBVIOUS
    <2>2. \A i \in (n - d)..(n + 1) :
             g[i] = IF i = n - d THEN FromAt(f, u, n, i) ELSE f[i]
        OBVIOUS
    <2>3. g = [i \in (n - d)..(n + 1) |-> g[i]]
        OBVIOUS
    <2> HIDE DEF g
    <2>4. ASSUME NEW i \in (n - d)..(n + 1)
          PROVE  FromAt(g, u, n, i) = FromAt(f, u, n, i)
        <3>1. ASSUME i <= n
              PROVE  g[i + u[i].length] = f[i + u[i].length]
            <4>1. i \in 1..n
                BY <2>1, <3>1
            <4>2. u[i].length \in Nat \ {0} /\ i + u[i].length <= n + 1
                BY <4>1 DEF AreUnits
            <4>3. i + u[i].length \in (n - d)..(n + 1) /\ i + u[i].length # n - d
                BY <2>1, <4>1, <4>2
            <4> QED
                BY <2>2, <4>3
        <3>2. i > n \/ i <= n
            BY <2>1
        <3> QED
            BY ONLY <3>1, <3>2 DEF FromAt
    <2>5. ASSUME NEW i \in (n - d)..(n + 1)
          PROVE  g[i] = FromAt(f, u, n, i)
        <3>1. CASE i = n - d
            BY <2>2, <3>1
        <3>2. CASE i # n - d
            <4>1. i \in (n + 1 - d)..(n + 1)
                BY <2>1, <3>2
            <4> QED
                BY <2>2, <3>2, <4>1
        <3> QED
            BY <3>1, <3>2
    <2>6. g = [i \in (n - d)..(n + 1) |-> FromAt(g, u, n, i)]
        BY <2>3, <2>4, <2>5
    <2>7. Solves(g, d + 1)
        BY <2>1, <2>6
    <2> QED
        BY <2>1, <2>7
<1> HIDE DEF S
<1>3. 0..n \subseteq S
    BY ONLY n \in Nat, <1>1, <1>2, BoundedInduction
<1>4. n \in S
    BY <1>3
<1>5. n + 1 - n = 1
    OBVIOUS
<1> QED
    BY <1>4, <1>5 DEF S

LEMMA EncodeType ==
    ASSUME NEW text \in Seq(0..255)
    PROVE  Encode(text) \in Seq(OutBytes)
<1> DEFINE n == Len(text)
           u == [i \in 1..n |-> EncodeUnit(text, i)]
           Equation(f) == f = [i \in 1..(n + 1) |-> FromAt(f, u, n, i)]
<1>0. n \in Nat
    OBVIOUS
<1>1. AreUnits(OutBytes, u, n)
    BY EncodeUnitType DEF AreUnits, IsUnit
<1>2. Encode(text) = (CHOOSE f : Equation(f))[1]
    <2>1. \A f : \A i \in 1..(n + 1) :
             FromAt(f, u, n, i) = IF i > n THEN <<>>
                                  ELSE EncodeUnit(text, i).output \o f[i + EncodeUnit(text, i).length]
        BY DEF FromAt
    <2>2. \A f : Equation(f) <=>
             f = [i \in 1..(n + 1) |->
                     IF i > n THEN <<>>
                     ELSE EncodeUnit(text, i).output \o f[i + EncodeUnit(text, i).length]]
        BY <2>1
    <2> QED
        BY <2>2 DEF Encode, Converted
<1> HIDE DEF n, u
<1>3. \E f : Equation(f)
    BY ONLY <1>0, <1>1, FromExists
<1> PICK f : f = (CHOOSE g : Equation(g))
    OBVIOUS
<1>4. Equation(f)
    BY <1>3
<1>5. \A i \in 1..(n + 1) : f[i] = FromAt(f, u, n, i)
    BY <1>4
<1>6. f[1] \in Seq(OutBytes)
    BY ONLY <1>0, <1>1, <1>5, FromIsTyped
<1> QED
    BY <1>2, <1>6

LEMMA DecodeType ==
    ASSUME NEW text \in Seq(0..255)
    PROVE  Decode(text) \in Seq(OutBytes)
<1> DEFINE n == Len(text)
           u == [i \in 1..n |-> DecodeUnit(text, i)]
           Equation(f) == f = [i \in 1..(n + 1) |-> FromAt(f, u, n, i)]
<1>0. n \in Nat
    OBVIOUS
<1>1. AreUnits(OutBytes, u, n)
    BY DecodeUnitType DEF AreUnits, IsUnit
<1>2. Decode(text) = (CHOOSE f : Equation(f))[1]
    <2>1. \A f : \A i \in 1..(n + 1) :
             FromAt(f, u, n, i) = IF i > n THEN <<>>
                                  ELSE DecodeUnit(text, i).output \o f[i + DecodeUnit(text, i).length]
        BY DEF FromAt
    <2>2. \A f : Equation(f) <=>
             f = [i \in 1..(n + 1) |->
                     IF i > n THEN <<>>
                     ELSE DecodeUnit(text, i).output \o f[i + DecodeUnit(text, i).length]]
        BY <2>1
    <2> QED
        BY <2>2 DEF Decode, Converted
<1> HIDE DEF n, u
<1>3. \E f : Equation(f)
    BY ONLY <1>0, <1>1, FromExists
<1> PICK f : f = (CHOOSE g : Equation(g))
    OBVIOUS
<1>4. Equation(f)
    BY <1>3
<1>5. \A i \in 1..(n + 1) : f[i] = FromAt(f, u, n, i)
    BY <1>4
<1>6. f[1] \in Seq(OutBytes)
    BY ONLY <1>0, <1>1, <1>5, FromIsTyped
<1> QED
    BY <1>2, <1>6

-----------------------------------------------------------------------------
(***************************************************************************)
(* The candidates of a line, put into the entry of their midashi.          *)
(***************************************************************************)

\* An empty unit has an empty text.
LEMMA TextOfNone == Text(<<>>) = <<>> /\ ~Annotated(<<>>)
<1>1. ~Annotated(<<>>)
    BY DEF Annotated, Contains
<1> QED
    BY <1>1 DEF Text

LEMMA WithoutFirstEmptyFacts ==
    ASSUME NEW V, NEW units, units \in Seq(V), units # <<>>, IsInjective(units)
    PROVE  LET rest == WithoutFirstEmpty(units)
           IN  /\ rest \in Seq(V) /\ IsInjective(rest)
               /\ Range(rest) \subseteq Range(units)
               /\ Range(units) \subseteq Range(rest) \cup {<<>>}
               /\ rest = <<>> => <<>> \in Range(units)
<1>1. /\ DOMAIN units = 1..Len(units) /\ Len(units) \in Nat \ {0}
      /\ Tail(units) \in Seq(V) /\ Len(Tail(units)) = Len(units) - 1
      /\ \A i \in 1..(Len(units) - 1) : Tail(units)[i] = units[i + 1]
      /\ DOMAIN Tail(units) = 1..(Len(units) - 1)
    OBVIOUS
<1>2. CASE units[1] = <<>>
    <2> PICK rest : rest = Tail(units)
        OBVIOUS
    <2> PICK k \in Nat \ {0} : k = Len(units)
        BY <1>1
    <2>1. /\ DOMAIN units = 1..k /\ DOMAIN rest = 1..(k - 1)
          /\ \A i \in 1..(k - 1) : rest[i] = units[i + 1]
        BY <1>1
    <2>2. IsInjective(rest)
        BY ONLY <2>1, IsInjective(units), k \in Nat \ {0} DEF IsInjective
    <2>3. Range(rest) \subseteq Range(units)
        BY ONLY <2>1, k \in Nat \ {0} DEF Range
    <2>4. Range(units) \subseteq Range(rest) \cup {<<>>} /\ <<>> \in Range(units)
        <3>1. \A i \in 1..k : i = 1 \/ (i - 1 \in 1..(k - 1) /\ rest[i - 1] = units[i])
            BY ONLY <2>1, k \in Nat \ {0}
        <3>2. 1 \in 1..k
            OBVIOUS
        <3>3. <<>> \in Range(units)
            BY ONLY <1>2, <2>1, <3>2 DEF Range
        <3>4. ASSUME NEW u \in Range(units)
              PROVE  u \in Range(rest) \cup {<<>>}
            <4> PICK i \in 1..k : units[i] = u
                BY ONLY <2>1, u \in Range(units) DEF Range
            <4>1. i = 1 \/ (i - 1 \in DOMAIN rest /\ rest[i - 1] = u)
                BY ONLY <2>1, <3>1, i \in 1..k, units[i] = u
            <4> QED
                BY ONLY <1>2, <4>1, units[i] = u DEF Range
        <3> QED
            BY ONLY <3>3, <3>4
    <2>5. WithoutFirstEmpty(units) = rest
        BY ONLY <1>2, rest = Tail(units) DEF WithoutFirstEmpty
    <2>6. rest \in Seq(V)
        BY ONLY <1>1, rest = Tail(units)
    <2> QED
        BY ONLY <2>2, <2>3, <2>4, <2>5, <2>6
<1>3. CASE units[1] # <<>>
    <2>1. WithoutFirstEmpty(units) = units
        BY ONLY <1>3 DEF WithoutFirstEmpty
    <2> QED
        BY ONLY <2>1, units \in Seq(V), units # <<>>, IsInjective(units)
<1> QED
    BY ONLY <1>2, <1>3

\* What is split of the candidates of a line once it has no duplicates.
NewUnits(c) == Split(TrimOneSlash(RemoveDuplicatesBytes(c)))

LEMMA NewUnitsFacts ==
    ASSUME NEW U, Slash \in U, NEW c \in Seq(U)
    PROVE  /\ RemoveDuplicatesBytes(c) \in Seq(U) /\ TrimOneSlash(RemoveDuplicatesBytes(c)) \in Seq(U)
           /\ NewUnits(c) \in Seq(Seq(U \ {Slash})) /\ NewUnits(c) # <<>>
           /\ IsInjective(NewUnits(c))
           /\ Range(NewUnits(c)) \subseteq Range(Split(c))
           /\ Range(Split(c)) \subseteq Range(NewUnits(c)) \cup {<<>>}
<1> PICK V : V = Seq(U \ {Slash})
    OBVIOUS
<1> PICK us : us = RemoveDuplicates(Split(c))
    OBVIOUS
<1> PICK line : line = Split(c)
    OBVIOUS
<1>1. line \in Seq(V) /\ line # <<>>
    BY ONLY c \in Seq(U), line = Split(c), V = Seq(U \ {Slash}), SplitUnits
<1>2. us \in Seq(V) /\ Range(us) = Range(line) /\ IsInjective(us)
    BY ONLY <1>1, us = RemoveDuplicates(Split(c)), line = Split(c), DuplicatesAreRemoved
<1>3. us # <<>>
    <2>1. line[1] \in Range(line)
        <3>1. 1 \in DOMAIN line
            BY ONLY <1>1
        <3> QED
            BY ONLY <3>1 DEF Range
    <2>2. Range(<<>>) = {}
        BY DEF Range
    <2> QED
        BY ONLY <1>2, <2>1, <2>2
<1> PICK rest : rest = WithoutFirstEmpty(us)
    OBVIOUS
<1>4. /\ rest \in Seq(V) /\ IsInjective(rest) /\ Range(rest) \subseteq Range(us)
      /\ Range(us) \subseteq Range(rest) \cup {<<>>}
      /\ rest = <<>> => <<>> \in Range(us)
    BY ONLY <1>2, <1>3, rest = WithoutFirstEmpty(us), WithoutFirstEmptyFacts
<1>5. /\ Joined(us) \in Seq(U) /\ TrimOneSlash(Joined(us)) \in Seq(U)
      /\ Split(TrimOneSlash(Joined(us))) = IF rest = <<>> THEN << <<>> >> ELSE rest
    BY ONLY <1>2, <1>3, Slash \in U, V = Seq(U \ {Slash}), rest = WithoutFirstEmpty(us),
            EntryIsSplitAgain
<1>6. RemoveDuplicatesBytes(c) = Joined(us)
    BY ONLY us = RemoveDuplicates(Split(c)) DEF RemoveDuplicatesBytes
<1> PICK new : new = NewUnits(c)
    OBVIOUS
<1>7. new = IF rest = <<>> THEN << <<>> >> ELSE rest
    BY ONLY <1>5, <1>6, new = NewUnits(c) DEF NewUnits
<1>8. /\ new \in Seq(V) /\ new # <<>> /\ IsInjective(new)
      /\ Range(new) \subseteq Range(line) /\ Range(line) \subseteq Range(new) \cup {<<>>}
    <2>1. CASE rest = <<>>
        <3>1. new = << <<>> >>
            BY ONLY <1>7, <2>1
        <3>2. <<>> \in V
            BY V = Seq(U \ {Slash})
        <3>3. IsInjective(new) /\ Range(new) = {<<>>}
            BY ONLY <3>1 DEF IsInjective, Range
        <3>4. Range(rest) = {}
            BY ONLY <2>1 DEF Range
        <3>5. new \in Seq(V) /\ new # <<>>
            BY ONLY <3>1, <3>2
        <3> QED
            BY ONLY <1>2, <1>4, <2>1, <3>3, <3>4, <3>5
    <2>2. CASE rest # <<>>
        BY ONLY <1>2, <1>4, <1>7, <2>2
    <2> QED
        BY ONLY <2>1, <2>2
<1> QED
    BY ONLY <1>5, <1>6, <1>8, new = NewUnits(c), line = Split(c), V = Seq(U \ {Slash})

\* The first candidates of a midashi.
LEMMA NewEntryAdds ==
    ASSUME NEW U, Slash \in U, NEW c \in Seq(U)
    PROVE  Adds(Split(c), <<>>, UnitsIn(RemoveDuplicatesBytes(c)))
<1> PICK new : new = NewUnits(c)
    OBVIOUS
<1> PICK line : line = Split(c)
    OBVIOUS
<1> PICK after : after = UnitsIn(RemoveDuplicatesBytes(c))
    OBVIOUS
<1>1. /\ TrimOneSlash(RemoveDuplicatesBytes(c)) \in Seq(U) /\ new \in Seq(Seq(U \ {Slash}))
      /\ IsInjective(new) /\ Range(new) \subseteq Range(line)
      /\ Range(line) \subseteq Range(new) \cup {<<>>}
    BY ONLY Slash \in U, c \in Seq(U), new = NewUnits(c), line = Split(c), NewUnitsFacts
<1>2. after = IF new = << <<>> >> THEN <<>> ELSE new
    <2>1. Units(TrimOneSlash(RemoveDuplicatesBytes(c)))
            = IF Split(TrimOneSlash(RemoveDuplicatesBytes(c))) = << <<>> >> THEN <<>>
              ELSE Split(TrimOneSlash(RemoveDuplicatesBytes(c)))
        BY ONLY <1>1, UnitsAreSplit
    <2> QED
        BY ONLY <2>1, after = UnitsIn(RemoveDuplicatesBytes(c)), new = NewUnits(c)
           DEF UnitsIn, NewUnits
<1>3. Range(after) \subseteq Range(new) /\ Range(new) \subseteq Range(after) \cup {<<>>}
    <2>1. Range(<<>>) = {} /\ Range(<< <<>> >>) = {<<>>}
        BY DEF Range
    <2> QED
        BY ONLY <1>2, <2>1
<1>4. IsInjective(after) /\ Len(after) \in Nat
    <2>1. IsInjective(<<>>)
        BY DEF IsInjective
    <2>2. Len(new) \in Nat /\ Len(<<>>) \in Nat
        BY ONLY <1>1
    <2> QED
        BY ONLY <1>1, <1>2, <2>1, <2>2
<1>5. TextsOf(line) \subseteq TextsOf(after) \cup {<<>>}
    BY ONLY <1>1, <1>3, TextOfNone DEF TextsOf
<1>6. (\A u, v \in Range(line) : Text(u) = Text(v) => u = v) => DistinctTexts(after)
    BY ONLY <1>1, <1>3, <1>4 DEF DistinctTexts
<1>7. Len(<<>>) <= Len(after) /\ DOMAIN <<>> = {}
    BY <1>4
<1>8. Range(after) \subseteq Range(<<>>) \cup Range(line)
    BY ONLY <1>1, <1>3
<1>9. Adds(line, <<>>, after)
    BY ONLY <1>5, <1>6, <1>7, <1>8 DEF Adds
<1> QED
    BY ONLY <1>9, line = Split(c), after = UnitsIn(RemoveDuplicatesBytes(c))

\* What a line adds to the entry there is.
LEMMA MergedEntryAdds ==
    ASSUME NEW U, Slash \in U, NEW c \in Seq(U), NEW entry \in Seq(U)
    PROVE  LET merged == MergeTrimmedSlashCandidates(TrimOneSlash(entry),
                                                     TrimOneSlash(RemoveDuplicatesBytes(c)))
           IN  merged \in Seq(U) /\ Adds(Split(c), UnitsIn(entry), UnitsIn(merged))
<1> PICK V : V = Seq(U \ {Slash})
    OBVIOUS
<1> PICK new : new = NewUnits(c)
    OBVIOUS
<1> PICK line : line = Split(c)
    OBVIOUS
<1> PICK before : before = UnitsIn(entry)
    OBVIOUS
<1> PICK merged : merged = MergedUnits(before, new)
    OBVIOUS
<1> PICK bytes : bytes = <<Slash>> \o Joined(merged)
    OBVIOUS
<1> PICK after : after = UnitsIn(bytes)
    OBVIOUS
<1>1. /\ new \in Seq(V) /\ new # <<>>
      /\ IsInjective(new) /\ Range(new) \subseteq Range(line)
      /\ Range(line) \subseteq Range(new) \cup {<<>>}
    BY ONLY Slash \in U, c \in Seq(U), new = NewUnits(c), line = Split(c), V = Seq(U \ {Slash}),
            NewUnitsFacts
<1>2. before \in Seq(V) /\ before # << <<>> >>
    <2>1. TrimOneSlash(entry) \in Seq(U)
        BY DEF TrimOneSlash
    <2>2. /\ before = IF Split(TrimOneSlash(entry)) = << <<>> >> THEN <<>>
                      ELSE Split(TrimOneSlash(entry))
          /\ before \in Seq(Seq(U \ {Slash}))
        BY ONLY <2>1, before = UnitsIn(entry), UnitsAreSplit DEF UnitsIn
    <2>3. <<>> # << <<>> >>
        OBVIOUS
    <2> QED
        BY ONLY <2>2, <2>3, V = Seq(U \ {Slash})
<1>3. /\ merged \in Seq(V) /\ Len(merged) >= Len(before)
      /\ \A i \in 1..Len(before) :
            Text(merged[i]) = Text(before[i]) /\ (Annotated(before[i]) => merged[i] = before[i])
      /\ Range(merged) \subseteq Range(before) \cup Range(new)
      /\ TextsOf(merged) = TextsOf(before) \cup TextsOf(new)
      /\ DistinctTexts(before) /\ DistinctTexts(new) => DistinctTexts(merged)
    BY ONLY <1>1, <1>2, merged = MergedUnits(before, new), MergingLosesNothing
<1>4. merged # <<>>
    <2>1. \E u : u \in Range(new)
        <3>1. 1 \in DOMAIN new
            BY ONLY <1>1
        <3> QED
            BY ONLY <3>1 DEF Range
    <2>2. TextsOf(new) # {}
        BY ONLY <2>1 DEF TextsOf
    <2>3. TextsOf(<<>>) = {}
        BY DEF TextsOf, Range
    <2> QED
        BY ONLY <1>3, <2>2, <2>3
<1>5. bytes \in Seq(U) /\ TrimOneSlash(bytes) \in Seq(U) /\ Split(TrimOneSlash(bytes)) = merged
    BY ONLY <1>3, <1>4, Slash \in U, V = Seq(U \ {Slash}), bytes = <<Slash>> \o Joined(merged),
            MergedIsSplitAgain
<1>6. after = IF merged = << <<>> >> THEN <<>> ELSE merged
    <2>1. Units(TrimOneSlash(bytes)) = IF Split(TrimOneSlash(bytes)) = << <<>> >> THEN <<>>
                                       ELSE Split(TrimOneSlash(bytes))
        BY ONLY <1>5, UnitsAreSplit
    <2> QED
        BY ONLY <1>5, <2>1, after = UnitsIn(bytes) DEF UnitsIn
<1>7. /\ DistinctTexts(before) /\ (\A u, v \in Range(line) : Text(u) = Text(v) => u = v) =>
            DistinctTexts(merged)
      /\ TextsOf(line) \subseteq TextsOf(merged) \cup {<<>>}
      /\ Range(merged) \subseteq Range(before) \cup Range(line)
    <2>1. (\A u, v \in Range(line) : Text(u) = Text(v) => u = v) => DistinctTexts(new)
        BY ONLY <1>1 DEF DistinctTexts
    <2>2. TextsOf(line) \subseteq TextsOf(new) \cup {<<>>}
        BY ONLY <1>1, TextOfNone DEF TextsOf
    <2>3. Range(merged) \subseteq Range(before) \cup Range(line)
        BY ONLY <1>1, <1>3
    <2> QED
        BY ONLY <1>3, <2>1, <2>2, <2>3
<1>8. Adds(line, before, after)
    <2>1. CASE merged # << <<>> >>
        <3>1. after = merged
            BY ONLY <1>6, <2>1
        <3>2. DOMAIN before = 1..Len(before) /\ Len(before) <= Len(merged)
            BY ONLY <1>2, <1>3
        <3> QED
            BY ONLY <1>3, <1>7, <3>1, <3>2 DEF Adds
    <2>2. CASE merged = << <<>> >>
        <3>1. after = <<>>
            BY ONLY <1>6, <2>2
        <3>2. before = <<>>
            <4> SUFFICES ASSUME before # <<>>
                         PROVE  FALSE
                OBVIOUS
            <4>1. Len(merged) = 1 /\ merged[1] = <<>>
                BY ONLY <2>2
            <4>2. Len(before) = 1 /\ 1 \in 1..Len(before) /\ before = <<before[1]>>
                BY ONLY <1>2, <1>3, <4>1, before # <<>>
            <4>3. /\ Text(before[1]) = <<>>
                  /\ Annotated(before[1]) => before[1] = <<>>
                BY ONLY <1>3, <4>1, <4>2, TextOfNone
            <4>4. before[1] = <<>>
                BY ONLY <4>3 DEF Text
            <4> QED
                BY ONLY <1>2, <4>2, <4>4
        <3>3. TextsOf(merged) = {<<>>} /\ TextsOf(<<>>) = {}
            BY ONLY <2>2, TextOfNone DEF TextsOf, Range
        <3>4. DistinctTexts(<<>>) /\ Range(<<>>) = {} /\ Len(<<>>) = 0 /\ DOMAIN <<>> = {}
            BY DEF DistinctTexts, IsInjective, Range
        <3>5. TextsOf(line) \subseteq TextsOf(<<>>) \cup {<<>>}
            BY ONLY <1>7, <3>3
        <3> QED
            BY ONLY <3>1, <3>2, <3>4, <3>5 DEF Adds
    <2> QED
        BY ONLY <2>1, <2>2
<1>9. MergeTrimmedSlashCandidates(TrimOneSlash(entry), TrimOneSlash(RemoveDuplicatesBytes(c)))
        = bytes
    BY ONLY before = UnitsIn(entry), new = NewUnits(c), merged = MergedUnits(before, new),
            bytes = <<Slash>> \o Joined(merged)
       DEF MergeTrimmedSlashCandidates, UnitsIn, NewUnits
<1> QED
    BY ONLY <1>5, <1>8, <1>9, line = Split(c), before = UnitsIn(entry), after = UnitsIn(bytes)

-----------------------------------------------------------------------------
(***************************************************************************)
(* The reader.                                                             *)
(***************************************************************************)

AreEntries(map) == \A midashi \in DOMAIN map : map[midashi] \in Seq(OutBytes)

\* The jisyo still to be read and the entries are sequences of bytes.
ReaderInv ==
    /\ jisyo \in Seq(Seq(0..255)) /\ position \in Nat /\ output_encoding \in {"euc", "utf8"}
    /\ reader = "line" => jisyo # <<>>
    /\ AreEntries(entries)

LEMMA SubSequence ==
    ASSUME NEW T, NEW s \in Seq(T), NEW m \in Nat \ {0}, NEW n \in 0..Len(s)
    PROVE  SubSeq(s, m, n) \in Seq(T)
OBVIOUS

LEMMA FoundIn ==
    ASSUME NEW T, NEW s \in Seq(T), NEW byte
    PROVE  /\ Find(s, byte) \in 0..Len(s) /\ FindLast(s, byte) \in 0..Len(s)
           /\ FindLast(s, byte) = 0 <=> ~Contains(s, byte)
<1> DEFINE I == {i \in 1..Len(s) : s[i] = byte}
<1>1. Len(s) \in Nat /\ I \subseteq 1..Len(s) /\ I \in SUBSET Nat
      /\ \A i \in I : i \in 0..Len(s) /\ i # 0
    OBVIOUS
<1>2. /\ Find(s, byte) = IF I # {} THEN Min(I) ELSE 0
      /\ FindLast(s, byte) = IF I # {} THEN Max(I) ELSE 0
    BY DEF Find, FindLast, SelectInSeq, SelectLastInSeq
<1>3. Contains(s, byte) <=> I # {}
    BY DEF Contains
<1> HIDE DEF I
<1>4. I # {} => Min(I) \in I
    BY ONLY <1>1, MinIsLeast
<1>5. I # {} => Max(I) \in I
    BY ONLY <1>1, MaxIsGreatest
<1>6. CASE I = {}
    BY ONLY <1>1, <1>2, <1>3, <1>6
<1>7. CASE I # {}
    <2>1. Find(s, byte) \in I /\ FindLast(s, byte) \in I
        BY ONLY <1>2, <1>4, <1>5, <1>7
    <2> QED
        BY ONLY <1>1, <1>3, <1>7, <2>1
<1> QED
    BY ONLY <1>6, <1>7

LEMMA LineFacts ==
    ASSUME ReaderInv, reader = "line", Rest # <<>>
    PROVE  ChompedLine \in Seq(0..255) /\ LineLength \in Nat \ {0}
<1> PICK text : text = Head(jisyo)
    OBVIOUS
<1>1. text \in Seq(0..255)
    <2>1. jisyo \in Seq(Seq(0..255)) /\ jisyo # <<>>
        BY DEF ReaderInv
    <2> QED
        BY ONLY <2>1, text = Head(jisyo)
<1> PICK rest : rest = Rest
    OBVIOUS
<1>2. rest \in Seq(0..255)
    <2>1. position + 1 \in Nat \ {0} /\ Len(text) \in 0..Len(text)
        BY <1>1 DEF ReaderInv
    <2>2. rest = SubSeq(text, position + 1, Len(text))
        BY ONLY rest = Rest, text = Head(jisyo) DEF Rest
    <2> QED
        BY ONLY <1>1, <2>1, <2>2, SubSequence
<1> PICK I : I = {i \in 1..Len(rest) : rest[i] \in {CR, LF}}
    OBVIOUS
<1> PICK end : end = IF I # {} THEN Min(I) ELSE 0
    OBVIOUS
<1>3. Len(rest) \in Nat \ {0} /\ end \in 0..Len(rest)
    <2>1. Len(rest) \in Nat \ {0}
        BY ONLY <1>2, rest = Rest, Rest # <<>>
    <2>2. I \in SUBSET Nat /\ (\A i \in I : i \in 0..Len(rest)) /\ 0 \in 0..Len(rest)
        BY ONLY <2>1, I = {i \in 1..Len(rest) : rest[i] \in {CR, LF}}
    <2>3. I # {} => Min(I) \in I
        BY ONLY <2>2, MinIsLeast
    <2>4. end = 0 \/ end \in I
        BY ONLY <2>3, end = IF I # {} THEN Min(I) ELSE 0
    <2> QED
        BY ONLY <2>1, <2>2, <2>4
<1>4. LineLength = IF end = 0 THEN Len(rest) ELSE end
    BY ONLY rest = Rest, I = {i \in 1..Len(rest) : rest[i] \in {CR, LF}},
            end = IF I # {} THEN Min(I) ELSE 0
       DEF LineLength, SelectInSeq
<1>5. LineLength \in Nat \ {0} /\ LineLength - 1 \in 0..Len(rest)
    BY ONLY <1>3, <1>4
<1>6. 1 \in Nat \ {0}
    OBVIOUS
<1>7. SubSeq(rest, 1, LineLength - 1) \in Seq(0..255)
    BY ONLY <1>2, <1>5, <1>6, SubSequence
<1> QED
    BY ONLY <1>5, <1>7, rest = Rest DEF ChompedLine

LEMMA ToEncodingType ==
    ASSUME NEW from, NEW to, NEW text \in Seq(0..255)
    PROVE  ToEncoding(from, to, text) \in Seq(OutBytes)
<1>0. 0..255 \in SUBSET OutBytes
    BY BytesAreOut
<1>1. text \in Seq(OutBytes)
    BY ONLY text \in Seq(0..255), <1>0, SequenceWithin, ZenonT(20)
<1>2. Encode(text) \in Seq(OutBytes) /\ Decode(text) \in Seq(OutBytes)
    BY ONLY text \in Seq(0..255), EncodeType, DecodeType
<1> QED
    BY ONLY <1>1, <1>2 DEF ToEncoding

LEMMA NewCandidatesType ==
    ASSUME ReaderInv, reader = "line", Rest # <<>>
    PROVE  NewCandidates \in Seq(OutBytes)
<1> PICK line : line = ChompedLine
    OBVIOUS
<1>1. line \in Seq(0..255)
    BY LineFacts
<1>2. Find(line, Space) \in 0..Len(line) /\ FindLast(line, Slash) \in 0..Len(line)
    BY ONLY <1>1, FoundIn
<1>3. Find(line, Space) + 1 \in Nat \ {0}
    BY ONLY <1>1, <1>2
<1>4. CandidatesOf(line) \in Seq(0..255)
    BY ONLY <1>1, <1>2, <1>3, SubSequence DEF CandidatesOf
<1> QED
    BY ONLY <1>4, line = ChompedLine, ToEncodingType DEF NewCandidates

LEMMA SlashIsOut == Slash \in OutBytes
<1>1. Slash \in Nat
    BY DEF Slash
<1> QED
    BY <1>1, BytesAreOut

KeepsOthers(its, after) ==
    \A midashi \in DOMAIN entries \ {its} : after[midashi] = entries[midashi]

\* What becomes of the entries when the candidates c of a midashi are put among them.
LEMMA UpdateAdds ==
    ASSUME NEW c \in Seq(OutBytes), NEW its, NEW after, AreEntries(entries),
           after = UpdateEntries(its, c)
    PROVE  /\ AreEntries(after)
           /\ DOMAIN after = DOMAIN entries \cup {its}
           /\ KeepsOthers(its, after)
           /\ Adds(Split(c), UnitsOf(entries, its), UnitsOf(after, its))
<1> PICK new : new = RemoveDuplicatesBytes(c)
    OBVIOUS
<1> PICK value : value = IF its \in DOMAIN entries
                         THEN MergeTrimmedSlashCandidates(TrimOneSlash(entries[its]),
                                                          TrimOneSlash(new))
                         ELSE new
    OBVIOUS
<1>1. after = WithEntry(its, value)
    BY ONLY after = UpdateEntries(its, c), new = RemoveDuplicatesBytes(c),
            value = IF its \in DOMAIN entries
                    THEN MergeTrimmedSlashCandidates(TrimOneSlash(entries[its]), TrimOneSlash(new))
                    ELSE new
       DEF UpdateEntries
<1>2. /\ DOMAIN after = DOMAIN entries \cup {its}
      /\ after[its] = value
      /\ \A midashi \in DOMAIN entries \ {its} : after[midashi] = entries[midashi]
    BY ONLY <1>1 DEF WithEntry
<1>3. new \in Seq(OutBytes)
    BY ONLY c \in Seq(OutBytes), new = RemoveDuplicatesBytes(c), SlashIsOut, NewUnitsFacts
<1>4. value \in Seq(OutBytes) /\ Adds(Split(c), UnitsOf(entries, its), UnitsIn(value))
    <2>1. CASE its \in DOMAIN entries
        <3>1. entries[its] \in Seq(OutBytes)
            BY <2>1 DEF AreEntries
        <3>2. value = MergeTrimmedSlashCandidates(TrimOneSlash(entries[its]),
                                                  TrimOneSlash(RemoveDuplicatesBytes(c)))
            BY <2>1
        <3>3. UnitsOf(entries, its) = UnitsIn(entries[its])
            BY ONLY <2>1 DEF UnitsOf
        <3> QED
            BY ONLY <3>1, <3>2, <3>3, c \in Seq(OutBytes), SlashIsOut, MergedEntryAdds
    <2>2. CASE its \notin DOMAIN entries
        <3>1. UnitsOf(entries, its) = <<>>
            BY ONLY <2>2 DEF UnitsOf
        <3>2. Adds(Split(c), <<>>, UnitsIn(new))
            BY ONLY c \in Seq(OutBytes), new = RemoveDuplicatesBytes(c), SlashIsOut, NewEntryAdds
        <3>3. value = new
            BY <2>2
        <3> QED
            BY ONLY <1>3, <3>1, <3>2, <3>3
    <2> QED
        BY ONLY <2>1, <2>2
<1>5. UnitsOf(after, its) = UnitsIn(value)
    BY ONLY <1>2 DEF UnitsOf
<1>6. ASSUME NEW midashi \in DOMAIN after
      PROVE  after[midashi] \in Seq(OutBytes)
    <2>1. midashi = its \/ midashi \in DOMAIN entries \ {its}
        BY ONLY <1>2, midashi \in DOMAIN after
    <2>2. CASE midashi = its
        BY ONLY <1>2, <1>4, <2>2
    <2>3. CASE midashi \in DOMAIN entries \ {its}
        <3>1. entries[midashi] \in Seq(OutBytes)
            BY <2>3 DEF AreEntries
        <3> QED
            BY ONLY <1>2, <2>3, <3>1
    <2> QED
        BY ONLY <2>1, <2>2, <2>3
<1> QED
    BY ONLY <1>2, <1>4, <1>5, <1>6 DEF AreEntries, KeepsOthers

LEMMA TakeLineAdds ==
    ASSUME ReaderInv, TakeLine
    PROVE  /\ AreEntries(entries')
           /\ IF IsTaken(ChompedLine)
              THEN LET its == ToEncoding(jisyo_encoding, "euc", Midashi(ChompedLine))
                   IN /\ DOMAIN entries' = DOMAIN entries \cup {its}
                      /\ \A midashi \in DOMAIN entries \ {its} :
                            entries'[midashi] = entries[midashi]
                      /\ Adds(Split(NewCandidates), UnitsOf(entries, its), UnitsOf(entries', its))
              ELSE entries' = entries
<1>1. reader = "line" /\ Rest # <<>> /\ LooksLikeEntry(ChompedLine)
    BY DEF TakeLine
<1>2. NewCandidates \in Seq(OutBytes)
    BY <1>1, NewCandidatesType
<1>3. IsTaken(ChompedLine) <=> FindLast(ChompedLine, Slash) # 0
    <2>1. ChompedLine \in Seq(0..255)
        BY <1>1, LineFacts
    <2>2. FindLast(ChompedLine, Slash) = 0 <=> ~Contains(ChompedLine, Slash)
        BY ONLY <2>1, FoundIn
    <2> QED
        BY ONLY <1>1, <2>2 DEF IsTaken
<1> PICK its : its = ToEncoding(jisyo_encoding, "euc", Midashi(ChompedLine))
    OBVIOUS
<1>4. entries' = IF FindLast(ChompedLine, Slash) = 0 THEN entries
                 ELSE UpdateEntries(its, NewCandidates)
    BY DEF TakeLine
<1>5. AreEntries(entries)
    BY DEF ReaderInv
<1>6. CASE ~IsTaken(ChompedLine)
    <2>1. entries' = entries
        BY ONLY <1>3, <1>4, <1>6
    <2> QED
        BY ONLY <1>5, <1>6, <2>1
<1>7. CASE IsTaken(ChompedLine)
    <2> PICK after : after = entries'
        OBVIOUS
    <2> PICK c : c = NewCandidates
        OBVIOUS
    <2>1. after = UpdateEntries(its, c) /\ c \in Seq(OutBytes)
        BY ONLY <1>2, <1>3, <1>4, <1>7, after = entries', c = NewCandidates
    <2>2. /\ AreEntries(after) /\ DOMAIN after = DOMAIN entries \cup {its}
          /\ KeepsOthers(its, after)
          /\ Adds(Split(c), UnitsOf(entries, its), UnitsOf(after, its))
        BY ONLY <1>5, <2>1, UpdateAdds
    <2> QED
        BY ONLY <1>7, <2>2, after = entries', c = NewCandidates,
                its = ToEncoding(jisyo_encoding, "euc", Midashi(ChompedLine))
           DEF KeepsOthers
<1> QED
    BY ONLY <1>6, <1>7

LEMMA NextJisyoTyped ==
    ASSUME ReaderInv, jisyo # <<>>, NextJisyo
    PROVE  ReaderInv'
<1>1. jisyo \in Seq(Seq(0..255)) /\ jisyo # <<>>
    BY DEF ReaderInv
<1> PICK T : T = Seq(0..255)
    OBVIOUS
<1>2. Tail(jisyo) \in Seq(T)
    BY ONLY <1>1, T = Seq(0..255)
<1>3. jisyo' = Tail(jisyo) /\ reader' = "open"
    BY DEF NextJisyo
<1>4. jisyo' \in Seq(Seq(0..255))
    BY ONLY <1>2, <1>3, T = Seq(0..255)
<1>5. UNCHANGED <<output_encoding, position, entries>>
    BY DEF NextJisyo
<1> QED
    BY <1>3, <1>4, <1>5 DEF ReaderInv

LEMMA InitReaderTyped == InitReader => ReaderInv
<1> SUFFICES ASSUME InitReader
             PROVE  ReaderInv
    OBVIOUS
<1>1. /\ jisyo \in Seq(Seq(0..255)) /\ output_encoding \in {"euc", "utf8"}
      /\ reader = "open" /\ position = 0 /\ entries = <<>>
    BY DEF InitReader, NoEntries
<1>2. DOMAIN <<>> = {}
    OBVIOUS
<1> QED
    BY ONLY <1>1, <1>2 DEF ReaderInv, AreEntries

LEMMA NextReaderTyped == ReaderInv /\ [NextReader]_readerVars => ReaderInv'
<1> SUFFICES ASSUME ReaderInv, [NextReader]_readerVars
             PROVE  ReaderInv'
    OBVIOUS
<1>1. CASE OpenJisyo
    <2>1. SeekSkipUtf8Bom(Head(jisyo)) \in Nat
        BY DEF SeekSkipUtf8Bom, UTF8_BOM
    <2> QED
        BY <1>1, <2>1 DEF ReaderInv, OpenJisyo
<1>2. CASE OpenFails
    BY <1>2 DEF ReaderInv, OpenFails
<1>3. CASE AllJisyoRead
    BY <1>3 DEF ReaderInv, AllJisyoRead
<1>4. CASE SkipLine
    <2>1. LineLength \in Nat
        BY <1>4, LineFacts DEF SkipLine
    <2> QED
        BY <1>4, <2>1 DEF ReaderInv, SkipLine, ReadOn
<1>5. CASE TakeLine
    <2>1. LineLength \in Nat
        BY <1>5, LineFacts DEF TakeLine
    <2>2. AreEntries(entries')
        BY <1>5, TakeLineAdds
    <2>3. position' = position + LineLength /\ UNCHANGED <<jisyo, output_encoding, reader>>
        BY <1>5 DEF TakeLine, ReadOn
    <2> QED
        BY <2>1, <2>2, <2>3 DEF ReaderInv
<1>6. CASE LinePanics
    BY <1>6 DEF ReaderInv, LinePanics
<1>7. CASE WarningFails
    BY <1>7 DEF ReaderInv, WarningFails
<1>8. CASE EndOfJisyo
    <2>1. jisyo # <<>> /\ NextJisyo
        BY <1>8 DEF ReaderInv, EndOfJisyo
    <2> QED
        BY <2>1, NextJisyoTyped
<1>9. CASE ReadFails
    <2>1. jisyo # <<>> /\ NextJisyo
        BY <1>9 DEF ReaderInv, ReadFails
    <2> QED
        BY <2>1, NextJisyoTyped
<1>10. CASE UNCHANGED readerVars
    BY <1>10 DEF ReaderInv, readerVars
<1> QED
    BY <1>1, <1>2, <1>3, <1>4, <1>5, <1>6, <1>7, <1>8, <1>9, <1>10 DEF NextReader

\* Whatever the bytes of the jisyo are: the entries stay lists of bytes, in either encoding
\* and through every conversion; what is read is always a jisyo that is there.
THEOREM ReaderIsTyped == ReaderSpec => []ReaderInv
<1> QED
    BY InitReaderTyped, NextReaderTyped, PTL DEF ReaderSpec

\* A line adds its candidates to the entry of its midashi and to no other: those that were
\* there keep their places and their annotations, and none is lost, made up or there twice.
THEOREM LinesAdd == ReaderSpec => LinesOnlyAdd
<1> DEFINE Step ==
        reader = "line" =>
          IF position' # position /\ IsTaken(ChompedLine)
          THEN LET its == ToEncoding(jisyo_encoding, "euc", Midashi(ChompedLine))
               IN /\ DOMAIN entries' = DOMAIN entries \cup {its}
                  /\ \A midashi \in DOMAIN entries \ {its} : entries'[midashi] = entries[midashi]
                  /\ Adds(Split(NewCandidates), UnitsOf(entries, its), UnitsOf(entries', its))
          ELSE entries' = entries
<1>1. ReaderInv /\ [NextReader]_readerVars => [Step]_readerVars
    <2> SUFFICES ASSUME ReaderInv, NextReader, reader = "line"
                 PROVE  Step
        OBVIOUS
    <2>1. CASE SkipLine
        <3>1. ~IsTaken(ChompedLine) /\ entries' = entries
            BY <2>1 DEF SkipLine, IsTaken
        <3> QED
            BY ONLY <3>1
    <2>2. CASE TakeLine
        <3>1. LineLength \in Nat \ {0} /\ position \in Nat
            BY <2>2, LineFacts DEF TakeLine, ReaderInv
        <3>2. position' # position
            BY <2>2, <3>1 DEF TakeLine, ReadOn
        <3> QED
            BY ONLY ReaderInv, <2>2, <3>2, TakeLineAdds
    <2>3. CASE LinePanics \/ WarningFails \/ EndOfJisyo \/ ReadFails
        <3>1. position' = position /\ entries' = entries
            BY <2>3 DEF LinePanics, WarningFails, EndOfJisyo, ReadFails, NextJisyo
        <3> QED
            BY ONLY <3>1
    <2>4. ~OpenJisyo /\ ~OpenFails /\ ~AllJisyoRead
        BY DEF OpenJisyo, OpenFails, AllJisyoRead
    <2> QED
        BY ONLY NextReader, <2>1, <2>2, <2>3, <2>4 DEF NextReader
<1> QED
    BY <1>1, ReaderIsTyped, PTL DEF ReaderSpec, LinesOnlyAdd

=============================================================================
