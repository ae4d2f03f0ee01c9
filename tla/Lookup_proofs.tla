---------------------------- MODULE Lookup_proofs ---------------------------
(***************************************************************************)
(* The lookups, for every dictionary, every pattern of failures, every    *)
(* setting and whatever Google answers.  In this order: the texts chosen  *)
(* from Google's answers, put together and cut to the limit; the block    *)
(* cache returns the block asked for unless the last access to the file   *)
(* failed, and Lookup uses it as its specification says; the settings of  *)
(* a server that comes up; what Google delivers and what is kept of it;   *)
(* what is found in the dictionary; and from all of these, the replies.   *)
(***************************************************************************)
EXTENDS Lookup, Candidates_proofs, FiniteSetTheorems

-----------------------------------------------------------------------------
(***************************************************************************)
(* The answers of Google.                                                  *)
(***************************************************************************)

\* What of a list is left: at names the place in the list of each element.
IsSelection(at, list, S, only) ==
    /\ at \in [1..Len(only) -> {i \in 1..Len(list) : list[i] \in S}]
    /\ \A p, q \in 1..Len(only) : at[p] = at[q] => p = q
    /\ \A i \in 1..Len(list) : list[i] \in S => \E p \in 1..Len(only) : at[p] = i
    /\ \A p \in 1..Len(only) : only[p] = list[at[p]]

LEMMA OnlyFacts ==
    ASSUME NEW T, NEW list \in Seq(T), NEW S
    PROVE  /\ Only(list, S) \in Seq(T)
           /\ Range(Only(list, S)) = Range(list) \cap S
           /\ \E at : IsSelection(at, list, S, Only(list, S))
<1> DEFINE N == Len(list)
           pieces == [i \in DOMAIN list |-> IF list[i] \in S THEN <<list[i]>> ELSE <<>>]
           only == Only(list, S)
<1>1. N \in Nat /\ DOMAIN list = 1..N /\ \A i \in 1..N : list[i] \in T
    OBVIOUS
<1>2. pieces \in Seq(Seq(T)) /\ Len(pieces) = N
    <2>1. \A i \in 1..N : <<list[i]>> \in Seq(T) /\ <<>> \in Seq(T)
        BY <1>1
    <2>2. pieces \in [1..N -> Seq(T)]
        BY <1>1, <2>1
    <2> QED
        BY <1>1, <2>2
<1>3. \A i \in 1..N : \A j \in 1..Len(pieces[i]) : j = 1 /\ list[i] \in S /\ pieces[i][j] = list[i]
    BY <1>1
<1>4. \A i \in 1..N : list[i] \in S => 1 \in 1..Len(pieces[i])
    BY <1>1
<1>5. only = FlattenSeq(pieces)
    BY DEF Only
<1> HIDE DEF pieces, only
<1>6. only \in Seq(T)
    BY <1>2, <1>5, FlattenFacts
<1>7. PICK f : ArePlaces(f, pieces, N, only)
    BY <1>2, <1>5, FlattenPlaces
<1> DEFINE at == [p \in 1..Len(only) |-> f[p][1]]
<1>8. ASSUME NEW p \in 1..Len(only)
      PROVE  /\ at[p] \in 1..N /\ list[at[p]] \in S /\ only[p] = list[at[p]]
             /\ f[p] = <<at[p], 1>>
    <2>1. f[p] \in Places(pieces, N)
        BY <1>7 DEF ArePlaces
    <2>2. f[p] = <<f[p][1], f[p][2]>> /\ f[p][1] \in 1..N /\ f[p][2] \in 1..Len(pieces[f[p][1]])
        BY <2>1 DEF Places
    <2>3. only[p] = pieces[f[p][1]][f[p][2]]
        BY <1>7 DEF ArePlaces
    <2>4. at[p] = f[p][1]
        OBVIOUS
    <2> HIDE DEF at
    <2> QED
        BY <1>3, <2>2, <2>3, <2>4
<1>9. ASSUME NEW i \in 1..N, list[i] \in S
      PROVE  \E p \in 1..Len(only) : at[p] = i
    <2>1. <<i, 1>> \in Places(pieces, N)
        BY <1>4, <1>9 DEF Places
    <2>2. PICK p \in 1..Len(only) : f[p] = <<i, 1>>
        BY <1>7, <2>1 DEF ArePlaces
    <2> QED
        BY <2>2
<1>10. at \in [1..Len(only) -> {i \in 1..N : list[i] \in S}]
    BY <1>8
<1> HIDE DEF at
<1>11. ASSUME NEW p \in 1..Len(only), NEW q \in 1..Len(only), at[p] = at[q]
       PROVE  p = q
    <2>1. f[p] = f[q]
        BY <1>8, <1>11
    <2> QED
        BY <1>7, <2>1 DEF ArePlaces
<1>12. IsSelection(at, list, S, only)
    BY <1>8, <1>9, <1>10, <1>11 DEF IsSelection, N
<1>13. Range(only) = Range(list) \cap S
    <2>1. Range(only) = {only[p] : p \in 1..Len(only)} /\ Range(list) = {list[i] : i \in 1..N}
        BY <1>1, <1>6 DEF Range
    <2>2. \A p \in 1..Len(only) : only[p] \in Range(list) \cap S
        BY <1>8, <2>1
    <2>3. ASSUME NEW i \in 1..N, list[i] \in S
          PROVE  list[i] \in Range(only)
        <3>1. PICK p \in 1..Len(only) : at[p] = i
            BY <1>9, <2>3
        <3>2. only[p] = list[i]
            BY <1>8, <3>1
        <3> QED
            BY <2>1, <3>2
    <2> QED
        BY <2>1, <2>2, <2>3
<1> QED
    BY <1>6, <1>12, <1>13 DEF only

-----------------------------------------------------------------------------
(***************************************************************************)
(* All choices of one element of each list.                                *)
(***************************************************************************)

\* A place in each of the first n lists, and the products that stand for them.
ChoicesOf(lists, n) == {f \in [1..n -> Nat] : \A k \in 1..n : f[k] \in 1..Len(lists[k])}

AreChosen(at, lists, n, products) ==
    /\ at \in [1..Len(products) -> ChoicesOf(lists, n)]
    /\ \A p, q \in 1..Len(products) : at[p] = at[q] => p = q
    /\ \A f \in ChoicesOf(lists, n) : \E p \in 1..Len(products) : at[p] = f
    /\ \A p \in 1..Len(products) :
          Len(products[p]) = n /\ \A k \in 1..n : products[p][k] = lists[k][at[p][k]]

\* The pass over one list.
Extended(chosen, list) ==
    FlattenSeq([i \in DOMAIN chosen |-> [j \in DOMAIN list |-> Append(chosen[i], list[j])]])

LEMMA ExtendedType ==
    ASSUME NEW T, NEW chosen \in Seq(Seq(T)), NEW list \in Seq(T)
    PROVE  /\ [i \in DOMAIN chosen |-> [j \in DOMAIN list |-> Append(chosen[i], list[j])]]
                 \in Seq(Seq(Seq(T)))
           /\ Extended(chosen, list) \in Seq(Seq(T))
<1> DEFINE pieces == [i \in DOMAIN chosen |-> [j \in DOMAIN list |-> Append(chosen[i], list[j])]]
<1>1. DOMAIN chosen = 1..Len(chosen) /\ DOMAIN list = 1..Len(list)
      /\ Len(chosen) \in Nat /\ Len(list) \in Nat
    OBVIOUS
<1>2. ASSUME NEW i \in 1..Len(chosen)
      PROVE  pieces[i] \in Seq(Seq(T))
    <2>1. \A j \in 1..Len(list) : Append(chosen[i], list[j]) \in Seq(T)
        OBVIOUS
    <2>2. pieces[i] \in [1..Len(list) -> Seq(T)]
        BY <1>1, <2>1
    <2> QED
        BY <1>1, <2>2
<1>3. pieces \in Seq(Seq(Seq(T)))
    <2>1. pieces \in [1..Len(chosen) -> Seq(Seq(T))]
        BY <1>1, <1>2
    <2> QED
        BY <1>1, <2>1
<1> HIDE DEF pieces
<1>4. FlattenSeq(pieces) \in Seq(Seq(T))
    BY <1>3, FlattenFacts
<1> QED
    BY <1>3, <1>4 DEF pieces, Extended

\* One more list: every choice so far with every place of the new list.
LEMMA ChosenStep ==
    ASSUME NEW T, NEW lists \in Seq(Seq(T)), NEW n \in Nat, n + 1 \in 1..Len(lists),
           NEW chosen \in Seq(Seq(T)), NEW at, AreChosen(at, lists, n, chosen)
    PROVE  \E new : AreChosen(new, lists, n + 1, Extended(chosen, lists[n + 1]))
<1> DEFINE list == lists[n + 1]
           pieces == [i \in DOMAIN chosen |-> [j \in DOMAIN list |-> Append(chosen[i], list[j])]]
           after == Extended(chosen, list)
<1>1. list \in Seq(T) /\ DOMAIN list = 1..Len(list) /\ Len(list) \in Nat
      /\ DOMAIN chosen = 1..Len(chosen) /\ Len(chosen) \in Nat
    OBVIOUS
<1> HIDE DEF list
<1>2. /\ pieces \in Seq(Seq(Seq(T))) /\ Len(pieces) = Len(chosen)
      /\ \A i \in 1..Len(chosen) : pieces[i] = [j \in 1..Len(list) |-> Append(chosen[i], list[j])]
    <2>1. pieces \in Seq(Seq(Seq(T)))
        BY <1>1, ExtendedType
    <2>2. DOMAIN pieces = 1..Len(chosen)
        BY <1>1
    <2>3. \A i \in 1..Len(chosen) : pieces[i] = [j \in 1..Len(list) |-> Append(chosen[i], list[j])]
        BY <1>1
    <2> HIDE DEF pieces
    <2> QED
        BY <1>1, <2>1, <2>2, <2>3
<1>3. after = FlattenSeq(pieces)
    BY DEF Extended
<1> HIDE DEF pieces, after
<1>4. PICK f : ArePlaces(f, pieces, Len(chosen), after)
    BY <1>2, <1>3, FlattenPlaces
<1>5. ASSUME NEW i \in 1..Len(chosen)
      PROVE  /\ Len(pieces[i]) = Len(list)
             /\ \A j \in 1..Len(list) : pieces[i][j] = Append(chosen[i], list[j])
    <2>1. pieces[i] = [j \in 1..Len(list) |-> Append(chosen[i], list[j])]
        BY <1>2
    <2>2. DOMAIN pieces[i] = 1..Len(list)
        BY <2>1
    <2>3. pieces[i] \in Seq(Seq(T))
        BY <1>2
    <2>4. Len(pieces[i]) = Len(list)
        BY <1>1, <2>2, <2>3
    <2> QED
        BY <2>1, <2>4
<1> DEFINE Choice(c, j) == [k \in 1..(n + 1) |-> IF k = n + 1 THEN j ELSE c[k]]
           new == [p \in 1..Len(after) |-> Choice(at[f[p][1]], f[p][2])]
<1>6. ASSUME NEW p \in 1..Len(after)
      PROVE  /\ f[p][1] \in 1..Len(chosen) /\ f[p][2] \in 1..Len(list)
             /\ f[p] = <<f[p][1], f[p][2]>>
             /\ after[p] = Append(chosen[f[p][1]], list[f[p][2]])
    <2>1. f[p] \in Places(pieces, Len(chosen))
        BY <1>4 DEF ArePlaces
    <2>2. /\ f[p][1] \in 1..Len(chosen) /\ f[p][2] \in 1..Len(pieces[f[p][1]])
          /\ f[p] = <<f[p][1], f[p][2]>>
        BY <2>1, SMTT(20) DEF Places
    <2>3. after[p] = pieces[f[p][1]][f[p][2]]
        BY <1>4 DEF ArePlaces
    <2> QED
        BY <1>5, <2>2, <2>3
<1>7. ASSUME NEW c \in ChoicesOf(lists, n), NEW j \in 1..Len(list)
      PROVE  /\ Choice(c, j) \in ChoicesOf(lists, n + 1)
             /\ Choice(c, j)[n + 1] = j /\ \A k \in 1..n : Choice(c, j)[k] = c[k]
    <2>1. n + 1 \in 1..(n + 1) /\ \A k \in 1..n : k \in 1..(n + 1) /\ k # n + 1
        OBVIOUS
    <2>2. \A k \in 1..(n + 1) : k = n + 1 \/ k \in 1..n
        OBVIOUS
    <2>3. c \in [1..n -> Nat] /\ \A k \in 1..n : c[k] \in 1..Len(lists[k])
        BY DEF ChoicesOf
    <2>4. Choice(c, j)[n + 1] = j /\ \A k \in 1..n : Choice(c, j)[k] = c[k]
        BY <2>1
    <2>5. Choice(c, j) \in [1..(n + 1) -> Nat]
        BY <2>2, <2>3
    <2>6. \A k \in 1..(n + 1) : Choice(c, j)[k] \in 1..Len(lists[k])
        <3> HIDE DEF Choice
        <3> QED
            BY <2>2, <2>3, <2>4 DEF list
    <2> HIDE DEF Choice
    <2> QED
        BY <2>4, <2>5, <2>6 DEF ChoicesOf
<1>8. ASSUME NEW d \in ChoicesOf(lists, n + 1)
      PROVE  \E c \in ChoicesOf(lists, n) : \E j \in 1..Len(list) : d = Choice(c, j)
    <2> DEFINE c == [k \in 1..n |-> d[k]]
    <2>1. n + 1 \in 1..(n + 1) /\ \A k \in 1..n : k \in 1..(n + 1) /\ k # n + 1
        OBVIOUS
    <2>2. \A k \in 1..(n + 1) : k = n + 1 \/ k \in 1..n
        OBVIOUS
    <2>3. d \in [1..(n + 1) -> Nat] /\ \A k \in 1..(n + 1) : d[k] \in 1..Len(lists[k])
        BY DEF ChoicesOf
    <2>4. c \in ChoicesOf(lists, n)
        BY <2>1, <2>3 DEF ChoicesOf
    <2>5. d[n + 1] \in 1..Len(list)
        BY <2>1, <2>3 DEF list
    <2>6. d = Choice(c, d[n + 1])
        <3>1. \A k \in 1..(n + 1) : d[k] = IF k = n + 1 THEN d[n + 1] ELSE c[k]
            BY <2>2
        <3>2. d = [k \in 1..(n + 1) |-> d[k]]
            BY <2>3
        <3> HIDE DEF c
        <3> QED
            BY <3>1, <3>2
    <2> HIDE DEF c, Choice
    <2> QED
        BY <2>4, <2>5, <2>6
<1> HIDE DEF Choice
<1>9. ASSUME NEW p \in 1..Len(after)
      PROVE  /\ at[f[p][1]] \in ChoicesOf(lists, n)
             /\ new[p] = Choice(at[f[p][1]], f[p][2]) /\ new[p] \in ChoicesOf(lists, n + 1)
    BY <1>6, <1>7 DEF AreChosen
<1>10. new \in [1..Len(after) -> ChoicesOf(lists, n + 1)]
    BY <1>9
<1> HIDE DEF new
<1>11. ASSUME NEW p \in 1..Len(after), NEW q \in 1..Len(after), new[p] = new[q]
       PROVE  p = q
    <2> DEFINE c == at[f[p][1]]
               d == at[f[q][1]]
    <2>1. c \in ChoicesOf(lists, n) /\ d \in ChoicesOf(lists, n)
          /\ Choice(c, f[p][2]) = Choice(d, f[q][2])
        BY <1>9, <1>11
    <2>2. f[p][2] = f[q][2] /\ \A k \in 1..n : c[k] = d[k]
        <3> HIDE DEF c, d
        <3>1. f[p][2] \in 1..Len(list) /\ f[q][2] \in 1..Len(list)
            BY <1>6
        <3>2. Choice(c, f[p][2])[n + 1] = f[p][2] /\ \A k \in 1..n : Choice(c, f[p][2])[k] = c[k]
            BY <1>7, <2>1, <3>1
        <3>3. Choice(d, f[q][2])[n + 1] = f[q][2] /\ \A k \in 1..n : Choice(d, f[q][2])[k] = d[k]
            BY <1>7, <2>1, <3>1
        <3> QED
            BY <2>1, <3>2, <3>3
    <2>3. c = d
        <3> HIDE DEF c, d
        <3>1. c = [k \in 1..n |-> c[k]] /\ d = [k \in 1..n |-> d[k]]
            BY <2>1 DEF ChoicesOf
        <3> QED
            BY <2>2, <3>1
    <2>4. f[p][1] = f[q][1]
        <3>1. PICK i \in 1..Len(chosen), j \in 1..Len(chosen) : i = f[p][1] /\ j = f[q][1]
            BY <1>6
        <3>2. at[i] = at[j]
            BY <2>3, <3>1
        <3>3. \A k, l \in 1..Len(chosen) : at[k] = at[l] => k = l
            BY Zenon DEF AreChosen
        <3>4. i = j
            <4> HIDE DEF c, d
            <4> QED
                BY ONLY <3>2, <3>3
        <3> QED
            BY ONLY <3>1, <3>4
    <2>5. f[p] = f[q]
        BY <1>6, <2>2, <2>4
    <2> QED
        BY <1>4, <2>5 DEF ArePlaces
<1>12. ASSUME NEW d \in ChoicesOf(lists, n + 1)
       PROVE  \E p \in 1..Len(after) : new[p] = d
    <2>1. PICK c \in ChoicesOf(lists, n), j \in 1..Len(list) : d = Choice(c, j)
        BY <1>8
    <2>2. PICK i \in 1..Len(chosen) : at[i] = c
        BY DEF AreChosen
    <2>3. <<i, j>> \in Places(pieces, Len(chosen))
        <3>0. Len(pieces[i]) = Len(list)
            BY <1>5, <2>2
        <3>1. j \in Nat /\ j \in 1..Len(pieces[i])
            BY <1>1, <2>1, <3>0
        <3> QED
            BY <2>2, <3>1 DEF Places
    <2>4. PICK p \in 1..Len(after) : f[p] = <<i, j>>
        BY <1>4, <2>3 DEF ArePlaces
    <2>5. new[p] = Choice(at[f[p][1]], f[p][2]) /\ f[p][1] = i /\ f[p][2] = j
        BY <1>9, <2>4
    <2> QED
        BY <2>1, <2>2, <2>5
<1>13. ASSUME NEW p \in 1..Len(after)
       PROVE  Len(after[p]) = n + 1 /\ \A k \in 1..(n + 1) : after[p][k] = lists[k][new[p][k]]
    <2> DEFINE before == chosen[f[p][1]]
    <2>1. /\ before \in Seq(T) /\ Len(before) = n
          /\ \A k \in 1..n : before[k] = lists[k][at[f[p][1]][k]]
        <3>1. PICK i \in 1..Len(chosen) : i = f[p][1]
            BY <1>6
        <3>2. chosen[i] \in Seq(T)
            OBVIOUS
        <3> QED
            BY <3>1, <3>2 DEF AreChosen
    <2>2. list[f[p][2]] \in T
        BY <1>1, <1>6
    <2>3. after[p] = Append(before, list[f[p][2]])
        BY <1>6
    <2>4. new[p][n + 1] = f[p][2] /\ \A k \in 1..n : new[p][k] = at[f[p][1]][k]
        <3>1. PICK c \in ChoicesOf(lists, n) : c = at[f[p][1]]
            BY <1>9
        <3>2. PICK j \in 1..Len(list) : j = f[p][2]
            BY <1>6
        <3>3. new[p] = Choice(c, j)
            BY <1>9, <3>1, <3>2
        <3>4. Choice(c, j)[n + 1] = j /\ \A k \in 1..n : Choice(c, j)[k] = c[k]
            BY <1>7, <3>1, <3>2
        <3> QED
            BY <3>1, <3>2, <3>3, <3>4, Zenon
    <2> HIDE DEF before
    <2>5. \A k \in 1..(n + 1) : k = n + 1 \/ k \in 1..n
        OBVIOUS
    <2>6. Len(after[p]) = n + 1 /\ after[p][n + 1] = list[f[p][2]]
          /\ \A k \in 1..n : after[p][k] = before[k]
        BY <2>1, <2>2, <2>3
    <2> QED
        BY <2>1, <2>4, <2>5, <2>6 DEF list
<1>14. AreChosen(new, lists, n + 1, after)
    BY <1>10, <1>11, <1>12, <1>13 DEF AreChosen
<1> QED
    BY <1>14 DEF after, list
\* The products after each of the lists, as the loops build them.
LEMMA ProductsSteps ==
    ASSUME NEW T, NEW lists \in Seq(Seq(T))
    PROVE  \E chain \in [0..Len(lists) -> Seq(Seq(T))] :
              /\ chain[0] = << <<>> >>
              /\ \A n \in 1..Len(lists) : chain[n] = Extended(chain[n - 1], lists[n])
              /\ Products(lists) = chain[Len(lists)]
<1> DEFINE N == Len(lists)
           V == Seq(Seq(T))
           step == [p \in V \X (1..N) |-> Extended(p[1], lists[p[2]])]
           Equation(g) == g = [s \in SUBSET (1..N) |->
                                  IF s = {} THEN << <<>> >>
                                  ELSE Extended(g[s \ {Max(s)}], lists[Max(s)])]
           iter == CHOOSE g : Equation(g)
<1>1. N \in Nat /\ << <<>> >> \in V /\ DOMAIN lists = 1..N /\ \A i \in 1..N : lists[i] \in Seq(T)
    OBVIOUS
<1>2. \A v \in V : \A i \in 1..N : Extended(v, lists[i]) \in V
    BY <1>1, ExtendedType
<1>3. Products(lists) = iter[1..N]
    BY <1>1 DEF Products, FoldLeft, MapThenFoldSet, Extended
<1>4. ASSUME NEW s \in SUBSET (1..N), s # {}
      PROVE  Max(s) \in 1..N /\ s \ {Max(s)} \in SUBSET (1..N)
    BY <1>1, <1>4, MaxIsGreatest
<1> HIDE DEF N, V
<1>5. step \in [V \X (1..N) -> V]
    BY <1>2
<1>6. PICK g : IsFold(g, V, N, << <<>> >>, step)
    <2> HIDE DEF step
    <2> QED
        BY <1>1, <1>5, FoldExists
<1>7. Equation(g)
    <2>1. ASSUME NEW s \in SUBSET (1..N)
          PROVE  g[s] = IF s = {} THEN << <<>> >> ELSE Extended(g[s \ {Max(s)}], lists[Max(s)])
        BY <1>4, <1>6 DEF IsFold
    <2>2. g = [s \in SUBSET (1..N) |-> g[s]]
        BY <1>6 DEF IsFold
    <2> QED
        BY <2>1, <2>2
<1>8. Equation(iter)
    BY <1>7
<1> HIDE DEF iter
<1>9. iter[{}] = << <<>> >>
    BY <1>8
<1>10. ASSUME NEW s \in SUBSET (1..N), s # {}, iter[s \ {Max(s)}] \in V
       PROVE  iter[s] = step[<<iter[s \ {Max(s)}], Max(s)>>]
    BY <1>4, <1>8, <1>10
<1>11. PICK chain : IsChainTo(chain, V, N, << <<>> >>, step, iter[1..N])
    <2> HIDE DEF step
    <2>1. FoldsWithin(iter, V, N, << <<>> >>, step)
        BY <1>9, <1>10 DEF FoldsWithin
    <2> QED
        BY <1>1, <1>5, <2>1, IterIsChain
<1>12. ASSUME NEW n \in 1..N
       PROVE  chain[n] = Extended(chain[n - 1], lists[n])
    <2>1. chain[n - 1] \in V
        BY <1>1, <1>11 DEF IsChain, IsChainTo
    <2> QED
        BY <1>11, <2>1 DEF IsChain, IsChainTo
<1> QED
    BY <1>3, <1>11, <1>12 DEF IsChain, IsChainTo, N, V

\* All choices of one element of each list, each once.
LEMMA ProductsFacts ==
    ASSUME NEW T, NEW lists \in Seq(Seq(T))
    PROVE  /\ Products(lists) \in Seq(Seq(T))
           /\ \E at : AreChosen(at, lists, Len(lists), Products(lists))
<1> DEFINE N == Len(lists)
<1>1. N \in Nat
    OBVIOUS
<1>2. PICK chain \in [0..N -> Seq(Seq(T))] :
              /\ chain[0] = << <<>> >>
              /\ \A n \in 1..N : chain[n] = Extended(chain[n - 1], lists[n])
              /\ Products(lists) = chain[N]
    BY ProductsSteps
<1> DEFINE S == {n \in 0..N : \E at : AreChosen(at, lists, n, chain[n])}
<1>3. 0 \in S
    <2> DEFINE none == [k \in 1..0 |-> 0]
               at == [p \in 1..1 |-> none]
    <2>1. ChoicesOf(lists, 0) = {none}
        <3>1. 1..0 = {}
            OBVIOUS
        <3>2. none \in ChoicesOf(lists, 0)
            BY <3>1 DEF ChoicesOf
        <3>3. ASSUME NEW f \in ChoicesOf(lists, 0)
              PROVE  f = none
            <4>1. f \in [1..0 -> Nat]
                BY DEF ChoicesOf
            <4> QED
                BY <3>1, <4>1
        <3> QED
            BY <3>2, <3>3
    <2>2. Len(chain[0]) = 1 /\ Len(chain[0][1]) = 0
        BY <1>2
    <2> HIDE DEF none
    <2>3. at \in [1..1 -> ChoicesOf(lists, 0)] /\ at[1] = none
        BY <2>1
    <2> HIDE DEF at
    <2>4. \A p \in 1..1 : p = 1
        OBVIOUS
    <2>5. AreChosen(at, lists, 0, chain[0])
        <3>1. \A k \in 1..0 : FALSE
            OBVIOUS
        <3>2. 1 \in 1..1
            OBVIOUS
        <3>3. \A f \in ChoicesOf(lists, 0) : \E p \in 1..1 : at[p] = f
            BY <2>1, <2>3, <3>2
        <3> QED
            BY <2>2, <2>3, <2>4, <3>1, <3>3 DEF AreChosen
    <2> QED
        BY <1>1, <2>5
<1>4. ASSUME NEW n \in 0..(N - 1), n \in S
      PROVE  n + 1 \in S
    <2>1. n \in Nat /\ n + 1 \in 1..N /\ (n + 1) - 1 = n /\ n \in 0..N /\ n + 1 \in 0..N
        BY <1>1
    <2>2. PICK at : AreChosen(at, lists, n, chain[n])
        BY <1>4
    <2>3. chain[n + 1] = Extended(chain[n], lists[n + 1])
        <3>1. chain[n + 1] = Extended(chain[(n + 1) - 1], lists[n + 1])
            BY <1>2, <2>1, Zenon
        <3> QED
            BY <2>1, <3>1
    <2>4. chain[n] \in Seq(Seq(T))
        BY <1>2, <2>1
    <2>5. \E new : AreChosen(new, lists, n + 1, Extended(chain[n], lists[n + 1]))
        BY <2>1, <2>2, <2>4, ChosenStep
    <2> QED
        BY <2>1, <2>3, <2>5
<1>5. N \in S
    <2> HIDE DEF S, N
    <2>1. 0..N \subseteq S
        BY <1>1, <1>3, <1>4, BoundedInduction
    <2> QED
        BY <1>1, <2>1
<1>6. Products(lists) \in Seq(Seq(T))
    <2> HIDE DEF N
    <2> QED
        BY <1>1, <1>2
<1> QED
    BY <1>2, <1>5, <1>6
-----------------------------------------------------------------------------
(***************************************************************************)
(* The answer of Japanese Input.                                           *)
(***************************************************************************)

\* How many segments are put together, and the texts of each.
Count(segments) == IF IsMerged(segments) THEN Len(segments) ELSE 1

Lists(segments) == [k \in 1..Count(segments) |-> Texts(segments[k])]

IsPick(cfg, segments, choice) ==
    /\ choice \in [1..Count(segments) -> Nat]
    /\ \A k \in 1..Count(segments) :
          /\ choice[k] \in 1..Len(Lists(segments)[k])
          /\ IsWanted(cfg, Lists(segments)[k][choice[k]])

LEMMA SegmentFacts ==
    ASSUME NEW segments \in Seq(Segment), segments # <<>>
    PROVE  /\ Count(segments) \in 1..Len(segments)
           /\ Lists(segments) \in Seq(Seq(Seq(Nat))) /\ Len(Lists(segments)) = Count(segments)
           /\ Count(segments) \in Nat
           /\ \A k \in 1..Count(segments) : Lists(segments)[k] \in Seq(Seq(Nat))
<1> DEFINE n == Count(segments)
           lists == Lists(segments)
<1>1. Len(segments) \in Nat /\ Len(segments) # 0
    OBVIOUS
<1>2. n \in 1..Len(segments)
    BY <1>1 DEF Count
<1>3. ASSUME NEW k \in 1..Len(segments)
      PROVE  Texts(segments[k]) \in Seq(Seq(Nat))
    <2> DEFINE list == segments[k].candidates
               texts == Texts(segments[k])
               T == Seq(Nat) \cup {NotText}
    <2>1. list \in Seq(T)
        <3>1. segments[k] \in [midashi : Seq(Nat) \cup {NotText}, candidates : Seq(Seq(Nat) \cup {NotText})]
            <4>1. segments[k] \in Segment
                OBVIOUS
            <4> QED
                BY <4>1, Zenon DEF Segment
        <3> QED
            BY <3>1, Zenon
    <2>2. texts = Only(list, Range(list) \ {NotText})
        BY DEF Texts
    <2> HIDE DEF list, texts
    <2>3. texts \in Seq(T) /\ Range(texts) = Range(list) \cap (Range(list) \ {NotText})
        <3> HIDE DEF T
        <3> QED
            BY <2>1, <2>2, OnlyFacts
    <2>4. ASSUME NEW j \in 1..Len(texts)
          PROVE  texts[j] \in Seq(Nat)
        <3>1. texts[j] \in Range(texts) /\ texts[j] \in T
            BY <2>3 DEF Range
        <3> QED
            BY <2>3, <3>1
    <2>5. texts \in Seq(Seq(Nat))
        BY <2>3, <2>4
    <2> QED
        BY <2>5 DEF texts
<1>4. lists \in [1..n -> Seq(Seq(Nat))]
    <2>1. \A k \in 1..n : k \in 1..Len(segments)
        BY <1>1, <1>2
    <2> QED
        BY <1>3, <2>1 DEF Lists
<1> HIDE DEF n, lists
<1>5. n \in Nat
    BY <1>2
<1>6. lists \in Seq(Seq(Seq(Nat))) /\ Len(lists) = n
    BY <1>4, <1>5
<1>7. \A k \in 1..n : lists[k] \in Seq(Seq(Nat))
    BY <1>4
<1> QED
    BY <1>2, <1>5, <1>6, <1>7 DEF n, lists

\* Picks by its members.
LEMMA PicksFacts ==
    ASSUME NEW cfg, NEW segments \in Seq(Segment), segments # <<>>, NEW choice
    PROVE  choice \in Picks(cfg, segments) <=> IsPick(cfg, segments, choice)
<1> DEFINE n == Count(segments)
           lists == Lists(segments)
           wanted == [k \in 1..n |-> {j \in DOMAIN lists[k] : IsWanted(cfg, lists[k][j])}]
<1>1. n \in Nat /\ \A k \in 1..n : lists[k] \in Seq(Seq(Nat)) /\ lists[k] = Texts(segments[k])
    <2>1. \A k \in 1..n : lists[k] = Texts(segments[k])
        BY DEF Lists
    <2> QED
        BY <2>1, SegmentFacts
<1>2. wanted = [k \in 1..n |-> {j \in DOMAIN Texts(segments[k]) :
                                     IsWanted(cfg, Texts(segments[k])[j])}]
    BY <1>1
<1>3. Picks(cfg, segments)
        = {c \in [1..n -> UNION Range(wanted)] : \A k \in 1..n : c[k] \in wanted[k]}
    BY <1>2 DEF Picks, Count
<1>4. \A k \in 1..n : DOMAIN lists[k] = 1..Len(lists[k]) /\ Len(lists[k]) \in Nat
    BY <1>1
<1>5. \A k \in 1..n : \A j : j \in wanted[k] <=> j \in 1..Len(lists[k]) /\ IsWanted(cfg, lists[k][j])
    BY <1>4
<1>6. \A k \in 1..n : wanted[k] \in Range(wanted)
    BY DEF Range
<1>7. \A k \in 1..n : \A j \in wanted[k] : j \in Nat
    BY <1>4, <1>5
<1> HIDE DEF wanted, n, lists
<1>8. ASSUME choice \in Picks(cfg, segments)
      PROVE  IsPick(cfg, segments, choice)
    <2>1. choice \in [1..n -> UNION Range(wanted)] /\ \A k \in 1..n : choice[k] \in wanted[k]
        BY <1>3, <1>8
    <2>2. choice \in [1..n -> Nat]
        BY <1>7, <2>1
    <2> QED
        BY <1>5, <2>1, <2>2 DEF IsPick, n, lists
<1>9. ASSUME IsPick(cfg, segments, choice)
      PROVE  choice \in Picks(cfg, segments)
    <2>1. choice \in [1..n -> Nat] /\ \A k \in 1..n : choice[k] \in wanted[k]
        BY <1>5, <1>9 DEF IsPick, n, lists
    <2>2. choice \in [1..n -> UNION Range(wanted)]
        BY <1>6, <2>1
    <2> QED
        BY <1>3, <2>1, <2>2
<1> QED
    BY <1>8, <1>9

\* The texts of a choice, and the candidate made of them.
Parts(segments, choice) == [k \in 1..Count(segments) |-> Lists(segments)[k][choice[k]]]

Candidate(segments, parts) ==
    FlattenSeq(IF IsMerged(segments) /\ ~ShouldAddTailCandidates(Last(segments).midashi)
               THEN Front(parts) ELSE parts)

LEMMA JoinFacts ==
    ASSUME NEW cfg, NEW segments \in Seq(Segment), segments # <<>>,
           NEW choice \in Picks(cfg, segments)
    PROVE  /\ Parts(segments, choice) \in Seq(Seq(Nat))
           /\ Len(Parts(segments, choice)) = Count(segments)
           /\ Join(segments, choice) = Candidate(segments, Parts(segments, choice))
           /\ Join(segments, choice) \in Seq(Nat)
<1> DEFINE n == Count(segments)
           lists == Lists(segments)
           parts == Parts(segments, choice)
<1>1. n \in Nat /\ \A k \in 1..n : lists[k] \in Seq(Seq(Nat)) /\ lists[k] = Texts(segments[k])
    <2>1. \A k \in 1..n : lists[k] = Texts(segments[k])
        BY DEF Lists
    <2> QED
        BY <2>1, SegmentFacts
<1>2. choice \in [1..n -> Nat] /\ \A k \in 1..n : choice[k] \in 1..Len(lists[k])
    BY PicksFacts DEF IsPick
<1>3. DOMAIN choice = 1..n
    BY <1>2
<1>4. parts = [k \in DOMAIN choice |-> Texts(segments[k])[choice[k]]]
    BY <1>1, <1>3 DEF Parts
<1>5. parts \in [1..n -> Seq(Nat)]
    <2>1. parts = [k \in 1..n |-> lists[k][choice[k]]]
        BY DEF Parts
    <2> HIDE DEF parts, n, lists
    <2> QED
        BY <1>1, <1>2, <2>1
<1> HIDE DEF n, lists
<1>6. Join(segments, choice) = Candidate(segments, parts)
    <2> HIDE DEF parts
    <2> QED
        BY <1>4 DEF Join, Candidate
<1> HIDE DEF parts
<1>7. parts \in Seq(Seq(Nat)) /\ Len(parts) = n
    BY <1>1, <1>5
<1>8. Front(parts) \in Seq(Seq(Nat))
    BY <1>7 DEF Front
<1>9. Candidate(segments, parts) \in Seq(Nat)
    <2>1. PICK p \in Seq(Seq(Nat)) : Candidate(segments, parts) = FlattenSeq(p)
        BY <1>7, <1>8 DEF Candidate
    <2> QED
        BY <2>1, FlattenFacts
<1> QED
    BY <1>6, <1>7, <1>9 DEF parts, n
\* The choices without an unwanted part; pick names the choice each stands for.
Chosen(cfg, segments) ==
    LET products == Products(Lists(segments))
    IN Only(products, {parts \in Range(products) : ShouldAdd(cfg, parts)})

ArePicks(pick, cfg, segments, chosen) ==
    /\ pick \in [1..Len(chosen) -> Picks(cfg, segments)]
    /\ \A p, q \in 1..Len(chosen) : pick[p] = pick[q] => p = q
    /\ \A choice \in Picks(cfg, segments) : \E p \in 1..Len(chosen) : pick[p] = choice
    /\ \A p \in 1..Len(chosen) : chosen[p] = Parts(segments, pick[p])

LEMMA ChosenFacts ==
    ASSUME NEW cfg, NEW segments \in Seq(Segment), segments # <<>>
    PROVE  /\ Chosen(cfg, segments) \in Seq(Seq(Seq(Nat)))
           /\ \E pick : ArePicks(pick, cfg, segments, Chosen(cfg, segments))
<1> DEFINE n == Count(segments)
           lists == Lists(segments)
           products == Products(lists)
           Choosable == {parts \in Range(products) : ShouldAdd(cfg, parts)}
           chosen == Chosen(cfg, segments)
<1>1. n \in Nat /\ lists \in Seq(Seq(Seq(Nat))) /\ Len(lists) = n
    BY SegmentFacts
<1>2. products \in Seq(Seq(Seq(Nat))) /\ \E at : AreChosen(at, lists, n, products)
    <2> HIDE DEF lists, n
    <2>1. PICK m : m = n
        OBVIOUS
    <2>2. products \in Seq(Seq(Seq(Nat))) /\ \E at : AreChosen(at, lists, Len(lists), products)
        BY <1>1, ProductsFacts
    <2> QED
        BY <1>1, <2>2
<1>3. PICK at : AreChosen(at, lists, n, products)
    BY <1>2
<1>4. chosen = Only(products, Choosable)
    BY DEF Chosen
<1>5. \A p \in 1..Len(products) : products[p] \in Choosable <=> ShouldAdd(cfg, products[p])
    <2>1. \A p \in 1..Len(products) : products[p] \in Range(products)
        <3> HIDE DEF products
        <3> QED
            BY <1>2 DEF Range
    <2> QED
        BY <2>1
<1> HIDE DEF n, lists, products, Choosable, chosen
<1>6. chosen \in Seq(Seq(Seq(Nat))) /\ \E sel : IsSelection(sel, products, Choosable, chosen)
    BY <1>2, <1>4, OnlyFacts
<1>7. PICK sel : IsSelection(sel, products, Choosable, chosen)
    BY <1>6
<1>8. ASSUME NEW p \in 1..Len(products)
      PROVE  /\ at[p] \in ChoicesOf(lists, n)
             /\ products[p] = Parts(segments, at[p])
             /\ ShouldAdd(cfg, products[p]) <=> at[p] \in Picks(cfg, segments)
    <2>1. /\ at[p] \in ChoicesOf(lists, n) /\ Len(products[p]) = n
          /\ \A k \in 1..n : products[p][k] = lists[k][at[p][k]]
        BY <1>3 DEF AreChosen
    <2>2. products[p] \in Seq(Seq(Nat))
        BY <1>2
    <2>3. DOMAIN products[p] = 1..n
        BY <2>1, <2>2
    <2>4. products[p] = [k \in 1..n |-> products[p][k]]
        <3>1. PICK s \in Seq(Seq(Nat)) : s = products[p]
            BY <2>2
        <3>2. s = [k \in DOMAIN s |-> s[k]]
            OBVIOUS
        <3> QED
            BY <2>3, <3>1, <3>2
    <2>5. products[p] = Parts(segments, at[p])
        BY <2>1, <2>4 DEF Parts, n, lists
    <2>6. ShouldAdd(cfg, products[p]) <=> \A k \in 1..n : IsWanted(cfg, lists[k][at[p][k]])
        BY <2>1, <2>3 DEF ShouldAdd
    <2>7. at[p] \in [1..n -> Nat] /\ \A k \in 1..n : at[p][k] \in 1..Len(lists[k])
        BY <2>1 DEF ChoicesOf
    <2>8. ShouldAdd(cfg, products[p]) <=> IsPick(cfg, segments, at[p])
        BY <2>6, <2>7 DEF IsPick, n, lists
    <2> QED
        BY <2>1, <2>5, <2>8, PicksFacts
<1>9. ASSUME NEW choice \in Picks(cfg, segments)
      PROVE  choice \in ChoicesOf(lists, n)
    BY PicksFacts DEF IsPick, ChoicesOf, n, lists
<1> DEFINE pick == [q \in 1..Len(chosen) |-> at[sel[q]]]
<1>10. ASSUME NEW q \in 1..Len(chosen)
       PROVE  /\ sel[q] \in 1..Len(products) /\ pick[q] = at[sel[q]]
              /\ pick[q] \in Picks(cfg, segments)
              /\ chosen[q] = Parts(segments, pick[q])
    <2>1. /\ sel[q] \in 1..Len(products) /\ products[sel[q]] \in Choosable
          /\ chosen[q] = products[sel[q]]
        BY <1>7 DEF IsSelection
    <2> QED
        BY <1>5, <1>8, <2>1
<1>11. pick \in [1..Len(chosen) -> Picks(cfg, segments)]
    BY <1>10
<1> HIDE DEF pick
<1>12. ASSUME NEW p \in 1..Len(chosen), NEW q \in 1..Len(chosen), pick[p] = pick[q]
       PROVE  p = q
    <2>1. at[sel[p]] = at[sel[q]] /\ sel[p] \in 1..Len(products) /\ sel[q] \in 1..Len(products)
        BY <1>10, <1>12
    <2>2. sel[p] = sel[q]
        BY <1>3, <2>1 DEF AreChosen
    <2> QED
        BY <1>7, <2>2 DEF IsSelection
<1>13. ASSUME NEW choice \in Picks(cfg, segments)
       PROVE  \E q \in 1..Len(chosen) : pick[q] = choice
    <2>1. PICK p \in 1..Len(products) : at[p] = choice
        BY <1>3, <1>9 DEF AreChosen
    <2>2. products[p] \in Choosable
        BY <1>5, <1>8, <2>1
    <2>3. PICK q \in 1..Len(chosen) : sel[q] = p
        BY <1>7, <2>1, <2>2 DEF IsSelection
    <2> QED
        BY <1>10, <2>1, <2>3
<1>14. ArePicks(pick, cfg, segments, chosen)
    BY <1>10, <1>11, <1>12, <1>13 DEF ArePicks
<1> QED
    BY <1>6, <1>14 DEF chosen

\* As many numbers as the values they stand for.
LEMMA CountOfValues ==
    ASSUME NEW n \in Nat, NEW S, NEW f \in [1..n -> S],
           \A p, q \in 1..n : f[p] = f[q] => p = q,
           \A s \in S : \E p \in 1..n : f[p] = s
    PROVE  IsFiniteSet(S) /\ Cardinality(S) = n
<1>1. IsFiniteSet(1..n) /\ Cardinality(1..n) = n
    BY FS_Interval
<1>2. f \in Surjection(1..n, S) /\ f \in Injection(1..n, S)
    BY DEF Surjection, Injection, IsInjective
<1> QED
    BY <1>1, <1>2, FS_Surjection

\* The list GetGoogleJapaneseInputResult cuts: one candidate for each choice.
LEMMA JapaneseFacts ==
    ASSUME NEW cfg, cfg["google_max_candidates_length"] \in Nat,
           NEW segments \in Seq(Segment), segments # <<>>,
           ~(IsMerged(segments) /\ Last(segments).midashi = NotText)
    PROVE  LET outcome == GetGoogleJapaneseInputResult(cfg, segments)
               picks == Picks(cfg, segments)
               joins == {Join(segments, choice) : choice \in picks}
               limit == cfg["google_max_candidates_length"]
           IN  /\ outcome \in Seq(Seq(Nat)) /\ Len(outcome) <= limit
               /\ Range(outcome) \subseteq joins
               /\ IsFiniteSet(picks)
               /\ Cardinality(picks) <= limit => Range(outcome) = joins
<1> DEFINE outcome == GetGoogleJapaneseInputResult(cfg, segments)
           picks == Picks(cfg, segments)
           joins == {Join(segments, choice) : choice \in picks}
           limit == cfg["google_max_candidates_length"]
           chosen == Chosen(cfg, segments)
           all == [i \in DOMAIN chosen |-> Candidate(segments, chosen[i])]
<1>1. outcome = Limited(cfg, all)
    BY DEF GetGoogleJapaneseInputResult, Chosen, Lists, Count, Candidate
<1>2. chosen \in Seq(Seq(Seq(Nat)))
    BY ChosenFacts
<1>3. PICK pick : ArePicks(pick, cfg, segments, chosen)
    BY ChosenFacts
<1> DEFINE n == Len(chosen)
<1>4. n \in Nat /\ DOMAIN chosen = 1..n
    BY <1>2
<1>5. ASSUME NEW p \in 1..n
      PROVE  pick[p] \in picks /\ all[p] = Join(segments, pick[p]) /\ all[p] \in Seq(Nat)
    <2>1. pick[p] \in picks /\ chosen[p] = Parts(segments, pick[p])
        BY <1>3 DEF ArePicks
    <2>2. all[p] = Candidate(segments, chosen[p])
        BY <1>4
    <2> HIDE DEF all, chosen, n
    <2> QED
        BY <2>1, <2>2, JoinFacts
<1>6. DOMAIN all = 1..n
    BY <1>4
<1> HIDE DEF all
<1>7. all \in [1..n -> Seq(Nat)]
    <2>1. all = [p \in DOMAIN all |-> all[p]]
        BY DEF all
    <2> HIDE DEF n
    <2> QED
        BY <1>5, <1>6, <2>1
<1> HIDE DEF n, chosen, outcome, limit, picks, joins
<1>8. all \in Seq(Seq(Nat)) /\ Len(all) = n
    BY <1>4, <1>7
<1>9. ASSUME NEW choice \in picks
      PROVE  \E p \in 1..n : pick[p] = choice
    BY <1>3 DEF ArePicks, n, picks
<1>10. IsFiniteSet(picks) /\ Cardinality(picks) = n
    <2>1. pick \in [1..n -> picks] /\ \A p, q \in 1..n : pick[p] = pick[q] => p = q
        BY <1>3 DEF ArePicks, n, picks
    <2> QED
        BY <1>4, <1>9, <2>1, CountOfValues
<1>11. Range(all) = joins
    <2>1. Range(all) = {all[p] : p \in 1..n}
        BY <1>6 DEF Range
    <2>2. \A p \in 1..n : all[p] \in joins
        BY <1>5 DEF joins
    <2>3. ASSUME NEW choice \in picks
          PROVE  Join(segments, choice) \in Range(all)
        <3>1. PICK p \in 1..n : pick[p] = choice
            BY <1>9
        <3> QED
            BY <1>5, <2>1, <3>1
    <2> QED
        BY <2>1, <2>2, <2>3 DEF joins
<1>12. limit \in Nat /\ outcome = IF n > limit THEN SubSeq(all, 1, limit) ELSE all
    BY <1>1, <1>8 DEF Limited, limit
<1>13. CASE n > limit
    <2>1. outcome = SubSeq(all, 1, limit)
        BY <1>12, <1>13
    <2>2. /\ outcome \in Seq(Seq(Nat)) /\ Len(outcome) = limit
          /\ \A i \in 1..limit : outcome[i] = all[i] /\ i \in 1..Len(all)
        BY <1>8, <1>12, <1>13, <2>1
    <2>3. Range(outcome) \subseteq Range(all)
        BY <1>8, <2>2 DEF Range
    <2>4. ~(Cardinality(picks) <= limit)
        BY <1>4, <1>10, <1>12, <1>13
    <2> QED
        BY <1>10, <1>11, <1>12, <2>2, <2>3, <2>4 DEF outcome, picks, joins, limit
<1>14. CASE ~(n > limit)
    <2>1. outcome = all /\ n <= limit
        BY <1>4, <1>12, <1>14
    <2> QED
        BY <1>8, <1>10, <1>11, <2>1 DEF outcome, picks, joins, limit
<1> QED
    BY <1>13, <1>14
-----------------------------------------------------------------------------
(***************************************************************************)
(* Both answers.                                                           *)
(***************************************************************************)

LEMMA SuggestFacts ==
    ASSUME NEW answer \in Seq(Seq(Nat)), answer # Failed
    PROVE  LET outcome == RequestGoogleSuggest(answer)
               words == {FirstWord(t) : t \in Range(answer)}
           IN  outcome \in Seq(Seq(Nat)) /\ Range(outcome) = words /\ IsFiniteSet(words)
<1> DEFINE outcome == RequestGoogleSuggest(answer)
           words == {FirstWord(t) : t \in Range(answer)}
           n == Len(answer)
<1>1. n \in Nat /\ DOMAIN answer = 1..n /\ \A i \in 1..n : answer[i] \in Seq(Nat)
    OBVIOUS
<1>2. ASSUME NEW text \in Seq(Nat)
      PROVE  FirstWord(text) \in Seq(Nat)
    <2>1. \A end \in 2..(Len(text) - 1) : SubSeq(text, 1, end - 1) \in Seq(Nat)
        OBVIOUS
    <2> DEFINE end == SelectInSeq(text, LAMBDA letter : letter \in {Space, 9, \h3000})
    <2>2. FirstWord(text) = IF end \in 2..(Len(text) - 1) THEN SubSeq(text, 1, end - 1) ELSE text
        BY DEF FirstWord, SelectInSeq
    <2> HIDE DEF end
    <2> QED
        BY <2>1, <2>2
<1>3. outcome = [i \in 1..n |-> FirstWord(answer[i])]
    BY <1>1 DEF RequestGoogleSuggest
<1> HIDE DEF n, outcome
<1>4. outcome \in Seq(Seq(Nat)) /\ DOMAIN outcome = 1..n
    <2>1. outcome \in [1..n -> Seq(Nat)]
        BY <1>1, <1>2, <1>3
    <2> QED
        BY <1>1, <2>1
<1>5. Range(outcome) = words
    BY <1>1, <1>3, <1>4 DEF Range
<1>6. IsFiniteSet(words)
    <2>1. outcome \in Surjection(1..n, words)
        <3>1. outcome \in [1..n -> words]
            BY <1>1, <1>3 DEF Range
        <3>2. \A w \in words : \E i \in 1..n : outcome[i] = w
            BY <1>4, <1>5 DEF Range
        <3> QED
            BY <3>1, <3>2 DEF Surjection
    <2>2. IsFiniteSet(1..n)
        BY <1>1, FS_Interval
    <2> QED
        BY <2>1, <2>2, FS_Surjection
<1> QED
    BY <1>4, <1>5, <1>6 DEF outcome

\* The length of a list is that of its range if nothing is in it twice.
LEMMA InjectiveLength ==
    ASSUME NEW T, NEW s \in Seq(T)
    PROVE  /\ IsFiniteSet(Range(s)) /\ Cardinality(Range(s)) <= Len(s)
           /\ IsInjective(s) => Cardinality(Range(s)) = Len(s)
<1> DEFINE n == Len(s)
<1>1. n \in Nat /\ DOMAIN s = 1..n
    OBVIOUS
<1>2. IsFiniteSet(1..n) /\ Cardinality(1..n) = n
    BY <1>1, FS_Interval
<1>3. s \in Surjection(1..n, Range(s))
    <2>1. s \in [1..n -> Range(s)]
        BY <1>1 DEF Range
    <2> QED
        BY <1>1, <2>1 DEF Surjection, Range
<1> HIDE DEF n
<1>4. IsInjective(s) => s \in Injection(1..n, Range(s))
    BY <1>3 DEF Surjection, Injection
<1> QED
    BY <1>2, <1>3, <1>4, FS_Surjection DEF n

\* What DictionaryReader::read_google_candidates gets: choices put together from the
\* segments and suggestions, nothing twice, up to the limit.
THEOREM GoogleDelivers ==
    ASSUME NEW cfg, cfg["google_max_candidates_length"] \in Nat,
           NEW japanese, japanese = Failed \/ (japanese \in Seq(Segment) /\ japanese # <<>>),
           NEW suggest, suggest = Failed \/ suggest \in Seq(Seq(Nat)),
           cfg["is_google_suggest_enabled"] \/ suggest = Failed
    PROVE  LET brought == GoogleUtf8Candidates(cfg, japanese, suggest)
               limit == cfg["google_max_candidates_length"]
               picks == IF \/ japanese = Failed
                           \/ IsMerged(japanese) /\ Last(japanese).midashi = NotText
                        THEN {} ELSE Picks(cfg, japanese)
               joins == {Join(japanese, choice) : choice \in picks}
               suggestions == IF suggest = Failed THEN {} ELSE {FirstWord(t) : t \in Range(suggest)}
           IN  /\ brought \in Seq(Seq(Nat)) /\ IsInjective(brought)
               /\ Range(brought) \subseteq joins \cup suggestions
               /\ suggestions \subseteq Range(brought)
               /\ Cardinality(picks) <= limit => joins \subseteq Range(brought)
               /\ Len(brought) <= limit + Cardinality(suggestions)
<1> DEFINE limit == cfg["google_max_candidates_length"]
           picks == IF \/ japanese = Failed
                       \/ IsMerged(japanese) /\ Last(japanese).midashi = NotText
                    THEN {} ELSE Picks(cfg, japanese)
           joins == {Join(japanese, choice) : choice \in picks}
           suggestions == IF suggest = Failed THEN {} ELSE {FirstWord(t) : t \in Range(suggest)}
           j == RequestGoogleJapaneseInput(cfg, japanese)
           s == IF cfg["is_google_suggest_enabled"] THEN RequestGoogleSuggest(suggest) ELSE <<>>
           brought == GoogleUtf8Candidates(cfg, japanese, suggest)
<1>1. /\ j \in Seq(Seq(Nat)) /\ Len(j) <= limit /\ Range(j) \subseteq joins
      /\ Cardinality(picks) <= limit => Range(j) = joins
    <2>1. CASE japanese = Failed
        <3>1. j = <<>> /\ joins = {}
            BY <2>1 DEF RequestGoogleJapaneseInput
        <3>2. Range(j) = {} /\ Len(j) = 0
            BY <3>1 DEF Range
        <3> QED
            BY <3>1, <3>2
    <2>2. CASE japanese # Failed /\ IsMerged(japanese) /\ Last(japanese).midashi = NotText
        <3>1. j = <<>> /\ joins = {}
            BY <2>2 DEF RequestGoogleJapaneseInput, GetGoogleJapaneseInputResult
        <3>2. Range(j) = {} /\ Len(j) = 0
            BY <3>1 DEF Range
        <3> QED
            BY <3>1, <3>2
    <2>3. CASE japanese # Failed /\ ~(IsMerged(japanese) /\ Last(japanese).midashi = NotText)
        <3>1. j = GetGoogleJapaneseInputResult(cfg, japanese) /\ picks = Picks(cfg, japanese)
            BY <2>3 DEF RequestGoogleJapaneseInput
        <3> HIDE DEF j, picks
        <3> QED
            BY <2>3, <3>1, JapaneseFacts
    <2> QED
        BY <2>1, <2>2, <2>3
<1>2. s \in Seq(Seq(Nat)) /\ Range(s) = suggestions /\ IsFiniteSet(suggestions)
    <2>1. CASE suggest = Failed
        <3>1. s = <<>> /\ suggestions = {}
            BY <2>1 DEF RequestGoogleSuggest
        <3>2. Range(s) = {}
            BY <3>1 DEF Range
        <3> HIDE DEF s, suggestions
        <3>3. s \in Seq(Seq(Nat))
            BY <3>1
        <3> QED
            BY <3>1, <3>2, <3>3, FS_EmptySet
    <2>2. CASE suggest # Failed
        <3>1. /\ s = RequestGoogleSuggest(suggest) /\ suggest \in Seq(Seq(Nat))
              /\ suggestions = {FirstWord(t) : t \in Range(suggest)}
            BY <2>2
        <3>2. /\ RequestGoogleSuggest(suggest) \in Seq(Seq(Nat))
              /\ Range(RequestGoogleSuggest(suggest)) = {FirstWord(t) : t \in Range(suggest)}
              /\ IsFiniteSet({FirstWord(t) : t \in Range(suggest)})
            BY <2>2, <3>1, SuggestFacts
        <3> QED
            BY <3>1, <3>2
    <2> QED
        BY <2>1, <2>2
<1>3. brought = RemoveDuplicates(j \o s)
    BY DEF GoogleUtf8Candidates
<1> HIDE DEF limit, picks, joins, suggestions, j, s, brought
<1>4. j \o s \in Seq(Seq(Nat)) /\ Range(j \o s) = Range(j) \cup Range(s)
    BY <1>1, <1>2, ConcatRange
<1>5. /\ brought \in Seq(Seq(Nat)) /\ IsInjective(brought)
      /\ Range(brought) = Range(j) \cup suggestions
    <2>1. PICK u \in Seq(Seq(Nat)) : u = j \o s
        BY <1>4
    <2> QED
        BY <1>2, <1>3, <1>4, <2>1, DuplicatesAreRemoved
<1>6. Len(brought) <= limit + Cardinality(suggestions)
    <2>1. IsFiniteSet(Range(j)) /\ Cardinality(Range(j)) <= Len(j)
        BY <1>1, InjectiveLength
    <2>2. Len(brought) = Cardinality(Range(j) \cup suggestions)
        BY <1>5, InjectiveLength
    <2>3. /\ IsFiniteSet(Range(j) \cap suggestions)
          /\ Cardinality(Range(j) \cup suggestions) =
                Cardinality(Range(j)) + Cardinality(suggestions) - Cardinality(Range(j) \cap suggestions)
        BY <1>2, <2>1, FS_Union, FS_Subset
    <2>4. /\ Cardinality(Range(j)) \in Nat /\ Cardinality(suggestions) \in Nat
          /\ Cardinality(Range(j) \cap suggestions) \in Nat
        BY <1>2, <2>1, <2>3, FS_CardinalityType
    <2>5. limit \in Nat /\ Len(j) \in Nat /\ Len(j) <= limit
        BY <1>1 DEF limit
    <2> QED
        BY <2>1, <2>2, <2>3, <2>4, <2>5
<1>7. Cardinality(picks) <= limit => joins \subseteq Range(brought)
    BY <1>1, <1>5
<1>8. Range(brought) \subseteq joins \cup suggestions /\ suggestions \subseteq Range(brought)
    BY <1>1, <1>5
<1> QED
    BY <1>5, <1>6, <1>7, <1>8 DEF limit, picks, joins, suggestions, brought

-----------------------------------------------------------------------------
(***************************************************************************)
(* The block cache.                                                        *)
(***************************************************************************)

\* The inductive invariant of the block cache.
FileInv ==
    /\ FileTypeOK
    /\ BufferHoldsItsBlock
    /\ ReturnsTheBlock

LEMMA FileInvInit == InitFile => FileInv
<1> SUFFICES ASSUME InitFile
             PROVE  FileInv
    OBVIOUS
<1>1. FileTypeOK
    <2>1. buffer \in [0..(buffer_length - 1) -> Nat \cup {Zero}]
        BY DEF InitFile
    <2>2. failed \in BOOLEAN
        BY DEF InitFile
    <2>3. /\ seek_position \in Nat /\ read_length \in Nat
          /\ buffer_length \in Nat /\ read_length <= buffer_length
        BY DictionaryFileAssumption DEF InitFile
    <2> QED
        BY <2>1, <2>2, <2>3 DEF FileTypeOK
<1>2. BufferHoldsItsBlock
    <2>1. 0..(0 - 1) = {}
        OBVIOUS
    <2> QED
        BY <2>1 DEF InitFile, BufferHoldsItsBlock, Prefix, Content
<1>3. ReturnsTheBlock
    BY DEF InitFile, ReturnsTheBlock, NoCall
<1> QED
    BY <1>1, <1>2, <1>3 DEF FileInv

\* What reading n bytes of a block makes of the buffer, whether or not the read
\* then fails.
LEMMA OverwriteType ==
    ASSUME FileTypeOK, NEW block \in [seek : Nat, length : Nat \ {0}],
           NEW n \in 0..block.length,
           NoteKey(block), Grow(block.length), Overwrite(block, n)
    PROVE  /\ seek_position' \in Nat /\ read_length' \in Nat
           /\ buffer_length' \in Nat /\ read_length' <= buffer_length'
           /\ buffer' \in [0..(buffer_length' - 1) -> Nat \cup {Zero}]
<1>1. /\ block.seek \in Nat /\ block.length \in Nat
      /\ seek_position' = block.seek /\ read_length' = block.length
    BY DEF NoteKey
<1>2. buffer_length' \in Nat /\ block.length <= buffer_length'
    BY <1>1 DEF Grow, FileTypeOK
<1>3. ASSUME NEW i \in 0..(buffer_length' - 1)
      PROVE  (IF i < n THEN block.seek + i
              ELSE IF block.length > buffer_length THEN Zero ELSE buffer[i])
                 \in Nat \cup {Zero}
    <2>1. CASE i < n
        BY <1>1, <2>1
    <2>2. CASE i >= n /\ block.length > buffer_length
        BY <2>2
    <2>3. CASE i >= n /\ block.length <= buffer_length
        <3>1. i \in 0..(buffer_length - 1)
            BY <1>1, <2>3 DEF Grow, FileTypeOK
        <3> QED
            BY <3>1, <2>3 DEF FileTypeOK
    <2> QED
        BY <1>1, <1>2, <2>1, <2>2, <2>3 DEF FileTypeOK
<1>4. buffer' \in [0..(buffer_length' - 1) -> Nat \cup {Zero}]
    BY <1>3 DEF Overwrite
<1> QED
    BY <1>1, <1>2, <1>4

LEMMA ReadCachedPreserves ==
    ASSUME FileInv, NEW block \in Blocks, ReadCached(block)
    PROVE  FileInv'
<1>1. FileTypeOK'
    BY DEF FileInv, FileTypeOK, ReadCached
<1>2. BufferHoldsItsBlock'
    BY DEF FileInv, BufferHoldsItsBlock, ReadCached, Prefix, Content
<1>3. ReturnsTheBlock'
    <2> SUFFICES ASSUME ~failed
                 PROVE  Prefix(buffer, block.length) = Content(block)
        BY DEF ReturnsTheBlock, ReadCached
    <2>1. seek_position = block.seek /\ read_length = block.length
        BY DEF ReadCached, IsCached
    <2> QED
        BY <2>1 DEF FileInv, BufferHoldsItsBlock, Content
<1> QED
    BY <1>1, <1>2, <1>3 DEF FileInv

LEMMA ReadFromFilePreserves ==
    ASSUME FileInv, NEW block \in Blocks, ReadFromFile(block)
    PROVE  FileInv'
<1>1. block \in [seek : Nat, length : Nat \ {0}]
    BY DictionaryFileAssumption
<1>0. block.seek \in Nat /\ block.length \in Nat
    BY <1>1
<1>2. FileTypeOK'
    BY <1>1, <1>0, block.length \in 0..block.length, OverwriteType DEF FileInv, FileTypeOK, ReadFromFile
<1>3. BufferHoldsItsBlock'
    <2>1. seek_position' = block.seek /\ read_length' = block.length
        BY DEF ReadFromFile, NoteKey
    <2>2. \A i \in 0..(block.length - 1) : buffer'[i] = block.seek + i
        <3>1. read_length' <= buffer_length' /\ buffer_length' \in Nat
            BY <1>2 DEF FileTypeOK
        <3>2. block.length \in Nat /\ block.length <= buffer_length'
            BY <1>0, <2>1, <3>1
        <3>3. \A m, n \in Nat : m <= n =>
                  \A i \in 0..(m - 1) : i \in 0..(n - 1) /\ i < m
            OBVIOUS
        <3>4. \A i \in 0..(block.length - 1) :
                  i \in 0..(buffer_length' - 1) /\ i < block.length
            BY <3>1, <3>2, <3>3
        <3> QED
            BY <3>4 DEF ReadFromFile, Overwrite
    <2> QED
        BY <2>1, <2>2 DEF BufferHoldsItsBlock, Prefix, Content
<1>4. ReturnsTheBlock'
    BY DEF ReadFromFile, ReturnsTheBlock
<1> QED
    BY <1>2, <1>3, <1>4 DEF FileInv

LEMMA ReadFailsPreserves ==
    ASSUME FileInv, NEW block \in Blocks, NEW n \in 0..(block.length - 1),
           ReadFails(block, n)
    PROVE  FileInv'
<1>1. block \in [seek : Nat, length : Nat \ {0}]
    BY DictionaryFileAssumption
<1>2. n \in 0..block.length
    BY <1>1
<1>3. FileTypeOK'
    BY <1>1, <1>2, OverwriteType DEF FileInv, FileTypeOK, ReadFails
<1> QED
    BY <1>3 DEF ReadFails, FileInv, BufferHoldsItsBlock, ReturnsTheBlock

LEMMA FileInvStep == FileInv /\ [NextFile]_fileVars => FileInv'
<1> SUFFICES ASSUME FileInv, [NextFile]_fileVars
             PROVE  FileInv'
    OBVIOUS
<1>1. CASE NextFile
    BY <1>1, ReadCachedPreserves, ReadFromFilePreserves, ReadFailsPreserves
    DEF NextFile, Read
<1>2. CASE UNCHANGED fileVars
    BY <1>2 DEF fileVars, FileInv, FileTypeOK, BufferHoldsItsBlock, ReturnsTheBlock,
                Prefix, Content
<1> QED
    BY <1>1, <1>2

\* The block cache by itself, for every dictionary: types, the buffer matches its
\* key, and what is returned is what was asked for, unless the last access failed.
THEOREM FileInvariant == SpecFile => []FileInv
BY FileInvInit, FileInvStep, PTL DEF SpecFile

WordKnown == midashi \in Words

LEMMA WordAlwaysKnown == Spec => []WordKnown
<1>1. Init => WordKnown
    BY DEF Init, WordKnown
<1>2. WordKnown /\ [Next]_vars => WordKnown'
    BY DEF WordKnown, Next, Start, Setup, Daemonize, Run, StartFails, TryAgain, Ask, ForgetGoogle,
           ReadCandidates, ReadGoogle, SkipDictionary, ReadDictionary, Reply, vars, lookupVars
<1> QED
    BY <1>1, <1>2, PTL DEF Spec

\* read_candidates reads the dictionary only through the block cache.
LEMMA LookupImplementsFile == Spec => SpecFile
<1>1. Init => InitFile
    BY DEF Init
<1>2. WordKnown /\ [Next]_vars => [NextFile]_fileVars
    <2> SUFFICES ASSUME WordKnown, [Next]_vars
                 PROVE  [NextFile]_fileVars
        OBVIOUS
    <2>1. CASE ReadDictionary
        <3>1. BlockOf[midashi] \in Blocks /\ Read(BlockOf[midashi])
            BY <2>1, LookupAssumption DEF ReadDictionary, WordKnown
        <3>2. NextFile
            BY <3>1 DEF NextFile
        <3> QED
            BY <3>2
    <2> QED
        BY <2>1 DEF Next, Start, Setup, Daemonize, Run, StartFails, TryAgain, Ask, ForgetGoogle,
                    ReadCandidates, ReadGoogle, SkipDictionary, Reply, vars
<1> QED
    BY <1>1, <1>2, WordAlwaysKnown, PTL DEF Spec, SpecFile

\* In every lookup the bytes searched are those of the block the index named,
\* unless the last access to the file failed.
THEOREM LookupReadsItsBlock == Spec => []ReturnsTheBlock
BY LookupImplementsFile, FileInvariant, PTL DEF FileInv

\* In every lookup the cached bytes are those their position and length name,
\* unless the last access to the file failed.
THEOREM LookupBufferHoldsItsBlock == Spec => []BufferHoldsItsBlock
BY LookupImplementsFile, FileInvariant, PTL DEF FileInv

\* The slice of the buffer a lookup is given never reaches beyond its end.
THEOREM LookupFileTypeCorrect == Spec => []FileTypeOK
BY LookupImplementsFile, FileInvariant, PTL DEF FileInv
-----------------------------------------------------------------------------

\* Google is asked only in two places, to which nothing leads with "disable"; and the
\* settings are made before anything is asked.
DisabledInv ==
    /\ pc \in {"down", "setup", "daemonize", "run", "ended"} => ~answers.asked
    /\ pc \in {"google_first", "google_last"} => config["google_timing"] # "disable"
    /\ DisabledGoogleIsNotAsked

LEMMA DisabledInvStep == DisabledInv /\ [Next]_vars => DisabledInv'
<1> SUFFICES ASSUME DisabledInv, [Next]_vars
             PROVE  DisabledInv'
    OBVIOUS
<1> USE DEF DisabledInv, DisabledGoogleIsNotAsked
<1>1. CASE \E start \in Starts : Start(start)
    BY <1>1 DEF Start
<1>2. CASE Setup \/ Daemonize \/ Run \/ StartFails \/ TryAgain
    BY <1>2 DEF Setup, Daemonize, Run, StartFails, TryAgain
<1>3. CASE \E word \in Words : Ask(word)
    BY <1>3 DEF Ask, NoAnswers
<1>4. CASE \E word \in Words : ForgetGoogle(word)
    BY <1>4 DEF ForgetGoogle
<1>5. CASE ReadGoogle
    <2>1. config["google_timing"] # "disable" /\ UNCHANGED config
        BY <1>5 DEF ReadGoogle
    <2>2. pc' \in {"dictionary", "reply"}
        BY <1>5 DEF ReadGoogle
    <2> QED
        BY <2>1, <2>2
<1>6. CASE SkipDictionary
    BY <1>6 DEF SkipDictionary, AfterDictionary
<1>7. CASE ReadDictionary
    <2>1. pc' \in {"idle", AfterDictionary(result')} /\ UNCHANGED <<config, answers>>
        BY <1>7 DEF ReadDictionary
    <2> QED
        BY <2>1 DEF AfterDictionary
<1>8. CASE Reply
    BY <1>8 DEF Reply
<1>9. CASE UNCHANGED vars
    BY <1>9 DEF vars, lookupVars
<1> QED
    BY <1>1, <1>2, <1>3, <1>4, <1>5, <1>6, <1>7, <1>8, <1>9 DEF Next, ReadCandidates

\* With "disable" no word is ever sent to Google, whatever the dictionary holds and
\* whichever reads of it fail.
THEOREM DisabledGoogleStaysDisabled == Spec => []DisabledGoogleIsNotAsked
<1>1. Init => DisabledInv
    BY DEF Init, DisabledInv, DisabledGoogleIsNotAsked, NoAnswers
<1>2. DisabledInv => DisabledGoogleIsNotAsked
    BY DEF DisabledInv
<1> QED
    BY <1>1, <1>2, DisabledInvStep, PTL DEF Spec

-----------------------------------------------------------------------------
(***************************************************************************)
(* The settings.                                                           *)
(***************************************************************************)

\* What a start that gets through the settings has made of the command line and
\* the file.
LEMMA SettingsOfStart ==
    ASSUME NEW start \in Starts, Start(start), pc' = "setup"
    PROVE  /\ given' = start
           /\ ~IsUsageError(start.arguments) /\ ~IsHelpExit(start.arguments)
           /\ \/ start.file = NoFile /\ config' = CommandLine(start.arguments)
              \/ /\ start.file # NoFile
                 /\ config' = WithFile(CommandLine(start.arguments), Assignments(start.file))
                 /\ ~IsIllegal(CommandLine(start.arguments), Assignments(start.file))
BY DEF Start, ReadFile

\* Nothing but a start leads to the setup, which keeps the settings until it is done.
LEMMA StepsToSetup ==
    ASSUME [Next]_vars, pc' = "setup"
    PROVE  \/ \E start \in Starts : Start(start)
           \/ pc = "setup" /\ UNCHANGED <<config, given>>
BY DEF Next, Setup, Daemonize, Run, StartFails, TryAgain, Ask, ForgetGoogle, ReadCandidates,
       ReadGoogle, SkipDictionary, ReadDictionary, AfterDictionary, Reply, vars, lookupVars

LEMMA StartUsesGiven ==
    ASSUME NEW start \in Starts, Start(start), pc' = "setup"
    PROVE  GivenIsUsed'
<1> DEFINE arguments == start.arguments
           line == CommandLine(arguments)
           file == Assignments(start.file)
<1>1. /\ given' = start
      /\ \/ start.file = NoFile /\ config' = line
         \/ start.file # NoFile /\ config' = WithFile(line, file)
    BY SettingsOfStart
<1>2. DOMAIN line = Settings
    BY DEF CommandLine
<1>3. DOMAIN config' = Settings
    BY <1>1, <1>2 DEF WithFile
<1> SUFFICES ASSUME NEW key \in Settings \ {"is_google_cache_enabled"}
             PROVE  \/ config'[key] = Wanted(key)'
                    \/ key = "google_max_candidates_length" /\ key \in DOMAIN given'.arguments
                    \/ /\ key \in DOMAIN given'.arguments
                       /\ given'.arguments[key] = Default[key]
    BY <1>3 DEF GivenIsUsed
<1>4. line[key] = IF key \in DOMAIN arguments \ {"google_max_candidates_length"}
                  THEN arguments[key] ELSE Default[key]
    BY DEF CommandLine
<1>5. CASE start.file = NoFile
    <2>1. Wanted(key)' = IF key \in DOMAIN arguments THEN arguments[key] ELSE Default[key]
        BY <1>1, <1>5 DEF Wanted
    <2> QED
        BY <1>1, <1>4, <1>5, <2>1
<1>6. CASE start.file # NoFile
    <2>1. Wanted(key)' = IF key \in DOMAIN arguments THEN arguments[key]
                         ELSE IF key \in DOMAIN file THEN Value(key, file[key])
                         ELSE Default[key]
        BY <1>1, <1>6 DEF Wanted
    <2>2. config'[key] = IF key \in DOMAIN file /\ line[key] = Default[key]
                         THEN Value(key, file[key]) ELSE line[key]
        BY <1>1, <1>2, <1>6 DEF WithFile, IsOpen
    <2> QED
        BY <1>1, <1>4, <2>1, <2>2
<1> QED
    BY <1>5, <1>6

\* Whatever the command line and the file say, a server that comes up uses what it was
\* given.
THEOREM ServerUsesWhatItIsGiven == Spec => []GivenIsUsed
<1>1. Init => GivenIsUsed
    BY DEF Init, GivenIsUsed
<1>2. GivenIsUsed /\ [Next]_vars => GivenIsUsed'
    <2> SUFFICES ASSUME GivenIsUsed, [Next]_vars, pc' = "setup"
                 PROVE  GivenIsUsed'
        BY DEF GivenIsUsed
    <2>1. CASE \E start \in Starts : Start(start)
        BY <2>1, StartUsesGiven
    <2>2. CASE pc = "setup" /\ UNCHANGED <<config, given>>
        BY <2>2 DEF GivenIsUsed, Wanted
    <2> QED
        BY <2>1, <2>2, StepsToSetup
<1> QED
    BY <1>1, <1>2, PTL DEF Spec

LEMMA StartRefusesContradictions ==
    ASSUME NEW start \in Starts, Start(start), pc' = "setup"
    PROVE  ContradictionsAreRefused'
<1> DEFINE arguments == start.arguments
           line == CommandLine(arguments)
           file == Assignments(start.file)
<1>1. /\ given' = start /\ ~IsHelpExit(arguments)
      /\ \/ start.file = NoFile /\ config' = line
         \/ /\ start.file # NoFile /\ config' = WithFile(line, file)
            /\ ~IsIllegal(line, file)
    BY SettingsOfStart
<1> SUFFICES ASSUME config'["google_timing"] = "disable", NEW key \in Switches, config'[key]
             PROVE  key \in DOMAIN arguments /\ line["google_timing"] # "disable"
    BY <1>1 DEF ContradictionsAreRefused
<1>2. key \in Settings /\ key # "is_google_cache_enabled" /\ Default[key] = FALSE
    BY ConfigurationAssumption DEF Switches, Flags, InsertSwitches
<1>3. DOMAIN line = Settings
    BY DEF CommandLine
<1>4. line[key]
    <2>1. CASE start.file = NoFile
        BY <1>1, <2>1
    <2>2. CASE start.file # NoFile /\ IsOpen(line, file, key)
        <3>1. Value(key, file[key])
            BY <1>1, <1>2, <1>3, <2>2 DEF WithFile
        <3> QED
            BY <1>1, <2>2, <3>1 DEF IsIllegal
    <2>3. CASE start.file # NoFile /\ ~IsOpen(line, file, key)
        BY <1>1, <1>2, <1>3, <2>3 DEF WithFile
    <2> QED
        BY <2>1, <2>2, <2>3
<1>5. key \in DOMAIN arguments
    BY <1>2, <1>4 DEF CommandLine
<1>6. key \in Flags
    BY <1>5, LookupAssumption DEF Switches
<1>7. line["google_timing"] # "disable"
    BY <1>1, <1>5, <1>6 DEF IsHelpExit
<1> QED
    BY <1>5, <1>7

\* Whatever the order of switches and timing on the command line and in the file, no
\* server comes up with a switch of Google and without Google.
THEOREM ServerRefusesContradictions == Spec => []ContradictionsAreRefused
<1>1. Init => ContradictionsAreRefused
    BY DEF Init, ContradictionsAreRefused
<1>2. ContradictionsAreRefused /\ [Next]_vars => ContradictionsAreRefused'
    <2> SUFFICES ASSUME ContradictionsAreRefused, [Next]_vars, pc' = "setup"
                 PROVE  ContradictionsAreRefused'
        BY DEF ContradictionsAreRefused
    <2>1. CASE \E start \in Starts : Start(start)
        BY <2>1, StartRefusesContradictions
    <2>2. CASE pc = "setup" /\ UNCHANGED <<config, given>>
        BY <2>2 DEF ContradictionsAreRefused
    <2> QED
        BY <2>1, <2>2, StepsToSetup
<1> QED
    BY <1>1, <1>2, PTL DEF Spec

Limits == {"google_cache_entries", "google_max_candidates_length"}

\* The validators, of the command line and of the file, keep the limits above zero.
LimitsArePositive == \A key \in Limits : config[key] \in Nat \ {0}

LEMMA StartKeepsLimitsPositive ==
    ASSUME NEW start \in Starts, Start(start), pc' = "setup", NEW key \in Limits
    PROVE  config'[key] \in Nat \ {0}
<1> DEFINE arguments == start.arguments
           line == CommandLine(arguments)
           file == Assignments(start.file)
<1>1. /\ ~IsUsageError(arguments)
      /\ \/ config' = line
         \/ config' = WithFile(line, file) /\ ~IsIllegal(line, file)
    BY SettingsOfStart
<1>2. /\ key \in Settings /\ key \notin Switches
      /\ key \notin {"is_google_cache_enabled", "google_timing"}
      /\ key \in DOMAIN Valid /\ Valid[key] \cup {Default[key]} \subseteq Nat \ {0}
    BY ConfigurationAssumption DEF Limits, Switches, Flags, InsertSwitches
<1>3. line[key] \in Nat \ {0}
    <2>1. key \in DOMAIN arguments => arguments[key] \in Valid[key]
        BY <1>1, <1>2 DEF IsUsageError
    <2>2. line[key] \in {Default[key], arguments[key]}
          /\ (line[key] # Default[key] => key \in DOMAIN arguments)
        BY <1>2 DEF CommandLine
    <2> QED
        BY <1>2, <2>1, <2>2
<1>4. ASSUME config' = WithFile(line, file), ~IsIllegal(line, file)
      PROVE  config'[key] \in Nat \ {0}
    <2>1. key \in DOMAIN line
        BY <1>2 DEF CommandLine
    <2>2. CASE IsOpen(line, file, key)
        <3>1. file[key] \in Valid[key]
            BY <1>2, <1>4, <2>2 DEF IsIllegal
        <3>2. config'[key] = file[key]
            BY <1>2, <1>4, <2>1, <2>2 DEF WithFile, Value
        <3> QED
            BY <1>2, <3>1, <3>2
    <2>3. CASE ~IsOpen(line, file, key)
        BY <1>3, <1>4, <2>1, <2>3 DEF WithFile
    <2> QED
        BY <2>2, <2>3
<1> QED
    BY <1>1, <1>3, <1>4

LEMMA LimitsStep == LimitsArePositive /\ [Next]_vars => LimitsArePositive'
<1> SUFFICES ASSUME LimitsArePositive, [Next]_vars
             PROVE  LimitsArePositive'
    OBVIOUS
<1>1. ASSUME NEW start \in Starts, Start(start)
      PROVE  LimitsArePositive'
    <2>1. CASE pc' = "setup"
        BY <1>1, <2>1, StartKeepsLimitsPositive DEF LimitsArePositive
    <2>2. CASE pc' # "setup"
        <3>1. UNCHANGED config
            BY <1>1, <2>2 DEF Start
        <3> QED
            BY <3>1 DEF LimitsArePositive
    <2> QED
        BY <2>1, <2>2
<1>2. CASE Run
    BY <1>2 DEF Run, LimitsArePositive, Limits, ReaderSettings, Restrict
<1>3. CASE StartFails
    BY <1>3, ConfigurationAssumption DEF StartFails, LimitsArePositive, Limits
<1>4. CASE UNCHANGED config
    BY <1>4 DEF LimitsArePositive
<1> QED
    BY <1>1, <1>2, <1>3, <1>4
    DEF Next, Setup, Daemonize, TryAgain, Ask, ForgetGoogle, ReadCandidates, ReadGoogle,
        SkipDictionary, ReadDictionary, Reply, vars, lookupVars

-----------------------------------------------------------------------------
(***************************************************************************)
(* What Google delivered outlives an error of the dictionary.              *)
(***************************************************************************)

\* What a lookup has got of Google when it comes to the dictionary is kept, or the
\* room went to another word.
KeptBehindGoogle ==
    /\ midashi \in Words /\ DOMAIN cached = Words
    /\ pc = "dictionary" /\ config["is_google_cache_enabled"] /\ delivered # <<>> =>
          cached[midashi] = delivered \/ OthersKept # {}

KeptInv == LimitsArePositive /\ KeptBehindGoogle

LEMMA KeepKeeps ==
    ASSUME KeptInv, Keep, UNCHANGED <<config, midashi>>
    PROVE  /\ DOMAIN cached' = Words
           /\ cached'[midashi] = delivered' \/ OthersKept' # {}
<1> DEFINE written == [cached EXCEPT ![midashi] = delivered']
<1>1. /\ midashi \in Words /\ DOMAIN cached = Words
      /\ config["google_cache_entries"] \in Nat \ {0}
    BY DEF KeptInv, KeptBehindGoogle, LimitsArePositive, Limits
<1>2. CASE Cardinality(OthersKept) >= config["google_cache_entries"]
    <2>1. PICK evicted \in OthersKept \cup {midashi} : cached' = [written EXCEPT ![evicted] = <<>>]
        BY <1>2 DEF Keep
    <2>2. OthersKept # {}
        BY <1>1, <1>2, FS_EmptySet
    <2>3. CASE evicted = midashi
        BY <1>1, <2>1, <2>2, <2>3 DEF OthersKept
    <2>4. CASE evicted # midashi
        BY <1>1, <2>1, <2>4
    <2> QED
        BY <1>1, <2>1, <2>3, <2>4
<1>3. CASE ~(Cardinality(OthersKept) >= config["google_cache_entries"])
    BY <1>1, <1>3 DEF Keep
<1> QED
    BY <1>2, <1>3

LEMMA KeptStep == KeptInv /\ [Next]_vars => KeptInv'
<1> SUFFICES ASSUME KeptInv, [Next]_vars
             PROVE  KeptBehindGoogle'
    BY LimitsStep DEF KeptInv
<1> USE DEF KeptInv, KeptBehindGoogle
<1>1. CASE ReadGoogle
    <2>1. CASE config["is_google_cache_enabled"] /\ delivered' # <<>>
        BY <1>1, <2>1, KeepKeeps DEF ReadGoogle
    <2>2. CASE ~(config["is_google_cache_enabled"] /\ delivered' # <<>>)
        BY <1>1, <2>2 DEF ReadGoogle
    <2> QED
        BY <2>1, <2>2
<1>2. ASSUME NEW word \in Words, Ask(word)
      PROVE  KeptBehindGoogle'
    BY <1>2 DEF Ask
<1>3. ASSUME NEW word \in Words, ForgetGoogle(word)
      PROVE  KeptBehindGoogle'
    BY <1>3 DEF ForgetGoogle
<1>4. CASE SkipDictionary \/ ReadDictionary \/ Reply
    BY <1>4 DEF SkipDictionary, ReadDictionary, Reply, AfterDictionary
<1>5. CASE \/ \E start \in Starts : Start(start)
           \/ Setup \/ Daemonize \/ Run \/ StartFails \/ TryAgain
    BY <1>5 DEF Start, Setup, Daemonize, Run, StartFails, TryAgain
<1>6. CASE UNCHANGED vars
    BY <1>6 DEF vars, lookupVars, OthersKept
<1> QED
    BY <1>1, <1>2, <1>3, <1>4, <1>5, <1>6 DEF Next, ReadCandidates

\* A lookup that a failed read of the dictionary ends leaves what Google delivered to
\* the next one, for any limit of the cache and any answers.
THEOREM DeliveredSurvivesAnError == Spec => DeliveredIsKept
<1>1. Init => KeptInv
    BY ConfigurationAssumption DEF Init, KeptInv, LimitsArePositive, KeptBehindGoogle, Limits
<1>2. KeptInv /\ [Next]_vars =>
          [(reply.kind # "error" /\ reply'.kind = "error"
               /\ config["is_google_cache_enabled"] /\ delivered # <<>>)
               => cached[midashi] = delivered \/ OthersKept # {}]_vars
    <2> SUFFICES ASSUME KeptInv, [Next]_vars, reply.kind # "error", reply'.kind = "error"
                 PROVE  pc = "dictionary"
        BY DEF KeptInv, KeptBehindGoogle
    <2>1. CASE ReadDictionary
        BY <2>1 DEF ReadDictionary
    <2>2. CASE Reply \/ \E word \in Words : Ask(word)
        BY <2>2 DEF Reply, Ask
    <2>3. CASE UNCHANGED reply
        BY <2>3
    <2> QED
        BY <2>1, <2>2, <2>3
        DEF Next, Start, Setup, Daemonize, Run, StartFails, TryAgain, ForgetGoogle,
            ReadCandidates, ReadGoogle, SkipDictionary, vars, lookupVars
<1> QED
    BY <1>1, <1>2, KeptStep, PTL DEF Spec, DeliveredIsKept

-----------------------------------------------------------------------------
(***************************************************************************)
(* What Google delivered.                                                  *)
(***************************************************************************)

\* When Google was asked during this lookup, it delivered what its answers make; and it
\* is asked at most once in each lookup.
GoogleInv ==
    /\ pc \in {"down", "setup", "daemonize", "run", "ended", "google_first", "google_last"} =>
          ~answers.asked
    /\ pc = "google_first" => config["google_timing"] = "first"
    /\ pc = "dictionary" /\ answers.asked => config["google_timing"] = "first"
    /\ answers.asked =>
          /\ answers.japanese \in JapaneseAnswers
          /\ answers.suggest \in IF config["is_google_suggest_enabled"] THEN SuggestAnswers ELSE {Failed}
          /\ delivered = GoogleUtf8Candidates(config, answers.japanese, answers.suggest)

LEMMA GoogleStep == GoogleInv /\ [Next]_vars => GoogleInv'
<1> SUFFICES ASSUME GoogleInv, [Next]_vars
             PROVE  GoogleInv'
    OBVIOUS
<1> USE DEF GoogleInv
<1>1. CASE \/ \E start \in Starts : Start(start)
           \/ Setup \/ Daemonize \/ Run \/ StartFails \/ TryAgain
    BY <1>1 DEF Start, Setup, Daemonize, Run, StartFails, TryAgain
<1>2. CASE \E word \in Words : Ask(word)
    BY <1>2 DEF Ask, NoAnswers
<1>3. CASE \E word \in Words : ForgetGoogle(word)
    BY <1>3 DEF ForgetGoogle
<1>4. CASE ReadGoogle
    <2>1. /\ pc \in {"google_first", "google_last"} /\ ~answers.asked /\ Answer
          /\ pc' = (IF pc = "google_first" THEN "dictionary" ELSE "reply") /\ UNCHANGED config
        BY <1>4 DEF ReadGoogle
    <2>2. CASE UNCHANGED answers
        BY <2>1, <2>2
    <2>3. ASSUME NEW japanese \in JapaneseAnswers,
                 NEW suggest \in IF config["is_google_suggest_enabled"] THEN SuggestAnswers ELSE {Failed},
                 answers' = [japanese |-> japanese, suggest |-> suggest, asked |-> TRUE],
                 delivered' = GoogleUtf8Candidates(config, japanese, suggest)
          PROVE  GoogleInv'
        <3>1. answers'.japanese = japanese /\ answers'.suggest = suggest
            BY <2>3
        <3> QED
            BY <2>1, <2>3, <3>1
    <2>4. CASE cached[midashi] # <<>>
        BY <2>1, <2>2, <2>4 DEF Answer
    <2>5. CASE ~(cached[midashi] # <<>>)
        <3>1. \E japanese \in JapaneseAnswers :
              \E suggest \in IF config["is_google_suggest_enabled"] THEN SuggestAnswers ELSE {Failed} :
                 /\ answers' = [japanese |-> japanese, suggest |-> suggest, asked |-> TRUE]
                 /\ delivered' = GoogleUtf8Candidates(config, japanese, suggest)
            BY <2>1, <2>5, Zenon DEF Answer
        <3> HIDE DEF GoogleInv
        <3> QED
            BY <2>3, <3>1
    <2> QED
        BY <2>4, <2>5
<1>5. CASE SkipDictionary
    BY <1>5 DEF SkipDictionary, AfterDictionary
<1>6. CASE ReadDictionary
    <2>1. pc' \in {"idle", AfterDictionary(result')} /\ pc = "dictionary"
          /\ UNCHANGED <<config, answers, delivered>>
        BY <1>6 DEF ReadDictionary
    <2> QED
        BY <2>1 DEF AfterDictionary
<1>7. CASE Reply
    BY <1>7 DEF Reply
<1>8. CASE UNCHANGED vars
    BY <1>8 DEF vars, lookupVars
<1> QED
    BY <1>1, <1>2, <1>3, <1>4, <1>5, <1>6, <1>7, <1>8 DEF Next, ReadCandidates

\* What may be said of an answer whatever its members are.
LEMMA AskedFacts ==
    ASSUME GoogleInv, LimitsArePositive, answers.asked
    PROVE  /\ delivered \in Seq(Seq(Nat))
           /\ CandidatesAreChoices /\ NoServiceIsLost /\ CandidatesAreBounded
<1> DEFINE japanese == answers.japanese
           suggest == answers.suggest
<1>1. config["google_max_candidates_length"] \in Nat
    BY DEF LimitsArePositive, Limits
<1>2. japanese = Failed \/ (japanese \in Seq(Segment) /\ japanese # <<>>)
    BY AnswersAssumption DEF GoogleInv
<1>3. /\ suggest = Failed \/ suggest \in Seq(Seq(Nat))
      /\ config["is_google_suggest_enabled"] \/ suggest = Failed
    BY AnswersAssumption DEF GoogleInv
<1>4. delivered = GoogleUtf8Candidates(config, japanese, suggest)
    BY DEF GoogleInv
<1>5. /\ JapaneseJoins = {Join(japanese, choice) : choice \in JapanesePicks}
      /\ JapanesePicks = IF \/ japanese = Failed
                            \/ IsMerged(japanese) /\ Last(japanese).midashi = NotText
                         THEN {} ELSE Picks(config, japanese)
      /\ Suggestions = IF suggest = Failed THEN {} ELSE {FirstWord(t) : t \in Range(suggest)}
    BY DEF JapaneseJoins, JapanesePicks, Suggestions
<1> HIDE DEF japanese, suggest
<1>6. /\ delivered \in Seq(Seq(Nat)) /\ IsInjective(delivered)
      /\ Range(delivered) \subseteq JapaneseJoins \cup Suggestions
      /\ Suggestions \subseteq Range(delivered)
      /\ Cardinality(JapanesePicks) <= config["google_max_candidates_length"]
            => JapaneseJoins \subseteq Range(delivered)
      /\ Len(delivered) <= config["google_max_candidates_length"] + Cardinality(Suggestions)
    <2> DEFINE picks == IF \/ japanese = Failed
                           \/ IsMerged(japanese) /\ Last(japanese).midashi = NotText
                        THEN {} ELSE Picks(config, japanese)
               joins == {Join(japanese, choice) : choice \in picks}
               suggestions == IF suggest = Failed THEN {} ELSE {FirstWord(t) : t \in Range(suggest)}
               got == GoogleUtf8Candidates(config, japanese, suggest)
               limit == config["google_max_candidates_length"]
    <2>1. /\ got \in Seq(Seq(Nat)) /\ IsInjective(got)
          /\ Range(got) \subseteq joins \cup suggestions
          /\ suggestions \subseteq Range(got)
          /\ Cardinality(picks) <= limit => joins \subseteq Range(got)
          /\ Len(got) <= limit + Cardinality(suggestions)
        BY <1>1, <1>2, <1>3, GoogleDelivers
    <2>2. /\ delivered = got /\ JapanesePicks = picks /\ JapaneseJoins = joins
          /\ Suggestions = suggestions
        BY <1>4, <1>5
    <2> HIDE DEF picks, joins, suggestions, got
    <2> QED
        BY <2>1, <2>2
<1> QED
    BY <1>6 DEF CandidatesAreChoices, NoServiceIsLost, CandidatesAreBounded

LEMMA GoogleAlways == Spec => [](GoogleInv /\ LimitsArePositive)
<1>1. Init => GoogleInv /\ LimitsArePositive
    <2>1. Init => GoogleInv
        BY DEF Init, GoogleInv, NoAnswers
    <2>2. Init => LimitsArePositive
        BY ConfigurationAssumption DEF Init, LimitsArePositive, Limits
    <2> QED
        BY <2>1, <2>2
<1> QED
    BY <1>1, GoogleStep, LimitsStep, PTL DEF Spec

\* Whatever Google answers, its candidates are made of one text of each segment, none
\* of an unwanted script, none twice, or are suggestions.
THEOREM DeliveredAreChoices == Spec => []CandidatesAreChoices
<1>1. GoogleInv /\ LimitsArePositive => CandidatesAreChoices
    BY AskedFacts DEF CandidatesAreChoices
<1> QED
    BY <1>1, GoogleAlways, PTL

\* The failure of one service takes nothing from the other, and no choice is left out
\* below the limit, for any number of segments and texts.
THEOREM OneServiceIsEnough == Spec => []NoServiceIsLost
<1>1. GoogleInv /\ LimitsArePositive => NoServiceIsLost
    BY AskedFacts DEF NoServiceIsLost
<1> QED
    BY <1>1, GoogleAlways, PTL

\* However many choices there are, the limit holds.
THEOREM DeliveredAreBounded == Spec => []CandidatesAreBounded
<1>1. GoogleInv /\ LimitsArePositive => CandidatesAreBounded
    BY AskedFacts DEF CandidatesAreBounded
<1> QED
    BY <1>1, GoogleAlways, PTL

-----------------------------------------------------------------------------
(***************************************************************************)
(* Looking a word up.  The block that the index names for a word holds    *)
(* its entry, so that a read that succeeds finds it, and finds no other.  *)
(***************************************************************************)

LEMMA BlockFacts ==
    ASSUME NEW word \in Words, HasEntry(word)
    PROVE  /\ BlockOf[word] \in Blocks /\ BlockOf[word] # NoBlock
           /\ BlockOf[word].seek \in Nat /\ BlockOf[word].length \in Nat
           /\ HeadOf[word] \in Nat /\ BlockOf[word].seek <= HeadOf[word]
           /\ \E end \in LineFeeds :
                 HeadOf[word] + 1 < end /\ end < BlockOf[word].seek + BlockOf[word].length
           /\ HeadOf[word] + 1 \notin LineFeeds
           /\ EntryOf(word) \in Seq(Seq(Nat)) /\ <<>> \notin Range(EntryOf(word))
<1>1. HeadOf[word] \in Nat
    BY LookupAssumption DEF HasEntry
<1>2. /\ BlockOf[word] # NoBlock /\ BlockOf[word].seek <= HeadOf[word]
      /\ \E end \in LineFeeds :
            HeadOf[word] + 1 < end /\ end < BlockOf[word].seek + BlockOf[word].length
      /\ HeadOf[word] + 1 \notin LineFeeds
      /\ EntryOf(word) \in Seq(Seq(Nat \ {Slash}) \ {<<>>})
    BY DictionaryAssumption
<1>3. BlockOf[word] \in Blocks
    BY <1>2, LookupAssumption
<1>4. BlockOf[word].seek \in Nat /\ BlockOf[word].length \in Nat
    BY <1>3, DictionaryFileAssumption
<1>5. ASSUME NEW entry \in Seq(Seq(Nat \ {Slash}) \ {<<>>})
      PROVE  entry \in Seq(Seq(Nat)) /\ <<>> \notin Range(entry)
    <2>1. \A i \in 1..Len(entry) : entry[i] \in Seq(Nat \ {Slash}) /\ entry[i] # <<>>
        OBVIOUS
    <2>2. Seq(Nat \ {Slash}) \subseteq Seq(Nat)
        OBVIOUS
    <2>3. \A i \in 1..Len(entry) : entry[i] \in Seq(Nat)
        BY <2>1, <2>2
    <2>4. DOMAIN entry = 1..Len(entry) /\ Len(entry) \in Nat /\ entry = [i \in 1..Len(entry) |-> entry[i]]
        OBVIOUS
    <2>5. entry \in [1..Len(entry) -> Seq(Nat)]
        BY <2>3, <2>4
    <2> QED
        BY <2>1, <2>4, <2>5 DEF Range
<1> QED
    BY <1>1, <1>2, <1>3, <1>4, <1>5

LineFeedsOf(word) == {p \in LineFeeds : p > HeadOf[word]}

LEMMA EntryFacts ==
    ASSUME NEW word \in Words, HasEntry(word)
    PROVE  LET end == Min(LineFeedsOf(word))
               head == HeadOf[word]
           IN  /\ end \in LineFeeds /\ end \in Nat /\ head + 1 < end
               /\ end < BlockOf[word].seek + BlockOf[word].length
               /\ \A p \in LineFeeds : p > head => end <= p
               /\ EntryOf(word) = [k \in 1..(end - head - 1) |-> CandidateAt(head + k)]
<1> DEFINE head == HeadOf[word]
           feeds == LineFeedsOf(word)
           end == Min(feeds)
           bound == BlockOf[word].seek + BlockOf[word].length
<1>1. head \in Nat /\ head + 1 \notin LineFeeds /\ bound \in Nat
    BY BlockFacts
<1>2. PICK p \in LineFeeds : head + 1 < p /\ p < bound
    BY BlockFacts
<1>3. LineFeeds \subseteq Nat
    BY LookupAssumption
<1>4. feeds \in SUBSET Nat /\ p \in feeds
    <2>1. p > HeadOf[word]
        BY <1>1, <1>2, <1>3
    <2> QED
        BY <1>2, <1>3, <2>1 DEF LineFeedsOf
<1>5. end \in feeds /\ \A q \in feeds : end <= q
    <2> HIDE DEF feeds
    <2> QED
        BY <1>4, MinIsLeast
<1>6. EntryOf(word) = [k \in 1..(end - head - 1) |-> CandidateAt(head + k)]
    BY DEF EntryOf, LineFeedsOf
<1>7. end \in LineFeeds /\ end > head /\ \A q \in LineFeeds : q > head => end <= q
    <2> HIDE DEF end
    <2> QED
        BY <1>5 DEF LineFeedsOf
<1> HIDE DEF end, feeds, bound, head
<1>8. end \in Nat /\ head + 1 < end /\ end < bound
    <2>1. end \in Nat /\ p \in Nat /\ p > head
        BY <1>1, <1>2, <1>3, <1>7
    <2>2. end # head + 1
        BY <1>1, <1>7
    <2> QED
        BY <1>1, <1>2, <1>7, <2>1, <2>2
<1> QED
    BY <1>6, <1>7, <1>8 DEF end, feeds, bound, head

\* Searched in the block of the index, a word is found where it has an entry.
LEMMA SearchFinds ==
    ASSUME NEW word \in Words, HasEntry(word)
    PROVE  LET bytes == Content(BlockOf[word])
           IN  /\ Found(bytes, word)
               /\ LineFeedsBehind(bytes, word) # {}
               /\ CandidatesIn(bytes, word) = EntryOf(word)
<1> DEFINE block == BlockOf[word]
           bytes == Content(block)
           head == HeadOf[word]
           end == Min(LineFeedsOf(word))
           seek == block.seek
           length == block.length
           behind == LineFeedsBehind(bytes, word)
<1>1. seek \in Nat /\ length \in Nat /\ head \in Nat /\ seek <= head
    BY BlockFacts
<1>2. /\ end \in LineFeeds /\ end \in Nat /\ head + 1 < end /\ end < seek + length
      /\ \A p \in LineFeeds : p > head => end <= p
      /\ EntryOf(word) = [k \in 1..(end - head - 1) |-> CandidateAt(head + k)]
    BY EntryFacts
<1>3. bytes = [i \in 0..(length - 1) |-> seek + i]
    BY DEF Content
<1> HIDE DEF bytes, head, end, seek, length
<1>4. DOMAIN bytes = 0..(length - 1) /\ \A i \in 0..(length - 1) : bytes[i] = seek + i
    BY <1>3
<1>5. head - seek \in 0..(length - 1) /\ bytes[head - seek] = head
    <2>1. head - seek \in 0..(length - 1)
        BY <1>1, <1>2
    <2>2. bytes[head - seek] = seek + (head - seek)
        BY <1>4, <2>1
    <2> QED
        BY <1>1, <2>1, <2>2
<1>6. Found(bytes, word)
    BY <1>4, <1>5 DEF Found, Range, head
<1>7. HeadIndex(bytes, word) = head - seek
    <2>1. \A i \in 0..(length - 1) : bytes[i] = head => i = head - seek
        BY <1>1, <1>4
    <2>2. HeadIndex(bytes, word) = CHOOSE i \in 0..(length - 1) : bytes[i] = head
        BY <1>4 DEF HeadIndex, head
    <2> QED
        BY <1>5, <2>1, <2>2
<1>8. behind = {i \in 0..(length - 1) : head - seek < i /\ seek + i \in LineFeeds}
    BY <1>4, <1>7 DEF LineFeedsBehind
<1> HIDE DEF behind
<1>9. behind \in SUBSET Nat /\ end - seek \in behind
    <2>1. behind \in SUBSET Nat
        BY <1>8
    <2>2. end - seek \in 0..(length - 1) /\ head - seek < end - seek /\ seek + (end - seek) = end
        BY <1>1, <1>2
    <2> QED
        BY <1>2, <1>8, <2>1, <2>2
<1>10. Min(behind) = end - seek
    <2>1. Min(behind) \in behind /\ \A i \in behind : Min(behind) <= i
        BY <1>9, MinIsLeast
    <2>2. PICK m \in behind : m = Min(behind)
        BY <2>1
    <2>3. m <= end - seek
        BY <1>9, <2>1, <2>2
    <2>4. seek + m \in LineFeeds /\ seek + m > head /\ m \in Nat
        BY <1>1, <1>8, <2>2
    <2>5. end <= seek + m
        BY <1>2, <2>4
    <2> QED
        BY <1>1, <1>2, <2>2, <2>3, <2>4, <2>5
<1>11. CandidatesIn(bytes, word) = EntryOf(word)
    <2> DEFINE n == Min(behind) - (head - seek) - 1
    <2>1. CandidatesIn(bytes, word) = [k \in 1..n |-> CandidateAt(bytes[(head - seek) + k])]
        BY <1>7 DEF CandidatesIn, behind
    <2>2. n = end - head - 1
        BY <1>1, <1>2, <1>10
    <2>3. ASSUME NEW k \in 1..n
          PROVE  bytes[(head - seek) + k] = head + k
        <3> HIDE DEF n
        <3>1. (head - seek) + k \in 0..(length - 1) /\ seek + ((head - seek) + k) = head + k
            BY <1>1, <1>2, <2>2
        <3> QED
            BY <1>4, <3>1
    <2> HIDE DEF n
    <2> QED
        BY <1>2, <2>1, <2>2, <2>3
<1>12. behind # {}
    BY <1>9
<1> QED
    BY <1>6, <1>11, <1>12 DEF bytes, behind

\* Searched for a word of no entry, every block is in vain.
LEMMA SearchFindsNoOther ==
    ASSUME NEW word \in Words, ~HasEntry(word), NEW block \in Blocks
    PROVE  ~Found(Content(block), word)
<1>1. HeadOf[word] \notin Nat
    BY LookupAssumption DEF HasEntry
<1>2. block.seek \in Nat /\ block.length \in Nat
    BY DictionaryFileAssumption
<1>3. \A i \in 0..(block.length - 1) : block.seek + i \in Nat
    BY <1>2
<1>4. DOMAIN Content(block) = 0..(block.length - 1)
      /\ \A i \in 0..(block.length - 1) : Content(block)[i] = block.seek + i
    BY DEF Content
<1> QED
    BY <1>1, <1>3, <1>4 DEF Found, Range

LEMMA EntryType ==
    ASSUME NEW word \in Words
    PROVE  /\ EntryOf(word) \in Seq(Seq(Nat)) /\ <<>> \notin Range(EntryOf(word))
           /\ EntryOf(word) # <<>> <=> HasEntry(word)
<1>1. CASE ~HasEntry(word)
    <2>1. EntryOf(word) = <<>>
        BY <1>1 DEF EntryOf
    <2>2. <<>> \in Seq(Seq(Nat)) /\ Range(<<>>) = {}
        BY DEF Range
    <2> QED
        BY <1>1, <2>1, <2>2
<1>2. CASE HasEntry(word)
    <2> DEFINE head == HeadOf[word]
               end == Min(LineFeedsOf(word))
               n == end - head - 1
               entry == EntryOf(word)
    <2>1. entry \in Seq(Seq(Nat)) /\ <<>> \notin Range(entry) /\ head \in Nat
        BY <1>2, BlockFacts
    <2>2. end \in Nat /\ head + 1 < end /\ entry = [k \in 1..n |-> CandidateAt(head + k)]
        BY <1>2, EntryFacts
    <2> HIDE DEF head, end, entry
    <2>3. 1 \in 1..n
        BY <2>1, <2>2
    <2> HIDE DEF n
    <2>4. 1 \in DOMAIN entry
        BY <2>2, <2>3
    <2>5. entry # <<>>
        BY <2>4
    <2> QED
        BY <1>2, <2>1, <2>5 DEF entry
<1> QED
    BY <1>1, <1>2

\* What reading the dictionary adds to the candidates found so far.
LEMMA ReadFindsTheEntry ==
    ASSUME FileInv, WordKnown, ReadDictionary, ~failed'
    PROVE  /\ pc' = AfterDictionary(result') /\ UNCHANGED <<reply, config, delivered, midashi, cached, answers>>
           /\ result' = IF HasEntry(midashi) THEN MergedUnits(Base(result), EntryOf(midashi)) ELSE result
<1> DEFINE block == BlockOf[midashi]
<1>1. midashi \in Words /\ block # NoBlock /\ Read(block)
    BY DEF WordKnown, ReadDictionary
<1>2. block \in Blocks
    BY <1>1, LookupAssumption
<1>3. FileInv'
    <2>1. NextFile
        BY <1>1, <1>2 DEF NextFile
    <2> QED
        BY <2>1, FileInvStep
<1>4. returned'.kind = "block" /\ returned'.of = block
    <2>1. CASE ReadCached(block)
        BY <2>1 DEF ReadCached
    <2>2. CASE ReadFromFile(block)
        BY <2>2 DEF ReadFromFile
    <2>3. CASE \E n \in 0..(block.length - 1) : ReadFails(block, n)
        BY <2>3 DEF ReadFails
    <2> QED
        BY <1>1, <2>1, <2>2, <2>3 DEF Read
<1>5. returned'.bytes = Content(block)
    BY <1>3, <1>4 DEF FileInv, ReturnsTheBlock
<1>6. returned' # Error
    BY <1>4 DEF Error
<1> HIDE DEF block
<1>7. CASE HasEntry(midashi)
    <2>1. /\ Found(returned'.bytes, midashi)
          /\ LineFeedsBehind(returned'.bytes, midashi) # {}
          /\ CandidatesIn(returned'.bytes, midashi) = EntryOf(midashi)
        BY <1>1, <1>5, <1>7, SearchFinds DEF block
    <2> QED
        BY <1>6, <1>7, <2>1 DEF ReadDictionary
<1>8. CASE ~HasEntry(midashi)
    <2>1. ~Found(returned'.bytes, midashi)
        BY <1>1, <1>2, <1>5, <1>8, SearchFindsNoOther
    <2> QED
        BY <1>6, <1>8, <2>1 DEF ReadDictionary
<1> QED
    BY <1>7, <1>8

-----------------------------------------------------------------------------

\* The candidates found so far, before Google is asked.
ResultInv ==
    /\ midashi \in Words
    /\ pc = "google_first" =>
          config["google_timing"] = "first" /\ result = <<>> /\ delivered = <<>>
    /\ pc = "dictionary" /\ config["google_timing"] # "first" =>
          result = <<>> /\ delivered = <<>>
    /\ pc = "google_last" =>
          /\ config["google_timing"] \in {"last", "notfound"} /\ delivered = <<>>
          /\ config["google_timing"] = "notfound" => result = <<>>
          /\ ~failed => result = EntryOf(midashi)

LEMMA BaseOfNone == Base(<<>>) = <<>>
BY DEF Base

LEMMA FoundBehindNothing ==
    ASSUME ResultInv, FileInv, ReadDictionary, ~failed', config["google_timing"] # "first"
    PROVE  result' = EntryOf(midashi)
<1>1. pc = "dictionary" /\ WordKnown /\ result = <<>>
    BY DEF ReadDictionary, ResultInv, WordKnown
<1>2. result' = IF HasEntry(midashi) THEN MergedUnits(Base(result), EntryOf(midashi)) ELSE result
    BY <1>1, ReadFindsTheEntry
<1>3. EntryOf(midashi) \in Seq(Seq(Nat)) /\ (~HasEntry(midashi) => EntryOf(midashi) = <<>>)
    BY <1>1, EntryType DEF WordKnown
<1>4. MergedUnits(Base(<<>>), EntryOf(midashi)) = EntryOf(midashi)
    BY <1>3, MergedBehindNone, BaseOfNone
<1> QED
    BY <1>1, <1>2, <1>3, <1>4

LEMMA ResultStep == ResultInv /\ FileInv /\ [Next]_vars => ResultInv'
<1> SUFFICES ASSUME ResultInv, FileInv, [Next]_vars
             PROVE  ResultInv'
    OBVIOUS
<1> USE DEF ResultInv
<1>1. CASE \/ \E start \in Starts : Start(start)
           \/ Setup \/ Daemonize \/ Run \/ StartFails \/ TryAgain
    BY <1>1 DEF Start, Setup, Daemonize, Run, StartFails, TryAgain
<1>2. CASE \E word \in Words : Ask(word)
    BY <1>2 DEF Ask
<1>3. CASE \E word \in Words : ForgetGoogle(word)
    BY <1>3 DEF ForgetGoogle
<1>4. CASE ReadGoogle
    <2>1. /\ pc \in {"google_first", "google_last"} /\ UNCHANGED <<config, midashi>>
          /\ pc' = (IF pc = "google_first" THEN "dictionary" ELSE "reply")
        BY <1>4 DEF ReadGoogle
    <2> QED
        BY <2>1
<1>5. CASE SkipDictionary
    <2>1. /\ pc = "dictionary" /\ BlockOf[midashi] = NoBlock /\ pc' = AfterDictionary(result)
          /\ UNCHANGED <<failed, config, midashi, result, delivered>>
        BY <1>5 DEF SkipDictionary, fileVars
    <2>2. EntryOf(midashi) = <<>>
        <3>1. ~HasEntry(midashi)
            BY <2>1, BlockFacts
        <3> QED
            BY <3>1 DEF EntryOf
    <2>3. EntryOf(midashi)' = EntryOf(midashi)
        BY <2>1 DEF EntryOf, HasEntry
    <2> QED
        BY <2>1, <2>2, <2>3 DEF AfterDictionary
<1>6. CASE ReadDictionary
    <2>1. /\ pc = "dictionary" /\ pc' \in {"idle", AfterDictionary(result')}
          /\ UNCHANGED <<config, midashi, delivered>>
        BY <1>6 DEF ReadDictionary
    <2>2. pc' = "google_last" =>
             /\ config["google_timing"] \in {"last", "notfound"}
             /\ config["google_timing"] = "notfound" => result' = <<>>
        BY <2>1 DEF AfterDictionary, IsEmptyCandidates
    <2>3. ~failed' /\ config["google_timing"] # "first" => result' = EntryOf(midashi)
        BY <1>6, FoundBehindNothing
    <2>4. EntryOf(midashi)' = EntryOf(midashi)
        BY <2>1 DEF EntryOf, HasEntry
    <2>5. pc' # "google_first" /\ pc' # "dictionary"
        BY <2>1 DEF AfterDictionary
    <2> QED
        BY <2>1, <2>2, <2>3, <2>4, <2>5
<1>7. CASE Reply
    BY <1>7 DEF Reply
<1>8. CASE UNCHANGED vars
    BY <1>8 DEF vars, lookupVars, fileVars, EntryOf, HasEntry
<1> QED
    BY <1>1, <1>2, <1>3, <1>4, <1>5, <1>6, <1>7, <1>8 DEF Next, ReadCandidates

LEMMA FileInvOfLookup == Spec => []FileInv
BY LookupImplementsFile, FileInvariant, PTL

LEMMA ResultAlways == Spec => []ResultInv
<1>1. Init => ResultInv
    BY DEF Init, ResultInv
<1> QED
    BY <1>1, ResultStep, FileInvOfLookup, PTL DEF Spec

LEMMA NeededStep ==
    GoogleInv /\ ResultInv /\ GoogleIsAskedOnlyIfNeeded /\ [Next]_vars => GoogleIsAskedOnlyIfNeeded'
<1> SUFFICES ASSUME GoogleInv, ResultInv, GoogleIsAskedOnlyIfNeeded, [Next]_vars,
                    answers'.asked, config'["google_timing"] = "notfound", ~failed'
             PROVE  ~HasEntry(midashi')
    BY DEF GoogleIsAskedOnlyIfNeeded, HasEntry
<1>1. CASE ReadGoogle
    <2>1. /\ pc = "google_last" /\ config["google_timing"] = "notfound" /\ ~failed /\ midashi' = midashi
        BY <1>1 DEF ReadGoogle, ResultInv, fileVars
    <2>2. EntryOf(midashi) = <<>> /\ midashi \in Words
        BY <2>1 DEF ResultInv
    <2> QED
        BY <2>1, <2>2, EntryType
<1>2. CASE ReadDictionary
    <2>1. pc = "dictionary" /\ UNCHANGED <<config, answers>>
        BY <1>2 DEF ReadDictionary
    <2> QED
        BY <2>1 DEF GoogleInv
<1>3. CASE \E word \in Words : Ask(word)
    BY <1>3 DEF Ask, NoAnswers
<1>4. CASE \/ \E start \in Starts : Start(start)
           \/ Setup \/ Daemonize \/ Run \/ StartFails \/ TryAgain
    BY <1>4 DEF Start, Setup, Daemonize, Run, StartFails, TryAgain, GoogleInv
<1>5. CASE \/ \E word \in Words : ForgetGoogle(word)
           \/ SkipDictionary \/ Reply \/ UNCHANGED vars
    <2>1. UNCHANGED <<config, answers, failed, midashi>>
        BY <1>5 DEF ForgetGoogle, SkipDictionary, Reply, vars, lookupVars, fileVars
    <2> QED
        BY <2>1 DEF GoogleIsAskedOnlyIfNeeded
<1> QED
    BY <1>1, <1>2, <1>3, <1>4, <1>5 DEF Next, ReadCandidates

\* With "notfound" no word of the dictionary leaves the machine, as long as the file can
\* be read: for every dictionary and whatever Google answers.
THEOREM FoundWordsStayHere == Spec => []GoogleIsAskedOnlyIfNeeded
<1>1. Init => GoogleIsAskedOnlyIfNeeded
    BY DEF Init, GoogleIsAskedOnlyIfNeeded, NoAnswers
<1> QED
    BY <1>1, NeededStep, ResultAlways, GoogleAlways, PTL DEF Spec

-----------------------------------------------------------------------------
(***************************************************************************)
(* The replies.  Every text that Google delivers becomes a candidate      *)
(* without an annotation, and merging such candidates with those of the   *)
(* dictionary, annotated or not, loses none of them.                      *)
(***************************************************************************)

\* A conversion of bytes to bytes, which makes no annotation.
ConversionIsPlain ==
    \A text \in Seq(Nat) :
        Converted(text) \in Seq(Nat) /\ (Annotated(Converted(text)) => Annotated(text))

\* What this lookup was given and what is kept for every word is of the set S.
AreIn(S) == midashi \in Words /\ delivered \in S /\ cached \in [Words -> S]

LEMMA AreInStep ==
    ASSUME NEW S, <<>> \in S, AreIn(S), [Next]_vars, ReadGoogle => delivered' \in S
    PROVE  AreIn(S)'
<1> USE DEF AreIn
<1>1. CASE ReadGoogle
    <2>1. midashi' = midashi /\ delivered' \in S
        BY <1>1 DEF ReadGoogle
    <2>2. CASE Keep
        <3> DEFINE written == [cached EXCEPT ![midashi] = delivered']
        <3>1. written \in [Words -> S]
            BY <2>1
        <3>2. \A word \in Words : [written EXCEPT ![word] = <<>>] \in [Words -> S]
            BY <3>1
        <3>3. OthersKept \cup {midashi} \subseteq Words
            BY DEF OthersKept
        <3>4. cached' \in {[written EXCEPT ![word] = <<>>] : word \in Words} \cup {written}
            BY <2>2, <3>3 DEF Keep
        <3> QED
            BY <2>1, <3>1, <3>2, <3>4
    <2>3. CASE UNCHANGED cached
        BY <2>1, <2>3
    <2> QED
        BY <1>1, <2>2, <2>3 DEF ReadGoogle
<1>2. CASE \E word \in Words : Ask(word)
    BY <1>2 DEF Ask
<1>3. CASE \E word \in Words : ForgetGoogle(word)
    BY <1>3 DEF ForgetGoogle
<1>4. CASE \/ \E start \in Starts : Start(start)
           \/ Setup \/ Daemonize \/ Run \/ StartFails \/ TryAgain
           \/ SkipDictionary \/ ReadDictionary \/ Reply \/ UNCHANGED vars
    <2>1. UNCHANGED <<midashi, delivered, cached>>
        BY <1>4 DEF Start, Setup, Daemonize, Run, StartFails, TryAgain, SkipDictionary,
                    ReadDictionary, Reply, vars, lookupVars
    <2> QED
        BY <2>1
<1> QED
    BY <1>1, <1>2, <1>3, <1>4 DEF Next, ReadCandidates

\* What Google delivers anew: texts put together of those it answered, and suggestions.
LEMMA AnswerFacts ==
    ASSUME LimitsArePositive, Answer, ~(cached[midashi] # <<>>)
    PROVE  \E japanese \in JapaneseAnswers :
           \E suggest \in IF config["is_google_suggest_enabled"] THEN SuggestAnswers ELSE {Failed} :
              /\ delivered' \in Seq(Seq(Nat)) /\ IsInjective(delivered')
              /\ Range(delivered') \subseteq
                    (IF japanese = Failed THEN {}
                     ELSE {Join(japanese, choice) : choice \in Picks(config, japanese)})
                    \cup (IF suggest = Failed THEN {} ELSE {FirstWord(t) : t \in Range(suggest)})
<1>1. PICK japanese \in JapaneseAnswers,
           suggest \in IF config["is_google_suggest_enabled"] THEN SuggestAnswers ELSE {Failed} :
         delivered' = GoogleUtf8Candidates(config, japanese, suggest)
    BY Zenon DEF Answer
<1> DEFINE picks == IF \/ japanese = Failed
                       \/ IsMerged(japanese) /\ Last(japanese).midashi = NotText
                    THEN {} ELSE Picks(config, japanese)
           joins == {Join(japanese, choice) : choice \in picks}
           suggestions == IF suggest = Failed THEN {} ELSE {FirstWord(t) : t \in Range(suggest)}
           all == IF japanese = Failed THEN {}
                  ELSE {Join(japanese, choice) : choice \in Picks(config, japanese)}
<1>2. /\ delivered' \in Seq(Seq(Nat)) /\ IsInjective(delivered')
      /\ Range(delivered') \subseteq joins \cup suggestions
    <2>1. config["google_max_candidates_length"] \in Nat
        BY DEF LimitsArePositive, Limits
    <2>2. japanese = Failed \/ (japanese \in Seq(Segment) /\ japanese # <<>>)
        BY AnswersAssumption
    <2>3. /\ suggest = Failed \/ suggest \in Seq(Seq(Nat))
          /\ config["is_google_suggest_enabled"] \/ suggest = Failed
        BY AnswersAssumption
    <2> DEFINE got == GoogleUtf8Candidates(config, japanese, suggest)
               limit == config["google_max_candidates_length"]
    <2>4. /\ got \in Seq(Seq(Nat)) /\ IsInjective(got)
          /\ Range(got) \subseteq joins \cup suggestions
          /\ suggestions \subseteq Range(got)
          /\ Cardinality(picks) <= limit => joins \subseteq Range(got)
          /\ Len(got) <= limit + Cardinality(suggestions)
        BY <2>1, <2>2, <2>3, GoogleDelivers
    <2> HIDE DEF got, joins, suggestions
    <2> QED
        BY <1>1, <2>4 DEF got
<1>3. joins \subseteq all
    <2>1. picks = {} \/ (japanese # Failed /\ picks = Picks(config, japanese))
        OBVIOUS
    <2> HIDE DEF picks
    <2> QED
        BY <2>1
<1> HIDE DEF joins
<1>4. Range(delivered') \subseteq all \cup suggestions
    BY <1>2, <1>3
<1> QED
    BY <1>2, <1>4

TextsInv == AreIn(Seq(Seq(Nat)))

LEMMA TextsAlways == Spec => []TextsInv
<1>1. <<>> \in Seq(Seq(Nat))
    OBVIOUS
<1>2. Init => TextsInv
    BY <1>1 DEF Init, TextsInv, AreIn
<1>3. ASSUME TextsInv, LimitsArePositive, [Next]_vars
      PROVE  TextsInv'
    <2>1. ASSUME ReadGoogle
          PROVE  delivered' \in Seq(Seq(Nat))
        <3>1. Answer
            BY <2>1 DEF ReadGoogle
        <3>2. CASE cached[midashi] # <<>>
            BY <1>3, <3>1, <3>2 DEF Answer, TextsInv, AreIn
        <3>3. CASE ~(cached[midashi] # <<>>)
            BY <1>3, <3>1, <3>3, AnswerFacts
        <3> QED
            BY <3>2, <3>3
    <2> QED
        BY <1>1, <1>3, <2>1, AreInStep DEF TextsInv
<1> QED
    BY <1>2, <1>3, GoogleAlways, PTL DEF Spec

-----------------------------------------------------------------------------

\* What Google's texts are merged as.
LEMMA NewUnitsFacts ==
    ASSUME ConversionIsPlain, NEW texts \in Seq(Seq(Nat))
    PROVE  LET google == NewUnits(texts)
           IN  /\ google \in Seq(Seq(Nat)) /\ Plain(google)
               /\ google = <<>> <=> texts = <<>>
               /\ Len(google) <= Len(texts)
               /\ \A i \in 1..Len(google) : google[i] = Converted(Quote(texts[i]))
<1> DEFINE n == Len(texts)
           quoted == [i \in DOMAIN texts |-> Quote(texts[i])]
           trimmed == IF Len(quoted) > 1 /\ Last(quoted) = <<>> THEN Front(quoted) ELSE quoted
           google == NewUnits(texts)
           m == Len(trimmed)
<1>1. n \in Nat /\ DOMAIN texts = 1..n /\ \A i \in 1..n : texts[i] \in Seq(Nat)
    OBVIOUS
<1>2. \A i \in 1..n : Quote(texts[i]) \in Seq(Nat) /\ ~Annotated(Quote(texts[i]))
    BY <1>1, QuoteIsOneCandidate
<1>3. quoted \in Seq(Seq(Nat)) /\ Len(quoted) = n /\ \A i \in 1..n : quoted[i] = Quote(texts[i])
    <2>1. quoted = [i \in 1..n |-> Quote(texts[i])]
        BY <1>1
    <2> HIDE DEF quoted, n
    <2>2. quoted \in [1..n -> Seq(Nat)] /\ \A i \in 1..n : quoted[i] = Quote(texts[i])
        BY <1>2, <2>1
    <2> QED
        BY <1>1, <2>2
<1>4. google = [i \in DOMAIN trimmed |-> Converted(trimmed[i])]
    BY DEF NewUnits
<1> HIDE DEF quoted, google, n
<1>5. /\ trimmed \in Seq(Seq(Nat)) /\ m \in Nat /\ DOMAIN trimmed = 1..m
      /\ m <= n /\ (m = 0 <=> n = 0)
      /\ \A i \in 1..m : trimmed[i] = quoted[i]
    <2>1. CASE Len(quoted) > 1 /\ Last(quoted) = <<>>
        <3>1. trimmed = SubSeq(quoted, 1, n - 1) /\ n - 1 \in Nat \ {0}
            BY <1>1, <1>3, <2>1 DEF Front
        <3>2. SubSeq(quoted, 1, n - 1) \in Seq(Seq(Nat)) /\ Len(SubSeq(quoted, 1, n - 1)) = n - 1
              /\ \A i \in 1..(n - 1) : SubSeq(quoted, 1, n - 1)[i] = quoted[i]
            BY <1>1, <1>3, <3>1
        <3> HIDE DEF trimmed
        <3> QED
            BY <1>1, <1>3, <3>1, <3>2
    <2>2. CASE ~(Len(quoted) > 1 /\ Last(quoted) = <<>>)
        <3>1. trimmed = quoted
            BY <2>2
        <3> HIDE DEF trimmed
        <3> QED
            BY <1>1, <1>3, <3>1
    <2> QED
        BY <2>1, <2>2
<1> HIDE DEF trimmed, m
<1>6. \A i \in 1..m : Quote(texts[i]) \in Seq(Nat) /\ ~Annotated(Quote(texts[i]))
                      /\ trimmed[i] = Quote(texts[i])
    <2>1. \A i \in 1..m : i \in 1..n
        BY <1>1, <1>5
    <2> QED
        BY <1>2, <1>3, <1>5, <2>1
<1>7. \A i \in 1..m : /\ google[i] = Converted(Quote(texts[i]))
                      /\ google[i] \in Seq(Nat) /\ ~Annotated(google[i])
    BY <1>4, <1>5, <1>6 DEF ConversionIsPlain
<1>8. google \in Seq(Seq(Nat)) /\ Len(google) = m /\ DOMAIN google = 1..m
    <2>1. google = [i \in 1..m |-> google[i]]
        BY <1>4, <1>5
    <2>2. google \in [1..m -> Seq(Nat)]
        BY <1>7, <2>1
    <2> QED
        BY <1>5, <2>2
<1>9. Plain(google)
    BY <1>7, <1>8 DEF Plain, Range
<1>10. google = <<>> <=> texts = <<>>
    <2>1. google = <<>> <=> m = 0
        BY <1>5, <1>8
    <2>2. texts = <<>> <=> n = 0
        BY DEF n
    <2> QED
        BY <1>5, <2>1, <2>2
<1> QED
    BY <1>5, <1>7, <1>8, <1>9, <1>10 DEF google, n


-----------------------------------------------------------------------------
(***************************************************************************)
(* Google's candidates, none annotated, merged with those of the          *)
(* dictionary, behind them or in front.                                    *)
(***************************************************************************)

LEMMA PlainTexts ==
    ASSUME NEW units, Plain(units)
    PROVE  TextsOf(units) = Range(units) /\ \A u \in Range(units) : Text(u) = u
BY DEF Plain, TextsOf, Text

\* What base has no unit for has a text that base has not, if no two units of new have
\* the same.
LEMMA LeftOverIsNew ==
    ASSUME NEW U, NEW base \in Seq(U), NEW new \in Seq(U), IsInjective(new), Plain(new),
           NEW unit \in LeftOver(base, new)
    PROVE  unit \notin TextsOf(base)
<1>1. PICK j \in 1..Len(new) : j \notin Matched(base, new) /\ unit = new[j]
    BY Zenon DEF LeftOver
<1> SUFFICES ASSUME unit \in TextsOf(base)
             PROVE  FALSE
    OBVIOUS
<1>2. DOMAIN base = 1..Len(base) /\ DOMAIN new = 1..Len(new) /\ Len(new) \in Nat
    OBVIOUS
<1>3. PICK i \in 1..Len(base) : Text(base[i]) = unit
    BY <1>2 DEF TextsOf, Range
<1> DEFINE m == Match(base[i], new)
<1>4. /\ m \in 0..Len(new)
      /\ m # 0 => Text(new[m]) = Text(base[i])
      /\ m = 0 => \A k \in 1..Len(new) : Text(new[k]) # Text(base[i])
    BY MatchFacts
<1>5. m \in Matched(base, new)
    BY DEF Matched
<1> HIDE DEF m
<1>6. \A k \in 1..Len(new) : Text(new[k]) = new[k]
    BY <1>2, PlainTexts DEF Range
<1>7. m # 0
    BY <1>1, <1>3, <1>4, <1>6
<1>8. m \in 1..Len(new) /\ new[m] = new[j]
    BY <1>1, <1>2, <1>3, <1>4, <1>6, <1>7
<1>9. m = j
    BY <1>1, <1>2, <1>8 DEF IsInjective
<1> QED
    BY <1>1, <1>5, <1>9

LEMMA MergedBehindDictionary ==
    ASSUME NEW dictionary \in Seq(Seq(Nat)), NEW google \in Seq(Seq(Nat)), Plain(google)
    PROVE  LET merged == MergedUnits(dictionary, google)
           IN  /\ HasEverything(merged, dictionary, google)
               /\ IsApart(dictionary, google) => IsInOrder(merged, dictionary, google, dictionary)
               /\ Len(merged) >= Len(dictionary)
<1> DEFINE merged == MergedUnits(dictionary, google)
           rest == FlattenSeq(Alone(dictionary, google))
<1>1. /\ merged \in Seq(Seq(Nat)) /\ Len(merged) >= Len(dictionary)
      /\ \A i \in 1..Len(dictionary) : Text(merged[i]) = Text(dictionary[i])
      /\ Range(merged) \subseteq Range(dictionary) \cup Range(google)
      /\ TextsOf(merged) = TextsOf(dictionary) \cup TextsOf(google)
    BY MergingLosesNothing
<1>2. rest \in Seq(Seq(Nat)) /\ Range(rest) = LeftOver(dictionary, google)
      /\ (IsInjective(google) => IsInjective(rest))
    BY AloneFacts
<1>3. merged = dictionary \o rest
    <2>1. /\ Kept(dictionary, google) \in Seq(Seq(Nat))
          /\ Len(Kept(dictionary, google)) = Len(dictionary)
          /\ \A i \in 1..Len(dictionary) : Kept(dictionary, google)[i] = dictionary[i]
        BY KeptFacts DEF Plain
    <2>2. Kept(dictionary, google) = dictionary
        <3> HIDE DEF rest
        <3> DEFINE kept == Kept(dictionary, google)
        <3>1. kept \in Seq(Seq(Nat)) /\ Len(kept) = Len(dictionary)
              /\ \A i \in 1..Len(dictionary) : kept[i] = dictionary[i]
            BY <2>1
        <3> HIDE DEF kept
        <3>2. kept = dictionary
            BY <3>1, SequencesEqual
        <3> QED
            BY <3>2 DEF kept
    <2> QED
        BY <2>2 DEF MergedUnits, Kept, Alone
<1>4. TextsOf(google) = Range(google) /\ \A u \in Range(google) : Text(u) = u
    BY PlainTexts
<1> HIDE DEF merged, rest
<1>5. Range(merged) = Range(dictionary) \cup Range(rest)
    BY <1>2, <1>3, ConcatRange
<1>6. HasEverything(merged, dictionary, google)
    BY <1>1, <1>4, <1>5 DEF HasEverything
<1>7. ASSUME IsApart(dictionary, google)
      PROVE  IsInOrder(merged, dictionary, google, dictionary)
    <2>1. IsInjective(dictionary) /\ IsInjective(google) /\ IsInjective(rest)
        BY <1>2, <1>7 DEF IsApart
    <2>2. \A unit \in LeftOver(dictionary, google) : unit \notin TextsOf(dictionary)
        BY <2>1, LeftOverIsNew
    <2>3. \A unit \in Range(google) \cap Range(merged) :
             unit \in Range(dictionary) \/ unit \notin TextsOf(dictionary)
        BY <1>2, <1>5, <2>2
    <2>4. Range(rest) \subseteq Range(google)
        <3>1. \A j \in 1..Len(google) : google[j] \in Range(google)
            BY DEF Range
        <3>2. LeftOver(dictionary, google) \subseteq Range(google)
            BY <3>1 DEF LeftOver
        <3> QED
            BY <1>2, <3>2
    <2>5. Range(dictionary) \cap Range(rest) = {}
        <3> SUFFICES ASSUME NEW u \in Range(dictionary), u \in Range(rest)
                     PROVE  FALSE
            OBVIOUS
        <3>1. Text(u) = u /\ u \notin TextsOf(dictionary)
            BY <1>2, <1>4, <2>2, <2>4
        <3> QED
            BY <3>1 DEF TextsOf
    <2>6. IsInjective(merged)
        BY <1>2, <1>3, <2>1, <2>5, ConcatInjective
    <2>7. \A i \in DOMAIN dictionary : i \in DOMAIN merged /\ Text(merged[i]) = Text(dictionary[i])
        <3>1. DOMAIN dictionary = 1..Len(dictionary) /\ DOMAIN merged = 1..Len(merged)
            BY <1>1
        <3>2. 1..Len(dictionary) \subseteq 1..Len(merged)
            BY <1>1
        <3> QED
            BY <1>1, <3>1, <3>2
    <2> QED
        BY <2>3, <2>6, <2>7 DEF IsInOrder
<1> QED
    BY <1>1, <1>6, <1>7 DEF merged

\* Where Google's unit i is kept: itself, or the one of the dictionary with its text.
LEMMA KeptOfGoogle ==
    ASSUME NEW google \in Seq(Seq(Nat)), Plain(google), NEW dictionary \in Seq(Seq(Nat)),
           NEW i \in 1..Len(google)
    PROVE  LET m == Match(google[i], dictionary)
               unit == Kept(google, dictionary)[i]
           IN  /\ Text(unit) = google[i]
               /\ m \in 0..Len(dictionary)
               /\ m = 0 => unit = google[i]
                           /\ \A j \in 1..Len(dictionary) : Text(dictionary[j]) # google[i]
               /\ m # 0 => unit = dictionary[m] /\ Text(dictionary[m]) = google[i]
<1> DEFINE m == Match(google[i], dictionary)
           unit == Kept(google, dictionary)[i]
<1>1. DOMAIN google = 1..Len(google) /\ google[i] \in Range(google)
    BY DEF Range
<1>2. Text(google[i]) = google[i] /\ ~Annotated(google[i])
    BY <1>1, PlainTexts DEF Plain
<1>3. /\ m \in 0..Len(dictionary)
      /\ m # 0 => Text(dictionary[m]) = google[i]
      /\ m = 0 => \A j \in 1..Len(dictionary) : Text(dictionary[j]) # google[i]
    BY <1>2, MatchFacts
<1>4. unit = IF m # 0 /\ Annotated(dictionary[m]) THEN dictionary[m] ELSE google[i]
    BY <1>1, <1>2, Zenon DEF Kept
<1> HIDE DEF m, unit
<1>5. m # 0 => unit = dictionary[m]
    <2>1. m # 0 /\ ~Annotated(dictionary[m]) => dictionary[m] = google[i]
        BY <1>3 DEF Text
    <2> QED
        BY <1>4, <2>1
<1>6. Text(unit) = google[i]
    BY <1>2, <1>3, <1>4, <1>5
<1> QED
    BY <1>3, <1>4, <1>5, <1>6 DEF m, unit

LEMMA MergedBehindGoogle ==
    ASSUME NEW google \in Seq(Seq(Nat)), Plain(google), NEW dictionary \in Seq(Seq(Nat))
    PROVE  LET merged == MergedUnits(google, dictionary)
           IN  /\ HasEverything(merged, dictionary, google)
               /\ IsApart(dictionary, google) => IsInOrder(merged, dictionary, google, google)
               /\ Len(merged) >= Len(google)
<1> DEFINE merged == MergedUnits(google, dictionary)
           kept == Kept(google, dictionary)
           rest == FlattenSeq(Alone(google, dictionary))
           M(i) == Match(google[i], dictionary)
<1>1. /\ merged \in Seq(Seq(Nat)) /\ Len(merged) >= Len(google)
      /\ \A i \in 1..Len(google) : Text(merged[i]) = Text(google[i])
      /\ Range(merged) \subseteq Range(google) \cup Range(dictionary)
      /\ TextsOf(merged) = TextsOf(google) \cup TextsOf(dictionary)
    BY MergingLosesNothing
<1>2. rest \in Seq(Seq(Nat)) /\ Range(rest) = LeftOver(google, dictionary)
      /\ (IsInjective(dictionary) => IsInjective(rest))
    BY AloneFacts
<1>3. merged = kept \o rest
    BY DEF MergedUnits, Kept, Alone
<1>4. kept \in Seq(Seq(Nat)) /\ Len(kept) = Len(google) /\ DOMAIN kept = 1..Len(google)
    <2>1. kept \in Seq(Seq(Nat)) /\ Len(kept) = Len(google)
        BY KeptFacts
    <2> HIDE DEF kept
    <2> QED
        BY <2>1
<1>5. \A i \in 1..Len(google) :
         /\ Text(kept[i]) = google[i]
         /\ M(i) \in 0..Len(dictionary)
         /\ M(i) = 0 => kept[i] = google[i]
                        /\ \A j \in 1..Len(dictionary) : Text(dictionary[j]) # google[i]
         /\ M(i) # 0 => kept[i] = dictionary[M(i)] /\ Text(dictionary[M(i)]) = google[i]
    BY KeptOfGoogle
<1>6. /\ TextsOf(google) = Range(google)
      /\ DOMAIN google = 1..Len(google) /\ DOMAIN dictionary = 1..Len(dictionary)
    BY PlainTexts
<1>7. Matched(google, dictionary) = {M(i) : i \in 1..Len(google)}
    BY DEF Matched
<1>8. LeftOver(google, dictionary) = {dictionary[j] : j \in (1..Len(dictionary)) \ Matched(google, dictionary)}
    BY DEF LeftOver
<1> HIDE DEF merged, kept, rest, M
<1>9. Range(merged) = Range(kept) \cup Range(rest)
    BY <1>2, <1>3, <1>4, ConcatRange
<1>10. Range(dictionary) \subseteq Range(merged)
    <2> SUFFICES ASSUME NEW j \in 1..Len(dictionary)
                 PROVE  dictionary[j] \in Range(kept) \cup Range(rest)
        BY <1>6, <1>9 DEF Range
    <2>1. CASE j \in Matched(google, dictionary)
        <3>1. PICK i \in 1..Len(google) : M(i) = j
            BY <1>7, <2>1
        <3>2. kept[i] = dictionary[j]
            <4>1. j # 0 /\ (M(i) # 0 => kept[i] = dictionary[M(i)])
                BY <1>5
            <4> QED
                BY <3>1, <4>1
        <3> QED
            BY <1>4, <3>2 DEF Range
    <2>2. CASE j \notin Matched(google, dictionary)
        BY <1>2, <1>8, <2>2
    <2> QED
        BY <2>1, <2>2
<1>11. HasEverything(merged, dictionary, google)
    BY <1>1, <1>6, <1>10 DEF HasEverything
<1>12. ASSUME IsApart(dictionary, google)
       PROVE  IsInOrder(merged, dictionary, google, google)
    <2>1. IsInjective(dictionary) /\ IsInjective(google) /\ IsInjective(rest)
        BY <1>2, <1>12 DEF IsApart
    <2>2. IsInjective(kept)
        <3> SUFFICES ASSUME NEW i \in 1..Len(google), NEW k \in 1..Len(google), kept[i] = kept[k]
                     PROVE  i = k
            BY <1>4 DEF IsInjective
        <3>1. google[i] = google[k]
            BY <1>5
        <3> QED
            BY <1>6, <2>1, <3>1 DEF IsInjective
    <2>3. Range(kept) \cap Range(rest) = {}
        <3> SUFFICES ASSUME NEW i \in 1..Len(google), kept[i] \in Range(rest)
                     PROVE  FALSE
            BY <1>4 DEF Range
        <3>1. PICK j \in (1..Len(dictionary)) \ Matched(google, dictionary) : kept[i] = dictionary[j]
            BY <1>2, <1>8
        <3>2. Text(dictionary[j]) = google[i]
            BY <1>5, <3>1
        <3>3. M(i) \in 1..Len(dictionary) /\ kept[i] = dictionary[M(i)]
            <4>1. M(i) # 0
                BY <1>5, <3>1, <3>2
            <4>2. M(i) \in 0..Len(dictionary) /\ Len(dictionary) \in Nat
                BY <1>5
            <4>3. kept[i] = dictionary[M(i)]
                BY <1>5, <4>1
            <4> QED
                BY <4>1, <4>2, <4>3
        <3>4. M(i) = j
            BY <1>6, <2>1, <3>1, <3>3 DEF IsInjective
        <3> QED
            BY <1>7, <3>1, <3>4
    <2>4. IsInjective(merged)
        BY <1>2, <1>3, <1>4, <2>1, <2>2, <2>3, ConcatInjective
    <2>5. ASSUME NEW unit \in Range(google) \cap Range(merged), unit \notin Range(dictionary)
          PROVE  unit \notin TextsOf(dictionary)
        <3>1. Range(rest) \subseteq Range(dictionary)
            BY <1>2, <1>6, <1>8 DEF Range
        <3>2. unit \in Range(kept)
            BY <1>9, <2>5, <3>1
        <3>3. PICK i \in 1..Len(google) : unit = kept[i]
            BY <1>4, <3>2 DEF Range
        <3>4. M(i) = 0
            <4> SUFFICES ASSUME M(i) # 0
                         PROVE  FALSE
                OBVIOUS
            <4>1. M(i) \in 1..Len(dictionary) /\ unit = dictionary[M(i)]
                BY <1>5, <3>3
            <4> QED
                BY <1>6, <2>5, <4>1 DEF Range
        <3>5. unit = google[i] /\ \A j \in 1..Len(dictionary) : Text(dictionary[j]) # google[i]
            BY <1>5, <3>3, <3>4
        <3> QED
            BY <1>6, <3>5 DEF TextsOf, Range
    <2>6. \A i \in DOMAIN google : i \in DOMAIN merged /\ Text(merged[i]) = Text(google[i])
        <3>1. DOMAIN merged = 1..Len(merged) /\ 1..Len(google) \subseteq 1..Len(merged)
            BY <1>1
        <3> QED
            BY <1>1, <1>6, <3>1
    <2> QED
        BY <2>4, <2>5, <2>6 DEF IsInOrder
<1> QED
    BY <1>1, <1>11, <1>12 DEF merged

\* The replies that LookupIsComplete allows; there is one without candidates only if
\* there are none.
IsWhole(candidates, dictionary, google, first) ==
    /\ HasEverything(candidates, dictionary, google)
    /\ IsApart(dictionary, google) => IsInOrder(candidates, dictionary, google, first)
    /\ candidates = <<>> => dictionary = <<>> /\ google = <<>>

LEMMA NoneHasNothing == Range(<<>>) = {} /\ TextsOf(<<>>) = {}
<1>1. Range(<<>>) = {}
    BY DEF Range
<1> QED
    BY <1>1 DEF TextsOf

LEMMA DictionaryAlone ==
    ASSUME NEW dictionary \in Seq(Seq(Nat))
    PROVE  IsWhole(dictionary, dictionary, <<>>, dictionary)
<1>1. HasEverything(dictionary, dictionary, <<>>)
    BY NoneHasNothing DEF HasEverything
<1>2. IsApart(dictionary, <<>>) => IsInOrder(dictionary, dictionary, <<>>, dictionary)
    BY NoneHasNothing DEF IsApart, IsInOrder
<1> QED
    BY <1>1, <1>2 DEF IsWhole

LEMMA GoogleAlone ==
    ASSUME NEW google \in Seq(Seq(Nat)), Plain(google)
    PROVE  IsWhole(google, <<>>, google, google)
<1>1. HasEverything(google, <<>>, google)
    BY NoneHasNothing, PlainTexts DEF HasEverything
<1>2. IsApart(<<>>, google) => IsInOrder(google, <<>>, google, google)
    BY NoneHasNothing DEF IsApart, IsInOrder
<1> QED
    BY <1>1, <1>2 DEF IsWhole

LEMMA GoogleBehind ==
    ASSUME NEW dictionary \in Seq(Seq(Nat)), <<>> \notin Range(dictionary),
           NEW google \in Seq(Seq(Nat)), Plain(google)
    PROVE  IsWhole(MergedUnits(Base(dictionary), google), dictionary, google, dictionary)
<1>1. Base(dictionary) = dictionary
    <2>1. <<>> \in Range(<< <<>> >>)
        BY DEF Range
    <2> QED
        BY <2>1 DEF Base
<1> DEFINE merged == MergedUnits(dictionary, google)
<1>2. /\ HasEverything(merged, dictionary, google)
      /\ IsApart(dictionary, google) => IsInOrder(merged, dictionary, google, dictionary)
      /\ Len(merged) >= Len(dictionary)
    BY MergedBehindDictionary
<1>3. merged = <<>> => dictionary = <<>>
    <2> HIDE DEF merged
    <2> QED
        BY <1>2
<1>4. dictionary = <<>> => merged = google
    BY MergedBehindNone
<1> QED
    BY <1>1, <1>2, <1>3, <1>4 DEF IsWhole

LEMMA DictionaryBehind ==
    ASSUME NEW google \in Seq(Seq(Nat)), Plain(google),
           NEW dictionary \in Seq(Seq(Nat)), dictionary # <<>>
    PROVE  IsWhole(MergedUnits(Base(google), dictionary), dictionary, google, google)
<1> DEFINE merged == MergedUnits(Base(google), dictionary)
<1>1. /\ HasEverything(merged, dictionary, google)
      /\ IsApart(dictionary, google) => IsInOrder(merged, dictionary, google, google)
    <2>1. CASE google = << <<>> >>
        <3>1. Range(google) = {<<>>}
            BY <2>1 DEF Range
        <3>2. merged = dictionary
            BY <2>1, MergedBehindNone DEF Base
        <3> HIDE DEF merged
        <3> QED
            BY <3>1, <3>2 DEF HasEverything, IsApart
    <2>2. CASE google # << <<>> >>
        BY <2>2, MergedBehindGoogle DEF Base
    <2> QED
        BY <2>1, <2>2
<1> HIDE DEF merged
<1>2. merged # <<>>
    <2>1. dictionary[1] \in Range(dictionary)
        <3>1. 1 \in DOMAIN dictionary
            OBVIOUS
        <3> QED
            BY <3>1 DEF Range
    <2> QED
        BY <1>1, <2>1, NoneHasNothing DEF HasEverything
<1> QED
    BY <1>1, <1>2 DEF IsWhole, merged

-----------------------------------------------------------------------------

ReadFirst == IF config["google_timing"] = "first" THEN NewUnits(delivered) ELSE EntryOf(midashi)

WholeReply(candidates) == IsWhole(candidates, EntryOf(midashi), NewUnits(delivered), ReadFirst)

\* The inductive invariant of the replies, beside ResultInv and TextsInv.
ReplyInv ==
    /\ pc \in {"down", "ended", "setup", "daemonize", "run"} => reply.kind = "none"
    /\ pc = "dictionary" => result = NewUnits(delivered)
    /\ pc = "reply" /\ ~failed => WholeReply(result)
    /\ LookupIsComplete

LEMMA PartsFacts ==
    ASSUME ConversionIsPlain, TextsInv
    PROVE  /\ EntryOf(midashi) \in Seq(Seq(Nat)) /\ <<>> \notin Range(EntryOf(midashi))
           /\ EntryOf(midashi) # <<>> <=> HasEntry(midashi)
           /\ NewUnits(delivered) \in Seq(Seq(Nat)) /\ Plain(NewUnits(delivered))
           /\ NewUnits(delivered) = <<>> <=> delivered = <<>>
<1>1. midashi \in Words /\ delivered \in Seq(Seq(Nat))
    BY DEF TextsInv, AreIn
<1> QED
    BY <1>1, EntryType, NewUnitsFacts

\* A whole list makes the reply complete, as candidates or as none.
LEMMA WholeIsComplete ==
    ASSUME ConversionIsPlain, TextsInv, WholeReply(result), Reply
    PROVE  LookupIsComplete'
<1>1. UNCHANGED <<midashi, delivered, config, result>>
      /\ reply' = IF result = <<>> THEN [kind |-> "midashi"] ELSE [kind |-> "candidates", candidates |-> result]
    BY DEF Reply, IsEmptyCandidates
<1>2. EntryOf(midashi)' = EntryOf(midashi) /\ NewUnits(delivered)' = NewUnits(delivered)
    BY <1>1 DEF EntryOf, HasEntry, NewUnits
<1>3. CASE result = <<>>
    <2>1. EntryOf(midashi) = <<>> /\ delivered = <<>>
        BY <1>3, PartsFacts DEF WholeReply, IsWhole
    <2>2. reply'.kind = "midashi"
        BY <1>1, <1>3
    <2> QED
        BY <1>1, <1>2, <2>1, <2>2 DEF LookupIsComplete
<1>4. CASE result # <<>>
    <2>1. reply'.kind = "candidates" /\ reply'.candidates = result
        BY <1>1, <1>4
    <2> DEFINE dictionary == EntryOf(midashi)
               google == NewUnits(delivered)
    <2>2. /\ HasEverything(reply'.candidates, dictionary', google')
          /\ IsApart(dictionary', google') =>
                IsInOrder(reply'.candidates, dictionary', google',
                          IF config'["google_timing"] = "first" THEN google' ELSE dictionary')
        BY <1>1, <1>2, <2>1 DEF WholeReply, IsWhole, ReadFirst
    <2> HIDE DEF dictionary, google
    <2> QED
        BY <2>1, <2>2 DEF LookupIsComplete, dictionary, google
<1> QED
    BY <1>3, <1>4

LEMMA ReadGoogleMerges ==
    ASSUME ConversionIsPlain, ResultInv, TextsInv, TextsInv', ReadGoogle
    PROVE  /\ pc = "google_first" => result' = NewUnits(delivered')
           /\ pc = "google_last" /\ ~failed => WholeReply(result)'
<1> DEFINE dictionary == EntryOf(midashi)
           google == NewUnits(delivered')
<1>1. /\ pc \in {"google_first", "google_last"} /\ UNCHANGED <<midashi, config>>
      /\ delivered' = <<>> => result' = result
      /\ delivered' # <<>> => result' = MergedUnits(Base(result), google)
    BY DEF ReadGoogle
<1>2. google \in Seq(Seq(Nat)) /\ Plain(google) /\ (google = <<>> <=> delivered' = <<>>)
    <2>1. delivered' \in Seq(Seq(Nat))
        BY DEF TextsInv, AreIn
    <2> QED
        BY <2>1, NewUnitsFacts
<1>3. ASSUME pc = "google_first"
      PROVE  result' = google
    <2>1. result = <<>>
        BY <1>3 DEF ResultInv
    <2>2. MergedUnits(Base(<<>>), google) = google
        BY <1>2, MergedBehindNone, BaseOfNone
    <2> HIDE DEF google
    <2> QED
        BY <1>1, <1>2, <2>1, <2>2
<1>4. ASSUME pc = "google_last", ~failed
      PROVE  WholeReply(result)'
    <2>1. result = dictionary /\ config["google_timing"] # "first"
        BY <1>4 DEF ResultInv
    <2>2. EntryOf(midashi)' = dictionary /\ NewUnits(delivered)' = google /\ ReadFirst' = dictionary
        BY <1>1, <2>1 DEF EntryOf, HasEntry, NewUnits, ReadFirst
    <2>3. dictionary \in Seq(Seq(Nat)) /\ <<>> \notin Range(dictionary)
        BY PartsFacts
    <2> HIDE DEF dictionary, google
    <2>4. IsWhole(result', dictionary, google, dictionary)
        <3>1. CASE delivered' = <<>>
            <4>1. google = <<>> /\ result' = dictionary
                BY <1>1, <1>2, <2>1, <3>1
            <4> QED
                BY <2>3, <4>1, DictionaryAlone
        <3>2. CASE delivered' # <<>>
            BY <1>1, <1>2, <2>1, <2>3, <3>2, GoogleBehind
        <3> QED
            BY <3>1, <3>2
    <2> QED
        BY <2>2, <2>4 DEF WholeReply
<1> QED
    BY <1>3, <1>4

LEMMA SkipIsWhole ==
    ASSUME ConversionIsPlain, ReplyInv, ResultInv, TextsInv, SkipDictionary
    PROVE  WholeReply(result)
<1>1. pc = "dictionary" /\ BlockOf[midashi] = NoBlock /\ midashi \in Words
    BY DEF SkipDictionary, ResultInv
<1>2. result = NewUnits(delivered) /\ EntryOf(midashi) = <<>>
    BY <1>1, BlockFacts DEF ReplyInv, EntryOf
<1>3. CASE config["google_timing"] = "first"
    BY <1>2, <1>3, PartsFacts, GoogleAlone DEF WholeReply, ReadFirst
<1>4. CASE config["google_timing"] # "first"
    <2>1. result = <<>> /\ <<>> \in Seq(Seq(Nat))
        BY <1>1, <1>4 DEF ResultInv
    <2>2. IsWhole(<<>>, <<>>, <<>>, <<>>)
        BY <2>1, DictionaryAlone
    <2> QED
        BY <1>2, <1>4, <2>1, <2>2 DEF WholeReply, ReadFirst
<1> QED
    BY <1>3, <1>4

LEMMA ReadIsWhole ==
    ASSUME ConversionIsPlain, ReplyInv, ResultInv, TextsInv, FileInv, ReadDictionary, ~failed'
    PROVE  IsWhole(result', EntryOf(midashi), NewUnits(delivered), ReadFirst)
<1>1. pc = "dictionary" /\ WordKnown
    BY DEF ReadDictionary, ResultInv, WordKnown
<1>2. result' = IF HasEntry(midashi) THEN MergedUnits(Base(result), EntryOf(midashi)) ELSE result
    BY <1>1, ReadFindsTheEntry
<1>3. result = NewUnits(delivered)
    BY <1>1 DEF ReplyInv
<1>4. CASE config["google_timing"] = "first"
    <2>1. ReadFirst = NewUnits(delivered)
        BY <1>4 DEF ReadFirst
    <2>2. CASE HasEntry(midashi)
        BY <1>2, <1>3, <2>1, <2>2, PartsFacts, DictionaryBehind
    <2>3. CASE ~HasEntry(midashi)
        <3>1. EntryOf(midashi) = <<>> /\ result' = NewUnits(delivered)
            BY <1>2, <1>3, <2>3 DEF EntryOf
        <3> QED
            BY <2>1, <3>1, PartsFacts, GoogleAlone
    <2> QED
        BY <2>2, <2>3
<1>5. CASE config["google_timing"] # "first"
    <2>1. result' = EntryOf(midashi)
        BY <1>5, FoundBehindNothing
    <2>2. delivered = <<>>
        BY <1>1, <1>5 DEF ResultInv
    <2>3. ReadFirst = EntryOf(midashi) /\ NewUnits(delivered) = <<>>
        BY <1>5, <2>2, PartsFacts DEF ReadFirst
    <2> QED
        BY <2>1, <2>3, PartsFacts, DictionaryAlone
<1> QED
    BY <1>4, <1>5

LEMMA ReplyStep ==
    ASSUME ConversionIsPlain, ReplyInv, ResultInv, TextsInv, TextsInv', FileInv, [Next]_vars
    PROVE  ReplyInv'
<1>1. CASE \/ \E start \in Starts : Start(start)
           \/ Setup \/ Daemonize \/ Run \/ StartFails \/ TryAgain
    <2>1. /\ pc \in {"down", "ended", "setup", "daemonize", "run"}
          /\ pc' \in {"down", "ended", "setup", "daemonize", "run", "idle"}
          /\ reply' = reply
        BY <1>1 DEF Start, Setup, Daemonize, Run, StartFails, TryAgain
    <2>2. reply'.kind = "none"
        BY <2>1 DEF ReplyInv
    <2> QED
        BY <2>1, <2>2 DEF ReplyInv, LookupIsComplete
<1>2. CASE \E word \in Words : Ask(word)
    <2>1. /\ pc' \in {"google_first", "dictionary"}
          /\ result' = <<>> /\ delivered' = <<>>
        BY <1>2 DEF Ask
    <2>2. NewUnits(delivered)' = <<>>
        <3>1. NewUnits(<<>>) = <<>>
            <4>1. <<>> \in Seq(Seq(Nat))
                OBVIOUS
            <4> QED
                BY <4>1, NewUnitsFacts
        <3> QED
            BY <2>1, <3>1 DEF NewUnits
    <2> QED
        BY <2>1, <2>2 DEF ReplyInv, LookupIsComplete
<1>3. CASE \E word \in Words : ForgetGoogle(word)
    <2>1. pc = "idle" /\ UNCHANGED <<failed, reply, midashi, delivered, config, pc>>
        BY <1>3 DEF ForgetGoogle, fileVars
    <2>2. EntryOf(midashi)' = EntryOf(midashi) /\ NewUnits(delivered)' = NewUnits(delivered)
        BY <2>1 DEF EntryOf, HasEntry, NewUnits
    <2>3. LookupIsComplete' = LookupIsComplete
        BY <2>1, <2>2 DEF LookupIsComplete
    <2> QED
        BY <2>1, <2>3 DEF ReplyInv
<1>4. CASE ReadGoogle
    <2>1. /\ pc \in {"google_first", "google_last"}
          /\ pc' = IF pc = "google_first" THEN "dictionary" ELSE "reply"
          /\ failed' = failed
        BY <1>4 DEF ReadGoogle, fileVars
    <2>2. /\ pc' = "dictionary" => result' = NewUnits(delivered)'
          /\ pc' = "reply" /\ ~failed' => WholeReply(result)'
        BY <1>4, <2>1, ReadGoogleMerges DEF NewUnits
    <2>3. pc' \in {"dictionary", "reply"}
        BY <2>1
    <2> QED
        BY <2>2, <2>3 DEF ReplyInv, LookupIsComplete
<1>5. CASE SkipDictionary
    <2>1. /\ pc' \in {"google_last", "reply"}
          /\ UNCHANGED <<midashi, delivered, config, result>>
        BY <1>5 DEF SkipDictionary, AfterDictionary
    <2>2. WholeReply(result)' = WholeReply(result)
        BY <2>1 DEF WholeReply, ReadFirst, EntryOf, HasEntry, NewUnits
    <2>3. WholeReply(result)'
        BY <1>5, <2>2, SkipIsWhole
    <2> QED
        BY <2>1, <2>3 DEF ReplyInv, LookupIsComplete
<1>6. CASE ReadDictionary
    <2>1. UNCHANGED <<midashi, delivered, config>> /\ pc' \in {"idle", "google_last", "reply"}
        BY <1>6 DEF ReadDictionary, AfterDictionary
    <2>2. CASE failed'
        BY <2>1, <2>2 DEF ReplyInv, LookupIsComplete
    <2>3. CASE ~failed'
        <3>1. pc' \in {"google_last", "reply"}
            BY <1>6, <2>3, ReadFindsTheEntry DEF ResultInv, WordKnown, AfterDictionary
        <3>2. /\ EntryOf(midashi)' = EntryOf(midashi) /\ NewUnits(delivered)' = NewUnits(delivered)
              /\ ReadFirst' = ReadFirst
            BY <2>1 DEF ReadFirst, EntryOf, HasEntry, NewUnits
        <3>3. WholeReply(result)'
            BY <1>6, <2>3, <3>2, ReadIsWhole DEF WholeReply
        <3> QED
            BY <3>1, <3>3 DEF ReplyInv, LookupIsComplete
    <2> QED
        BY <2>2, <2>3
<1>7. CASE Reply
    <2>1. pc = "reply" /\ pc' = "idle" /\ failed' = failed
        BY <1>7 DEF Reply, fileVars
    <2>2. CASE failed'
        BY <2>1, <2>2 DEF ReplyInv, LookupIsComplete
    <2>3. CASE ~failed'
        <3>1. WholeReply(result)
            BY <2>1, <2>3 DEF ReplyInv
        <3>2. LookupIsComplete'
            BY <1>7, <3>1, WholeIsComplete
        <3> QED
            BY <2>1, <3>2 DEF ReplyInv
    <2> QED
        BY <2>2, <2>3
<1>8. CASE UNCHANGED vars
    <2>1. UNCHANGED <<pc, failed, reply, midashi, delivered, config, result>>
        BY <1>8 DEF vars, lookupVars, fileVars
    <2>2. /\ EntryOf(midashi)' = EntryOf(midashi) /\ NewUnits(delivered)' = NewUnits(delivered)
          /\ ReadFirst' = ReadFirst
        BY <2>1 DEF ReadFirst, EntryOf, HasEntry, NewUnits
    <2>3. WholeReply(result)' = WholeReply(result) /\ LookupIsComplete' = LookupIsComplete
        BY <2>1, <2>2 DEF WholeReply, LookupIsComplete
    <2> QED
        BY <2>1, <2>2, <2>3 DEF ReplyInv
<1> QED
    BY <1>1, <1>2, <1>3, <1>4, <1>5, <1>6, <1>7, <1>8 DEF Next, ReadCandidates

\* As long as the file can be read, every reply is made of the whole entry of the
\* dictionary and of all that Google delivered, nothing twice that was not twice before,
\* in the order of google_timing: for every dictionary, with annotations or without,
\* and for every conversion that makes no annotation.
THEOREM RepliesAreComplete == ConversionIsPlain => (Spec => []LookupIsComplete)
<1> SUFFICES ASSUME ConversionIsPlain
             PROVE  Spec => []LookupIsComplete
    OBVIOUS
<1>1. Init => ReplyInv
    BY DEF Init, ReplyInv, LookupIsComplete
<1>2. ReplyInv /\ ResultInv /\ TextsInv /\ TextsInv' /\ FileInv /\ [Next]_vars => ReplyInv'
    BY ReplyStep
<1>3. Spec => []ReplyInv
    BY <1>1, <1>2, TextsAlways, ResultAlways, FileInvOfLookup, PTL DEF Spec
<1>4. ReplyInv => LookupIsComplete
    BY DEF ReplyInv
<1> QED
    BY <1>3, <1>4, PTL

-----------------------------------------------------------------------------
(***************************************************************************)
(* Quoting keeps Google's texts apart, so that only the conversion can    *)
(* make two of them the same candidate.                                    *)
(***************************************************************************)

\* No answer has a line end in a text.  Quote drops line ends, so that two texts with
\* and without one would become the same candidate.
AnswersAreLines ==
    /\ \A answer \in JapaneseAnswers \ {Failed} :
          \A k \in 1..Len(answer) : Range(Texts(answer[k])) \subseteq LineText
    /\ \A answer \in SuggestAnswers \ {Failed} : answer \in Seq(LineText)

Lines == {list \in Seq(LineText) : IsInjective(list)}

LEMMA LineTextIsText == LineText \subseteq Seq(Nat) /\ Seq(LineText) \subseteq Seq(Seq(Nat))
<1>1. LineText \subseteq Seq(Nat)
    BY DEF LineText
<1> HIDE DEF LineText
<1> QED
    BY <1>1

LEMMA JoinIsLine ==
    ASSUME NEW settings, NEW segments \in Seq(Segment), segments # <<>>,
           \A k \in 1..Len(segments) : Range(Texts(segments[k])) \subseteq LineText,
           NEW choice \in Picks(settings, segments)
    PROVE  Join(segments, choice) \in LineText
<1> DEFINE n == Count(segments)
           lists == Lists(segments)
           parts == Parts(segments, choice)
<1>1. /\ parts \in Seq(Seq(Nat)) /\ Len(parts) = n
      /\ Join(segments, choice) = Candidate(segments, parts)
    BY JoinFacts
<1>2. n \in 1..Len(segments) /\ n \in Nat /\ \A k \in 1..n : lists[k] \in Seq(Seq(Nat))
    BY SegmentFacts
<1>3. choice \in [1..n -> Nat] /\ \A k \in 1..n : choice[k] \in 1..Len(lists[k])
    BY PicksFacts DEF IsPick
<1>4. parts = [k \in 1..n |-> lists[k][choice[k]]] /\ lists = [k \in 1..n |-> Texts(segments[k])]
    BY DEF Parts, Lists
<1> HIDE DEF n, lists, parts
<1>5. ASSUME NEW k \in 1..n
      PROVE  parts[k] \in LineText
    <2>1. parts[k] = lists[k][choice[k]] /\ lists[k] = Texts(segments[k]) /\ k \in 1..Len(segments)
        BY <1>2, <1>4
    <2>2. choice[k] \in DOMAIN lists[k]
        BY <1>2, <1>3
    <2>3. lists[k][choice[k]] \in Range(lists[k])
        BY <2>2 DEF Range
    <2> QED
        BY <2>1, <2>3
<1>6. parts \in Seq(LineText)
    <2> HIDE DEF LineText
    <2> QED
        BY <1>1, <1>2, <1>5
<1>7. Front(parts) \in Seq(LineText)
    <2> HIDE DEF LineText
    <2> QED
        BY <1>1, <1>6 DEF Front
<1>8. PICK p \in Seq(LineText) : Candidate(segments, parts) = FlattenSeq(p)
    BY <1>6, <1>7 DEF Candidate
<1>9. p \in Seq(Seq(Nat \ {CR, LF}))
    BY DEF LineText
<1>10. FlattenSeq(p) \in Seq(Nat \ {CR, LF})
    BY <1>9, FlattenFacts
<1> QED
    BY <1>1, <1>8, <1>10 DEF LineText

LEMMA FirstWordIsLine ==
    ASSUME NEW text \in LineText
    PROVE  FirstWord(text) \in LineText
<1> DEFINE T == Nat \ {CR, LF}
<1>1. text \in Seq(T)
    BY DEF LineText
<1> HIDE DEF T
<1>2. \A end \in 2..(Len(text) - 1) : SubSeq(text, 1, end - 1) \in Seq(T)
    BY <1>1
<1> DEFINE end == SelectInSeq(text, LAMBDA letter : letter \in {Space, 9, \h3000})
<1>3. FirstWord(text) = IF end \in 2..(Len(text) - 1) THEN SubSeq(text, 1, end - 1) ELSE text
    BY DEF FirstWord, SelectInSeq
<1> HIDE DEF end
<1> QED
    BY <1>1, <1>2, <1>3 DEF T, LineText


\* What Google delivers to a lookup, of its own or kept.
LEMMA AnswerIsLines ==
    ASSUME AnswersAreLines, LimitsArePositive, AreIn(Lines), Answer
    PROVE  delivered' \in Lines
<1>1. CASE cached[midashi] # <<>>
    BY <1>1 DEF Answer, AreIn
<1>2. CASE ~(cached[midashi] # <<>>)
    <2>1. PICK japanese \in JapaneseAnswers,
               suggest \in IF config["is_google_suggest_enabled"] THEN SuggestAnswers ELSE {Failed} :
              /\ delivered' \in Seq(Seq(Nat)) /\ IsInjective(delivered')
              /\ Range(delivered') \subseteq
                    (IF japanese = Failed THEN {}
                     ELSE {Join(japanese, choice) : choice \in Picks(config, japanese)})
                    \cup (IF suggest = Failed THEN {} ELSE {FirstWord(t) : t \in Range(suggest)})
        BY <1>2, AnswerFacts, Zenon
    <2> DEFINE joins == IF japanese = Failed THEN {}
                        ELSE {Join(japanese, choice) : choice \in Picks(config, japanese)}
               suggestions == IF suggest = Failed THEN {} ELSE {FirstWord(t) : t \in Range(suggest)}
    <2>2. joins \subseteq LineText
        <3>1. CASE japanese = Failed
            BY <3>1
        <3>2. CASE japanese # Failed
            <4>1. /\ japanese \in Seq(Segment) /\ japanese # <<>>
                  /\ \A k \in 1..Len(japanese) : Range(Texts(japanese[k])) \subseteq LineText
                BY <3>2, AnswersAssumption DEF AnswersAreLines
            <4>2. \A choice \in Picks(config, japanese) : Join(japanese, choice) \in LineText
                BY <4>1, JoinIsLine
            <4> QED
                BY <3>2, <4>2
        <3> QED
            BY <3>1, <3>2
    <2>3. suggestions \subseteq LineText
        <3>1. CASE suggest = Failed
            BY <3>1
        <3>2. CASE suggest # Failed
            <4>1. suggest \in Seq(LineText)
                BY <3>2 DEF AnswersAreLines
            <4>2. \A t \in Range(suggest) : t \in LineText
                BY <4>1 DEF Range
            <4> QED
                BY <3>2, <4>2, FirstWordIsLine
        <3> QED
            BY <3>1, <3>2
    <2> HIDE DEF joins, suggestions
    <2>4. PICK texts \in Seq(Seq(Nat)) : texts = delivered' /\ Range(texts) \subseteq joins \cup suggestions
        BY <2>1 DEF joins, suggestions
    <2>5. texts \in Seq(LineText)
        <3>1. \A i \in 1..Len(texts) : texts[i] \in Range(texts)
            BY DEF Range
        <3>2. \A i \in 1..Len(texts) : texts[i] \in LineText
            BY <2>2, <2>3, <2>4, <3>1
        <3> DEFINE n == Len(texts)
        <3>3. n \in Nat /\ texts = [i \in 1..n |-> texts[i]]
            OBVIOUS
        <3>4. texts \in [1..n -> LineText]
            BY <3>2, <3>3
        <3> HIDE DEF n
        <3> QED
            BY <3>3, <3>4
    <2> QED
        BY <2>1, <2>4, <2>5 DEF Lines
<1> QED
    BY <1>1, <1>2

LEMMA NoneIsLines == <<>> \in Lines
<1>1. <<>> \in Seq(LineText) /\ IsInjective(<<>>)
    BY DEF IsInjective
<1> QED
    BY <1>1 DEF Lines

LinesInv == AreIn(Lines)

ConversionIsInjective == \A s, t \in Seq(Nat) : Converted(s) = Converted(t) => s = t

LEMMA LinesStayApart ==
    ASSUME ConversionIsPlain, ConversionIsInjective, NEW texts \in Lines
    PROVE  IsInjective(NewUnits(texts))
<1> DEFINE google == NewUnits(texts)
<1>1. texts \in Seq(Seq(Nat)) /\ IsInjective(texts) /\ DOMAIN texts = 1..Len(texts) /\ Len(texts) \in Nat
      /\ \A i \in 1..Len(texts) : texts[i] \in LineText
    <2>1. texts \in Seq(LineText) /\ IsInjective(texts)
        BY DEF Lines
    <2> HIDE DEF LineText
    <2> QED
        BY <2>1, LineTextIsText
<1>2. /\ google \in Seq(Seq(Nat)) /\ Len(google) <= Len(texts)
      /\ \A i \in 1..Len(google) : google[i] = Converted(Quote(texts[i]))
    BY <1>1, NewUnitsFacts
<1>3. \A i \in 1..Len(texts) : Quote(texts[i]) \in Seq(Nat)
    BY <1>1, LineTextIsText, QuoteIsOneCandidate
<1> HIDE DEF google
<1>4. DOMAIN google = 1..Len(google) /\ \A i \in 1..Len(google) : i \in 1..Len(texts)
    BY <1>1, <1>2
<1>5. ASSUME NEW i \in 1..Len(google), NEW j \in 1..Len(google), google[i] = google[j]
      PROVE  i = j
    <2>1. Quote(texts[i]) = Quote(texts[j])
        BY <1>2, <1>3, <1>4, <1>5 DEF ConversionIsInjective
    <2>2. texts[i] = texts[j]
        BY <1>1, <1>4, <2>1, QuoteIsInjective
    <2> QED
        BY <1>1, <1>4, <2>2 DEF IsInjective
<1> QED
    BY <1>4, <1>5 DEF IsInjective, google

\* Two candidates that Google delivers to a lookup are still two when they are merged, for
\* answers without line ends in their texts and a conversion that keeps texts apart.
\* For a dictionary in UTF-8 nothing is converted; the conversion to EUC-JP keeps apart
\* all texts but those of characters it takes for others.
THEOREM DeliveredStayApart ==
    AnswersAreLines /\ ConversionIsPlain /\ ConversionIsInjective
        => (Spec => []IsInjective(NewUnits(delivered)))
<1> SUFFICES ASSUME AnswersAreLines, ConversionIsPlain, ConversionIsInjective
             PROVE  Spec => []IsInjective(NewUnits(delivered))
    OBVIOUS
<1>1. Init => LinesInv
    BY NoneIsLines DEF Init, LinesInv, AreIn
<1>2. LinesInv /\ LimitsArePositive /\ [Next]_vars => LinesInv'
    <2> SUFFICES ASSUME LinesInv, LimitsArePositive, [Next]_vars
                 PROVE  LinesInv'
        OBVIOUS
    <2>1. ReadGoogle => delivered' \in Lines
        BY AnswerIsLines DEF ReadGoogle, LinesInv
    <2> QED
        BY <2>1, NoneIsLines, AreInStep DEF LinesInv
<1>3. LinesInv => IsInjective(NewUnits(delivered))
    BY LinesStayApart DEF LinesInv, AreIn
<1> QED
    BY <1>1, <1>2, <1>3, GoogleAlways, PTL DEF Spec

=============================================================================
