---------------------------- MODULE MCDictionary ----------------------------
(***************************************************************************)
(* DictionarySearch on small jisyo with entries shorter and longer than a *)
(* block, and on jisyo with so many blocks that the search is binary and  *)
(* the index has several blocks of its own, or is too long for its buffer.*)
(***************************************************************************)
EXTENDS DictionarySearch

CONSTANTS
    Lengths,        \* of the entries of small jisyo
    BlockCounts     \* of the jisyo with many blocks

Small == {<<97>>, <<97, 97>>, <<97, 97, 97>>, <<97, 105>>}

\* A Hiragana.
Another == [m \in {<<164, 162>>} |-> 2]

SmallDictionaries ==
    {<<>>} \cup
        UNION {{d @@ Another : d \in [entries -> Lengths]} : entries \in SUBSET Small}

\* One entry per block; second bytes have a gap before each for what is asked.
Many(n) == [m \in {<<97, 64 + 2 * i>> : i \in 1..n} |-> 3] @@ Another

AllDictionaries == SmallDictionaries \cup {Many(n) : n \in BlockCounts}

IsSmall(d) == DOMAIN d \subseteq Small \cup DOMAIN Another

\* A dictionary is made anew under the server, of the same jisyo or another, if
\* it is small enough.
Runs(d) == IF Cardinality(DOMAIN d) <= 3 THEN 2 ELSE 1
RevisedJisyo(d) == {Another}

\* Midashi of the jisyo, before, between and behind them; without a key, and one
\* whose key has its place where that of another has.
AskedMidashi(d) ==
    IF IsSmall(d)
    THEN Small \cup {<<97, 97, 64>>, <<98>>, <<164, 162>>, <<164, 225>>, <<128>>}
    ELSE {<<97, 64 + i>> : i \in 1..(2 * Cardinality(DOMAIN d))}

OkuriAriMidashi == {<<97, 105>>}

\* Around the two thresholds, the limit of the index buffer, and above it.
Counts == {9, 10, 11} \cup 29..37

\* One unit of either kind, and a character of four bytes in UTF-8.
Table ==
    {[euc |-> <<164, 162>>, unicode |-> <<\h3042>>],
     [euc |-> <<143, 161, 161>>, unicode |-> <<\h20089>>],
     [euc |-> <<164, 247>>, unicode |-> <<\h304b, \h309a>>]}
=============================================================================
