--------------------------- MODULE MCGoogleCache ----------------------------
(***************************************************************************)
(* GoogleCache with one midashi more than the cache has room for, or as    *)
(* many.                                                                   *)
(***************************************************************************)
EXTENDS GoogleCache, TLC

CONSTANTS t1, t2, m1, m2, m3, x

TwoThreads == {t1, t2}
ThreeMidashi == {m1, m2, m3}
OneList == {x}

\* Midashi are interchangeable, the order of the keys being left open, and so are
\* threads.
CacheSymmetry == Permutations(Midashi) \cup Permutations(Threads)
=============================================================================
