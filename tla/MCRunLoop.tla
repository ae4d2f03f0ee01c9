----------------------------- MODULE MCRunLoop ------------------------------
(***************************************************************************)
(* RunLoop with requests of every kind: a lookup, the same lookup of      *)
(* another midashi ended by a line terminator, a one-byte request, one no *)
(* protocol knows, and a disconnect.                                      *)
(***************************************************************************)
EXTENDS RunLoop, TLC

CONSTANTS c1, c2, c3

Lookup == <<"1", "a", "sp">>
LookupNewline == <<"1", "b", "sp", "nl">>
Information == <<"2">>
Unknown == <<"a", "sp">>
Disconnect == <<"0">>

TwoConns == {c1, c2}
ThreeConns == {c1, c2, c3}

AllRequests == {Lookup, LookupNewline, Information, Unknown, Disconnect}
NewlineDisconnect == {LookupNewline, Disconnect}
UnknownOnly == {Unknown}
LookupOnly == {Lookup}
LookupDisconnect == {Lookup, Disconnect}

\* Connections are interchangeable, and no safety property names one.
ConnSymmetry == Permutations(Conns)
=============================================================================
