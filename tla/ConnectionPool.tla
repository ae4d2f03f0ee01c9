--------------------------- MODULE ConnectionPool ---------------------------
(***************************************************************************)
(* What the server promises about connections, whatever the table that    *)
(* holds them: a set of live connections that never exceeds               *)
(* --max-connections, in which a connection stays until the server itself *)
(* closes it, and out of which a client is kept only while the set is     *)
(* full.  SocketTable is shown to implement this module.                  *)
(***************************************************************************)
EXTENDS Integers, FiniteSets

CONSTANTS
    Conns,              \* the TCP connections clients may open
    max_connections     \* --max-connections

VARIABLES
    live,               \* the connections the server holds
    refused             \* the connections whose last attempt was turned away

poolVars == <<live, refused>>

Init ==
    /\ live = {}
    /\ refused = {}

\* A connection is taken into the pool: there was room for it.
Open(c) ==
    /\ c \notin live
    /\ Cardinality(live) < max_connections
    /\ live' = live \cup {c}
    /\ refused' = refused \ {c}

\* A connection is turned away: the pool really was full.
Refuse(c) ==
    /\ c \notin live
    /\ Cardinality(live) = max_connections
    /\ refused' = refused \cup {c}
    /\ UNCHANGED live

Close(c) ==
    /\ c \in live
    /\ live' = live \ {c}
    /\ UNCHANGED refused

Next == \E c \in Conns : Open(c) \/ Refuse(c) \/ Close(c)

Spec == Init /\ [][Next]_poolVars
=============================================================================
