---------------------------- MODULE SocketTable -----------------------------
(***************************************************************************)
(* The table of sockets of Yaskkserv2::run_loop: a vector with one slot   *)
(* per allowed connection, the number of occupied slots, and the slot the *)
(* next accepted connection goes to.  run_loop_listener fills a slot      *)
(* without looking at what it holds, so the three variables must agree    *)
(* after every sequence of accepts and exits: a wrong next_socket_index   *)
(* would silently drop a live client.                                     *)
(***************************************************************************)
EXTENDS Integers, FiniteSets

CONSTANTS
    MAX_CONNECTION,     \* the greatest --max-connections the validator accepts
    max_connections,    \* config.max_connections, the length of the table
    Conns,              \* the TCP connections clients may open
    NoConn              \* None, the content of an empty slot

ASSUME MaxConnectionsAssumption ==
    /\ MAX_CONNECTION \in Nat
    /\ max_connections \in 1..MAX_CONNECTION

ASSUME NoConnAssumption == NoConn \notin Conns

VARIABLES
    sockets,            \* Vec<Option<MioSocket>>: the connection of each slot
    sockets_some_count, \* number of slots that hold a connection
    next_socket_index,  \* the slot of the next accepted connection
    refused             \* connections accepted and dropped on the spot (history)

tableVars == <<sockets, sockets_some_count, next_socket_index, refused>>

Slots == 0..(max_connections - 1)

Occupied == {i \in Slots : sockets[i] # NoConn}

Live == {sockets[i] : i \in Occupied}

(***************************************************************************)
(* get_empty_sockets_index: the first empty slot met when walking round   *)
(* the table from the slot after "from".  Finding none is a panic! in the *)
(* code, here an index outside the table.                                 *)
(***************************************************************************)
Panic == -1

SlotAfter(from, distance) ==
    IF from + distance < max_connections
    THEN from + distance
    ELSE from + distance - max_connections

EmptyDistances(table, from) ==
    {d \in 1..max_connections : table[SlotAfter(from, d)] = NoConn}

GetEmptySocketsIndex(table, from) ==
    IF EmptyDistances(table, from) = {}
    THEN Panic
    ELSE SlotAfter(from, CHOOSE d \in EmptyDistances(table, from) :
                             \A e \in EmptyDistances(table, from) : d <= e)

-----------------------------------------------------------------------------

InitTable ==
    /\ sockets = [i \in Slots |-> NoConn]
    /\ sockets_some_count = 0
    /\ next_socket_index = 0
    /\ refused = {}

\* run_loop_listener, Ok(socket) while there is room: the connection goes to
\* next_socket_index, and the next slot is looked for unless the table is full.
Accept(c) ==
    /\ next_socket_index # Panic
    /\ c \notin Live
    /\ sockets_some_count < max_connections
    /\ sockets' = [sockets EXCEPT ![next_socket_index] = c]
    /\ sockets_some_count' = sockets_some_count + 1
    /\ next_socket_index' =
         IF sockets_some_count' < max_connections
         THEN GetEmptySocketsIndex(sockets', next_socket_index)
         ELSE next_socket_index
    /\ refused' = refused \ {c}

\* Mutant of Refuse: the last slot is never used.
RefuseEarly(c) ==
    /\ c \notin Live
    /\ sockets_some_count >= max_connections - 1
    /\ refused' = refused \cup {c}
    /\ UNCHANGED <<sockets, sockets_some_count, next_socket_index>>

\* run_loop_listener, Ok(socket) on a full table: the socket goes out of scope.
Refuse(c) ==
    /\ c \notin Live
    /\ sockets_some_count >= max_connections
    /\ refused' = refused \cup {c}
    /\ UNCHANGED <<sockets, sockets_some_count, next_socket_index>>

\* Mutants of Exit: the count, or the next slot, is not updated.
ExitKeepingCount(token) ==
    /\ sockets[token] # NoConn
    /\ sockets' = [sockets EXCEPT ![token] = NoConn]
    /\ next_socket_index' = token
    /\ UNCHANGED <<sockets_some_count, refused>>

ExitKeepingNext(token) ==
    /\ sockets[token] # NoConn
    /\ sockets' = [sockets EXCEPT ![token] = NoConn]
    /\ sockets_some_count' = sockets_some_count - 1
    /\ UNCHANGED <<next_socket_index, refused>>

\* run_loop_token, HandleClientResult::Exit: the slot is emptied and becomes
\* the one the next connection goes to.
Exit(token) ==
    /\ sockets[token] # NoConn
    /\ sockets' = [sockets EXCEPT ![token] = NoConn]
    /\ sockets_some_count' = sockets_some_count - 1
    /\ next_socket_index' = token
    /\ UNCHANGED refused

NextTable ==
    \/ \E c \in Conns : Accept(c) \/ Refuse(c)
    \/ \E token \in Slots : Exit(token)

SpecTable == InitTable /\ [][NextTable]_tableVars

-----------------------------------------------------------------------------
(***************************************************************************)
(* Properties.                                                            *)
(***************************************************************************)

TableTypeOK ==
    /\ sockets \in [Slots -> Conns \cup {NoConn}]
    /\ sockets_some_count \in 0..max_connections
    /\ next_socket_index \in Slots
    /\ refused \subseteq Conns

\* No connection sits in two slots: closing one slot closes the connection.
NoConnectionTwice ==
    \A i, j \in Occupied : sockets[i] = sockets[j] => i = j

\* sockets_some_count, kept by hand next to the vector, is the number of
\* occupied slots, so the limit tested in run_loop_listener is the real one.
CountIsExact == sockets_some_count = Cardinality(Occupied)

\* While run_loop_listener may still accept, next_socket_index, cached by
\* earlier accepts and exits, names an empty slot: no live client is overwritten
\* and get_empty_sockets_index is never in a position to panic.
NextSlotIsEmpty ==
    sockets_some_count < max_connections => sockets[next_socket_index] = NoConn

\* The inductive invariant behind the theorems of RunLoop_proofs.
SlotInv ==
    /\ TableTypeOK
    /\ NoConnectionTwice
    /\ CountIsExact
    /\ NextSlotIsEmpty

\* A slot changes hands only through an exit: an accept never replaces the
\* connection that holds a slot.
SlotsChangeHandsByExit ==
    [][\A i \in Slots :
          sockets[i] # NoConn => sockets'[i] \in {sockets[i], NoConn}]_tableVars

\* The table implements the connection pool: in particular a client is turned
\* away only when max_connections connections are live.
Pool == INSTANCE ConnectionPool WITH live <- Live

PoolSpec == Pool!Spec
=============================================================================
