--------------------------- MODULE RunLoop_proofs ---------------------------
(***************************************************************************)
(* Theorems about RunLoop, for every number of slots and clients, every   *)
(* set of requests and every behaviour of clients and network the         *)
(* constants allow: the loop uses its table as SocketTable prescribes, so *)
(* what is proved of the table holds of the server, no event ever names   *)
(* an empty slot, no connection waits unnoticed unless a client was       *)
(* turned away, and clients that wait for their replies are answered.     *)
(***************************************************************************)
EXTENDS RunLoop, FiniteSetTheorems, WellFoundedInduction, TLAPS

-----------------------------------------------------------------------------
(***************************************************************************)
(* SocketTable by itself, for every length of the table and every set of  *)
(* connections.  SlotInv is inductive; the refinement of ConnectionPool   *)
(* and the action property follow from it.                                *)
(***************************************************************************)

USE MaxConnectionsAssumption, NoConnAssumption

-----------------------------------------------------------------------------
(***************************************************************************)
(* Walking round the table.                                               *)
(***************************************************************************)

\* A non-empty set of naturals has a least element.
LEMMA LeastElement ==
    ASSUME NEW S \in SUBSET Nat, S # {}
    PROVE  \E d \in S : \A e \in S : d <= e
<1>1. IsWellFoundedOn(OpToRel(<, Nat), Nat)
    BY NatLessThanWellFounded
<1>2. PICK d \in S : \A e \in S : <<e, d>> \notin OpToRel(<, Nat)
    BY <1>1, WFMin
<1>3. \A e \in S : ~(e < d)
    BY <1>2 DEF OpToRel
<1> QED
    BY <1>3

\* The walk from any slot reaches every slot of the table.
LEMMA WalkReachesEverySlot ==
    ASSUME NEW from \in Slots, NEW i \in Slots
    PROVE  \E d \in 1..max_connections : SlotAfter(from, d) = i
<1>1. CASE from < i
    <2>1. i - from \in 1..max_connections /\ SlotAfter(from, i - from) = i
        BY <1>1 DEF Slots, SlotAfter
    <2> QED
        BY <2>1
<1>2. CASE i <= from
    <2>1. /\ i - from + max_connections \in 1..max_connections
          /\ SlotAfter(from, i - from + max_connections) = i
        BY <1>2 DEF Slots, SlotAfter
    <2> QED
        BY <2>1
<1> QED
    BY <1>1, <1>2 DEF Slots

LEMMA SlotAfterType ==
    ASSUME NEW from \in Slots, NEW d \in 1..max_connections
    PROVE  SlotAfter(from, d) \in Slots
BY DEF Slots, SlotAfter

\* get_empty_sockets_index finds an empty slot when there is one: it neither
\* panics nor returns an occupied slot.
LEMMA EmptySlotIsFound ==
    ASSUME NEW table, NEW from \in Slots,
           NEW i \in Slots, table[i] = NoConn
    PROVE  /\ GetEmptySocketsIndex(table, from) \in Slots
           /\ table[GetEmptySocketsIndex(table, from)] = NoConn
<1> DEFINE D == EmptyDistances(table, from)
<1>1. D # {}
    BY WalkReachesEverySlot DEF EmptyDistances
<1>2. D \in SUBSET Nat
    BY DEF EmptyDistances
<1>3. \E d \in D : \A e \in D : d <= e
    BY <1>1, <1>2, LeastElement
<1> DEFINE least == CHOOSE d \in D : \A e \in D : d <= e
<1>4. least \in D
    BY <1>3
<1>5. least \in 1..max_connections /\ table[SlotAfter(from, least)] = NoConn
    BY <1>4 DEF EmptyDistances
<1>6. GetEmptySocketsIndex(table, from) = SlotAfter(from, least)
    BY <1>1 DEF GetEmptySocketsIndex
<1> QED
    BY <1>5, <1>6, SlotAfterType

-----------------------------------------------------------------------------
(***************************************************************************)
(* Counting.                                                              *)
(***************************************************************************)

LEMMA SlotsFinite ==
    IsFiniteSet(Slots) /\ Cardinality(Slots) = max_connections
<1>1. /\ IsFiniteSet(0..(max_connections - 1))
      /\ Cardinality(0..(max_connections - 1)) =
           IF 0 > max_connections - 1 THEN 0 ELSE (max_connections - 1) - 0 + 1
    BY FS_Interval
<1> QED
    BY <1>1 DEF Slots

\* A set of slots smaller than the table misses a slot.
LEMMA MissedSlot ==
    ASSUME NEW S \in SUBSET Slots, Cardinality(S) < max_connections
    PROVE  \E i \in Slots : i \notin S
<1>1. Cardinality(S) # Cardinality(Slots)
    BY SlotsFinite
<1> QED
    BY <1>1

\* Filling an empty slot occupies one slot more.
LEMMA OccupiedAfterAccept ==
    ASSUME SlotInv, NEW c \in Conns, Accept(c)
    PROVE  /\ next_socket_index \in Slots
           /\ sockets[next_socket_index] = NoConn
           /\ Occupied' = Occupied \cup {next_socket_index}
           /\ sockets_some_count' = Cardinality(Occupied')
<1>1. /\ next_socket_index \in Slots
      /\ sockets[next_socket_index] = NoConn
    BY DEF SlotInv, TableTypeOK, NextSlotIsEmpty, Accept
<1>2. Occupied' = Occupied \cup {next_socket_index}
    BY <1>1 DEF Accept, Occupied, SlotInv, TableTypeOK
<1>3. IsFiniteSet(Occupied)
    BY SlotsFinite, FS_Subset DEF Occupied
<1>4. Cardinality(Occupied \cup {next_socket_index}) = Cardinality(Occupied) + 1
    BY <1>1, <1>3, FS_AddElement DEF Occupied
<1> QED
    BY <1>1, <1>2, <1>4 DEF Accept, SlotInv, CountIsExact

\* Emptying an occupied slot occupies one slot less.
LEMMA OccupiedAfterExit ==
    ASSUME SlotInv, NEW slot \in Slots, Exit(slot)
    PROVE  /\ Occupied' = Occupied \ {slot}
           /\ sockets_some_count' = Cardinality(Occupied')
<1>1. Occupied' = Occupied \ {slot}
    BY DEF Exit, Occupied, SlotInv, TableTypeOK
<1>2. IsFiniteSet(Occupied)
    BY SlotsFinite, FS_Subset DEF Occupied
<1>3. Cardinality(Occupied \ {slot}) = Cardinality(Occupied) - 1
    BY <1>2, FS_RemoveElement DEF Exit, Occupied
<1> QED
    BY <1>1, <1>3 DEF Exit, SlotInv, CountIsExact

-----------------------------------------------------------------------------
(***************************************************************************)
(* SlotInv is an invariant.                                               *)
(***************************************************************************)

LEMMA SlotInvInit == InitTable => SlotInv
<1> SUFFICES ASSUME InitTable PROVE SlotInv
    OBVIOUS
<1>1. Occupied = {}
    BY DEF InitTable, Occupied
<1>2. Cardinality(Occupied) = 0
    BY <1>1, FS_EmptySet
<1> QED
    BY <1>1, <1>2 DEF InitTable, SlotInv, TableTypeOK, NoConnectionTwice,
                      CountIsExact, NextSlotIsEmpty, Slots

LEMMA AcceptPreservesSlotInv ==
    ASSUME SlotInv, NEW c \in Conns, Accept(c)
    PROVE  SlotInv'
<1> DEFINE next == next_socket_index
<1>1. /\ next \in Slots
      /\ sockets[next] = NoConn
      /\ Occupied' = Occupied \cup {next}
      /\ CountIsExact'
    BY OccupiedAfterAccept DEF CountIsExact
<1>2. sockets' \in [Slots -> Conns \cup {NoConn}]
    BY DEF Accept, SlotInv, TableTypeOK
<1>3. sockets_some_count' \in 0..max_connections
    BY DEF Accept, SlotInv, TableTypeOK
<1>4. /\ next_socket_index' \in Slots
      /\ sockets_some_count' < max_connections =>
            sockets'[next_socket_index'] = NoConn
    <2>1. CASE sockets_some_count' < max_connections
        <3>1. PICK i \in Slots : i \notin Occupied'
            BY <1>1, <2>1, MissedSlot DEF CountIsExact, Occupied
        <3>2. sockets'[i] = NoConn
            BY <3>1 DEF Occupied
        <3>3. next_socket_index' = GetEmptySocketsIndex(sockets', next)
            BY <2>1 DEF Accept
        <3> QED
            BY <1>1, <3>2, <3>3, EmptySlotIsFound
    <2>2. CASE ~(sockets_some_count' < max_connections)
        BY <1>1, <2>2 DEF Accept
    <2> QED
        BY <2>1, <2>2
<1>5. NoConnectionTwice'
    <2> SUFFICES ASSUME NEW i \in Occupied', NEW j \in Occupied',
                        sockets'[i] = sockets'[j]
                 PROVE  i = j
        BY DEF NoConnectionTwice
    <2>1. \A k \in Occupied' : \/ k = next /\ sockets'[k] = c
                               \/ k # next /\ k \in Occupied /\ sockets'[k] = sockets[k]
        BY <1>1 DEF Accept, Occupied, SlotInv, TableTypeOK
    <2>2. \A k \in Occupied : sockets[k] # c
        BY DEF Accept, Live
    <2> QED
        BY <2>1, <2>2 DEF SlotInv, NoConnectionTwice
<1>6. refused' \subseteq Conns
    BY DEF Accept, SlotInv, TableTypeOK
<1> QED
    BY <1>1, <1>2, <1>3, <1>4, <1>5, <1>6
    DEF SlotInv, TableTypeOK, NextSlotIsEmpty

LEMMA RefusePreservesSlotInv ==
    ASSUME SlotInv, NEW c \in Conns, Refuse(c)
    PROVE  SlotInv'
BY DEF SlotInv, TableTypeOK, NoConnectionTwice, CountIsExact, NextSlotIsEmpty,
       Refuse, Occupied

LEMMA ExitPreservesSlotInv ==
    ASSUME SlotInv, NEW slot \in Slots, Exit(slot)
    PROVE  SlotInv'
<1>1. Occupied' = Occupied \ {slot} /\ CountIsExact'
    BY OccupiedAfterExit DEF CountIsExact
<1>2. sockets_some_count' \in 0..max_connections
    <2>1. IsFiniteSet(Occupied')
        BY SlotsFinite, FS_Subset DEF Occupied
    <2>2. Cardinality(Occupied') \in Nat
        BY <2>1, FS_CardinalityType
    <2> QED
        BY <1>1, <2>2 DEF Exit, CountIsExact, SlotInv, TableTypeOK
<1>3. TableTypeOK'
    BY <1>2 DEF Exit, SlotInv, TableTypeOK
<1>4. NoConnectionTwice'
    <2>1. \A k \in Occupied' : k \in Occupied /\ sockets'[k] = sockets[k]
        BY <1>1 DEF Exit, Occupied, SlotInv, TableTypeOK
    <2> QED
        BY <2>1 DEF SlotInv, NoConnectionTwice
<1>5. NextSlotIsEmpty'
    BY DEF Exit, SlotInv, TableTypeOK, NextSlotIsEmpty
<1> QED
    BY <1>1, <1>3, <1>4, <1>5 DEF SlotInv

LEMMA StutterPreservesSlotInv ==
    ASSUME SlotInv, UNCHANGED tableVars
    PROVE  SlotInv'
BY DEF SlotInv, TableTypeOK, NoConnectionTwice, CountIsExact, NextSlotIsEmpty,
       Occupied, tableVars

LEMMA SlotInvStep == SlotInv /\ [NextTable]_tableVars => SlotInv'
<1> SUFFICES ASSUME SlotInv, [NextTable]_tableVars
             PROVE  SlotInv'
    OBVIOUS
<1>1. ASSUME NEW c \in Conns, Accept(c) PROVE SlotInv'
    BY <1>1, AcceptPreservesSlotInv
<1>2. ASSUME NEW c \in Conns, Refuse(c) PROVE SlotInv'
    BY <1>2, RefusePreservesSlotInv
<1>3. ASSUME NEW slot \in Slots, Exit(slot) PROVE SlotInv'
    BY <1>3, ExitPreservesSlotInv
<1>4. CASE UNCHANGED tableVars
    BY <1>4, StutterPreservesSlotInv
<1> QED
    BY <1>1, <1>2, <1>3, <1>4 DEF NextTable

\* The three variables of run_loop agree after any sequence of accepts and
\* exits.
THEOREM TableInvariant == SpecTable => []SlotInv
<1>1. InitTable => SlotInv
    BY SlotInvInit
<1>2. SlotInv /\ [NextTable]_tableVars => SlotInv'
    BY SlotInvStep
<1> QED
    BY <1>1, <1>2, PTL DEF SpecTable

\* What run_loop_listener relies on when it fills a slot without looking at it.
THEOREM NextSlotAlwaysEmpty == SpecTable => []NextSlotIsEmpty
<1>1. SlotInv => NextSlotIsEmpty
    BY DEF SlotInv
<1> QED
    BY <1>1, TableInvariant, PTL

\* The limit run_loop_listener tests is the number of occupied slots.
THEOREM CountAlwaysExact == SpecTable => []CountIsExact
<1>1. SlotInv => CountIsExact
    BY DEF SlotInv
<1> QED
    BY <1>1, TableInvariant, PTL

\* The indices stay inside the table: get_empty_sockets_index never panics.
THEOREM TableTypeCorrect == SpecTable => []TableTypeOK
<1>1. SlotInv => TableTypeOK
    BY DEF SlotInv
<1> QED
    BY <1>1, TableInvariant, PTL

-----------------------------------------------------------------------------
(***************************************************************************)
(* No step replaces a live connection.                                    *)
(***************************************************************************)

\* An accept never overwrites the connection of a slot.
THEOREM SlotsKeepTheirConnection == SpecTable => SlotsChangeHandsByExit
<1> DEFINE Kept == \A i \in Slots :
                      sockets[i] # NoConn => sockets'[i] \in {sockets[i], NoConn}
<1>1. SlotInv /\ [NextTable]_tableVars => [Kept]_tableVars
    <2> SUFFICES ASSUME SlotInv, NextTable, NEW i \in Slots, sockets[i] # NoConn
                 PROVE  sockets'[i] \in {sockets[i], NoConn}
        OBVIOUS
    <2>1. ASSUME NEW c \in Conns, Accept(c)
          PROVE  sockets'[i] \in {sockets[i], NoConn}
        <3>1. next_socket_index # i
            BY <2>1, OccupiedAfterAccept
        <3> QED
            BY <2>1, <3>1 DEF Accept, SlotInv, TableTypeOK
    <2>2. ASSUME NEW c \in Conns, Refuse(c)
          PROVE  sockets'[i] \in {sockets[i], NoConn}
        BY <2>2 DEF Refuse
    <2>3. ASSUME NEW slot \in Slots, Exit(slot)
          PROVE  sockets'[i] \in {sockets[i], NoConn}
        BY <2>3 DEF Exit, SlotInv, TableTypeOK
    <2> QED
        BY <2>1, <2>2, <2>3 DEF NextTable
<1> QED
    BY <1>1, TableInvariant, PTL DEF SpecTable, SlotsChangeHandsByExit

-----------------------------------------------------------------------------
(***************************************************************************)
(* The table implements the connection pool.                              *)
(***************************************************************************)

\* As no connection sits twice, there are as many live connections as occupied
\* slots.
LEMMA LiveCardinality ==
    ASSUME SlotInv
    PROVE  IsFiniteSet(Live) /\ Cardinality(Live) = sockets_some_count
<1> DEFINE f == [i \in Occupied |-> sockets[i]]
<1>1. IsFiniteSet(Occupied)
    BY SlotsFinite, FS_Subset DEF Occupied
<1>2. f \in Bijection(Occupied, Live)
    <2>1. f \in [Occupied -> Live]
        BY DEF Live
    <2>2. \A i, j \in Occupied : f[i] = f[j] => i = j
        BY DEF SlotInv, NoConnectionTwice
    <2>3. \A c \in Live : \E i \in Occupied : f[i] = c
        BY DEF Live
    <2> QED
        BY <2>1, <2>2, <2>3 DEF Bijection, Injection, Surjection, IsInjective
<1>3. ExistsBijection(Occupied, Live)
    BY <1>2 DEF ExistsBijection
<1> QED
    BY <1>1, <1>3, FS_Bijection DEF SlotInv, CountIsExact

\* The two modules mean the same cardinality.
LEMMA SameCardinality == \A S : Pool!Cardinality(S) = Cardinality(S)
BY DEF Pool!Cardinality, Cardinality

LEMMA AcceptOpens ==
    ASSUME SlotInv, NEW c \in Conns, Accept(c)
    PROVE  Pool!Open(c)
<1> DEFINE next == next_socket_index
<1>1. /\ next \in Slots
      /\ sockets[next] = NoConn
      /\ Occupied' = Occupied \cup {next}
    BY OccupiedAfterAccept
<1>2. /\ sockets'[next] = c
      /\ \A i \in Occupied : sockets'[i] = sockets[i]
    BY <1>1 DEF Accept, SlotInv, TableTypeOK, Occupied
<1>3. Live' = Live \cup {c}
    BY <1>1, <1>2 DEF Live
<1> QED
    BY <1>3, LiveCardinality, SameCardinality DEF Accept, Pool!Open

LEMMA RefuseRefuses ==
    ASSUME SlotInv, NEW c \in Conns, Refuse(c)
    PROVE  Pool!Refuse(c)
<1>1. Cardinality(Live) = max_connections
    BY LiveCardinality DEF Refuse, SlotInv, TableTypeOK
<1>2. Live' = Live
    BY DEF Refuse, Live, Occupied
<1> QED
    BY <1>1, <1>2, SameCardinality DEF Refuse, Pool!Refuse

LEMMA ExitCloses ==
    ASSUME SlotInv, NEW slot \in Slots, Exit(slot)
    PROVE  /\ sockets[slot] \in Conns
           /\ Pool!Close(sockets[slot])
<1>1. sockets[slot] \in Conns /\ slot \in Occupied
    BY DEF Exit, SlotInv, TableTypeOK, Occupied
<1>2. Occupied' = Occupied \ {slot}
    BY OccupiedAfterExit
<1>3. \A i \in Occupied' : sockets'[i] = sockets[i]
    BY <1>2 DEF Exit, SlotInv, TableTypeOK, Occupied
<1>4. Live' = Live \ {sockets[slot]}
    BY <1>1, <1>2, <1>3 DEF Live, SlotInv, NoConnectionTwice
<1> QED
    BY <1>1, <1>4 DEF Exit, Pool!Close, Live

\* Every run of the table is a run of the connection pool: at most
\* max_connections live connections, none dropped but by an exit, and a client
\* turned away only while the pool is full.
THEOREM TableImplementsPool == SpecTable => PoolSpec
<1>1. InitTable => Pool!Init
    BY DEF InitTable, Pool!Init, Live, Occupied
<1>2. SlotInv /\ [NextTable]_tableVars => [Pool!Next]_(Pool!poolVars)
    <2> SUFFICES ASSUME SlotInv, [NextTable]_tableVars
                 PROVE  Pool!Next \/ UNCHANGED Pool!poolVars
        OBVIOUS
    <2>1. ASSUME NEW c \in Conns, Accept(c) PROVE Pool!Next
        BY <2>1, AcceptOpens DEF Pool!Next
    <2>2. ASSUME NEW c \in Conns, Refuse(c) PROVE Pool!Next
        BY <2>2, RefuseRefuses DEF Pool!Next
    <2>3. ASSUME NEW slot \in Slots, Exit(slot) PROVE Pool!Next
        BY <2>3, ExitCloses DEF Pool!Next
    <2>4. CASE UNCHANGED tableVars
        BY <2>4 DEF tableVars, Pool!poolVars, Live, Occupied
    <2> QED
        BY <2>1, <2>2, <2>3, <2>4 DEF NextTable
<1> QED
    BY <1>1, <1>2, TableInvariant, PTL DEF SpecTable, PoolSpec, Pool!Spec

\* LISTENER is the token after the last slot the validator allows: the event of
\* the listener is never taken for one of a connection.
LEMMA ListenerIsNoSlot == LISTENER \notin Slots
BY MaxConnectionsAssumption DEF LISTENER, Slots

-----------------------------------------------------------------------------
(***************************************************************************)
(* RunLoop implements SocketTable.                                        *)
(***************************************************************************)

\* What is accepted is a connection some client opened.
BacklogInv == backlog \in Seq(Conns)

\* The connection of an event being handled is in the table: an exit empties an
\* occupied slot of it.
TokenInv == pc \in {"read", "handle"} => token \in Slots

TableStepInv == BacklogInv /\ TokenInv

\* Steps of the clients leave the table alone and append connections to the
\* backlog.
LEMMA ClientStepTable ==
    ASSUME TableStepInv, ClientStep
    PROVE  TableStepInv' /\ UNCHANGED tableVars
<1>1. PICK c \in Conns :
        \/ Connect(c)
        \/ \E r \in Requests : Ask(c, r)
        \/ \E n \in 1..Len(wire[c]) : Deliver(c, n)
        \/ ShutdownWrite(c)
        \/ CloseClient(c)
        \/ ResetClient(c)
    BY DEF ClientStep
<1>2. UNCHANGED <<tableVars, pc, token>>
    BY <1>1 DEF Connect, Ask, Deliver, ShutdownWrite, CloseClient, ResetClient,
                threadVars
<1>3. backlog' \in {backlog, Append(backlog, c)}
    BY <1>1 DEF Connect, Ask, Deliver, ShutdownWrite, CloseClient, ResetClient,
                kernelVars
<1> QED
    BY <1>2, <1>3 DEF TableStepInv, BacklogInv, TokenInv

LEMMA CloseSocketTable ==
    ASSUME TableStepInv, pc \in {"read", "handle"}, CloseSocket
    PROVE  TableStepInv' /\ NextTable
<1>1. token \in Slots /\ Exit(token)
    BY DEF TableStepInv, TokenInv, CloseSocket
<1>2. pc' = "run" /\ backlog' = backlog
    BY DEF CloseSocket, BackToEvents
<1> QED
    BY <1>1, <1>2 DEF NextTable, TableStepInv, BacklogInv, TokenInv

\* Every step of the thread is a step of the table or leaves it alone.
LEMMA ServerStepTable ==
    ASSUME TableStepInv, ServerStep, batch \subseteq Slots \cup {LISTENER}
    PROVE  TableStepInv' /\ [NextTable]_tableVars
<1>1. CASE PollReturns \/ StartAccepting \/ AcceptWouldBlock \/ ReadBytes
           \/ ReadEndOfStream \/ ReadWouldBlock \/ HandleRequest
    <2>1. UNCHANGED <<tableVars, backlog, token>>
        BY <1>1 DEF PollReturns, StartAccepting, AcceptWouldBlock, ReadBytes,
                    ReadEndOfStream, ReadWouldBlock, HandleRequest, WriteReply, kernelVars
    <2>2. pc' \in {"read", "handle"} => pc \in {"read", "handle"}
        BY <1>1 DEF PollReturns, StartAccepting, AcceptWouldBlock, ReadBytes,
                    ReadEndOfStream, ReadWouldBlock, HandleRequest, WriteReply, BackToEvents
    <2> QED
        BY <2>1, <2>2 DEF TableStepInv, BacklogInv, TokenInv
<1>2. ASSUME NEW t \in batch, StartReading(t)
      PROVE  TableStepInv' /\ [NextTable]_tableVars
    <2>1. t \in Slots
        BY <1>2 DEF StartReading
    <2> QED
        BY <1>2, <2>1 DEF StartReading, kernelVars, TableStepInv, BacklogInv, TokenInv
<1>3. CASE AcceptSocket
    <2>1. Head(backlog) \in Conns /\ backlog' \in Seq(Conns)
        BY <1>3 DEF AcceptSocket, TableStepInv, BacklogInv
    <2> QED
        BY <1>3, <2>1 DEF AcceptSocket, threadVars, NextTable, TableStepInv,
                          BacklogInv, TokenInv
<1>4. CASE RefuseSocket
    <2>1. Head(backlog) \in Conns /\ backlog' \in Seq(Conns)
        BY <1>4 DEF RefuseSocket, TableStepInv, BacklogInv
    <2> QED
        BY <1>4, <2>1 DEF RefuseSocket, NextTable, TableStepInv, BacklogInv, TokenInv
<1>5. CASE ReadError
    BY <1>5, CloseSocketTable DEF ReadError
<1>6. CASE HandleExit
    BY <1>6, CloseSocketTable DEF HandleExit
<1> QED
    BY <1>1, <1>2, <1>3, <1>4, <1>5, <1>6 DEF ServerStep

LEMMA FaultTable ==
    ASSUME TableStepInv, Fault
    PROVE  TableStepInv' /\ UNCHANGED tableVars
BY DEF Fault, ListenerFails, DeregisterFails, kernelVars, TableStepInv, BacklogInv,
       TokenInv

-----------------------------------------------------------------------------
(***************************************************************************)
(* Events and slots.                                                      *)
(***************************************************************************)

\* The inductive invariant: the table's, and that events name live sockets.
EventInv ==
    /\ SlotInv
    /\ TableStepInv
    /\ EventsNameLiveSockets

LEMMA EventInvBatch ==
    ASSUME EventInv
    PROVE  batch \subseteq Slots \cup {LISTENER}
BY DEF EventInv, EventsNameLiveSockets, Occupied

LEMMA EventInvInit == Init => EventInv
<1> SUFFICES ASSUME Init PROVE EventInv
    OBVIOUS
<1>1. SlotInv
    BY SlotInvInit DEF Init
<1> QED
    BY <1>1 DEF Init, EventInv, TableStepInv, BacklogInv, TokenInv,
                EventsNameLiveSockets

\* A step that leaves the slots alone may add events of occupied slots only.
LEMMA ClientStepEvents ==
    ASSUME EventInv, ClientStep
    PROVE  EventsNameLiveSockets'
<1>1. UNCHANGED tableVars
    BY ClientStepTable DEF EventInv
<1>2. PICK c \in Conns :
        \/ Connect(c)
        \/ \E r \in Requests : Ask(c, r)
        \/ \E n \in 1..Len(wire[c]) : Deliver(c, n)
        \/ ShutdownWrite(c)
        \/ CloseClient(c)
        \/ ResetClient(c)
    BY DEF ClientStep
<1>3. UNCHANGED <<pc, batch, token>>
    BY <1>2 DEF Connect, Ask, Deliver, ShutdownWrite, CloseClient, ResetClient,
                threadVars
<1>4. ready' \subseteq ready \cup {LISTENER} \cup TokensOf(c)
    BY <1>2 DEF Connect, Ask, Deliver, ShutdownWrite, CloseClient, ResetClient,
                kernelVars
<1>5. TokensOf(c) \subseteq Occupied
    BY DEF TokensOf
<1>6. Occupied' = Occupied
    BY <1>1 DEF tableVars, Occupied
<1> QED
    BY <1>3, <1>4, <1>5, <1>6 DEF EventInv, EventsNameLiveSockets

\* Closing a socket takes its queued event away with it, and the event being
\* handled was the only one of the batch for its slot.
LEMMA CloseSocketEvents ==
    ASSUME EventInv, pc \in {"read", "handle"}, CloseSocket
    PROVE  EventsNameLiveSockets'
<1>1. token \in Occupied \ batch /\ token \in Slots
    BY DEF EventInv, EventsNameLiveSockets, Occupied
<1>2. Occupied' = Occupied \ {token}
    BY <1>1, OccupiedAfterExit DEF EventInv, CloseSocket
<1>3. /\ batch' = batch
      /\ ready' = ready \ {token}
      /\ pc' = "run"
    BY DEF CloseSocket, BackToEvents
<1> QED
    BY <1>1, <1>2, <1>3 DEF EventInv, EventsNameLiveSockets

LEMMA ServerStepEvents ==
    ASSUME EventInv, ServerStep
    PROVE  EventsNameLiveSockets'
<1>1. CASE PollReturns
    <2>1. batch' \subseteq ready /\ ready' \subseteq ready
        BY <1>1 DEF PollReturns, Reportable
    <2>2. Occupied' = Occupied /\ pc' = "run"
        BY <1>1 DEF PollReturns, tableVars, Occupied
    <2> QED
        BY <2>1, <2>2 DEF EventInv, EventsNameLiveSockets
<1>2. CASE StartAccepting \/ AcceptWouldBlock
    <2>1. batch' \subseteq batch /\ ready' = ready /\ pc' \in {"accept", "run"}
        BY <1>2 DEF StartAccepting, AcceptWouldBlock, kernelVars
    <2>2. Occupied' = Occupied
        BY <1>2 DEF StartAccepting, AcceptWouldBlock, tableVars, Occupied
    <2> QED
        BY <2>1, <2>2 DEF EventInv, EventsNameLiveSockets
<1>3. ASSUME NEW t \in batch, StartReading(t)
      PROVE  EventsNameLiveSockets'
    <2>1. t \in Occupied
        BY <1>3 DEF StartReading, EventInv, EventsNameLiveSockets
    <2>2. pc' = "read" /\ token' = t /\ batch' = batch \ {t} /\ ready' = ready
        BY <1>3, <2>1 DEF StartReading, Occupied, kernelVars
    <2>3. Occupied' = Occupied
        BY <1>3 DEF StartReading, tableVars, Occupied
    <2> QED
        BY <2>1, <2>2, <2>3 DEF EventInv, EventsNameLiveSockets
<1>4. CASE AcceptSocket
    <2>1. Head(backlog) \in Conns /\ Accept(Head(backlog))
        BY <1>4 DEF AcceptSocket, EventInv, TableStepInv, BacklogInv
    <2>2. Occupied' = Occupied \cup {next_socket_index}
        BY <2>1, OccupiedAfterAccept DEF EventInv
    <2>3. /\ ready' \subseteq ready \cup {next_socket_index}
          /\ batch' = batch /\ pc' = "accept"
        BY <1>4 DEF AcceptSocket, threadVars
    <2> QED
        BY <2>2, <2>3 DEF EventInv, EventsNameLiveSockets
<1>5. CASE RefuseSocket
    <2>1. Occupied' = Occupied
        BY <1>5 DEF RefuseSocket, Refuse, Occupied
    <2> QED
        BY <1>5, <2>1 DEF RefuseSocket, EventInv, EventsNameLiveSockets
<1>6. CASE ReadBytes \/ ReadEndOfStream
    <2>1. Occupied' = Occupied
        BY <1>6 DEF ReadBytes, ReadEndOfStream, tableVars, Occupied
    <2>2. /\ UNCHANGED <<batch, ready, token>>
          /\ pc = "read" /\ pc' \in {"read", "handle"}
        BY <1>6 DEF ReadBytes, ReadEndOfStream, kernelVars
    <2> QED
        BY <2>1, <2>2 DEF EventInv, EventsNameLiveSockets
<1>7. CASE ReadWouldBlock
    <2>1. Occupied' = Occupied
        BY <1>7 DEF ReadWouldBlock, tableVars, Occupied
    <2>2. UNCHANGED <<batch, ready>> /\ pc' = "run"
        BY <1>7 DEF ReadWouldBlock, BackToEvents, kernelVars
    <2> QED
        BY <2>1, <2>2 DEF EventInv, EventsNameLiveSockets
<1>8. CASE HandleRequest
    <2>1. Occupied' = Occupied
        BY <1>8 DEF HandleRequest, WriteReply, tableVars, Occupied
    <2>2. token \in Occupied
        BY <1>8 DEF HandleRequest, WriteReply, EventInv, EventsNameLiveSockets
    <2>3. batch' = batch /\ ready' \subseteq ready \cup {token} /\ pc' = "run"
        BY <1>8 DEF HandleRequest, WriteReply, BackToEvents
    <2> QED
        BY <2>1, <2>2, <2>3 DEF EventInv, EventsNameLiveSockets
<1>9. CASE ReadError
    BY <1>9, CloseSocketEvents DEF ReadError
<1>10. CASE HandleExit
    BY <1>10, CloseSocketEvents DEF HandleExit
<1> QED
    BY <1>1, <1>2, <1>3, <1>4, <1>5, <1>6, <1>7, <1>8, <1>9, <1>10 DEF ServerStep

LEMMA FaultEvents ==
    ASSUME EventInv, Fault
    PROVE  EventsNameLiveSockets'
<1>1. Occupied' = Occupied
    BY DEF Fault, ListenerFails, DeregisterFails, tableVars, Occupied
<1>2. UNCHANGED <<batch, ready>> /\ pc' = "failed"
    BY DEF Fault, ListenerFails, DeregisterFails, kernelVars
<1> QED
    BY <1>1, <1>2 DEF EventInv, EventsNameLiveSockets

\* One step of the loop, of a client or of the network.
LEMMA EventInvStep == EventInv /\ [Next]_vars => EventInv' /\ [NextTable]_tableVars
<1> SUFFICES ASSUME EventInv, [Next]_vars
             PROVE  EventInv' /\ [NextTable]_tableVars
    OBVIOUS
<1>1. CASE ClientStep
    <2>1. TableStepInv' /\ UNCHANGED tableVars
        BY <1>1, ClientStepTable DEF EventInv
    <2>2. SlotInv'
        BY <2>1, StutterPreservesSlotInv DEF EventInv
    <2> QED
        BY <1>1, <2>1, <2>2, ClientStepEvents DEF EventInv
<1>2. CASE ServerStep
    <2>1. TableStepInv' /\ [NextTable]_tableVars
        BY <1>2, EventInvBatch, ServerStepTable DEF EventInv
    <2>2. SlotInv'
        BY <2>1, SlotInvStep DEF EventInv
    <2> QED
        BY <1>2, <2>1, <2>2, ServerStepEvents DEF EventInv
<1>3. CASE Fault
    <2>1. TableStepInv' /\ UNCHANGED tableVars
        BY <1>3, FaultTable DEF EventInv
    <2>2. SlotInv'
        BY <2>1, StutterPreservesSlotInv DEF EventInv
    <2> QED
        BY <1>3, <2>1, <2>2, FaultEvents DEF EventInv
<1>4. CASE UNCHANGED vars
    <2>1. UNCHANGED tableVars
        BY <1>4 DEF vars
    <2>2. SlotInv'
        BY <2>1, StutterPreservesSlotInv DEF EventInv
    <2>3. TableStepInv' /\ EventsNameLiveSockets'
        BY <1>4 DEF vars, tableVars, threadVars, kernelVars, EventInv, TableStepInv,
                    BacklogInv, TokenInv, EventsNameLiveSockets, Occupied
    <2> QED
        BY <2>1, <2>2, <2>3 DEF EventInv
<1> QED
    BY <1>1, <1>2, <1>3, <1>4 DEF Next

LEMMA EventInvariant == Spec => []EventInv
<1>1. Init => EventInv
    BY EventInvInit
<1>2. EventInv /\ [Next]_vars => EventInv'
    BY EventInvStep
<1> QED
    BY <1>1, <1>2, PTL DEF Spec

\* "sockets get failed", on which run_loop returns and the server ends for all
\* clients, is never reached: every event names a slot that holds a connection.
THEOREM NoEventOfAnEmptySlot == Spec => []EventsNameLiveSockets
<1>1. EventInv => EventsNameLiveSockets
    BY DEF EventInv
<1> QED
    BY <1>1, EventInvariant, PTL

\* run_loop calls its table in SocketTable's actions only, so what is proved of the
\* table holds of the loop.
LEMMA RunLoopImplementsTable == Spec => SpecTable
<1>1. Init => InitTable
    BY DEF Init
<1>2. EventInv /\ [Next]_vars => [NextTable]_tableVars
    BY EventInvStep
<1> QED
    BY <1>1, <1>2, EventInvariant, PTL DEF Spec, SpecTable

\* Whatever clients and kernel do between the loop's steps, the loop lets in,
\* closes and turns away as the abstract pool does: no client is turned away while
\* fewer than max_connections are live.
THEOREM RunLoopImplementsPool == Spec => PoolSpec
BY RunLoopImplementsTable, TableImplementsPool

\* The table's invariant holds of the whole server.
THEOREM RunLoopSlotInv == Spec => []SlotInv
<1>1. EventInv => SlotInv
    BY DEF EventInv
<1> QED
    BY <1>1, EventInvariant, PTL

-----------------------------------------------------------------------------
(***************************************************************************)
(* Framing.                                                               *)
(***************************************************************************)

LEMMA MinOfNaturals ==
    ASSUME NEW S \in SUBSET Nat, S # {}
    PROVE  Min(S) \in S /\ \A e \in S : Min(S) <= e
<1>1. \E d \in S : \A e \in S : d <= e
    BY LeastElement
<1> QED
    BY <1>1 DEF Min

LEMMA FramePositions ==
    ASSUME NEW T, NEW s \in Seq(T)
    PROVE  /\ SpacesIn(s) \in SUBSET (1..Len(s))
           /\ OneCharacterProtocolIn(s) \in SUBSET (1..Len(s))
BY DEF SpacesIn, OneCharacterProtocolIn

\* read_until_skk_server takes at least one of the bytes at hand and no more
\* than there are: its loop makes progress and never consumes what it has not.
THEOREM UsedIsProgress ==
    ASSUME NEW T, NEW s \in Seq(T), s # <<>>
    PROVE  Used(s) \in 1..Len(s)
<1>1. CASE SpacesIn(s) # {}
    <2>1. Min(SpacesIn(s)) \in SpacesIn(s)
        BY <1>1, FramePositions, MinOfNaturals
    <2> QED
        BY <1>1, <2>1, FramePositions DEF Used
<1>2. CASE SpacesIn(s) = {} /\ IsDone(s)
    <2>1. OneCharacterProtocolIn(s) # {}
        BY <1>2 DEF IsDone
    <2>2. Min(OneCharacterProtocolIn(s)) \in OneCharacterProtocolIn(s)
        BY <2>1, FramePositions, MinOfNaturals
    <2> QED
        BY <1>2, <2>2, FramePositions DEF Used
<1>3. CASE SpacesIn(s) = {} /\ ~IsDone(s)
    BY <1>3 DEF Used
<1> QED
    BY <1>1, <1>2, <1>3

\* A lookup at the front of the stream is cut exactly at its space, whatever the
\* client has already sent behind it.
THEOREM LookupIsCutAtItsSpace ==
    ASSUME NEW T, NEW r \in Seq(T), NEW rest \in Seq(T), r # <<>>,
           r[Len(r)] = "sp",
           \A i \in 1..(Len(r) - 1) : r[i] # "sp"
    PROVE  Used(r \o rest) = Len(r) /\ IsDone(r \o rest)
<1> DEFINE s == r \o rest
<1>1. s \in Seq(T) /\ Len(s) = Len(r) + Len(rest)
    OBVIOUS
<1>2. \A i \in 1..Len(r) : s[i] = r[i]
    OBVIOUS
<1> HIDE DEF s
<1>3. SpacesIn(s) \in SUBSET (1..Len(s))
    BY <1>1, FramePositions
<1>4. Len(r) \in SpacesIn(s)
    BY <1>1, <1>2 DEF SpacesIn
<1>5. \A i \in SpacesIn(s) : Len(r) <= i
    <2> SUFFICES ASSUME NEW i \in SpacesIn(s), i < Len(r)
                 PROVE  FALSE
        BY <1>1, <1>3
    <2>1. i \in 1..(Len(r) - 1)
        BY <1>1, <1>3
    <2> QED
        BY <1>2, <2>1 DEF SpacesIn
<1>6. Min(SpacesIn(s)) = Len(r)
    <2>1. SpacesIn(s) \in SUBSET Nat
        BY <1>1, <1>3
    <2>2. /\ Min(SpacesIn(s)) \in SpacesIn(s)
          /\ \A e \in SpacesIn(s) : Min(SpacesIn(s)) <= e
        BY <1>4, <2>1, MinOfNaturals
    <2>3. Min(SpacesIn(s)) \in Nat
        BY <2>1, <2>2
    <2> QED
        BY <1>4, <1>5, <2>2, <2>3
<1>7. Used(s) = Len(r) /\ IsDone(s)
    BY <1>4, <1>6 DEF Used, IsDone
<1> QED
    BY <1>7 DEF s

-----------------------------------------------------------------------------
(***************************************************************************)
(* Type correctness.                                                      *)
(***************************************************************************)

LEMMA TakeDropType ==
    ASSUME NEW T, NEW s \in Seq(T), NEW n \in 0..Len(s)
    PROVE  Take(s, n) \in Seq(T) /\ Drop(s, n) \in Seq(T)
BY DEF Take, Drop

LEMMA UsedType ==
    ASSUME NEW T, NEW s \in Seq(T), s # <<>>
    PROVE  Take(s, Used(s)) \in Seq(T) /\ Drop(s, Used(s)) \in Seq(T)
<1>1. Used(s) \in 0..Len(s)
    BY UsedIsProgress
<1> QED
    BY <1>1, TakeDropType

LEMMA RequestType ==
    ASSUME NEW T, buffer \in Seq(T)
    PROVE  request \in Seq(T)
<1>1. GetBufferSkipCount(buffer) \in 0..Len(buffer)
    BY DEF GetBufferSkipCount
<1> QED
    BY <1>1, TakeDropType DEF request

\* Whatever the bytes, handle_client has a reply for a request that is not empty.
LEMMA AnswerType ==
    ASSUME NEW r \in Seq(Symbols), r # <<>>
    PROVE  Answer(r) \in Replies
<1>1. CASE r[1] = "1" /\ IsValidLookup(r)
    <2>1. Len(r) - 1 \in 0..Len(r) /\ Len(r) - 1 > 0
        BY <1>1, ProtocolLengthAssumption DEF IsValidLookup
    <2> DEFINE taken == Take(r, Len(r) - 1)
    <2>2. taken \in Seq(Symbols)
        BY <2>1, TakeDropType
    <2>3. Len(taken) = Len(r) - 1
        BY <2>1 DEF Take
    <2> HIDE DEF taken
    <2>4. taken # <<>>
        BY <2>1, <2>3
    <2>5. Tail(taken) \in Seq(Symbols)
        BY <2>2, <2>4
    <2>6. Tail(Take(r, Len(r) - 1)) \in Seq(Symbols)
        BY <2>5 DEF taken
    <2>7. Answer(r) = [kind |-> "candidates", midashi |-> Tail(Take(r, Len(r) - 1))]
        BY <1>1 DEF Answer
    <2> QED
        BY <2>6, <2>7 DEF Replies
<1>2. CASE ~(r[1] = "1" /\ IsValidLookup(r)) /\ r[1] = "2"
    BY <1>2 DEF Answer, Replies
<1>3. CASE ~(r[1] = "1" /\ IsValidLookup(r)) /\ r[1] # "2"
    BY <1>3 DEF Answer, ErrorReply, Replies
<1> QED
    BY <1>1, <1>2, <1>3

LEMMA RunLoopTypeInit == Init => RunLoopTypeOK
BY DEF Init, RunLoopTypeOK

LEMMA ClientStepType ==
    ASSUME EventInv, RunLoopTypeOK, ClientStep
    PROVE  RunLoopTypeOK'
<1>0. PICK c \in Conns :
        \/ Connect(c)
        \/ \E r \in Requests : Ask(c, r)
        \/ \E n \in 1..Len(wire[c]) : Deliver(c, n)
        \/ ShutdownWrite(c)
        \/ CloseClient(c)
        \/ ResetClient(c)
    BY DEF ClientStep
<1>1. TokensOf(c) \subseteq Slots
    BY DEF TokensOf, Occupied
<1>2. CASE Connect(c)
    BY <1>2, SMTT(20) DEF Connect, RunLoopTypeOK, threadVars
<1>3. ASSUME NEW r \in Requests, Ask(c, r)
      PROVE  RunLoopTypeOK'
    <2>1. r \in Seq(Symbols)
        BY RunLoopAssumption
    <2>2. /\ asked' \in [Conns -> Seq(Requests)]
          /\ wire' \in [Conns -> Seq(Symbols)]
        BY <1>3, <2>1 DEF Ask, RunLoopTypeOK
    <2> QED
        BY <1>3, <2>2 DEF Ask, RunLoopTypeOK, threadVars, kernelVars
<1>4. ASSUME NEW n \in 1..Len(wire[c]), Deliver(c, n)
      PROVE  RunLoopTypeOK'
    <2>1. wire[c] \in Seq(Symbols) /\ inbox[c] \in Seq(Symbols)
        BY DEF RunLoopTypeOK
    <2>2. Take(wire[c], n) \in Seq(Symbols) /\ Drop(wire[c], n) \in Seq(Symbols)
        BY <2>1, TakeDropType
    <2>3. /\ inbox' \in [Conns -> Seq(Symbols)]
          /\ wire' \in [Conns -> Seq(Symbols)]
        BY <1>4, <2>1, <2>2 DEF Deliver, RunLoopTypeOK
    <2>4. ready' \subseteq Slots \cup {LISTENER}
        BY <1>1, <1>4 DEF Deliver, RunLoopTypeOK
    <2> QED
        BY <1>4, <2>3, <2>4 DEF Deliver, RunLoopTypeOK, threadVars
<1>5. CASE ShutdownWrite(c)
    BY <1>1, <1>5 DEF ShutdownWrite, RunLoopTypeOK, threadVars
<1>6. CASE CloseClient(c)
    BY <1>1, <1>6 DEF CloseClient, RunLoopTypeOK, threadVars
<1>7. CASE ResetClient(c)
    BY <1>1, <1>7 DEF ResetClient, RunLoopTypeOK, threadVars
<1> QED
    BY <1>0, <1>2, <1>3, <1>4, <1>5, <1>6, <1>7

\* The connection whose event is being handled is one of Conns.
LEMMA ConnType ==
    ASSUME EventInv, pc \in {"read", "handle"}
    PROVE  conn \in Conns /\ token \in Slots
BY DEF EventInv, EventsNameLiveSockets, Occupied, conn, SlotInv, TableTypeOK

LEMMA CloseSocketType ==
    ASSUME EventInv, RunLoopTypeOK, pc \in {"read", "handle"}, CloseSocket
    PROVE  RunLoopTypeOK'
BY ConnType DEF CloseSocket, BackToEvents, RunLoopTypeOK, clientVars

LEMMA ReadBytesType ==
    ASSUME EventInv, RunLoopTypeOK, ReadBytes
    PROVE  RunLoopTypeOK'
<1> DEFINE available == IF streamed[conn] # <<>> THEN streamed[conn] ELSE inbox[conn]
<1>1. conn \in Conns
    BY ConnType DEF ReadBytes
<1>2. available \in Seq(Symbols) /\ available # <<>>
    BY <1>1 DEF ReadBytes, RunLoopTypeOK
<1>3. /\ Take(available, Used(available)) \in Seq(Symbols)
      /\ Drop(available, Used(available)) \in Seq(Symbols)
    BY <1>2, UsedType
<1>4. /\ buffer' = buffer \o Take(available, Used(available))
      /\ streamed' = [streamed EXCEPT ![conn] = Drop(available, Used(available))]
      /\ inbox' \in {inbox, [inbox EXCEPT ![conn] = <<>>]}
      /\ pc' \in {"read", "handle"}
      /\ UNCHANGED <<tableVars, batch, token, ready, backlog, fin, rst, clientVars>>
    BY DEF ReadBytes
<1> HIDE DEF available
<1>5. buffer' \in Seq(Symbols)
    BY <1>3, <1>4 DEF RunLoopTypeOK
<1> DEFINE rest == Drop(available, Used(available))
<1>6. rest \in Seq(Symbols) /\ streamed' = [streamed EXCEPT ![conn] = rest]
    BY <1>3, <1>4
<1> HIDE DEF rest
<1>7. streamed' \in [Conns -> Seq(Symbols)]
    BY <1>6 DEF RunLoopTypeOK
<1>8. inbox' \in [Conns -> Seq(Symbols)]
    <2>1. \/ inbox' = inbox
          \/ inbox' = [inbox EXCEPT ![conn] = <<>>]
        BY <1>4
    <2>2. <<>> \in Seq(Symbols) /\ inbox \in [Conns -> Seq(Symbols)]
        BY DEF RunLoopTypeOK
    <2> QED
        BY <2>1, <2>2
<1> QED
    BY <1>4, <1>5, <1>7, <1>8 DEF RunLoopTypeOK, clientVars

LEMMA HandleRequestType ==
    ASSUME EventInv, RunLoopTypeOK, HandleRequest
    PROVE  RunLoopTypeOK'
<1>1. conn \in Conns /\ token \in Slots
    BY ConnType DEF HandleRequest, WriteReply
<1>2. Answer(request) \in Replies
    BY RequestType, AnswerType DEF HandleRequest, WriteReply, RunLoopTypeOK
<1>3. replies' \in [Conns -> Seq(Replies)]
    <2> DEFINE answer == Answer(request)
    <2>1. answer \in Replies
        BY <1>2
    <2>2. \/ replies' = [replies EXCEPT ![conn] = Append(@, answer)]
          \/ replies' = replies
        BY DEF HandleRequest, WriteReply
    <2> HIDE DEF answer
    <2>3. replies[conn] \in Seq(Replies)
        BY <1>1 DEF RunLoopTypeOK
    <2>4. Append(replies[conn], answer) \in Seq(Replies)
        BY <2>1, <2>3
    <2> QED
        BY <2>2, <2>4 DEF RunLoopTypeOK
<1>4. ready' \subseteq Slots \cup {LISTENER} /\ rst' \subseteq Conns
    BY <1>1 DEF HandleRequest, WriteReply, RunLoopTypeOK
<1> QED
    BY <1>3, <1>4, SMTT(20) DEF HandleRequest, WriteReply, BackToEvents, RunLoopTypeOK

LEMMA ServerStepType ==
    ASSUME EventInv, RunLoopTypeOK, ServerStep
    PROVE  RunLoopTypeOK'
<1>1. CASE PollReturns
    BY <1>1 DEF PollReturns, Reportable, RunLoopTypeOK, clientVars
<1>2. CASE StartAccepting \/ AcceptWouldBlock
    BY <1>2 DEF StartAccepting, AcceptWouldBlock, RunLoopTypeOK, kernelVars, clientVars
<1>3. ASSUME NEW t \in batch, StartReading(t) PROVE RunLoopTypeOK'
    BY <1>3 DEF StartReading, RunLoopTypeOK, kernelVars, clientVars
<1>4. CASE AcceptSocket
    <2>1. next_socket_index \in Slots
        BY DEF EventInv, SlotInv, TableTypeOK
    <2>2. Tail(backlog) \in Seq(Conns)
        BY <1>4 DEF AcceptSocket, RunLoopTypeOK
    <2> QED
        BY <1>4, <2>1, <2>2 DEF AcceptSocket, RunLoopTypeOK, threadVars, clientVars
<1>5. CASE RefuseSocket
    <2>1. Tail(backlog) \in Seq(Conns)
        BY <1>5 DEF RefuseSocket, RunLoopTypeOK
    <2> QED
        BY <1>5, <2>1 DEF RefuseSocket, RunLoopTypeOK, clientVars
<1>6. CASE ReadBytes
    BY <1>6, ReadBytesType
<1>7. CASE ReadEndOfStream
    BY <1>7 DEF ReadEndOfStream, RunLoopTypeOK, kernelVars, clientVars
<1>8. CASE ReadWouldBlock
    BY <1>8 DEF ReadWouldBlock, BackToEvents, RunLoopTypeOK, kernelVars, clientVars
<1>9. CASE HandleRequest
    BY <1>9, HandleRequestType
<1>10. CASE ReadError
    BY <1>10, CloseSocketType DEF ReadError
<1>11. CASE HandleExit
    BY <1>11, CloseSocketType DEF HandleExit
<1> QED
    BY <1>1, <1>2, <1>3, <1>4, <1>5, <1>6, <1>7, <1>8, <1>9, <1>10, <1>11
    DEF ServerStep

\* The variables of the loop stay in their types, and no byte of one request is
\* left in the buffer for the next.
THEOREM RunLoopTypeCorrect == Spec => []RunLoopTypeOK
<1>1. Init => RunLoopTypeOK
    BY RunLoopTypeInit
<1>2. EventInv /\ RunLoopTypeOK /\ [Next]_vars => RunLoopTypeOK'
    <2> SUFFICES ASSUME EventInv, RunLoopTypeOK, [Next]_vars
                 PROVE  RunLoopTypeOK'
        OBVIOUS
    <2>1. CASE ClientStep
        BY <2>1, ClientStepType
    <2>2. CASE ServerStep
        BY <2>2, ServerStepType
    <2>3. CASE Fault
        BY <2>3 DEF Fault, ListenerFails, DeregisterFails, RunLoopTypeOK, kernelVars,
                    clientVars
    <2>4. CASE UNCHANGED vars
        BY <2>4 DEF vars, tableVars, threadVars, kernelVars, clientVars, RunLoopTypeOK
    <2> QED
        BY <2>1, <2>2, <2>3, <2>4 DEF Next
<1> QED
    BY <1>1, <1>2, EventInvariant, PTL DEF Spec

-----------------------------------------------------------------------------
(***************************************************************************)
(* The backlog.                                                            *)
(***************************************************************************)

\* Steps that change what StrandedOnlyAfterRefusal is about.
LEMMA StrandedStep ==
    EventInv /\ StrandedOnlyAfterRefusal /\ [Next]_vars => StrandedOnlyAfterRefusal'
<1> SUFFICES ASSUME EventInv, StrandedOnlyAfterRefusal, [Next]_vars
             PROVE  StrandedOnlyAfterRefusal'
    OBVIOUS
<1> USE DEF StrandedOnlyAfterRefusal
<1>1. CASE ClientStep
    <2>1. PICK c \in Conns :
            \/ Connect(c)
            \/ \E r \in Requests : Ask(c, r)
            \/ \E n \in 1..Len(wire[c]) : Deliver(c, n)
            \/ ShutdownWrite(c)
            \/ CloseClient(c)
            \/ ResetClient(c)
        BY <1>1 DEF ClientStep
    <2>2. /\ UNCHANGED <<refused, pc, batch>> /\ ready \subseteq ready'
          /\ backlog' # backlog => LISTENER \in ready'
        BY <2>1 DEF Connect, Ask, Deliver, ShutdownWrite, CloseClient, ResetClient, threadVars,
                    kernelVars, tableVars
    <2> QED
        BY <2>2
<1>2. CASE PollReturns
    <2>1. PICK events \in SUBSET Reportable : batch' = events /\ ready' = Reportable \ events
        BY <1>2 DEF PollReturns
    <2>2. LISTENER \in ready /\ backlog # <<>> => LISTENER \in ready' \cup batch'
        BY <2>1 DEF Reportable
    <2>3. pc = "run" /\ batch = {} /\ UNCHANGED <<refused, pc, backlog>>
        BY <1>2 DEF PollReturns, tableVars
    <2> QED
        BY <2>2, <2>3
<1>3. CASE StartAccepting
    BY <1>3 DEF StartAccepting
<1>4. ASSUME NEW t \in batch, StartReading(t)
      PROVE  StrandedOnlyAfterRefusal'
    <2>1. pc = "run" /\ UNCHANGED <<refused, backlog, ready>>
        BY <1>4 DEF StartReading, tableVars, kernelVars
    <2>2. t # LISTENER /\ batch' = batch \ {t}
        BY <1>4 DEF StartReading
    <2> QED
        BY <2>1, <2>2
<1>5. CASE AcceptSocket
    BY <1>5 DEF AcceptSocket, threadVars
<1>6. CASE RefuseSocket
    <2>1. refused' # {}
        BY <1>6 DEF RefuseSocket, Refuse
    <2> QED
        BY <2>1
<1>7. CASE AcceptWouldBlock
    BY <1>7 DEF AcceptWouldBlock, kernelVars
<1>8. CASE ReadBytes \/ ReadEndOfStream \/ ReadWouldBlock \/ HandleRequest
    <2>1. /\ pc \in {"read", "handle"} /\ UNCHANGED <<refused, backlog, batch>> /\ ready \subseteq ready'
        BY <1>8 DEF ReadBytes, ReadEndOfStream, ReadWouldBlock, HandleRequest, WriteReply,
                    tableVars, kernelVars
    <2> QED
        BY <2>1
<1>9. CASE ReadError \/ HandleExit
    <2>1. /\ pc \in {"read", "handle"} /\ UNCHANGED <<refused, backlog, batch>>
          /\ ready' = ready \ {token}
        BY <1>9 DEF ReadError, HandleExit, CloseSocket, Exit
    <2>2. token # LISTENER
        BY <2>1, ListenerIsNoSlot DEF EventInv, TableStepInv, TokenInv
    <2> QED
        BY <2>1, <2>2
<1>10. CASE Fault
    BY <1>10 DEF Fault, ListenerFails, DeregisterFails
<1>11. CASE UNCHANGED vars
    BY <1>11 DEF vars, tableVars, threadVars, kernelVars
<1> QED
    BY <1>1, <1>2, <1>3, <1>4, <1>5, <1>6, <1>7, <1>8, <1>9, <1>10, <1>11 DEF Next, ServerStep

\* A connection waits without an event only if a client was turned away, for every
\* number of slots and clients.
THEOREM OnlyRefusalsStrand == Spec => []StrandedOnlyAfterRefusal
<1>1. Init => StrandedOnlyAfterRefusal
    BY DEF Init, StrandedOnlyAfterRefusal
<1> QED
    BY <1>1, StrandedStep, EventInvariant, PTL DEF Spec

-----------------------------------------------------------------------------
(***************************************************************************)
(* Replies.  A request that arrives whole, from a client that waits for   *)
(* its reply, is cut out of the stream as the client meant it.            *)
(***************************************************************************)

\* What a client may put behind a request: nothing, CR or LF, or CR LF.
LineEnds == {<<>>, <<"nl">>, <<"nl", "nl">>}

Core(r) == Take(r, Used(r))

\* By itself a request is cut to what the client means by it.
IsWholeRequest(r) ==
    /\ IsDone(r)
    /\ Core(r) = Intended(r)
    /\ r[1] # "nl"
    /\ Drop(r, Used(r)) \in LineEnds

LEMMA CoreFacts ==
    ASSUME NEW r \in Requests, IsWholeRequest(r)
    PROVE  /\ r \in Seq(Symbols) /\ r # <<>>
           /\ Core(r) \in Seq(Symbols) /\ Core(r) # <<>> /\ Core(r)[1] # "nl"
<1>1. r \in Seq(Symbols) /\ r # <<>>
    BY RunLoopAssumption
<1>2. Used(r) \in 1..Len(r)
    BY <1>1, UsedIsProgress
<1>3. Core(r) \in Seq(Symbols) /\ Len(Core(r)) = Used(r) /\ Core(r)[1] = r[1]
    BY <1>1, <1>2 DEF Core, Take
<1> QED
    BY <1>1, <1>2, <1>3 DEF IsWholeRequest

\* Line ends left by the request before are not taken for a request ...
LEMMA LineEndsType ==
    ASSUME NEW ends \in LineEnds, NEW T, "nl" \in T
    PROVE  /\ ends \in Seq(T) /\ Len(ends) \in 0..2
           /\ \A i \in 1..Len(ends) : ends[i] = "nl"
<1>1. CASE ends = <<>>
    BY <1>1
<1>2. CASE ends = <<"nl">>
    BY <1>2
<1>3. CASE ends = <<"nl", "nl">>
    BY <1>3
<1> QED
    BY <1>1, <1>2, <1>3 DEF LineEnds

LEMMA LineEndsFacts ==
    ASSUME NEW ends \in LineEnds
    PROVE  /\ ends # <<>> => ~IsDone(ends) /\ Used(ends) = Len(ends)
           /\ Take(ends, Len(ends)) = ends /\ Drop(ends, Len(ends)) = <<>>
           /\ Drop(ends, GetBufferSkipCount(ends)) = <<>>
<1>1. ends \in Seq({"nl"}) /\ Len(ends) \in 0..2
    BY LineEndsType
<1>2. Take(ends, Len(ends)) = ends /\ Drop(ends, Len(ends)) = <<>>
    BY <1>1 DEF Take, Drop
<1>3. \A i \in 1..Len(ends) : ends[i] = "nl"
    BY LineEndsType
<1>4. ~IsDone(ends) /\ Used(ends) = Len(ends)
    BY <1>1, <1>3 DEF IsDone, Used, SpacesIn, OneCharacterProtocolIn
<1>5. GetBufferSkipCount(ends) = Len(ends)
    BY <1>1, <1>3 DEF GetBufferSkipCount
<1> QED
    BY <1>2, <1>4, <1>5

\* ... and skipped in front of the next one.
LEMMA SkipsLineEnds ==
    ASSUME NEW ends \in LineEnds, NEW s \in Seq(Symbols), s # <<>>, s[1] # "nl"
    PROVE  Drop(ends \o s, GetBufferSkipCount(ends \o s)) = s
<1> DEFINE T == Symbols \cup {"nl"}
           all == ends \o s
<1>1. ends \in Seq(T) /\ s \in Seq(T) /\ Len(ends) \in 0..2 /\ \A i \in 1..Len(ends) : ends[i] = "nl"
    <2>1. "nl" \in T /\ s \in Seq(T)
        OBVIOUS
    <2> HIDE DEF T
    <2> QED
        BY <2>1, LineEndsType
<1> HIDE DEF T
<1>2. /\ all \in Seq(T) /\ Len(all) = Len(ends) + Len(s) /\ Len(s) \in Nat \ {0}
      /\ \A i \in 1..Len(ends) : all[i] = ends[i]
      /\ \A i \in 1..Len(s) : all[Len(ends) + i] = s[i]
    BY <1>1
<1>3. PICK n \in 0..2 : n = Len(ends)
    BY <1>1
<1>4. PICK u \in Seq(T) : u = all
    BY <1>2
<1>5. /\ Len(u) = n + Len(s)
      /\ \A i \in 1..n : u[i] = "nl"
      /\ \A i \in 1..Len(s) : u[n + i] = s[i]
    BY <1>1, <1>2, <1>3, <1>4
<1>6. GetBufferSkipCount(u) = n
    <2>1. u[n + 1] # "nl" /\ n + 1 <= Len(u)
        BY <1>2, <1>3, <1>5
    <2>2. CASE n = 0
        BY <2>1, <2>2 DEF GetBufferSkipCount
    <2>3. CASE n = 1
        BY <1>5, <2>1, <2>3 DEF GetBufferSkipCount
    <2>4. CASE n = 2
        BY <1>5, <2>1, <2>4 DEF GetBufferSkipCount
    <2> QED
        BY <1>3, <2>2, <2>3, <2>4
<1>7. Drop(u, n) = s
    <2>1. Drop(u, n) = SubSeq(u, n + 1, Len(u))
        BY DEF Drop
    <2>2. /\ SubSeq(u, n + 1, Len(u)) \in Seq(T)
          /\ Len(SubSeq(u, n + 1, Len(u))) = Len(s)
          /\ \A i \in 1..Len(s) : SubSeq(u, n + 1, Len(u))[i] = u[n + i]
        BY <1>2, <1>3, <1>5
    <2> QED
        BY <1>1, <1>2, <1>5, <2>1, <2>2
<1> QED
    BY <1>4, <1>6, <1>7

-----------------------------------------------------------------------------

WholeRequests == \A r \in Requests : IsWholeRequest(r)

LastAsked(c) == asked[c][Len(asked[c])]

\* One request of c is not answered yet, its last one.
IsWaiting(c) == Len(asked[c]) = Len(replies[c]) + 1

\* Where the last request of a connection is: on the wire or received as a whole, with
\* nothing but line ends before it, or answered.
StreamInv(c) ==
    /\ Len(replies[c]) <= Len(asked[c])
    /\ \A i \in DOMAIN replies[c] : replies[c][i] = Answer(Intended(asked[c][i]))
    /\ streamed[c] \in LineEnds
    /\ wire[c] # <<>> => IsWaiting(c) /\ wire[c] = LastAsked(c) /\ inbox[c] = <<>>
    /\ inbox[c] # <<>> => IsWaiting(c) /\ inbox[c] = LastAsked(c) /\ wire[c] = <<>>

\* What the buffer holds: line ends, or behind them a request that is nowhere else.
BufferInv ==
    /\ pc = "read" => buffer \in LineEnds /\ (buffer = <<>> \/ streamed[conn] = <<>>)
    /\ pc = "handle" =>
          \/ buffer \in LineEnds
          \/ /\ IsWaiting(conn) /\ wire[conn] = <<>> /\ inbox[conn] = <<>>
             /\ \E ends \in LineEnds : buffer = ends \o Core(LastAsked(conn))

AnswersInv == (\A c \in Conns : StreamInv(c)) /\ BufferInv

LEMMA ClientStepAnswers ==
    ASSUME ~Segmentation, ~Pipelining, EventInv, RunLoopTypeOK, AnswersInv, ClientStep
    PROVE  AnswersInv'
<1>1. PICK c \in Conns :
        \/ Connect(c)
        \/ \E r \in Requests : Ask(c, r)
        \/ \E n \in 1..Len(wire[c]) : Deliver(c, n)
        \/ ShutdownWrite(c)
        \/ CloseClient(c)
        \/ ResetClient(c)
    BY DEF ClientStep
<1>2. UNCHANGED <<pc, buffer, streamed, conn, replies>>
    BY <1>1 DEF Connect, Ask, Deliver, ShutdownWrite, CloseClient, ResetClient, threadVars,
                tableVars, conn
<1>3. CASE Connect(c) \/ ShutdownWrite(c) \/ CloseClient(c)
    <2>1. UNCHANGED <<inbox, asked, wire>>
        BY <1>3 DEF Connect, ShutdownWrite, CloseClient
    <2> QED
        BY <1>2, <2>1 DEF AnswersInv, StreamInv, BufferInv, IsWaiting, LastAsked
<1>4. CASE ResetClient(c)
    <2>1. wire' = [wire EXCEPT ![c] = <<>>] /\ UNCHANGED <<inbox, asked>>
        BY <1>4 DEF ResetClient
    <2>2. \A d \in Conns : wire'[d] \in {wire[d], <<>>}
        BY <2>1 DEF RunLoopTypeOK
    <2>3. \A d \in Conns : StreamInv(d)'
        BY <1>2, <2>1, <2>2 DEF AnswersInv, StreamInv, IsWaiting, LastAsked
    <2>4. pc = "handle" => conn \in Conns
        BY ConnType
    <2>5. BufferInv'
        BY <1>2, <2>1, <2>2, <2>4 DEF AnswersInv, BufferInv, IsWaiting, LastAsked
    <2> QED
        BY <2>3, <2>5 DEF AnswersInv
<1>5. ASSUME NEW r \in Requests, Ask(c, r)
      PROVE  AnswersInv'
    <2>1. /\ wire[c] = <<>> /\ Len(replies[c]) = Len(asked[c])
          /\ asked' = [asked EXCEPT ![c] = Append(@, r)] /\ wire' = [wire EXCEPT ![c] = r]
          /\ inbox' = inbox
        BY <1>5 DEF Ask, kernelVars
    <2>2. asked \in [Conns -> Seq(Requests)] /\ wire \in [Conns -> Seq(Symbols)]
        BY DEF RunLoopTypeOK
    <2>3. /\ asked'[c] = Append(asked[c], r) /\ wire'[c] = r
          /\ \A d \in Conns \ {c} : asked'[d] = asked[d] /\ wire'[d] = wire[d]
        BY <2>1, <2>2
    <2>4. /\ Len(asked'[c]) = Len(asked[c]) + 1 /\ asked'[c][Len(asked'[c])] = r
          /\ \A i \in 1..Len(asked[c]) : asked'[c][i] = asked[c][i]
        BY <2>2, <2>3
    <2>5. /\ replies[c] \in Seq(Replies) /\ Len(asked[c]) \in Nat /\ Len(replies[c]) \in Nat
          /\ DOMAIN replies[c] = 1..Len(replies[c])
        <3>1. replies[c] \in Seq(Replies) /\ asked[c] \in Seq(Requests)
            BY DEF RunLoopTypeOK
        <3> QED
            BY <3>1
    <2>6. inbox[c] = <<>>
        BY <2>1, <2>5 DEF AnswersInv, StreamInv, IsWaiting
    <2>7. StreamInv(c)'
        BY <1>2, <2>1, <2>3, <2>4, <2>5, <2>6 DEF AnswersInv, StreamInv, IsWaiting, LastAsked
    <2>8. \A d \in Conns \ {c} : StreamInv(d)'
        BY <1>2, <2>1, <2>3 DEF AnswersInv, StreamInv, IsWaiting, LastAsked
    <2>9. BufferInv'
        <3>1. CASE pc = "handle" /\ ~(buffer \in LineEnds)
            <4>1. IsWaiting(conn) /\ conn \in Conns
                BY <3>1, ConnType DEF AnswersInv, BufferInv
            <4>2. conn # c
                BY <2>1, <2>5, <4>1 DEF IsWaiting
            <4> QED
                BY <1>2, <2>1, <2>3, <4>1, <4>2 DEF AnswersInv, BufferInv, IsWaiting, LastAsked
        <3>2. CASE ~(pc = "handle" /\ ~(buffer \in LineEnds))
            BY <1>2, <3>2 DEF AnswersInv, BufferInv
        <3> QED
            BY <3>1, <3>2
    <2> QED
        BY <2>7, <2>8, <2>9 DEF AnswersInv
<1>6. ASSUME NEW n \in 1..Len(wire[c]), Deliver(c, n)
      PROVE  AnswersInv'
    <2>1. /\ wire[c] # <<>> /\ n = Len(wire[c])
          /\ inbox' = [inbox EXCEPT ![c] = @ \o Take(wire[c], n)]
          /\ wire' = [wire EXCEPT ![c] = Drop(@, n)]
          /\ asked' = asked
        BY <1>6 DEF Deliver
    <2>2. inbox \in [Conns -> Seq(Symbols)] /\ wire \in [Conns -> Seq(Symbols)]
        BY DEF RunLoopTypeOK
    <2>3. IsWaiting(c) /\ wire[c] = LastAsked(c) /\ inbox[c] = <<>>
        BY <2>1 DEF AnswersInv, StreamInv
    <2>4. Take(wire[c], n) = wire[c] /\ Drop(wire[c], n) = <<>> /\ <<>> \o wire[c] = wire[c]
        BY <2>1, <2>2 DEF Take, Drop
    <2>5. /\ inbox'[c] = wire[c] /\ wire'[c] = <<>>
          /\ \A d \in Conns \ {c} : inbox'[d] = inbox[d] /\ wire'[d] = wire[d]
        BY <2>1, <2>2, <2>3, <2>4
    <2>6. StreamInv(c)'
        BY <1>2, <2>1, <2>3, <2>5 DEF AnswersInv, StreamInv, IsWaiting, LastAsked
    <2>7. \A d \in Conns \ {c} : StreamInv(d)'
        BY <1>2, <2>1, <2>5 DEF AnswersInv, StreamInv, IsWaiting, LastAsked
    <2>8. BufferInv'
        <3>1. CASE pc = "handle" /\ ~(buffer \in LineEnds)
            <4>1. wire[conn] = <<>> /\ conn \in Conns
                BY <3>1, ConnType DEF AnswersInv, BufferInv
            <4>2. conn # c
                BY <2>1, <4>1
            <4> QED
                BY <1>2, <2>1, <2>5, <3>1, <4>1, <4>2 DEF AnswersInv, BufferInv, IsWaiting, LastAsked
        <3>2. CASE ~(pc = "handle" /\ ~(buffer \in LineEnds))
            BY <1>2, <3>2 DEF AnswersInv, BufferInv
        <3> QED
            BY <3>1, <3>2
    <2> QED
        BY <2>6, <2>7, <2>8 DEF AnswersInv
<1> QED
    BY <1>1, <1>3, <1>4, <1>5, <1>6

LEMMA ReadBytesAnswers ==
    ASSUME WholeRequests, EventInv, RunLoopTypeOK, AnswersInv, ReadBytes
    PROVE  AnswersInv'
<1> DEFINE available == IF streamed[conn] # <<>> THEN streamed[conn] ELSE inbox[conn]
<1>1. /\ pc = "read" /\ available # <<>>
      /\ buffer' = buffer \o Take(available, Used(available))
      /\ streamed' = [streamed EXCEPT ![conn] = Drop(available, Used(available))]
      /\ inbox' = IF streamed[conn] # <<>> THEN inbox ELSE [inbox EXCEPT ![conn] = <<>>]
      /\ pc' = IF IsDone(available) THEN "handle" ELSE "read"
      /\ UNCHANGED <<asked, wire, replies>>
    BY DEF ReadBytes, clientVars
<1>2. conn' = conn
    BY DEF ReadBytes, conn, tableVars
<1>3. /\ conn \in Conns /\ StreamInv(conn)
      /\ buffer \in LineEnds /\ (buffer = <<>> \/ streamed[conn] = <<>>)
    BY <1>1, ConnType DEF AnswersInv, BufferInv
<1>4. /\ streamed \in [Conns -> Seq(Symbols)] /\ inbox \in [Conns -> Seq(Symbols)]
      /\ asked \in [Conns -> Seq(Requests)] /\ buffer \in Seq(Symbols)
    BY DEF RunLoopTypeOK
<1>5. CASE streamed[conn] # <<>>
    <2>1. available = streamed[conn] /\ streamed[conn] \in LineEnds /\ buffer = <<>>
        BY <1>3, <1>5 DEF StreamInv
    <2>2. /\ ~IsDone(available) /\ Take(available, Used(available)) = available
          /\ Drop(available, Used(available)) = <<>>
        BY <1>1, <2>1, LineEndsFacts
    <2>3. buffer' = available
        <3>1. available \in Seq(Symbols)
            BY <1>3, <1>4, <2>1
        <3> QED
            BY <1>1, <2>1, <2>2, <3>1
    <2>4. /\ pc' = "read" /\ inbox' = inbox /\ streamed'[conn] = <<>>
          /\ \A d \in Conns \ {conn} : streamed'[d] = streamed[d]
        BY <1>1, <1>3, <1>4, <1>5, <2>2
    <2>5. <<>> \in LineEnds
        BY DEF LineEnds
    <2>6. \A d \in Conns : StreamInv(d)'
        BY <1>1, <2>4, <2>5 DEF AnswersInv, StreamInv, IsWaiting, LastAsked
    <2>7. BufferInv'
        BY <1>2, <2>1, <2>3, <2>4 DEF BufferInv
    <2> QED
        BY <2>6, <2>7 DEF AnswersInv
<1>6. CASE streamed[conn] = <<>>
    <2> DEFINE r == LastAsked(conn)
    <2>1. available = inbox[conn] /\ IsWaiting(conn) /\ available = r /\ wire[conn] = <<>>
        BY <1>1, <1>3, <1>6 DEF StreamInv
    <2>2. r \in Requests /\ IsWholeRequest(r)
        <3>1. asked[conn] \in Seq(Requests) /\ Len(asked[conn]) # 0
            <4>1. asked[conn] \in Seq(Requests) /\ replies[conn] \in Seq(Replies)
                BY <1>3 DEF RunLoopTypeOK
            <4> QED
                BY <2>1, <4>1 DEF IsWaiting
        <3>2. r \in Requests
            BY <3>1 DEF LastAsked
        <3> QED
            BY <3>2 DEF WholeRequests
    <2>3. IsDone(r) /\ Drop(r, Used(r)) \in LineEnds
        BY <2>2 DEF IsWholeRequest
    <2> HIDE DEF available, r
    <2>4. buffer' = buffer \o Core(r) /\ pc' = "handle"
        BY <1>1, <2>1, <2>3 DEF Core
    <2>5. /\ streamed'[conn] \in LineEnds /\ inbox'[conn] = <<>>
          /\ \A d \in Conns \ {conn} : streamed'[d] = streamed[d] /\ inbox'[d] = inbox[d]
        BY <1>1, <1>3, <1>4, <1>6, <2>1, <2>3
    <2>6. StreamInv(conn)'
        BY <1>1, <1>2, <1>3, <2>1, <2>5 DEF StreamInv, IsWaiting, LastAsked
    <2>7. \A d \in Conns \ {conn} : StreamInv(d)'
        BY <1>1, <2>5 DEF AnswersInv, StreamInv, IsWaiting, LastAsked
    <2>8. BufferInv'
        <3>1. IsWaiting(conn)' /\ wire'[conn'] = <<>> /\ inbox'[conn'] = <<>>
              /\ LastAsked(conn)' = r
            BY <1>1, <1>2, <2>1, <2>5 DEF IsWaiting, LastAsked, r
        <3> QED
            BY <1>3, <2>4, <3>1 DEF BufferInv
    <2> QED
        BY <1>2, <2>6, <2>7, <2>8 DEF AnswersInv
<1> QED
    BY <1>5, <1>6

LEMMA HandleRequestAnswers ==
    ASSUME WholeRequests, EventInv, RunLoopTypeOK, AnswersInv, HandleRequest
    PROVE  AnswersInv'
<1> DEFINE r == LastAsked(conn)
<1>1. /\ pc = "handle" /\ request # <<>> /\ pc' = "run"
      /\ UNCHANGED <<streamed, inbox, asked, wire>>
      /\ \/ replies' = [replies EXCEPT ![conn] = Append(@, Answer(request))]
         \/ replies' = replies
    BY DEF HandleRequest, WriteReply, BackToEvents
<1>2. conn \in Conns /\ StreamInv(conn)
    BY <1>1, ConnType DEF AnswersInv
<1>3. buffer \notin LineEnds
    BY <1>1, LineEndsFacts DEF request
<1>4. /\ IsWaiting(conn) /\ wire[conn] = <<>> /\ inbox[conn] = <<>>
      /\ \E ends \in LineEnds : buffer = ends \o Core(r)
    BY <1>1, <1>3 DEF AnswersInv, BufferInv
<1>5. /\ asked[conn] \in Seq(Requests) /\ replies[conn] \in Seq(Replies)
      /\ replies \in [Conns -> Seq(Replies)]
    BY <1>2 DEF RunLoopTypeOK
<1>6. r \in Requests
    BY <1>4, <1>5 DEF IsWaiting, LastAsked
<1>7. request = Intended(r)
    <2>1. IsWholeRequest(r) /\ Core(r) = Intended(r)
        BY <1>6 DEF WholeRequests, IsWholeRequest
    <2>2. Core(r) \in Seq(Symbols) /\ Core(r) # <<>> /\ Core(r)[1] # "nl"
        BY <1>6, <2>1, CoreFacts
    <2> HIDE DEF r
    <2> QED
        BY <1>4, <2>1, <2>2, SkipsLineEnds DEF request
<1>8. BufferInv'
    BY <1>1 DEF BufferInv
<1>9. CASE replies' = replies
    BY <1>1, <1>8, <1>9 DEF AnswersInv, StreamInv, IsWaiting, LastAsked
<1>10. CASE replies' = [replies EXCEPT ![conn] = Append(@, Answer(request))]
    <2> DEFINE answer == Answer(request)
    <2>1. replies'[conn] = Append(replies[conn], answer)
          /\ \A d \in Conns \ {conn} : replies'[d] = replies[d]
        BY <1>2, <1>5, <1>10
    <2>2. answer = Answer(Intended(asked[conn][Len(asked[conn])]))
        BY <1>7 DEF LastAsked
    <2> HIDE DEF answer
    <2>3. /\ Len(replies'[conn]) = Len(replies[conn]) + 1
          /\ DOMAIN replies'[conn] = 1..(Len(replies[conn]) + 1) /\ Len(replies[conn]) \in Nat
          /\ replies'[conn][Len(replies[conn]) + 1] = answer
          /\ \A i \in 1..Len(replies[conn]) : replies'[conn][i] = replies[conn][i]
          /\ DOMAIN replies[conn] = 1..Len(replies[conn])
        <3>1. PICK s \in Seq(Replies) : s = replies[conn]
            BY <1>5
        <3>2. PICK t : t = Append(s, answer)
            OBVIOUS
        <3>3. /\ Len(t) = Len(s) + 1 /\ DOMAIN t = 1..(Len(s) + 1) /\ Len(s) \in Nat
              /\ t[Len(s) + 1] = answer
              /\ \A i \in 1..Len(s) : t[i] = s[i]
              /\ DOMAIN s = 1..Len(s)
            BY <3>2
        <3> QED
            BY <2>1, <3>1, <3>2, <3>3
    <2>4. Len(asked[conn]) = Len(replies[conn]) + 1
        BY <1>4 DEF IsWaiting
    <2>5. ASSUME NEW i \in DOMAIN replies'[conn]
          PROVE  replies'[conn][i] = Answer(Intended(asked[conn][i]))
        <3>1. CASE i = Len(replies[conn]) + 1
            BY <2>2, <2>3, <2>4, <3>1
        <3>2. CASE i # Len(replies[conn]) + 1
            <4>1. i \in DOMAIN replies[conn]
                BY <2>3, <3>2
            <4> QED
                BY <1>2, <2>3, <4>1 DEF StreamInv
        <3> QED
            BY <3>1, <3>2
    <2>6. ASSUME NEW d \in Conns
          PROVE  StreamInv(d)'
        <3>1. CASE d = conn
            <4>1. /\ Len(replies'[d]) <= Len(asked'[d])
                  /\ streamed'[d] \in LineEnds /\ wire'[d] = <<>> /\ inbox'[d] = <<>>
                BY <1>1, <1>2, <1>4, <2>3, <2>4, <3>1 DEF StreamInv
            <4>2. \A i \in DOMAIN replies'[d] : replies'[d][i] = Answer(Intended(asked'[d][i]))
                BY <1>1, <2>5, <3>1
            <4> QED
                BY <4>1, <4>2 DEF StreamInv
        <3>2. CASE d # conn
            BY <1>1, <2>1, <3>2 DEF AnswersInv, StreamInv, IsWaiting, LastAsked
        <3> QED
            BY <3>1, <3>2
    <2> QED
        BY <1>8, <2>6 DEF AnswersInv
<1> QED
    BY <1>1, <1>9, <1>10

LEMMA AnswersStep ==
    ASSUME WholeRequests, ~Segmentation, ~Pipelining,
           EventInv, RunLoopTypeOK, AnswersInv, [Next]_vars
    PROVE  AnswersInv'
<1>1. CASE ClientStep
    BY <1>1, ClientStepAnswers
<1>2. CASE ReadBytes
    BY <1>2, ReadBytesAnswers
<1>3. CASE HandleRequest
    BY <1>3, HandleRequestAnswers
<1>4. CASE ReadError \/ HandleExit
    <2>1. /\ pc' = "run" /\ pc \in {"read", "handle"} /\ UNCHANGED <<asked, wire, replies>>
          /\ streamed' = [streamed EXCEPT ![conn] = <<>>]
          /\ inbox' = [inbox EXCEPT ![conn] = <<>>]
        BY <1>4 DEF ReadError, HandleExit, CloseSocket, BackToEvents, clientVars
    <2>2. /\ streamed \in [Conns -> Seq(Symbols)] /\ inbox \in [Conns -> Seq(Symbols)]
        BY DEF RunLoopTypeOK
    <2>3. \A d \in Conns : streamed'[d] \in {streamed[d], <<>>} /\ inbox'[d] \in {inbox[d], <<>>}
        BY <2>1, <2>2
    <2>4. <<>> \in LineEnds
        BY DEF LineEnds
    <2> QED
        BY <2>1, <2>3, <2>4 DEF AnswersInv, StreamInv, BufferInv, IsWaiting, LastAsked
<1>5. CASE ReadEndOfStream
    <2>1. /\ pc = "read" /\ pc' = "handle" /\ UNCHANGED <<buffer, streamed, inbox, asked, wire, replies>>
        BY <1>5 DEF ReadEndOfStream, kernelVars, clientVars
    <2> QED
        BY <2>1 DEF AnswersInv, StreamInv, BufferInv, IsWaiting, LastAsked
<1>6. ASSUME NEW t \in batch, StartReading(t)
      PROVE  AnswersInv'
    <2>1. /\ buffer = <<>> /\ pc' \in {"read", "returned"}
          /\ UNCHANGED <<buffer, streamed, inbox, asked, wire, replies>>
        BY <1>6 DEF StartReading, kernelVars, clientVars, RunLoopTypeOK
    <2>2. <<>> \in LineEnds
        BY DEF LineEnds
    <2> QED
        BY <2>1, <2>2 DEF AnswersInv, StreamInv, BufferInv, IsWaiting, LastAsked
<1>7. CASE PollReturns \/ StartAccepting \/ AcceptSocket \/ RefuseSocket \/ AcceptWouldBlock
           \/ ReadWouldBlock \/ Fault
    <2>1. /\ pc' \in {"run", "accept", "failed"}
          /\ UNCHANGED <<streamed, inbox, asked, wire, replies>>
        BY <1>7 DEF PollReturns, StartAccepting, AcceptSocket, RefuseSocket, AcceptWouldBlock,
                    ReadWouldBlock, BackToEvents, Fault, ListenerFails, DeregisterFails,
                    threadVars, kernelVars, clientVars
    <2> QED
        BY <2>1 DEF AnswersInv, StreamInv, BufferInv, IsWaiting, LastAsked
<1>8. CASE UNCHANGED vars
    <2>1. UNCHANGED <<pc, buffer, streamed, inbox, asked, wire, replies, conn>>
        BY <1>8 DEF vars, threadVars, kernelVars, clientVars, tableVars, conn
    <2> QED
        BY <2>1 DEF AnswersInv, StreamInv, BufferInv, IsWaiting, LastAsked
<1> QED
    BY <1>1, <1>2, <1>3, <1>4, <1>5, <1>6, <1>7, <1>8 DEF Next, ServerStep

\* The n-th reply of every client answers its n-th request, for every number of clients
\* and every set of requests that the framing cuts rightly by themselves, if each
\* arrives whole and the client waits for the reply.  RunLoop_segments and
\* RunLoop_pipelined show what happens otherwise.
THEOREM WaitingClientsAreAnswered ==
    WholeRequests /\ ~Segmentation /\ ~Pipelining => (Spec => []RepliesAnswerRequests)
<1> SUFFICES ASSUME WholeRequests, ~Segmentation, ~Pipelining
             PROVE  Spec => []RepliesAnswerRequests
    OBVIOUS
<1>1. Init => AnswersInv
    <2> SUFFICES ASSUME Init
                 PROVE  AnswersInv
        OBVIOUS
    <2>1. \A c \in Conns : streamed[c] = <<>> /\ wire[c] = <<>> /\ inbox[c] = <<>>
                           /\ asked[c] = <<>> /\ replies[c] = <<>>
        BY DEF Init
    <2>2. <<>> \in LineEnds
        BY DEF LineEnds
    <2>3. pc = "run"
        BY DEF Init
    <2> QED
        BY <2>1, <2>2, <2>3 DEF AnswersInv, StreamInv, BufferInv
<1>2. EventInv /\ RunLoopTypeOK /\ AnswersInv /\ [Next]_vars => AnswersInv'
    BY AnswersStep
<1>3. AnswersInv => RepliesAnswerRequests
    BY DEF AnswersInv, StreamInv, RepliesAnswerRequests
<1> QED
    BY <1>1, <1>2, <1>3, EventInvariant, RunLoopTypeCorrect, PTL DEF Spec

=============================================================================
