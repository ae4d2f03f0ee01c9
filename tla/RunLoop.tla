------------------------------ MODULE RunLoop -------------------------------
(***************************************************************************)
(* Yaskkserv2::run_loop: one thread that serves every client from one     *)
(* edge-triggered poll, with the table of SocketTable and the framing of  *)
(* RequestFraming.  Between any two steps of the thread clients connect,  *)
(* send, close or reset, and the kernel queues what they did.             *)
(*                                                                         *)
(* The kernel (mio, epoll, TCP) is modelled from how run_loop uses it: an *)
(* event is queued when a socket becomes readable or receives more, once  *)
(* per socket, and is gone when poll has returned it.                     *)
(***************************************************************************)
EXTENDS SocketTable, RequestFraming

CONSTANTS
    Requests,       \* the byte sequences clients send as one request
    MaxRequests,    \* bound: requests sent on one connection
    Segmentation,   \* may the network split a request into segments?
    Pipelining,     \* may a client send before the previous reply came?
    HalfClose,      \* may a client shut down its sending side, or reset?
    IoErrors        \* may accept, register and deregister fail?

Symbols == UNION {{r[i] : i \in DOMAIN r} : r \in Requests}

ASSUME RunLoopAssumption ==
    /\ Requests \subseteq Seq(Symbols) \ {<<>>}
    /\ MaxRequests \in Nat
    /\ {Segmentation, Pipelining, HalfClose, IoErrors} \subseteq BOOLEAN

VARIABLES
    \* the thread of run_loop
    pc,         \* where it is: "run" (poll or the event loop), "accept",
                \* "read", "handle", or stopped: "returned", "failed"
    batch,      \* events of the current poll not looked at yet
    token,      \* the token whose event is handled
    buffer,     \* the request buffer, one for all connections
    streamed,   \* BufReader: bytes taken from the kernel, not consumed
    \* the kernel
    ready,      \* tokens with an event poll has not returned yet
    backlog,    \* connections not accepted yet, oldest first
    inbox,      \* bytes received and not read
    fin,        \* connections whose end of stream was received
    rst,        \* connections whose reset was received
    \* the clients
    client,     \* "new", "open", "shut" (no longer sends), "gone" (closed by
                \* close()), "left" (closed after a shutdown, or by a reset)
    asked,      \* requests sent so far
    wire,       \* bytes of the last request still on their way
    replies     \* replies received so far

threadVars == <<pc, batch, token, buffer, streamed>>
kernelVars == <<ready, backlog, inbox, fin, rst>>
clientVars == <<client, asked, wire, replies>>

vars == <<tableVars, threadVars, kernelVars, clientVars>>

LISTENER == MAX_CONNECTION

Backlogged == {backlog[i] : i \in DOMAIN backlog}

\* The server has not closed its end.
IsConnected(c) == c \in Live \/ c \in Backlogged

Readable(c) == inbox[c] # <<>> \/ c \in fin \/ c \in rst

TokensOf(c) == {i \in Occupied : sockets[i] = c}

-----------------------------------------------------------------------------

Init ==
    /\ InitTable
    /\ pc = "run" /\ batch = {} /\ token = LISTENER /\ buffer = <<>>
    /\ streamed = [c \in Conns |-> <<>>]
    /\ ready = {} /\ backlog = <<>> /\ fin = {} /\ rst = {}
    /\ inbox = [c \in Conns |-> <<>>]
    /\ client = [c \in Conns |-> "new"]
    /\ asked = [c \in Conns |-> <<>>]
    /\ wire = [c \in Conns |-> <<>>]
    /\ replies = [c \in Conns |-> <<>>]

-----------------------------------------------------------------------------
(***************************************************************************)
(* Clients and network.                                                   *)
(***************************************************************************)

\* The kernel completes the handshake and queues the connection.
Connect(c) ==
    /\ client[c] = "new"
    /\ pc # "failed"
    /\ client' = [client EXCEPT ![c] = "open"]
    /\ backlog' = Append(backlog, c)
    /\ ready' = ready \cup {LISTENER}
    /\ UNCHANGED <<tableVars, threadVars, inbox, fin, rst, asked, wire, replies>>

\* A client sends one more request: unless it pipelines, only when every
\* earlier one was answered.
Ask(c, r) ==
    /\ client[c] = "open" /\ IsConnected(c)
    /\ wire[c] = <<>>
    /\ Len(asked[c]) < MaxRequests
    /\ Pipelining \/ Len(replies[c]) = Len(asked[c])
    /\ \A i \in DOMAIN asked[c] : ~IsDisconnect(asked[c][i])
    /\ asked' = [asked EXCEPT ![c] = Append(@, r)]
    /\ wire' = [wire EXCEPT ![c] = r]
    /\ UNCHANGED <<tableVars, threadVars, kernelVars, client, replies>>

\* n bytes arrive: an event for the connection, if it is registered.
Deliver(c, n) ==
    /\ wire[c] # <<>> /\ IsConnected(c)
    /\ Segmentation \/ n = Len(wire[c])
    /\ inbox' = [inbox EXCEPT ![c] = @ \o Take(wire[c], n)]
    /\ wire' = [wire EXCEPT ![c] = Drop(@, n)]
    /\ ready' = ready \cup TokensOf(c)
    /\ UNCHANGED <<tableVars, threadVars, backlog, fin, rst, client, asked, replies>>

\* The client sends its end of stream and still reads.
ShutdownWrite(c) ==
    /\ HalfClose
    /\ client[c] = "open" /\ IsConnected(c) /\ wire[c] = <<>>
    /\ client' = [client EXCEPT ![c] = "shut"]
    /\ fin' = fin \cup {c}
    /\ ready' = ready \cup TokensOf(c)
    /\ UNCHANGED <<tableVars, threadVars, backlog, inbox, rst, asked, wire, replies>>

\* The client closes; after a shutdown there is nothing left to tell the server.
CloseClient(c) ==
    /\ client[c] \in {"open", "shut"} /\ IsConnected(c) /\ wire[c] = <<>>
    /\ IF client[c] = "open"
       THEN /\ client' = [client EXCEPT ![c] = "gone"]
            /\ fin' = fin \cup {c}
            /\ ready' = ready \cup TokensOf(c)
       ELSE /\ client' = [client EXCEPT ![c] = "left"]
            /\ UNCHANGED <<fin, ready>>
    /\ UNCHANGED <<tableVars, threadVars, backlog, inbox, rst, asked, wire, replies>>

ResetClient(c) ==
    /\ HalfClose
    /\ client[c] = "open" /\ IsConnected(c)
    /\ client' = [client EXCEPT ![c] = "left"]
    /\ wire' = [wire EXCEPT ![c] = <<>>]
    /\ rst' = rst \cup {c}
    /\ ready' = ready \cup TokensOf(c)
    /\ UNCHANGED <<tableVars, threadVars, backlog, inbox, fin, asked, replies>>

ClientStep ==
    \E c \in Conns :
        \/ Connect(c)
        \/ \E r \in Requests : Ask(c, r)
        \/ \E n \in 1..Len(wire[c]) : Deliver(c, n)
        \/ ShutdownWrite(c)
        \/ CloseClient(c)
        \/ ResetClient(c)

-----------------------------------------------------------------------------
(***************************************************************************)
(* poll and the loop over its events.                                     *)
(***************************************************************************)

\* Queued events of which there is still something to report.
Reportable ==
    {t \in ready : IF t = LISTENER THEN backlog # <<>> ELSE Readable(sockets[t])}

\* poll returns at most MAX_CONNECTION events, in an order of the kernel's.
PollReturns ==
    /\ pc = "run" /\ batch = {}
    /\ \E events \in SUBSET Reportable :
        /\ events # {}
        /\ Cardinality(events) = Min({Cardinality(Reportable), MAX_CONNECTION})
        /\ batch' = events
        /\ ready' = Reportable \ events
    /\ UNCHANGED <<tableVars, pc, token, buffer, streamed, backlog, inbox, fin, rst,
                   clientVars>>

StartAccepting ==
    /\ pc = "run" /\ LISTENER \in batch
    /\ batch' = batch \ {LISTENER}
    /\ pc' = "accept"
    /\ UNCHANGED <<tableVars, token, buffer, streamed, kernelVars, clientVars>>

\* run_loop_token gives up the whole server ("sockets get failed") on an event
\* for an empty slot.
StartReading(t) ==
    /\ pc = "run" /\ t \in batch \ {LISTENER}
    /\ batch' = batch \ {t}
    /\ token' = t
    /\ pc' = IF sockets[t] = NoConn THEN "returned" ELSE "read"
    /\ UNCHANGED <<tableVars, buffer, streamed, kernelVars, clientVars>>

-----------------------------------------------------------------------------
(***************************************************************************)
(* run_loop_listener, called until it breaks.                             *)
(***************************************************************************)

\* Mutant of AcceptSocket: accept is called once per event of the listener.
AcceptSocketOnce ==
    /\ pc = "accept" /\ backlog # <<>>
    /\ Accept(Head(backlog))
    /\ backlog' = Tail(backlog)
    /\ ready' = IF Readable(Head(backlog)) THEN ready \cup {next_socket_index} ELSE ready
    /\ pc' = "run"
    /\ UNCHANGED <<batch, token, buffer, streamed, inbox, fin, rst, clientVars>>

\* Room: the connection is registered (bytes already there make an event at
\* once) and put into the table, and accept is called again.
AcceptSocket ==
    /\ pc = "accept" /\ backlog # <<>>
    /\ Accept(Head(backlog))
    /\ backlog' = Tail(backlog)
    /\ ready' = IF Readable(Head(backlog)) THEN ready \cup {next_socket_index} ELSE ready
    /\ UNCHANGED <<threadVars, inbox, fin, rst, clientVars>>

\* No room: the connection is dropped and the loop left, whatever else the
\* backlog holds.
RefuseSocket ==
    /\ pc = "accept" /\ backlog # <<>>
    /\ Refuse(Head(backlog))
    /\ backlog' = Tail(backlog)
    /\ pc' = "run"
    /\ UNCHANGED <<batch, token, buffer, streamed, ready, inbox, fin, rst, clientVars>>

AcceptWouldBlock ==
    /\ pc = "accept" /\ backlog = <<>>
    /\ pc' = "run"
    /\ UNCHANGED <<tableVars, batch, token, buffer, streamed, kernelVars, clientVars>>

\* Mutant of ListenerFails: the error is passed over, like WouldBlock.
ListenerFailsUnnoticed ==
    /\ IoErrors
    /\ pc = "accept"
    /\ pc' = "run"
    /\ UNCHANGED <<tableVars, batch, token, buffer, streamed, kernelVars, clientVars>>

\* accept (no descriptors left...) or register fails: run_loop returns the error.
ListenerFails ==
    /\ IoErrors
    /\ pc = "accept"
    /\ pc' = "failed"
    /\ UNCHANGED <<tableVars, batch, token, buffer, streamed, kernelVars, clientVars>>

-----------------------------------------------------------------------------
(***************************************************************************)
(* run_loop_token and read_until_skk_server on the connection of token.   *)
(***************************************************************************)

conn == sockets[token]

\* Mutant of BackToEvents: no buffer.clear().
BackToEventsKeepingBuffer ==
    /\ pc' = "run"
    /\ UNCHANGED buffer

\* HandleClientResult::Continue, or the end of an Exit: buffer.clear().
BackToEvents ==
    /\ pc' = "run"
    /\ buffer' = <<>>

\* One turn of BufReaderSkk::read_until_skk_server with bytes at hand: those
\* the BufReader kept, or all those the kernel has.
ReadBytes ==
    /\ pc = "read"
    /\ LET available == IF streamed[conn] # <<>> THEN streamed[conn] ELSE inbox[conn]
       IN  /\ available # <<>>
           /\ buffer' = buffer \o Take(available, Used(available))
           /\ streamed' = [streamed EXCEPT ![conn] = Drop(available, Used(available))]
           /\ inbox' = IF streamed[conn] # <<>> THEN inbox
                                                ELSE [inbox EXCEPT ![conn] = <<>>]
           /\ pc' = IF IsDone(available) THEN "handle" ELSE "read"
    /\ UNCHANGED <<tableVars, batch, token, ready, backlog, fin, rst, clientVars>>

NothingToRead == streamed[conn] = <<>> /\ inbox[conn] = <<>>

\* Mutant of ReadEndOfStream: Ok(0) continues instead of closing.
ReadEndOfStreamContinues ==
    /\ pc = "read" /\ NothingToRead /\ conn \in fin
    /\ BackToEvents
    /\ UNCHANGED <<tableVars, batch, token, streamed, kernelVars, clientVars>>

\* End of stream: whatever is in the buffer is taken for a request.
ReadEndOfStream ==
    /\ pc = "read" /\ NothingToRead /\ conn \in fin
    /\ pc' = "handle"
    /\ UNCHANGED <<tableVars, batch, token, buffer, streamed, kernelVars, clientVars>>

\* WouldBlock: the event is over, and the bytes read so far are cleared.
ReadWouldBlock ==
    /\ pc = "read" /\ NothingToRead /\ conn \notin fin \cup rst
    /\ BackToEvents
    /\ UNCHANGED <<tableVars, batch, token, streamed, kernelVars, clientVars>>

\* Mutant of CloseSocket: the socket is neither deregistered nor closed.
CloseSocketStillRegistered ==
    /\ Exit(token)
    /\ BackToEvents
    /\ streamed' = [streamed EXCEPT ![conn] = <<>>]
    /\ UNCHANGED <<batch, token, ready, backlog, inbox, fin, rst, clientVars>>

\* HandleClientResult::Exit: deregister (a queued event of the token is gone
\* with it), empty the slot, drop the socket and its buffered bytes.
CloseSocket ==
    /\ Exit(token)
    /\ BackToEvents
    /\ ready' = ready \ {token}
    /\ streamed' = [streamed EXCEPT ![conn] = <<>>]
    /\ inbox' = [inbox EXCEPT ![conn] = <<>>]
    /\ UNCHANGED <<batch, token, backlog, fin, rst, clientVars>>

\* Any other error of the socket, here a reset.
ReadError ==
    /\ pc = "read" /\ NothingToRead /\ conn \in rst \ fin
    /\ CloseSocket

request == Drop(buffer, GetBufferSkipCount(buffer))

\* Nothing but line terminators before the end of stream, or a disconnect.
HandleExit ==
    /\ pc = "handle"
    /\ request = <<>> \/ IsDisconnect(request)
    /\ CloseSocket

\* write_all_flush: a client that has closed answers the first write by a reset,
\* which is an event of the connection; errors of further writes are ignored.
WriteReply(reply) ==
    IF client[conn] \in {"open", "shut"}
    THEN /\ replies' = [replies EXCEPT ![conn] = Append(@, reply)]
         /\ UNCHANGED <<ready, rst>>
    ELSE /\ ready' = IF conn \in rst THEN ready ELSE ready \cup {token}
         /\ rst' = rst \cup {conn}
         /\ UNCHANGED replies

\* Anything else is answered.
HandleRequest ==
    /\ pc = "handle"
    /\ request # <<>> /\ ~IsDisconnect(request)
    /\ WriteReply(Answer(request))
    /\ BackToEvents
    /\ UNCHANGED <<tableVars, batch, token, streamed, backlog, inbox, fin,
                   client, asked, wire>>

\* Mutant of DeregisterFails: the error is passed over, and the slot not emptied.
DeregisterFailsUnnoticed ==
    /\ IoErrors
    /\ \/ pc = "read" /\ NothingToRead /\ conn \in rst \ fin
       \/ pc = "handle" /\ (request = <<>> \/ IsDisconnect(request))
    /\ BackToEvents
    /\ UNCHANGED <<tableVars, batch, token, streamed, kernelVars, clientVars>>

\* deregister fails: run_loop returns the error.
DeregisterFails ==
    /\ IoErrors
    /\ \/ pc = "read" /\ NothingToRead /\ conn \in rst \ fin
       \/ pc = "handle" /\ (request = <<>> \/ IsDisconnect(request))
    /\ pc' = "failed"
    /\ UNCHANGED <<tableVars, batch, token, buffer, streamed, kernelVars, clientVars>>

-----------------------------------------------------------------------------

ServerStep ==
    \/ PollReturns
    \/ StartAccepting
    \/ \E t \in batch : StartReading(t)
    \/ AcceptSocket
    \/ RefuseSocket
    \/ AcceptWouldBlock
    \/ ReadBytes
    \/ ReadEndOfStream
    \/ ReadWouldBlock
    \/ ReadError
    \/ HandleExit
    \/ HandleRequest

Fault == ListenerFails \/ DeregisterFails

Next == ClientStep \/ ServerStep \/ Fault

Spec == Init /\ [][Next]_vars

(***************************************************************************)
(* The thread is never kept from running: it blocks only in poll with no  *)
(* event.  Bytes sent are delivered.  Nothing obliges a client to connect,*)
(* ask or close.                                                          *)
(***************************************************************************)
Fairness ==
    /\ WF_vars(ServerStep)
    /\ \A c \in Conns : WF_vars(\E n \in 1..Len(wire[c]) : Deliver(c, n))

FairSpec == Spec /\ Fairness

-----------------------------------------------------------------------------
(***************************************************************************)
(* Properties.                                                            *)
(***************************************************************************)

Replies ==
    [kind : {"information", "error"}]
        \cup [kind : {"candidates"}, midashi : Seq(Symbols)]

\* Types, and that the buffer all connections share is empty between two events.
RunLoopTypeOK ==
    /\ pc \in {"run", "accept", "read", "handle", "returned", "failed"}
    /\ batch \subseteq Slots \cup {LISTENER}
    /\ token \in Slots \cup {LISTENER}
    /\ buffer \in Seq(Symbols)
    /\ pc \in {"run", "accept"} => buffer = <<>>
    /\ ready \subseteq Slots \cup {LISTENER}
    /\ backlog \in Seq(Conns)
    /\ fin \subseteq Conns /\ rst \subseteq Conns
    /\ client \in [Conns -> {"new", "open", "shut", "gone", "left"}]
    /\ streamed \in [Conns -> Seq(Symbols)]
    /\ inbox \in [Conns -> Seq(Symbols)]
    /\ wire \in [Conns -> Seq(Symbols)]
    /\ asked \in [Conns -> Seq(Requests)]
    /\ replies \in [Conns -> Seq(Replies)]

\* Every event, whether queued in the kernel, in the batch being processed or
\* being handled, is of a slot that still holds its connection; none is handled
\* twice.  So run_loop never reaches "sockets get failed", which would end the
\* server for all clients.
EventsNameLiveSockets ==
    /\ (batch \cup ready) \ {LISTENER} \subseteq Occupied
    /\ pc \in {"read", "handle"} => token \in Occupied \ batch
    /\ pc # "returned"

\* What a client means by the bytes it sends: the line terminators around a
\* request are not part of it.
Intended(r) == SelectSeq(r, LAMBDA symbol : symbol # "nl")

\* The n-th reply a client receives answers its n-th request: no byte of one
\* request, or of another client, ends up in another request.
RepliesAnswerRequests ==
    \A c \in Conns :
        /\ Len(replies[c]) <= Len(asked[c])
        /\ \A i \in DOMAIN replies[c] : replies[c][i] = Answer(Intended(asked[c][i]))

\* A connection is left unnoticed in the backlog (no event queued for it and
\* none being handled) only after a client was turned away.
StrandedOnlyAfterRefusal ==
    (backlog # <<>> /\ pc \notin {"accept", "failed"} /\ LISTENER \notin ready \cup batch)
        => refused # {}

\* An error of accept, register or deregister has ended the service of everyone.
ServiceFailed == pc = "failed"

\* The n-th request of a client is answered, or its connection is closed, which
\* is the answer to a disconnect and to a client too many.
IsServed(c, n) ==
    Len(replies[c]) >= n \/ ~IsConnected(c) \/ client[c] \in {"gone", "left"}

\* Every request of a connection the server holds is served; and a client in the
\* backlog gets into the table or is turned away, unless it is stranded there
\* behind another one that was turned away.  An error of one connection that
\* keeps others waiting has ended run_loop: none is passed over.
EveryRequestIsServed ==
    \A c \in Conns : \A n \in 1..MaxRequests :
        /\ Len(asked[c]) = n /\ c \in Live ~> IsServed(c, n) \/ ServiceFailed
        /\ Len(asked[c]) = n ~> \/ IsServed(c, n)
                                \/ c \in Live
                                \/ c \in Backlogged /\ refused # {}
                                \/ ServiceFailed

\* A client that closes its connection by close() gives its slot back, or the
\* error that kept it from doing so has ended run_loop.
ClosedClientsFreeTheirSlot ==
    \A c \in Conns : client[c] = "gone" /\ c \in Live ~> c \notin Live \/ ServiceFailed

\* A disconnect request closes the connection.
DisconnectIsHonoured ==
    \A c \in Conns :
        (\E i \in DOMAIN asked[c] : IsDisconnect(asked[c][i])) ~> ~IsConnected(c)
=============================================================================
