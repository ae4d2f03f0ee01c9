--------------------------- MODULE RequestFraming ---------------------------
(***************************************************************************)
(* How the server cuts requests out of a byte stream and what it answers. *)
(*                                                                         *)
(* Bytes are abstracted to what the framing and the dispatch tell apart:  *)
(*   "0"   the request to disconnect                                      *)
(*   "1"   the first byte of a lookup (protocols 1 and 4)                 *)
(*   "2"   a request of one byte (protocols 2 and 3)                      *)
(*   "sp"  the space that ends a lookup                                   *)
(*   "nl"  CR or LF                                                       *)
(* any other symbol is a byte of a midashi.                               *)
(***************************************************************************)
EXTENDS Integers, Sequences, FiniteSetsExt

CONSTANTS
    PROTOCOL_MINIMUM_LENGTH,    \* "1a ".len(), 3
    PROTOCOL_MAXIMUM_LENGTH     \* 2044 in the code

ASSUME ProtocolLengthAssumption ==
    /\ PROTOCOL_MINIMUM_LENGTH = 3
    /\ PROTOCOL_MAXIMUM_LENGTH \in Nat
    /\ PROTOCOL_MINIMUM_LENGTH <= PROTOCOL_MAXIMUM_LENGTH

-----------------------------------------------------------------------------
(***************************************************************************)
(* BufReaderSkk::read_until_skk_server: how much of the bytes at hand the *)
(* request being read takes.  A space anywhere is looked for first, a     *)
(* one-byte request at the front (after CRs and LFs) only when there is   *)
(* no space.                                                              *)
(***************************************************************************)
SpacesIn(available) == {i \in DOMAIN available : available[i] = "sp"}

OneCharacterProtocolIn(available) ==
    {i \in DOMAIN available :
        /\ available[i] \in {"0", "2"}
        /\ \A j \in 1..(i - 1) : available[j] = "nl"}

\* The request ends within the bytes at hand.
IsDone(available) ==
    SpacesIn(available) \cup OneCharacterProtocolIn(available) # {}

Used(available) ==
    IF SpacesIn(available) # {} THEN Min(SpacesIn(available))
    ELSE IF IsDone(available) THEN Min(OneCharacterProtocolIn(available))
    ELSE Len(available)

\* The first n symbols of s, and the others.
Take(s, n) == SubSeq(s, 1, n)
Drop(s, n) == SubSeq(s, n + 1, Len(s))

-----------------------------------------------------------------------------
(***************************************************************************)
(* get_buffer_skip_count: up to two line terminators in front of a        *)
(* request, left there by the previous one, are skipped.                  *)
(***************************************************************************)
SkipNothing(buffer) == 0    \* mutant of GetBufferSkipCount

GetBufferSkipCount(buffer) ==
    IF Len(buffer) >= 1 /\ buffer[1] = "nl"
    THEN IF Len(buffer) >= 2 /\ buffer[2] = "nl" THEN 2 ELSE 1
    ELSE 0

(***************************************************************************)
(* Server::handle_client on a request without its leading line            *)
(* terminators: what is written back.  A lookup writes either candidates  *)
(* or the midashi itself, both of which name the midashi; "0\n" is the    *)
(* error reply.  A disconnect writes nothing.                             *)
(***************************************************************************)
ErrorReply == [kind |-> "error"]

IsValidLookup(request) ==
    Len(request) \in PROTOCOL_MINIMUM_LENGTH..PROTOCOL_MAXIMUM_LENGTH

IsDisconnect(request) == request # <<>> /\ request[1] = "0"

Answer(request) ==
    CASE request[1] = "1" /\ IsValidLookup(request) ->
             [kind |-> "candidates", midashi |-> Tail(Take(request, Len(request) - 1))]
      [] request[1] = "2" -> [kind |-> "information"]
      [] OTHER -> ErrorReply
=============================================================================
