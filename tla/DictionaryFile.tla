--------------------------- MODULE DictionaryFile ---------------------------
(***************************************************************************)
(* DictionaryFile: the last block read from the dictionary, kept with its *)
(* position and length.  The two are noted before the seek and the read,  *)
(* either of which may fail and leave the buffer as it was, or a part of  *)
(* it overwritten.                                                        *)
(*                                                                         *)
(* The byte at position p of the file is p itself, so that a byte out of  *)
(* place shows; Zero is the byte the buffer is filled with.               *)
(***************************************************************************)
EXTENDS Integers

CONSTANTS
    Blocks,         \* the blocks of the index: records of seek and length
    InitialLength,  \* INITIAL_DICTIONARY_FILE_READ_BUFFER_LENGTH
    IoErrors        \* may seek and read_exact fail?

Zero == -1

ASSUME DictionaryFileAssumption ==
    /\ Blocks \subseteq [seek : Nat, length : Nat \ {0}]
    /\ InitialLength \in Nat
    /\ IoErrors \in BOOLEAN

VARIABLES
    seek_position, read_length, \* the key of the cached block
    buffer,         \* Vec<u8>: bytes by index, from 0
    buffer_length,  \* buffer.len()
    returned,       \* what the last call returned
    failed          \* history: the last access to the file failed

fileVars == <<seek_position, read_length, buffer, buffer_length, returned, failed>>

NoCall == [kind |-> "none"]
Error == [kind |-> "error"]

\* The bytes of a block in the file.
Content(block) == [i \in 0..(block.length - 1) |-> block.seek + i]

\* buffer[..length]
Prefix(bytes, length) == [i \in 0..(length - 1) |-> bytes[i]]

\* The buffer only grows.
Grow(length) ==
    buffer_length' = IF length > buffer_length THEN length ELSE buffer_length

\* The front of the buffer, overwritten by n bytes of a block; growing has
\* dropped what it held.
Overwrite(block, n) ==
    buffer' = [i \in 0..(buffer_length' - 1) |->
                  IF i < n THEN block.seek + i
                  ELSE IF block.length > buffer_length THEN Zero ELSE buffer[i]]

-----------------------------------------------------------------------------

InitFile ==
    /\ seek_position = 0 /\ read_length = 0
    /\ buffer_length = InitialLength
    /\ buffer = [i \in 0..(InitialLength - 1) |-> Zero]
    /\ returned = NoCall
    /\ failed = FALSE

\* Mutant of IsCached: the block is read again only if both differ.
IsHalfCached(block) ==
    seek_position = block.seek \/ read_length = block.length

IsCached(block) ==
    seek_position = block.seek /\ read_length = block.length

NoteKey(block) ==
    /\ seek_position' = block.seek
    /\ read_length' = block.length

\* The block is the one read last: no access to the file.
ReadCached(block) ==
    /\ IsCached(block)
    /\ returned' = [kind |-> "block", of |-> block,
                    bytes |-> Prefix(buffer, block.length)]
    /\ UNCHANGED <<seek_position, read_length, buffer, buffer_length, failed>>

\* seek and read_exact succeed.
ReadFromFile(block) ==
    /\ ~IsCached(block)
    /\ NoteKey(block)
    /\ Grow(block.length)
    /\ Overwrite(block, block.length)
    /\ returned' = [kind |-> "block", of |-> block, bytes |-> Content(block)]
    /\ failed' = FALSE

\* seek fails, or read_exact after n bytes.
ReadFails(block, n) ==
    /\ IoErrors
    /\ ~IsCached(block)
    /\ NoteKey(block)
    /\ Grow(block.length)
    /\ Overwrite(block, n)
    /\ returned' = Error
    /\ failed' = TRUE

Read(block) ==
    \/ ReadCached(block)
    \/ ReadFromFile(block)
    \/ \E n \in 0..(block.length - 1) : ReadFails(block, n)

NextFile == \E block \in Blocks : Read(block)

SpecFile == InitFile /\ [][NextFile]_fileVars

-----------------------------------------------------------------------------
(***************************************************************************)
(* Properties.                                                            *)
(***************************************************************************)

\* Types, and that the slice of a cached block lies within the buffer.
FileTypeOK ==
    /\ seek_position \in Nat /\ read_length \in Nat
    /\ buffer_length \in Nat /\ read_length <= buffer_length
    /\ buffer \in [0..(buffer_length - 1) -> Nat \cup {Zero}]
    /\ failed \in BOOLEAN

\* Unless the last access to the file failed, the buffer holds the block its
\* position and length name.
BufferHoldsItsBlock ==
    ~failed => Prefix(buffer, read_length)
                   = Content([seek |-> seek_position, length |-> read_length])

\* A call that succeeds returns the bytes of the block asked for, except a second
\* call for the block whose read has just failed.
ReturnsTheBlock ==
    returned.kind = "block" /\ ~failed => returned.bytes = Content(returned.of)
=============================================================================
