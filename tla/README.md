# Specifications of yaskkserv2

yaskkserv2 is an SKK dictionary server. `yaskkserv2_make_dictionary` reads SKK
dictionaries (jisyo) and writes one binary dictionary file; `yaskkserv2` maps
the index of that file into memory and answers the SKK protocol over TCP from
one thread: lookups (`1midashi `), completions (`4midashi `), two information
requests (`2`, `3`) and the disconnect (`0`). It can merge in candidates from
Google, which it caches in memory and in a file.

The modules here model that program. Line numbers are those of
`PROJECT.json`'s `map`; paths below are relative to `src/src/skk/`.

## 1. Inventory

| component | state | operations | interacts with | hard behaviour | what makes it correct |
|---|---|---|---|---|---|
| slot table (`yaskkserv2.rs` 289-329, 391-463) | `sockets`, `sockets_some_count`, `next_socket_index` | accept, refuse, exit | run loop | three variables kept in agreement by hand, in every order of accepts and exits | next slot empty, count exact, no slot overwritten, refusal only when full |
| run loop (319-537) | poll's events, `buffer` shared by all connections, a `BufReader` per socket | poll, accept, read, handle, close | kernel (edge-triggered events), clients, slot table, framing | clients act between any two steps, several events in a batch, errors that end the service | no event for an empty slot, no request mixed up, every request served, no slot leaked |
| framing and dispatch (162-219, 539-553; `yaskkserv2/server.rs`) | none | cut a request, skip line terminators, dispatch, reply | run loop, dictionary reader | segments, pipelining, requests without terminator | each reply answers its own request |
| dictionary block cache (`yaskkserv2.rs` 87-116) | one block and its key | `read` | dictionary reader, file system | key set before the I/O that may fail | a block returned is the block asked for |
| Google cache (`yaskkserv2/google_cache.rs`) | map behind a lock, cache file | `get_candidates`, `write_candidates`, `setup`, `read`, `write` | dictionary reader, file system, clock | separate lock acquisitions, expiry, eviction at the limit, file truncated before it is written | bounded, only fresh entries, readable after a crash, no panic |
| Google requests (`yaskkserv2/request.rs`) | none | two HTTP requests, choice of candidates | dictionary reader, network | either request fails or is late; segments multiply | one text of each segment, bounded, none unwanted, none twice; one failure costs nothing of the other service |
| dictionary reader (`yaskkserv2/dictionary_reader.rs`) | index in memory (read-only) | `read_candidates`, `read_abbrev` | block cache, Google cache, candidates | index hint search, search over several blocks, failure of one of two sources | the entry is found exactly if it is in the file |
| dictionary format (`dictionary.rs`) | none | write the parts in front of the blocks, `setup`, `validate`, index map | dictionary file | offsets and lengths computed on one side and followed on the other; file written by another program, perhaps not completely | what is loaded is what was written; an incomplete file is refused |
| candidates (`candidates.rs`) | none | quote, trim, merge, remove duplicates | dictionary reader, jisyo reader | annotations, duplicates within one list | nothing lost, nothing twice, order kept |
| dictionary creator (`yaskkserv2_make_dictionary/dictionary_creator.rs`) | output file | split into blocks, index, header, hash | jisyo reader, dictionary format | entries longer than a block, hash written last | every entry whole in one block the index finds |
| jisyo reader (`.../jisyo_reader.rs`) | map of entries | detect the encoding, read lines, merge | candidates, encoding | line ends, last line, lines that are none, reads that fail | the entries are those of the lines, nothing is made up |
| jisyo creator (`.../jisyo_creator.rs`) | two maps | take blocks apart, convert, write a jisyo | dictionary, Google cache, encoding | midashi that become one in another encoding, candidates with slashes | what is written is read again |
| driver (`yaskkserv2_make_dictionary.rs`, `.../command_line.rs`) | none | choose one of three programs | the four above | what is read and what is ignored depends on three options together | - |
| configuration (`skk.rs`, `yaskkserv2/command_line.rs`, `config_file.rs`) | `Config` | defaults, command line, file, validation | startup | precedence, contradictions found in either order | a value given is the value used, a contradiction is refused |
| startup (`skk.rs` 459-558, `yaskkserv2.rs` 221-287) | settings, process | settings, setup, daemonize, run | configuration, dictionary, lookups | the daemon works in another directory and opens the dictionary again | the server that comes up has the settings it was given |
| encoding (`encoding_simple*`) | two arrays, four maps | EUC to UTF-8 and back, detection | everything that reads bytes | computed indexes, combining characters, truncated sequences | round trip, escape of what is unknown |
| encoding table (`encoding_simple/encoding_table*`, `create_src_table`) | bytes | lines to units to bytes, and back | encoding, dictionary format | lengths and counts in a header | what is read is what was written |
| errors, tests, benchmarks | - | - | - | - | not modelled, see section 6 |

`PROJECT.json` lists each hazard at its line, with the properties that cover it.

## 2. Plan

Written, and described in sections 3 to 5:

1. `SocketTable`, with the abstract `ConnectionPool` it implements.
2. `RequestFraming` (operators) and `RunLoop`, which composes both with
   clients and an edge-triggered kernel, and implements `SocketTable`.
3. `DictionaryFile`: the one-block cache under I/O errors.
4. `GoogleCache`: time, expiry, the limit, crash and restart, and the lock
   acquisitions of several threads.
5. `Lookup`: `read_candidates` over the block cache and Google's kept
   candidates; it implements `DictionaryFile`.

6. `EncodingTable` and `DictionaryFormat` (the bytes in front of the blocks),
   `DictionaryCreator` (grouping, split into blocks, index, file with the hash
   last) and `DictionarySearch`, which composes these with the server's side: the
   setup read by read, the hint search, lookup and completion across blocks,
   against the jisyo the dictionary was made of.
7. `Candidates` and `Encoding` (operators), `JisyoReader`, and `JisyoCreator`,
   which composes them into the program that makes dictionaries and jisyo.
8. `Configuration` and `GoogleRequests` (operators), which `Lookup` composes with
   the start of the server and with the two caches.

9. Theorems, in a module of proofs for each: `RunLoop_proofs` (with the table of the
   slots), `GoogleCache_proofs`, `Lookup_proofs`, `DictionaryFormat_proofs`,
   `Dictionary_proofs` and `Jisyo_proofs`, and for the operators `Candidates_proofs`, with
   the facts about sequences they share in `SequenceFacts`. No module declares a
   RECURSIVE operator.

Left:

10. Abstract specifications: the union of dictionary and Google as a function of
    the midashi (for `Lookup` without failures), a map with a limit that survives
    restarts (for `GoogleCache`).

A bounded send buffer in `RunLoop` is not planned: it fills only for a client that
goes on asking and reads no reply.

## 3. Modules and code

### SocketTable, ConnectionPool

| model | code |
|---|---|
| `sockets`, `sockets_some_count`, `next_socket_index` | the locals of `run_loop` of these names |
| `refused` | history: clients whose last attempt was turned away |
| `Accept`, `Refuse` | `Ok(socket)` in `run_loop_listener`, with and without room |
| `Exit` | `HandleClientResult::Exit` in `run_loop_token` |
| `GetEmptySocketsIndex` | `get_empty_sockets_index`; its `panic!` is the index `Panic`, outside the table |

`ConnectionPool` is what a client may rely on: a set of live connections out of
which a client is kept only while the set is full. `Pool` maps it to the set of
connections in the slots.

### RequestFraming

Operators over sequences of byte classes (digits of a request, space, line
terminator, any other byte): where `read_until_skk_server` ends a request
(`IsDone`, `Used`), how many leading terminators `get_buffer_skip_count` drops,
and which reply `handle_client` writes (`Answer`). Protocols 1 and 4 share the
class `"1"`, protocols 2 and 3 the class `"2"`: framing and dispatch treat them
alike. A successful lookup is answered with "candidates of this midashi",
whether they were found or not; what they are is the subject of `Lookup`.

### RunLoop

One thread, the clients and the kernel. `pc` says where the thread is: `run` (in
`poll`, or between two of its events), `accept` (in the loop around
`run_loop_listener`), `read` (in `read_until_skk_server`), `handle` (a request
is complete), or it has left `run_loop` (`returned`, `failed`).

| model | code |
|---|---|
| `batch`, `token` | the events of the current `poll`, the one being handled |
| `buffer` | the request buffer of `run_loop`, one for all connections |
| `streamed` | the `BufReader` of a connection |
| `PollReturns` | `poll.poll`: at most `MAX_CONNECTION` events (the capacity of `Events`) |
| `AcceptSocket`, `RefuseSocket`, `AcceptWouldBlock`, `ListenerFails` | the outcomes of `run_loop_listener` |
| `ReadBytes`, `ReadEndOfStream`, `ReadWouldBlock`, `ReadError` | `fill_buf` returns bytes, nothing, `WouldBlock`, another error |
| `HandleExit`, `HandleRequest` | `get_buffer_skip_count` and `handle_client` |
| `CloseSocket`, `DeregisterFails` | the exit path of `run_loop_token` |
| `ready`, `backlog`, `inbox`, `fin`, `rst` | the kernel: external, modelled from the edge-triggered use of mio |
| `client`, `asked`, `wire`, `replies` | the clients |

Clients act between any two steps of the thread. An event is queued when bytes,
an end of stream or a reset arrive, once per token, and is consumed by the
`poll` that returns it. `StartReading` on an empty slot is the path "sockets get
failed", which ends the server. The actions of `SocketTable` are conjoined as they
are, so that the loop has the table's steps by construction; what that amounts to is
`PoolSpec`: the loop, seen from outside, is an abstract pool of connections.

### DictionaryFile

`seek_position`, `read_length`, `buffer` are the fields of the struct,
`returned` is the value of the last call. `ReadFails(block, n)` is a failing
`seek` (n = 0) or a `read_exact` that fails after n bytes: key and buffer are
then changed already. The byte at position p of the file is the number p, so
that each byte of a block is different from all others and a wrong one shows.

### Candidates, GoogleRequests, Configuration

Operators, used by the state machines below. `Candidates` is a list of candidates
as bytes: `TrimOneSlash`, `RemoveDuplicatesBytes`, `MergedUnits` (the merging with
annotations, of which the merging without is the case that has none), `Quote`.
`GoogleRequests` is what becomes of the two answers, which are given as the parsed
JSON or XML: `Products` of the segments, `ShouldAdd` (the scripts that are not
wanted), `Limited`, `FirstWord` of a suggestion, and `GoogleUtf8Candidates`, where
one failure must not cost the other answer. `Configuration` has a setting for each
field of `Config`: `CommandLine`, `ReadFile`, and the three ways to refuse,
`IsUsageError` (the parser of the options), `IsHelpExit` (options of Google without
Google) and `IsIllegal` (the file).

### Lookup

The server from its command line to its lookups.

| model | code |
|---|---|
| `Start` | `run_yaskkserv2` up to the settings: options, file, contradictions |
| `Setup`, `Daemonize`, `Run`, `StartFails` | `Yaskkserv2::setup`, `run_yaskkserv2_impl`, `Yaskkserv2::run` up to the loop |
| `Ask`, `ReadGoogle`, `SkipDictionary`, `ReadDictionary`, `Reply` | `read_candidates` and `handle_client_protocol_1` |
| `Keep`, `ForgetGoogle` | what `GoogleCache` does with the candidates of a word |

A daemon works in the root directory, where a path in `RelativePaths` names
nothing, and `run` opens the dictionary again; `TryAgain` is a new start. From
`Run` on only `ReaderSettings` are kept, the settings a lookup depends on: whether
HTTPS is used makes no difference to what is modelled. A lookup asks Google first if
configured, reads the block of the dictionary, asks Google last or when nothing was
found, and replies. `BlockOf` is the index (its search is the subject of
`DictionarySearch`), `HeadOf` and `LineFeeds` say what the dictionary file holds:
`CandidateAt(p)` is the candidate, with its annotation if it has one, that the byte at
position p stands for, and the same candidate may stand at several. The empty list
of candidates stands for errors and timeouts, which the code ignores.
`ForgetGoogle` is an entry expiring, and `Keep` evicts one above
`google_cache_entries`. What Google delivers becomes units of a list as in the code
(`NewUnits`): quoted, the slash at the end trimmed (which takes a last unit with it that
quoting has made empty), and converted to the encoding of the dictionary. `Converted` is
a parameter, because the conversion is the subject of `Encoding`; it may make equal what
Google keeps apart, as `Euc::encode` does with U+9FA4 and the character whose cell that
finds (see `conversion` below), and the duplicates have been removed before. The run has
such a pair. `MergedUnits` merges the two lists with their annotations; `Base` is the
list found before, of which the code trims "//" to nothing.

### GoogleCache

Every acquisition of the lock in `get_candidates` and `write_candidates` is a
step of its own, as are reading the clock, `File::create` and the write behind
it. `map[midashi]` for a missing key panics; under the lock for writing this
poisons the lock. The stored list, with the time as its first string, is a
record of time and candidates. `Restart` is the setup with its hash check: what
is not a completely written file is `Broken`, and `ReadCache` the empty map then. Each
start of a server may have another limit (`Limits`); `loaded` remembers a file that
was larger than that. The
subtraction of times is modulo `TimeModulus`, as in the release build (a debug
build panics). Which of several oldest entries `min_by` finds depends on the
order of the keys, which is left open. Two threads that write the file at the
same time may leave anything (`FileWrite`). `serialized` says whether a mutex of
the callers keeps the calls apart, as in the first of the multi-threaded tests;
the one thread of the server comes to the same.

### EncodingTable, Encoding

`TableBytes` is the table as the generator writes it and each dictionary carries
it: a header, the units of two combining characters, all others; `CombinationsIn` and
`CharactersIn` read it back. From that `Encoding` fills the two arrays with their
computed indexes (`Utf8Index`, `EucIndex`; two lines of the table with the same index
would share a cell) and the four maps. `EncodeUnit` and `DecodeUnit` are one turn of
the loops of `Euc::encode` and `Euc::decode`, in the order of the branches;
`Converted` is the loop. `DetectEncoding` counts what is UTF-8 and what is not.

### DictionaryFormat

The bytes in front of the blocks: `FixedHeader` and `FixedHeaderBytes`, the index
header, heads, offsets and joined midashi of a unit, and the operators that read
them (`FixedHeaderOf`, `BlockHeaderOf`, `UnitOf`, `UnitsRead`). `MidashiKey` is the
first character of a midashi, `Slot` its place in the vector or the map of the
server. The hash is not bytes but a flag: no two files have the same.

### DictionaryCreator

| model | code (`yaskkserv2_make_dictionary/dictionary_creator.rs`) |
|---|---|
| `dictionary` | the merged jisyo: the length of the entry of each midashi |
| `block_map` | `temporary_block_map`: where each entry starts in the buffer of its key |
| `offset`, `informations` | the locals of `get_dictionary_block_informations` |
| `SplitBlock`, `SplitFindsNoEntry`, `SplitPanics` | one turn of its loop: a block, "dictionary format B", or a slice that ends behind the buffer |
| `AddIndexData`, `CloseIndex` | `create_index_data`, one step per key |
| `TruncateFile`, `WriteFront`, `WriteBlocks`, `WriteHash` | `write_and_calculate_hash`, `write_hash`; each may fail |
| `StopMaker`, `StartMaker`, `ReviseJisyo` | the program is killed between two steps, and started again, perhaps on another jisyo |

Midashi are bytes, and so is everything in front of the blocks: header, encoding
table, index, padding. In the blocks an entry is a position and a length, and a line
feed is the position between two entries; what the bytes of an entry are is the
subject of `JisyoReader`.

### DictionarySearch

The server on the file that `DictionaryCreator` leaves or is writing. The setup goes
read by read: `ValidateHash` refuses a file without the right hash, `LoadTable` and
`LoadIndexBlock` follow the offsets of its header, the latter with a buffer of
`INDEX_DATA_BLOCK_LENGTH` whose slice panics if it is too small, `FinishSetup` starts
to listen. If the file is written anew after its hash was validated, the setup may do
three things (`SetupIsUnreliable`): fail; go on with whatever it read (state `garbled`,
which has an index of no jisyo and of which nothing is claimed, a later panic included);
or panic, since the length of the buffer (`dictionary.rs:196`) and the number of midashi
(`:156`) are asserted, and the slice of a block (`:209`) may end behind its buffer.
`OnlyOversizedOrRewrittenPanics` therefore says: a setup panics only if the file is no
longer the one whose hash was validated, or if the data of one key exceed the buffer.
`HintOfFew` to `ContinueBinarySearch` are
`get_block_informations_loop_start_hint_index`, one step per turn of the loop;
`BlockIndex` is the scan behind it, which the code does twice if the search was
binary. `ReadCandidates` and `ReadCompletions` read blocks, `SendReply` ends the
request. While the maker writes the file anew, reads fail or bring anything
(`ReadIsUnreliable`).

### JisyoReader, JisyoCreator

| model | code (`yaskkserv2_make_dictionary/`) |
|---|---|
| `OpenJisyo`, `OpenFails` | `jisyo_reader.rs`: detection of the encoding, byte order mark |
| `SkipLine`, `TakeLine`, `LinePanics`, `WarningFails` | one turn of the loop over the lines, and the ways in which one can end |
| `EndOfJisyo`, `ReadFails` | the loop is left, at the end or for an error |
| `HelpExit`, `StartDictionary`, `StartJisyo`, `StartCache` (`StartProgram`) | the driver's choice by the options |
| `WriteDictionary`, `CreateFails` | the dictionary, of which the encoding and the blocks are kept |
| `ReadBlock`, `WriteJisyo` | `jisyo_creator.rs`: each block taken apart, the jisyo written |

Texts are bytes. A line ends with CR or LF; the LF of a CR LF is modelled as an
empty line of its own, which is skipped (the code remembers the CR instead). The
programs run one after the other over the same files: a dictionary of given jisyo, a
jisyo of that dictionary or of the Google cache, a dictionary of that jisyo. The
history `origin` remembers which given jisyo that goes back to. `MCJisyo` gives the
jisyo as pages of words, each letter with its bytes in both encodings, and compares
what the program makes of the bytes with the words. `ReaderSpec` is the reader by
itself, on any jisyo; `JisyoCreator` takes its steps (`NextReader`) as they are.

`MCRunLoop`, `MCLookup`, `MCGoogleCache`, `MCDictionary` and `MCJisyo` give the
constants their values.

## 4. Runs

| run | question | bounds |
|---|---|---|
| `requests` | does each client get the answers to its own requests, in order? | 2 clients in 2 slots, 2 requests each out of 5 kinds, among them one ended by a line terminator, whose rest is skipped by the next |
| `connections` | do vector, count and next slot agree, and implement the pool, while the loop uses them? does a slot change hands only by an exit? can an event name an empty slot, can a client be left unnoticed? | 3 clients, 2 slots, one request each in one or two segments, `poll` returns at most 2 of 3 events; close, half-close, reset, failing calls: the search for a slot wraps, the table fills, empties in every order and turns a client away |
| `live` | is every request served, every slot given back, a client that found the table full noticed at all? | 3 clients for 1 slot, one request each, a lookup with its line terminator or a disconnect, every call of the kernel free to fail: one client is served, one turned away, one stranded; an error of accept, register or deregister ends the service of all, and nothing else does |
| `segments` | violation, see below | 2 clients, one lookup |
| `pipelined` | violation, see below | lookup and disconnect without waiting |
| `lookup` | does a server that comes up have the settings it was given, and refuse what contradicts itself? is each reply made of its own entry and Google's candidates, those of Google being choices from the answers, bounded, and none lost because something else failed? | about 1,000 starts: every combination of options and lines of the file for the settings of Google, for settings with a validator, for the path of the dictionary; 4 words in 3 blocks (bytes 10-13, 14-16, 17-19, two of the length of the buffer, one longer; a word without a block, one with a block and no entry), a word of annotated candidates that Google has without, four answers of one of Google's services and three of the other, among them a text that is quoted to nothing and two that the conversion makes equal, failure after any number of bytes; a limit of 1 to 3 candidates, room for one kept word |
| `lookup_stale` | violation, see below | one start with the dictionary only, Google fails |
| `google_server` | do calls kept apart by a mutex, or by there being one thread, ever panic? limit, expiry, order of eviction, file against memory, crash at every step, another limit after a restart; and if calls interleave, does a panic freeze the map? | 2 threads, 3 midashi for 1 or 2 entries, 3 seconds for an expiry of 2: entries expire, are evicted and are written again; 4.1 million states |
| `dictionary` | does a server that came up have the index and the table that were written, and find exactly the midashi of the jisyo, whatever became of the maker? does the hint search end, inside the index, before its block? are completions the first ones? | every jisyo of up to 4 midashi of one key and one of another, with entries shorter than, as long as and longer than a block of 4; jisyo with 9, 10, 11 and 29 to 37 blocks, around both thresholds of the search and up to an index that overflows its buffer |
| `completions` | violation, see below | entries of length 3 |
| `jisyo` | are the entries those of the lines, each candidate once, through every pair of encodings and the way to a dictionary and back? does a line only add to one entry, whatever was read before? is the encoding detected that was written? is anything made up? | 125 sets of given jisyo with up to two jisyo of up to three lines: a word in each of ten letters (two- and three-byte EUC, two-, three- and four-byte UTF-8, combining pairs, a letter the table does not have), every terminator, merged lists with annotations, 18 lines that are no entries or barely; up to 3 starts |
| `conversion` | violation, see below | the same with U+9FA4 for the foreign letter |

The numbers are small because the hazards are of order, not of size: two slots
and three clients give every order of filling, emptying, refilling and refusing
that a pair of slots can tell apart, and the theorems of section 5 remove the
bound for the table, the loop's use of it and the block cache. The byte classes
are exactly those the code compares with. `PROTOCOL_MAXIMUM_LENGTH` is 4 instead
of 2044; the lookup with a line terminator in front of it is that long.
Symmetry is used where connections (`connections`) or midashi and threads
(`google_server`) are interchangeable, and only in runs without liveness.

Scaled down are, for the dictionary, a block to 4 bytes, the buffer of the index to
407 (a key with 36 blocks fills it exactly, one with 37 overflows it), the area of
the fixed header to 48, its alignment to 16, that of the blocks to 2, and the table
to 3 lines; the thresholds of the hint search, 10 and 30, are those of the code. For
the jisyo the table is an extract of 13 lines, the detection looks at 80 bytes, a
line has at most 120, and the shares of `detect_encoding` are a 10th and a 40th of
the length instead of a 100th and a 1000th, so that small texts fall on either side
of each. For the lookup the default of the limit is 3.

Bounds on behaviours that do not end in the code: `MaxRequests`, `MaxTime`, the
number of connections, `MaxRuns` (the maker is started twice for jisyo of at most 3
entries, once for the others), the number of `Arguments` (three programs one after
the other) and `ReadErrors` (one read of a jisyo fails). Because the clients of
`RunLoop` run out of requests its runs do not check for
deadlock (the thread then waits in `poll`, as it should). Nor do the runs of
`DictionarySearch`, because without a dictionary or after a panic there is no server
to ask, and those of `JisyoCreator`, which stop after the last program. `Lookup`,
where a program that ended may be started again, and `GoogleCache` are checked for
it.

**Fairness** (`FairSpec` of `RunLoop`): weak fairness of the thread's steps
together, because the one thread runs whenever it is not blocked in `poll`, and
of the delivery of bytes that were sent. Nothing obliges a client to connect,
ask or close. Weak fairness of `ServerStep` as a whole is enough since `batch`
is emptied before the next `poll`. The properties say "or `ServiceFailed`": an error of
`accept`, of `register` or of `deregister` ends `run_loop` with an error, for every client. If it
went on instead, a client would wait in the backlog, or keep its slot, for ever (the
mutants of `ListenerFails` and `DeregisterFails`). A lookup is one step of `HandleRequest`: the
requests to Google have a timeout, after which the step ends. In
`DictionarySearch` it is the steps of a search (`SearchStep`), which the same
thread takes without waiting for anything but the disk.

**Violations.** Each is a disagreement between code and a sentence of the
repository, quoted in `PROJECT.json`:

- `segments`: a lookup that arrives in two segments is cut in two. `WouldBlock`
  ends the event, `run_loop_token` clears the buffer, and the rest is answered
  as a request.
- `pipelined`: a disconnect sent together with the lookup before it stays in the
  `BufReader`, for which no event comes; the connection stays open.
- `lookup_stale`: after a failed read the next lookup in the same block finds
  its key in the cache and searches the bytes of another block: a word of the
  dictionary is answered as unknown. `ReturnsTheBlock` and `LookupIsComplete`
  carry `~failed` for this reason, and hold otherwise.
- `completions`: a completion starts in the block whose first midashi is the last
  one not greater than what was asked for, and gives up if that block has no
  match. If the midashi is no entry itself and sorts behind the last entry of the
  block, all its completions are in the next one and none is returned.
  `CompletionsAreTheFirst` allows for this, and holds otherwise.
- `conversion`: the encoder has an array for characters of three bytes, whose index
  leaves out a gap of the table. The gap is taken out of the code point before the
  minimum is subtracted, although its ends are given as an index: code points from
  U+9FA4 on that are not in the table find the cells of other characters and become
  these, where an escape is documented. `EntriesAreThoseOfTheLines` holds with a
  foreign letter outside of that range (the `jisyo` run has U+0E01).

More things hold by the letter and deserve a reader's attention.

*Connections.* `StrandedOnlyAfterRefusal` and `EveryRequestIsServed` are stated with
an exception: on a full table the accept loop is left after one refusal although
more connections may be queued, and these wait until another client connects. The
space of a lookup is looked for before the requests of one byte: one of these that
arrives in front of a lookup is cut together with it, and the lookup is not answered.

*Google.* An expired entry of the cache is served until something is written:
`NothingExpired` speaks of the map after a write. Calls that interleave evict one
entry each from copies of a map that has grown by both, and nothing bounds it; one
thread may also install the map it copied before another's entry was inserted, and
the other then indexes the map with the missing key and panics. Hence `serialized` in
`WithinLimit` and `SerializedCallsNeverPanic`: the server has one thread, its tests
have sixteen. A file that a larger limit left stays above the new limit, since a
write evicts one entry at most (`WithinLimit` says it does not grow). An expiry
longer than the time since the epoch, which the validator of the option accepts,
wraps around, and each entry is dropped by the call that wrote it (`WrittenIsKept`
fails if `ExpireSeconds` exceeds `StartTime`; the run keeps below). One unwanted
part of several drops the whole candidate (`ShouldAdd`), suggestions are not
filtered by script, and the limit is applied before duplicates are removed.

*Settings.* The option `--google-max-candidates-length` is validated and then read by
nobody, although `src/README.md` describes it (`GivenIsUsed` names the exception). An
option that is given with the value of its default does not keep the file's value
away. In `yaskkserv2.conf` a timing that is not one of the four, "fast" of
its comment included, counts as "notfound"; a path for the cache does not enable the
cache there; and the file may switch Google off behind an option that enables a
part of it. A relative path of the dictionary is found by the setup and no longer by
the daemon, which has changed its directory, and the error is only logged.

*Dictionary and jisyo.* A jisyo with an entry longer than a block of 2048 bytes may
be rejected, or make the maker panic, depending on the entries around it:
`OnlyLongEntriesFail` says that nothing else does. A key whose index data exceed the
buffer leaves an empty block of the index in front of its own. A last line without
a terminator loses its last candidate. A read error is taken for the end of a jisyo.
A warning about a line that is not UTF-8 ends the program for all jisyo. Midashi that
are the same in UTF-8 overwrite each other when a jisyo is made. Jisyo on the command
line are ignored if a jisyo is to be made. The minimum length of candidates is
commented as that of "/C/", while two bytes pass. A pair of EUC whose second
byte is below A1 is decoded to the control character U+008E instead of an escape.

## 5. Proofs

TLAPS checks these for every value of the constants that satisfies the named
assumptions. TLC checks each assumption on every run; what they say is:

| assumption | what it says, and why the code justifies it |
|---|---|
| `MaxConnectionsAssumption`, `NoConnAssumption` | at least one slot, which the validator of the option grants; an empty slot is none of the connections |
| `ProtocolLengthAssumption`, `RunLoopAssumption` | the two lengths of the protocol in their order; requests are sequences of bytes and not empty |
| `DictionaryFileAssumption` | a block has a length (the creator writes no empty one to the index) |
| `ConfigurationAssumption`, `LookupAssumption` | the fields of `Config` with their defaults; limits in files and options are positive, as the validators have it |
| `AnswersAssumption` | an answer that was parsed is a list of segments and not empty, suggestions are texts: anything else is an error of the parsers of `request.rs` |
| `DictionaryAssumption` | the block of a word that has an entry holds the entry to its line feed, with a candidate, and none that is empty: what `DictionaryCreator` makes (`BlocksTileTheBuffer`, `WordsAreFound`) of lines with candidates. Candidates may have annotations and may stand there twice. Not covered is a line whose list is "/" or has two slashes in a row |
| `TableAssumption` | finitely many lines of one to three bytes and one or two code points that UTF-8 can write, the first of two not ASCII: what the generator of the table refuses otherwise |
| `FormatAssumption` | the area of the fixed header holds its eleven numbers; the dictionary is made for one of the two encodings |
| `CreatorAssumption` | a jisyo has finitely many midashi; each is correct EUC without a space, not empty, and has a key: the comment of `get_dictionary_midashi_key` (`dictionary.rs:67`) grants that the bytes announced by the first one exist, and a midashi without a key is an error before anything is written. Lengths are positive |
| `SearchAssumption` | words are correct EUC and not empty (the same comment); the two thresholds of the binary search relate as the code's 30 and 10 do |
| `CacheAssumption` | limit and expiry are positive (validators), a time fits the 64 bits it is kept in |

The assumptions of the other modules are checked by TLC only. Some theorems have a
hypothesis of their own that no constant of the code fixes, and say so in their
statement: `CacheKeepsTheLastWrite`, `RepliesAreComplete` and `DeliveredStayApart`, and
`WaitingClientsAreAnswered` is about clients that behave in a certain way; see there.

- **`RunLoop_proofs`**, the table. `NextSlotIsEmpty` is not inductive: after an accept
  it holds because the search finds an empty slot, for which there must be one,
  for which the count must be exact, which an exit preserves only if no
  connection sits in two slots. `SlotInv` is the conjunction of the four and is
  inductive; `GetEmptySocketsIndex` is handled by a lemma of its own (with an
  empty slot anywhere, the search returns an empty slot and never `Panic`).
  `TableImplementsPool` needs it too: the refusal by count is a refusal by a
  full pool only because the count is exact.
- **`RunLoop_proofs`**, the loop. `EventInv` adds to `SlotInv` that every event, queued,
  batched or being handled, is of an occupied slot and that what is in the
  backlog is a connection. The steps that could break it are the exit (which
  removes the queued event of its slot, and is not in the batch any more) and
  the accept (which only fills an empty slot). From it follow
  `NoEventOfAnEmptySlot` (the server is never ended by "sockets get failed"),
  `RunLoopImplementsPool`, which combines the steps of the table within those of the
  loop (a lemma, by the shape of the actions) with the table's invariant
  (`RunLoopSlotInv`): a client is turned away only if max_connections connections are
  live. `RunLoopTypeCorrect` includes that the shared buffer is
  empty between two events. `UsedIsProgress` and `LookupIsCutAtItsSpace` are
  about the framing, for byte sequences of any length.
  `OnlyRefusalsStrand`: `StrandedOnlyAfterRefusal` is inductive beside `EventInv`, since
  what leaves the accept loop with a connection in the backlog is a refusal.
  `WaitingClientsAreAnswered` has the hypotheses `~Segmentation` and `~Pipelining`, a
  request arrives whole and the client waits for its reply, and `WholeRequests`: each
  request, by itself, is complete for the framing, does not start with a line terminator,
  is cut where it was meant to be, and leaves nothing but line terminators. That is so
  for the requests of the protocol up to its maximum length, and the violations `segments` and `pipelined` show that neither of the other
  two can be left out. `AnswersInv` is the argument: a client has at most one request
  on its way, which is in its inbox, or partly in the `BufReader`, where only line
  terminators of an earlier one may stand before it; the shared buffer belongs to the
  connection that is being read; and the replies so far answer the first requests.
- **`GoogleCache_proofs`.** `CacheInv` is about the steps of a call: while a mutex (or
  there being one thread) keeps the calls apart, at most one thread is between two
  acquisitions of the lock, the copy it took is the map it will replace but for the one
  entry that has just been inserted, and size, freshness and the file are as the
  properties say once the call reaches its end. The sizes need that one eviction after
  one insertion gives back the size, for finite maps of any size
  (`FiniteSetTheorems`). `CacheKeepsTheLastWrite` has the hypothesis
  `ExpireSeconds <= StartTime`: with an expiry longer than the time since the epoch the
  subtraction wraps and it is false. `PoisonFreezesTheMap` and `CacheEvictsTheRightOnes`
  are about steps and follow from the same invariant.
- **`SequenceFacts`.** Folds and `FlattenSeq` are recursive functions of the community
  modules; their first values and their steps are proved from the definitions, and
  induction over their length is stated for a set of numbers (`BoundedInduction`), which
  first-order provers can use. From it: a fold is a chain of steps (`IterIsChain`), the
  elements of a flattened sequence are those of its pieces at computed places, what is
  split at a separator has pieces without it, and pieces that were joined with one are
  split into the same again; facts about appending, concatenating and injective sequences.
- **`Candidates_proofs`.** For lists of any length `Candidates::remove_duplicates` keeps
  each candidate once and makes up none, `merge_trimmed_slash_candidates` keeps the
  texts of its base in their places and adds the others, each once; what either writes
  between slashes is, split again, the same list. Quoting
  is injective on texts without line ends: byte for byte, a quoted text can be
  taken apart again, although an escape and a `(concat` form start with bytes a text may
  contain itself.
- **`Lookup_proofs`.** The nested products that the loops over Google's segments
  build have one element for each choice of one text of every segment: a bijection that
  is built segment by segment. With it `GoogleDelivers` describes what
  `read_google_candidates` delivers without a fold.
  `FileInv` (types, the buffer holds the block its key
  names unless the last access failed, and so does what was returned) is
  inductive for the block cache, and every step of `Lookup` is a step of
  `DictionaryFile` or leaves it alone, so the three facts hold in every lookup.
  `DisabledInv` adds to `DisabledGoogleIsNotAsked` that before the server is up
  nothing has been asked, and that a lookup on its way to Google has a timing that
  is not "disable"; `DisabledGoogleStaysDisabled` follows for any command lines,
  files and answers. `GivenIsUsed` and `ContradictionsAreRefused` need no more than the one
  step that makes the settings, and for the second that the parser of the options and
  `is_illegal` see every pair of switch and timing in either order. `GoogleInv` connects
  what was delivered with what was asked, by `GoogleDelivers`; three properties follow.
  `ResultInv` says what the result of the dictionary is at each place of
  `read_candidates`, from which `FoundWordsStayHere` follows, `TextsInv` that what is
  kept and delivered are lists of texts, and `ReplyInv` that at each place the
  candidates collected so far are those of the sources passed. `RepliesAreComplete` has
  the hypothesis `ConversionIsPlain`: a conversion of bytes to bytes
  that gives no text an annotation it did not have. `Euc::encode` is like this: it leaves
  ASCII as it is and writes bytes from 8E on, or an escape "&#x..." without a semicolon.
  (For the same reason the model may convert the units one by one, the code their list:
  no slash appears or is lost.) The whole entry, every text
  of Google's and nothing else are in the reply then; its order, and that nothing is in it
  twice, are claimed where neither side has a candidate twice of itself or an empty one
  (`IsApart`), because merging copies what stands twice in its base. An entry may have a
  candidate twice only in a dictionary of another maker (`EntriesAreThoseOfTheLines`); for Google's side
  `DeliveredStayApart` says when it does not: if no text of an answer has a line end in it
  (`AnswersAreLines`: the quotation drops CR and LF after the duplicates have been
  removed) and the conversion is injective. Neither can be left out, and the second fails
  for U+9FA4: Google's two candidates are then one candidate twice, in the model as in the code.

- **`DictionaryFormat_proofs`.** Only lemmas: what is written in front of the blocks is
  read back. `Holds(b, m, p)`, the bytes `p` are in `b` behind the first `m`, is kept by
  joining and by cutting out, so a number, a unit or a table is read back wherever it
  lies. The encoding table is two folds over sets of units, in an order nobody knows;
  all of them together are read back as the set they were, by induction over the size
  of the set. `IsLayout` says at which places the headers and units of the index are, and is
  kept as units are added one by one and blocks of the index are closed. Numbers are those of
  a u32 below 4 GiB: its highest byte is not cut off in the model.
- **`Dictionary_proofs`.** `DictionaryInv` is the inductive invariant of `DictionarySearch`,
  in ten parts from the maker to the replies. `CreatorInv`: while a key is cut, what lies
  before `offset` is cut into blocks, each from a line feed to a line feed; when all is
  cut, a midashi lies in the last block that does not start behind it, which is what the
  search relies on. `LongEntriesAlone` and `BlocksAreTiles` follow. `WrittenInv` and
  `FrontInv`: the headers and units collected so far cover the index, and what was
  written in front of the blocks is their layout. `FileInv`: a file has its hash
  only if all the rest is there and of one jisyo. `FoundInv`, `FoundIsWritten`: a
  server goes on only with such a file, whatever the maker does meanwhile. `SetupInv`:
  after each block of the index, what is loaded are the units read so far
  (`LoadedAsWritten`), and a slice ends behind the buffer only if a unit is longer than
  the buffer (`OversizedKeysPanic`, of a file that was not written anew meanwhile). `SearchInv`: while `diff` is halved, two
  steps of it either way stay among the blocks; at `diff` 1 a step back comes from a
  block that is greater than the word, a step forward from one that is not. So where
  the search turns around, or leaves the index at either end, it is beside the block to
  start from (`HintsAreClose`). With `BINARY_SEARCH_THRESHOLD` blocks and more it starts
  inside these bounds; for fewer, the hint is as close as the two thresholds have it.
  `ReplyInv`, `CompletionInv`: the block read is the one a midashi with this prefix would
  be in, so what it does not hold is nowhere (`AllWordsAreFound`), and the
  completions collected are those of the blocks passed, the first of all because
  the blocks are in order (`CompletionsAreFirst`). Each of these is false without the
  ones before it; the properties alone are not inductive.
- **`Jisyo_proofs`.** `LinesAdd` is about the reader by itself on whatever jisyo, table
  and encodings, with no assumption on what the lines are. `ReaderInv` is its inductive
  invariant: what is still to be read are texts, and every entry is a sequence. That is
  the hard part, since a conversion is a function recursive in the place where it stands,
  which advances by as much as each unit takes: that there is such a function, and that
  what it yields is a sequence, is proved by induction from the end of the text. That a
  line loses nothing then follows from `Candidates_proofs` and from the
  entry being split again into what was merged: `remove_duplicates_bytes` and the
  merging read each other's bytes, with the slash trimmed off on one side or on both.

The parts named `SlotInv`, `TableTypeOK`, `CountIsExact`, `FileTypeOK` and
`BufferHoldsItsBlock` are proved and are not properties of a run of their own.

Only model-checked: liveness (`EveryRequestIsServed`,
`ClosedClientsFreeTheirSlot`, `EverySearchEnds`), which is out of the prover's
reach; and four of `MCJisyo`, `EntriesAreThoseOfTheLines`, `DetectedAsWritten`,
`NothingIsMadeUp` and `CachedCandidatesStayWhole`, which compare what the program makes
of the bytes with the words they stand for, and so are about the pages and the extract of
the table that are given with the run.

## 6. Not modelled

- A reply that does not fit the send buffer: `write_all` on a non-blocking
  socket fails after a part of it. `HandleRequest` writes it whole.
- The conversion of a request from UTF-8 (`is_midashi_utf8`), that of completions for a
  dictionary in UTF-8 (`dictionary_reader.rs:489-496`), and the content of the replies to
  protocols 2 and 3. That of Google's candidates is a parameter of `Lookup`.
  A lookup blocks the one thread for as long as Google takes; `RunLoop` has it
  as one step.
- HTTP, JSON and XML of the Google requests, the parser of the command line, regular
  expressions, bincode, SHA-1, daemonize, syslog: libraries. The hash is modelled as
  perfect: what is not complete is recognised. What the program writes through a
  `BufWriter` reaches the file in the order it was written.
- The syntax of a line of the configuration file and of an option; a setting is a
  key and a value.
- Clocks that go backwards: `write_candidates` uses the system clock, and the
  model only moves forward.
- The values of the generated table (the runs have extracts with every kind of
  line), the text it is generated from and the source text that is generated.
- Logging, the wording of errors, the test programs and benchmarks. The code under
  `#[cfg(test)]` in `run_loop`, which stops a server after a number of connections.

Of the 15,388 lines of the repository's Rust sources 5,760 are the generated table and
about 4,700 are tests and benchmarks; the modules stand for most of what is left.
