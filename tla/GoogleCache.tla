---------------------------- MODULE GoogleCache -----------------------------
(***************************************************************************)
(* The cache of Google candidates: a map in memory behind a lock, and the *)
(* file it is written to after every change.  get_candidates and          *)
(* write_candidates take the lock several times each, so that threads     *)
(* interleave between any two of their steps; the server calls them from  *)
(* one thread, the tests from sixteen, with and without a mutex of their  *)
(* own around each call.  The process may crash between two steps.        *)
(*                                                                         *)
(* An entry is stored as a list of candidates with the time of writing,   *)
(* in decimal, as its first element; here it is a record of the two.      *)
(***************************************************************************)
EXTENDS Integers, FiniteSets, Functions

CONSTANTS
    Threads,
    Midashi,
    Candidates,     \* non-empty lists of candidates
    CacheEntries,   \* what config.google_cache_entries may be
    ExpireSeconds,  \* config.google_cache_expire_seconds
    StartTime,      \* seconds since the epoch when the server starts
    MaxTime,        \* bound: the clock stops here
    TimeModulus,    \* 2^64
    IoErrors,       \* may file operations fail?
    Crashes,        \* may the process crash?
    Broken,         \* content of a file that fails its hash, or no file
    Nothing         \* no midashi, no candidates, no write yet

ASSUME CacheAssumption ==
    /\ CacheEntries # {} /\ CacheEntries \subseteq Nat \ {0} /\ ExpireSeconds \in Nat \ {0}
    /\ StartTime \in Nat /\ MaxTime \in Nat /\ StartTime <= MaxTime
    /\ TimeModulus \in Nat /\ MaxTime < TimeModulus /\ ExpireSeconds < TimeModulus
    /\ {IoErrors, Crashes} \subseteq BOOLEAN
    /\ Nothing \notin Midashi \cup Candidates
    /\ \A S \in SUBSET Midashi :
          Broken \notin [S -> [time : 0..MaxTime, candidates : Candidates]]

VARIABLES
    serialized, \* does a mutex of the caller's keep the calls apart?
    cache_entries, \* the limit of this run of the server
    map,        \* GOOGLE_CACHE_OBJECT: the entry of each cached midashi
    poisoned,   \* a thread panicked while it held the lock for writing
    file,       \* the cache file: a map, or Broken
    up,         \* the process is running
    now,        \* the clock
    pc,         \* where each thread is; "idle" between two calls
    midashi,    \* the midashi of each thread's call
    candidates, \* the candidates it writes
    time,       \* unix_time_now of its call
    expired_map,\* the map it is about to install and write
    last,       \* history: the last write_candidates that completed
    loaded,     \* history: the entries found at the start if above the limit, or 0
    damaged     \* history: a file operation failed, or a crash cut it short,
                \* since the file was last written completely

cacheVars == <<serialized, cache_entries, map, poisoned, file, up>>
callVars == <<pc, midashi, candidates, time, expired_map>>
historyVars == <<last, loaded, damaged>>
vars == <<cacheVars, now, callVars, historyVars>>

-----------------------------------------------------------------------------

EmptyMap == [m \in {} |-> Nothing]

\* The first of the stored list, as a number; write_candidates has put it there.
TimeOf(entry) == entry.time

\* u64 subtraction: it wraps when the clock is below the expiry.
ExpiryLimit(t) == (t - ExpireSeconds) % TimeModulus

FreshWithoutFilter(entries, t) == entries   \* mutant of Fresh

\* The entries the filter of write_candidates keeps at time t.
Fresh(entries, t) ==
    Restrict(entries, {m \in DOMAIN entries : TimeOf(entries[m]) > ExpiryLimit(t)})

\* Mutant of Oldest: the newest entry goes first.
Newest(entries) ==
    {m \in DOMAIN entries : \A n \in DOMAIN entries : TimeOf(entries[n]) <= TimeOf(entries[m])}

\* Of several oldest entries min_by takes the first in the order of the keys,
\* which the model leaves open.
Oldest(entries) ==
    {m \in DOMAIN entries : \A n \in DOMAIN entries : TimeOf(entries[m]) <= TimeOf(entries[n])}

WithinAnyLimit(entries) == {entries}    \* mutant of Limited

\* At most one entry is evicted.
Limited(entries) ==
    IF Cardinality(DOMAIN entries) > cache_entries
    THEN {Restrict(entries, DOMAIN entries \ {m}) : m \in Oldest(entries)}
    ELSE {entries}

\* The server may be given another limit at each start.  Threads that do not
\* keep their calls apart are those of a test, which sets one limit.
Limits ==
    IF serialized THEN CacheEntries
    ELSE {n \in CacheEntries : \A k \in CacheEntries : k <= n}

Busy == {t \in Threads : pc[t] \notin {"idle", "panicked"}}

-----------------------------------------------------------------------------

Init ==
    /\ serialized \in BOOLEAN
    /\ cache_entries \in Limits
    /\ map = EmptyMap /\ file = Broken
    /\ poisoned = FALSE /\ up = TRUE
    /\ now = StartTime
    /\ pc = [t \in Threads |-> "idle"]
    /\ midashi = [t \in Threads |-> Nothing]
    /\ candidates = [t \in Threads |-> Nothing]
    /\ time = [t \in Threads |-> 0]
    /\ expired_map = [t \in Threads |-> EmptyMap]
    /\ last = Nothing /\ loaded = 0 /\ damaged = TRUE

Goto(t, label) == pc' = [pc EXCEPT ![t] = label]

\* A thread starts a call.
MayCall(t) ==
    /\ up /\ pc[t] = "idle" /\ ~poisoned
    /\ serialized => Busy = {}

AtWhatever(t, label) == up /\ pc[t] = label     \* mutant of At: poison is ignored

At(t, label) == up /\ pc[t] = label /\ ~poisoned

-----------------------------------------------------------------------------
(***************************************************************************)
(* get_candidates: three acquisitions of the lock for reading.  A missing *)
(* key of map[midashi] is a panic, which does not poison a read lock.     *)
(***************************************************************************)

\* Mutant of GetContains: the key is not looked for.
GetUnchecked(t, m) ==
    /\ MayCall(t)
    /\ Goto(t, "get_length")
    /\ midashi' = [midashi EXCEPT ![t] = m]
    /\ UNCHANGED <<cacheVars, now, candidates, time, expired_map, historyVars>>

GetContains(t, m) ==
    /\ MayCall(t)
    /\ IF m \in DOMAIN map
       THEN Goto(t, "get_length") /\ midashi' = [midashi EXCEPT ![t] = m]
       ELSE UNCHANGED <<pc, midashi>>
    /\ UNCHANGED <<cacheVars, now, candidates, time, expired_map, historyVars>>

\* The stored list is longer than the time alone: candidates are not empty.
GetLength(t) ==
    /\ At(t, "get_length")
    /\ Goto(t, IF midashi[t] \in DOMAIN map THEN "get_clone" ELSE "panicked")
    /\ UNCHANGED <<cacheVars, now, midashi, candidates, time, expired_map, historyVars>>

GetClone(t) ==
    /\ At(t, "get_clone")
    /\ Goto(t, IF midashi[t] \in DOMAIN map THEN "idle" ELSE "panicked")
    /\ midashi' = [midashi EXCEPT ![t] = Nothing]
    /\ UNCHANGED <<cacheVars, now, candidates, time, expired_map, historyVars>>

-----------------------------------------------------------------------------
(***************************************************************************)
(* write_candidates: up to five acquisitions of the lock for writing.     *)
(***************************************************************************)

WriteContains(t, m, c) ==
    /\ MayCall(t)
    /\ Goto(t, IF m \in DOMAIN map THEN "write_compare" ELSE "write_clock")
    /\ midashi' = [midashi EXCEPT ![t] = m]
    /\ candidates' = [candidates EXCEPT ![t] = c]
    /\ UNCHANGED <<cacheVars, now, time, expired_map, historyVars>>

\* The new list has no time in front and the stored one has: they differ
\* whatever the candidates, and the entry is always written again.
WriteCompare(t) ==
    /\ At(t, "write_compare")
    /\ IF midashi[t] \in DOMAIN map
       THEN Goto(t, "write_clock") /\ UNCHANGED poisoned
       ELSE Goto(t, "panicked") /\ poisoned' = TRUE
    /\ UNCHANGED <<serialized, cache_entries, map, file, up, now, midashi, candidates, time,
                   expired_map, historyVars>>

WriteClock(t) ==
    /\ At(t, "write_clock")
    /\ Goto(t, "write_insert")
    /\ time' = [time EXCEPT ![t] = now]
    /\ UNCHANGED <<cacheVars, now, midashi, candidates, expired_map, historyVars>>

\* Mutant of WriteInsert: an entry that is there is left as it is.
WriteInsertIfAbsent(t) ==
    /\ At(t, "write_insert")
    /\ Goto(t, "write_filter")
    /\ map' = [m \in DOMAIN map \cup {midashi[t]} |->
                  IF m \notin DOMAIN map
                  THEN [time |-> time[t], candidates |-> candidates[t]]
                  ELSE map[m]]
    /\ UNCHANGED <<serialized, cache_entries, poisoned, file, up, now, midashi, candidates, time,
                   expired_map, historyVars>>

WriteInsert(t) ==
    /\ At(t, "write_insert")
    /\ Goto(t, "write_filter")
    /\ map' = [m \in DOMAIN map \cup {midashi[t]} |->
                  IF m = midashi[t]
                  THEN [time |-> time[t], candidates |-> candidates[t]]
                  ELSE map[m]]
    /\ UNCHANGED <<serialized, cache_entries, poisoned, file, up, now, midashi, candidates, time,
                   expired_map, historyVars>>

\* A copy of the map without the expired entries and, above the limit,
\* without one of the oldest.
WriteFilter(t) ==
    /\ At(t, "write_filter")
    /\ Goto(t, "write_swap")
    /\ \E entries \in Limited(Fresh(map, time[t])) :
          expired_map' = [expired_map EXCEPT ![t] = entries]
    /\ UNCHANGED <<cacheVars, now, midashi, candidates, time, historyVars>>

\* Mutant of WriteSwap: only the file gets the filtered map.
WriteNoSwap(t) ==
    /\ At(t, "write_swap")
    /\ Goto(t, "file_create")
    /\ UNCHANGED <<cacheVars, now, midashi, candidates, time, expired_map, historyVars>>

WriteSwap(t) ==
    /\ At(t, "write_swap")
    /\ Goto(t, "file_create")
    /\ map' = expired_map[t]
    /\ UNCHANGED <<serialized, cache_entries, poisoned, file, up, now, midashi, candidates, time,
                   expired_map, historyVars>>

\* The call returns; what it wrote is in the map even when the file failed.
WriteReturns(t) ==
    /\ Goto(t, "idle")
    /\ last' = [midashi |-> midashi[t], candidates |-> candidates[t], time |-> time[t]]
    /\ midashi' = [midashi EXCEPT ![t] = Nothing]
    /\ candidates' = [candidates EXCEPT ![t] = Nothing]
    /\ time' = [time EXCEPT ![t] = 0]
    /\ expired_map' = [expired_map EXCEPT ![t] = EmptyMap]

\* File::create truncates the file, or fails before it does.
FileCreate(t) ==
    /\ up /\ pc[t] = "file_create"
    /\ \/ /\ file' = Broken
          /\ damaged' = TRUE
          /\ Goto(t, "file_write")
          /\ UNCHANGED <<midashi, candidates, time, expired_map, last>>
       \/ /\ IoErrors
          /\ damaged' = TRUE
          /\ WriteReturns(t)
          /\ UNCHANGED file
    /\ UNCHANGED <<serialized, cache_entries, map, poisoned, up, now, loaded>>

\* Hash and map are written, or only a part of them.  Two threads that write
\* at once may leave a mixture.
FileWrite(t) ==
    /\ up /\ pc[t] = "file_write"
    /\ \/ /\ file' = expired_map[t]
          /\ damaged' = FALSE
       \/ /\ IoErrors \/ ~serialized
          /\ file' = Broken
          /\ damaged' = TRUE
    /\ WriteReturns(t)
    /\ UNCHANGED <<serialized, cache_entries, map, poisoned, up, now, loaded>>

-----------------------------------------------------------------------------

\* A call that takes the poisoned lock panics in unwrap().
PoisonedPanic(t) ==
    /\ up /\ poisoned /\ pc[t] \notin {"panicked", "file_create", "file_write"}
    /\ Goto(t, "panicked")
    /\ UNCHANGED <<cacheVars, now, midashi, candidates, time, expired_map, historyVars>>

Tick ==
    /\ now < MaxTime
    /\ now' = now + 1
    /\ UNCHANGED <<cacheVars, callVars, historyVars>>

Crash ==
    /\ Crashes /\ up
    /\ up' = FALSE
    /\ map' = EmptyMap /\ poisoned' = FALSE
    /\ pc' = [t \in Threads |-> "idle"]
    /\ midashi' = [t \in Threads |-> Nothing]
    /\ candidates' = [t \in Threads |-> Nothing]
    /\ time' = [t \in Threads |-> 0]
    /\ expired_map' = [t \in Threads |-> EmptyMap]
    /\ last' = Nothing
    /\ loaded' = 0
    /\ UNCHANGED <<serialized, cache_entries, file, now, damaged>>

\* GoogleCache::read, or the empty map for its error
ReadCache == IF file = Broken THEN EmptyMap ELSE file

\* setup_use_rwlock_internally: a file that cannot be read, or is broken, is
\* the empty map; one from a run with a larger limit is taken whole.
Restart ==
    /\ ~up
    /\ up' = TRUE
    /\ \/ /\ map' = ReadCache
          /\ UNCHANGED damaged
       \/ /\ IoErrors
          /\ map' = EmptyMap
          /\ damaged' = TRUE
    /\ cache_entries' \in Limits
    /\ loaded' = IF Cardinality(DOMAIN map') > cache_entries'
                 THEN Cardinality(DOMAIN map') ELSE 0
    /\ UNCHANGED <<serialized, poisoned, file, now, callVars, last>>

Next ==
    \/ \E t \in Threads :
        \/ \E m \in Midashi : GetContains(t, m)
        \/ GetLength(t) \/ GetClone(t)
        \/ \E m \in Midashi, c \in Candidates : WriteContains(t, m, c)
        \/ WriteCompare(t) \/ WriteClock(t) \/ WriteInsert(t)
        \/ WriteFilter(t) \/ WriteSwap(t)
        \/ FileCreate(t) \/ FileWrite(t)
        \/ PoisonedPanic(t)
    \/ Tick
    \/ Crash
    \/ Restart

Spec == Init /\ [][Next]_vars

-----------------------------------------------------------------------------
(***************************************************************************)
(* Properties.                                                            *)
(***************************************************************************)

\* No call panics: map[midashi] is only evaluated, under a lock taken anew, for a
\* midashi that is in the map, and the lock is never poisoned for later calls.
NoPanic == ~poisoned /\ \A t \in Threads : pc[t] # "panicked"

\* That is so as long as a mutex of the caller's keeps the calls apart.
SerializedCallsNeverPanic == serialized => NoPanic

\* Between calls the map holds no more entries than configured or, as a write
\* evicts one at most, than the file held that a run with a larger limit left.
\* (Calls that interleave evict one entry each from copies of a map that has
\* grown by both: then nothing bounds it.)
WithinLimit ==
    serialized /\ Busy = {} =>
        Cardinality(DOMAIN map) <= IF loaded > 0 THEN loaded ELSE cache_entries

\* Once a call has panicked with the lock for writing the map never changes again
\* in this process: no call works on the half of an update.
PoisonStopsTheCache == [][poisoned /\ up' => map' = map]_vars

\* What the last write_candidates wrote is there for get_candidates, unless it
\* shares its second with an entry that was kept instead.
WrittenIsKept ==
    serialized /\ last # Nothing /\ Busy = {} =>
        \/ /\ last.midashi \in DOMAIN map
           /\ map[last.midashi].candidates = last.candidates
        \/ \E m \in DOMAIN map : map[m].time = last.time

\* After a write no entry is left that was expired when the write took the time.
NothingExpired ==
    serialized /\ last # Nothing /\ Busy = {} =>
        \A m \in DOMAIN map : map[m].time + ExpireSeconds > last.time

\* Between two calls the file holds the map of the memory, across restarts too:
\* only a failed file operation or a crash in the midst of one loses entries.
FileFollowsMap == serialized /\ up /\ Busy = {} /\ ~damaged => file = map

\* A running server drops an entry only if it is expired or if no entry that
\* stays is older.
EvictsExpiredOrOldest ==
    [][serialized /\ up' => \A m \in DOMAIN map \ DOMAIN map' :
                  \/ map[m].time + ExpireSeconds <= now
                  \/ \A n \in DOMAIN map' : map[m].time <= map'[n].time]_vars
=============================================================================
