------------------------- MODULE GoogleCache_proofs -------------------------
(***************************************************************************)
(* The Google cache, for any threads, midashi, limits and times: what      *)
(* holds at each step of a call while a mutex keeps the calls apart, and   *)
(* what follows of it between two calls.                                   *)
(***************************************************************************)
EXTENDS GoogleCache, FiniteSetTheorems, TLAPS

-----------------------------------------------------------------------------
(***************************************************************************)
(* The inductive invariant.                                                *)
(***************************************************************************)

Entry == [time : 0..MaxTime, candidates : Candidates]

IsCacheMap(entries) ==
    /\ DOMAIN entries \subseteq Midashi
    /\ IsFiniteSet(DOMAIN entries)
    /\ entries \in [DOMAIN entries -> Entry]

GetLabels == {"get_length", "get_clone"}
WriteLabels == {"write_compare", "write_clock", "write_insert", "write_filter", "write_swap",
                "file_create", "file_write"}
Timed == {"write_insert", "write_filter", "write_swap", "file_create", "file_write"}
Inserted == {"write_filter", "write_swap"}
Swapped == {"file_create", "file_write"}

CacheTypeOK ==
    /\ serialized \in BOOLEAN /\ cache_entries \in CacheEntries
    /\ IsCacheMap(map) /\ (file = Broken \/ IsCacheMap(file))
    /\ {poisoned, up, damaged} \subseteq BOOLEAN
    /\ now \in StartTime..MaxTime
    /\ pc \in [Threads -> {"idle", "panicked"} \cup GetLabels \cup WriteLabels]
    /\ midashi \in [Threads -> Midashi \cup {Nothing}]
    /\ candidates \in [Threads -> Candidates \cup {Nothing}]
    /\ time \in [Threads -> 0..MaxTime]
    /\ DOMAIN expired_map = Threads
    /\ last \in {Nothing} \cup [midashi : Midashi, candidates : Candidates, time : 0..MaxTime]
    /\ loaded \in Nat

\* What each call has set, whether or not calls interleave; a server that is down
\* has no calls and nothing in memory.
CallsAreSet ==
    /\ \A t \in Threads :
          /\ pc[t] \in GetLabels \cup WriteLabels => midashi[t] \in Midashi
          /\ pc[t] \in WriteLabels => candidates[t] \in Candidates
          /\ pc[t] \in Timed => time[t] \in StartTime..now
          /\ IsCacheMap(expired_map[t])
    /\ ~up => map = EmptyMap /\ ~poisoned /\ pc = [t \in Threads |-> "idle"] /\ last = Nothing

NotIn(labels) == \A t \in Threads : pc[t] \notin labels

\* Nothing that had expired at the time s is among the entries.
FreshAt(entries, s) == \A m \in DOMAIN entries : entries[m].time + ExpireSeconds > s

\* The candidates c of m are among the entries, or one written in the second s is.
KeptIn(entries, m, c, s) ==
    \/ m \in DOMAIN entries /\ entries[m].candidates = c
    \/ \E n \in DOMAIN entries : entries[n].time = s

\* The size the map may have between two calls.
AllowedSize == IF loaded > 0 THEN loaded ELSE cache_entries

OneCall == \A t, u \in Busy : t = u

KeysAreThere ==
    \A t \in Threads : pc[t] \in GetLabels \cup {"write_compare"} => midashi[t] \in DOMAIN map

NoEntryIsLater ==
    /\ \A m \in DOMAIN map : map[m].time <= now
    /\ file # Broken => \A m \in DOMAIN file : file[m].time <= now
    /\ \A t \in Threads : pc[t] \in Timed => \A m \in DOMAIN map : map[m].time <= time[t]

\* What the map is at each step of write_candidates.
WriteFollowsItsSteps ==
    \A t \in Threads :
        /\ pc[t] \in Inserted =>
              /\ midashi[t] \in DOMAIN map
              /\ map[midashi[t]] = [time |-> time[t], candidates |-> candidates[t]]
        /\ pc[t] = "write_swap" => expired_map[t] \in Limited(Fresh(map, time[t]))
        /\ pc[t] \in Swapped =>
              /\ map = expired_map[t]
              /\ FreshAt(map, time[t])
              /\ ExpireSeconds <= StartTime => KeptIn(map, midashi[t], candidates[t], time[t])

SizeIsAllowed ==
    /\ loaded > 0 => loaded >= cache_entries
    /\ NotIn(Inserted) => Cardinality(DOMAIN map) <= AllowedSize
    /\ Cardinality(DOMAIN map) <= AllowedSize + 1

FileIsTheMap ==
    /\ ~damaged => file # Broken
    /\ up /\ ~damaged /\ NotIn(Inserted \cup Swapped) => file = map

LastIsKept ==
    last # Nothing /\ NotIn(Inserted \cup Swapped) =>
        /\ FreshAt(map, last.time)
        /\ ExpireSeconds <= StartTime => KeptIn(map, last.midashi, last.candidates, last.time)

SerializedInv ==
    /\ NoPanic
    /\ OneCall
    /\ KeysAreThere
    /\ NoEntryIsLater
    /\ WriteFollowsItsSteps
    /\ SizeIsAllowed
    /\ FileIsTheMap
    /\ LastIsKept

CacheInv ==
    /\ CacheTypeOK
    /\ CallsAreSet
    /\ serialized => SerializedInv

-----------------------------------------------------------------------------
(***************************************************************************)
(* The operators of write_candidates.                                      *)
(***************************************************************************)

\* The wrapped subtraction never lets an entry pass that expired long ago, keeps
\* what is not expired when it does not wrap, and drops all up to now when it does.
LEMMA ExpiryFacts ==
    ASSUME NEW t \in 0..MaxTime
    PROVE  /\ ExpiryLimit(t) \in Nat
           /\ ExpiryLimit(t) >= t - ExpireSeconds
           /\ t >= ExpireSeconds => ExpiryLimit(t) = t - ExpireSeconds
           /\ t < ExpireSeconds => ExpiryLimit(t) >= t
<1>1. /\ MaxTime \in Nat /\ TimeModulus \in Nat /\ ExpireSeconds \in Nat
      /\ t < TimeModulus /\ ExpireSeconds < TimeModulus /\ t \in Nat
    BY CacheAssumption
<1>2. CASE t >= ExpireSeconds
    <2>1. t - ExpireSeconds \in 0..(TimeModulus - 1)
        BY <1>1, <1>2
    <2> QED
        BY <1>1, <1>2, <2>1 DEF ExpiryLimit
<1>3. CASE t < ExpireSeconds
    <2>1. (t - ExpireSeconds) % TimeModulus = t - ExpireSeconds + TimeModulus
        BY <1>1, <1>3
    <2> QED
        BY <1>1, <1>3, <2>1 DEF ExpiryLimit
<1> QED
    BY <1>1, <1>2, <1>3

LEMMA RestrictedMap ==
    ASSUME NEW entries, IsCacheMap(entries), NEW S \in SUBSET DOMAIN entries
    PROVE  /\ IsCacheMap(Restrict(entries, S))
           /\ DOMAIN Restrict(entries, S) = S
           /\ \A m \in S : Restrict(entries, S)[m] = entries[m]
<1>1. IsFiniteSet(S)
    BY FS_Subset DEF IsCacheMap
<1> QED
    BY <1>1 DEF IsCacheMap, Restrict

\* The filter: what stays had not expired, what goes had, unless everything goes;
\* an entry of the very second stays.
LEMMA FreshFacts ==
    ASSUME NEW entries, IsCacheMap(entries), NEW t \in 0..MaxTime
    PROVE  /\ IsCacheMap(Fresh(entries, t))
           /\ DOMAIN Fresh(entries, t) \subseteq DOMAIN entries
           /\ \A m \in DOMAIN Fresh(entries, t) : Fresh(entries, t)[m] = entries[m]
           /\ FreshAt(Fresh(entries, t), t)
           /\ (\A m \in DOMAIN entries : entries[m].time <= t) =>
                 \A m \in DOMAIN entries \ DOMAIN Fresh(entries, t) :
                     \/ entries[m].time + ExpireSeconds <= t
                     \/ DOMAIN Fresh(entries, t) = {}
           /\ t >= ExpireSeconds =>
                 \A m \in DOMAIN entries :
                     entries[m].time = t => m \in DOMAIN Fresh(entries, t)
<1> DEFINE S == {m \in DOMAIN entries : TimeOf(entries[m]) > ExpiryLimit(t)}
<1>1. \A m \in DOMAIN entries : entries[m].time \in 0..MaxTime
    BY DEF IsCacheMap, Entry
<1>2. Fresh(entries, t) = Restrict(entries, S)
    BY DEF Fresh
<1>3. /\ IsCacheMap(Fresh(entries, t)) /\ DOMAIN Fresh(entries, t) = S
      /\ \A m \in S : Fresh(entries, t)[m] = entries[m]
    BY <1>2, RestrictedMap
<1>4. ExpireSeconds \in Nat \ {0} /\ MaxTime \in Nat
    BY CacheAssumption
<1>5. /\ ExpiryLimit(t) \in Nat
      /\ ExpiryLimit(t) >= t - ExpireSeconds
      /\ t >= ExpireSeconds => ExpiryLimit(t) = t - ExpireSeconds
      /\ t < ExpireSeconds => ExpiryLimit(t) >= t
    BY ExpiryFacts
<1>6. \A m \in S : entries[m].time + ExpireSeconds > t
    BY <1>1, <1>4, <1>5 DEF TimeOf
<1>7. ASSUME \A m \in DOMAIN entries : entries[m].time <= t,
             NEW m \in DOMAIN entries, m \notin S
      PROVE  entries[m].time + ExpireSeconds <= t \/ S = {}
    BY <1>1, <1>4, <1>5, <1>7 DEF TimeOf
<1>8. ASSUME t >= ExpireSeconds, NEW m \in DOMAIN entries, entries[m].time = t
      PROVE  m \in S
    BY <1>1, <1>4, <1>5, <1>8 DEF TimeOf
<1>9. S \subseteq DOMAIN entries
    OBVIOUS
<1> HIDE DEF S
<1>10. FreshAt(Fresh(entries, t), t)
    BY <1>3, <1>6 DEF FreshAt
<1> QED
    BY <1>3, <1>7, <1>8, <1>9, <1>10

\* The limit: at most one entry goes, one of the oldest, and never the last one.
LEMMA LimitedFacts ==
    ASSUME NEW entries, IsCacheMap(entries), cache_entries \in CacheEntries,
           NEW kept \in Limited(entries)
    PROVE  /\ IsCacheMap(kept)
           /\ DOMAIN kept \subseteq DOMAIN entries
           /\ \A m \in DOMAIN kept : kept[m] = entries[m]
           /\ \A m \in DOMAIN entries \ DOMAIN kept, n \in DOMAIN entries :
                  entries[m].time <= entries[n].time
           /\ DOMAIN entries # {} => DOMAIN kept # {}
           /\ \A size \in Nat : /\ size >= cache_entries
                                /\ Cardinality(DOMAIN entries) <= size + 1
                                => Cardinality(DOMAIN kept) <= size
<1>0. cache_entries \in Nat /\ cache_entries >= 1
    BY CacheAssumption
<1>1. IsFiniteSet(DOMAIN entries) /\ Cardinality(DOMAIN entries) \in Nat
    BY FS_CardinalityType DEF IsCacheMap
<1>2. CASE Cardinality(DOMAIN entries) > cache_entries
    <2>1. PICK m \in Oldest(entries) : kept = Restrict(entries, DOMAIN entries \ {m})
        BY <1>2 DEF Limited
    <2>2. m \in DOMAIN entries /\ \A n \in DOMAIN entries : entries[m].time <= entries[n].time
        BY DEF Oldest, TimeOf
    <2>3. /\ IsCacheMap(kept) /\ DOMAIN kept = DOMAIN entries \ {m}
          /\ \A n \in DOMAIN kept : kept[n] = entries[n]
        BY <2>1, RestrictedMap
    <2>4. Cardinality(DOMAIN kept) = Cardinality(DOMAIN entries) - 1
        BY <1>1, <2>2, <2>3, FS_RemoveElement
    <2>5. DOMAIN kept # {}
        BY <1>0, <1>1, <1>2, <2>4, FS_EmptySet
    <2> QED
        BY <1>0, <1>1, <2>2, <2>3, <2>4, <2>5
<1>3. CASE ~(Cardinality(DOMAIN entries) > cache_entries)
    <2>1. kept = entries
        BY <1>3 DEF Limited
    <2> QED
        BY <1>0, <1>1, <1>3, <2>1
<1> QED
    BY <1>2, <1>3

-----------------------------------------------------------------------------
(***************************************************************************)
(* The start.                                                              *)
(***************************************************************************)

LEMMA EmptyMapIsCacheMap ==
    IsCacheMap(EmptyMap) /\ DOMAIN EmptyMap = {} /\ Cardinality(DOMAIN EmptyMap) = 0
BY FS_EmptySet DEF IsCacheMap, EmptyMap

LEMMA BrokenIsNoCacheMap ==
    ASSUME NEW entries, IsCacheMap(entries)
    PROVE  entries # Broken
BY CacheAssumption DEF IsCacheMap, Entry

LEMMA LimitsAreEntries ==
    Limits \subseteq CacheEntries
BY DEF Limits

LEMMA CacheInvInit == Init => CacheInv
<1> SUFFICES ASSUME Init
             PROVE  CacheInv
    OBVIOUS
<1>0. /\ MaxTime \in Nat /\ StartTime \in 0..MaxTime
      /\ \A n \in CacheEntries : n \in Nat
    BY CacheAssumption
<1>1. CacheTypeOK
    <2>1. /\ serialized \in BOOLEAN /\ cache_entries \in CacheEntries
          /\ IsCacheMap(map) /\ file = Broken
          /\ {poisoned, up, damaged} \subseteq BOOLEAN
        BY EmptyMapIsCacheMap, LimitsAreEntries DEF Init
    <2>2. now \in StartTime..MaxTime
        BY <1>0 DEF Init
    <2>3. /\ pc \in [Threads -> {"idle", "panicked"} \cup GetLabels \cup WriteLabels]
          /\ midashi \in [Threads -> Midashi \cup {Nothing}]
          /\ candidates \in [Threads -> Candidates \cup {Nothing}]
          /\ DOMAIN expired_map = Threads
        BY DEF Init
    <2>4. time \in [Threads -> 0..MaxTime]
        BY <1>0 DEF Init
    <2>5. last = Nothing /\ loaded = 0
        BY DEF Init
    <2> QED
        BY <2>1, <2>2, <2>3, <2>4, <2>5 DEF CacheTypeOK
<1>2. CallsAreSet
    BY EmptyMapIsCacheMap DEF Init, CallsAreSet, GetLabels, WriteLabels, Timed
<1>3. SerializedInv
    <2>1. cache_entries \in Nat /\ AllowedSize = cache_entries
        BY <1>0, LimitsAreEntries DEF Init, AllowedSize
    <2>2. NoPanic /\ OneCall /\ KeysAreThere
        BY DEF Init, NoPanic, OneCall, Busy, KeysAreThere, GetLabels
    <2>3. NoEntryIsLater /\ WriteFollowsItsSteps
        BY EmptyMapIsCacheMap
        DEF Init, NoEntryIsLater, WriteFollowsItsSteps, Timed, Inserted, Swapped
    <2>4. SizeIsAllowed
        BY <1>0, <2>1, EmptyMapIsCacheMap DEF Init, SizeIsAllowed
    <2>5. FileIsTheMap /\ LastIsKept
        BY DEF Init, FileIsTheMap, LastIsKept
    <2> QED
        BY <2>2, <2>3, <2>4, <2>5 DEF SerializedInv
<1> QED
    BY <1>1, <1>2, <1>3 DEF CacheInv

-----------------------------------------------------------------------------
(***************************************************************************)
(* Types, and what each call has set: calls may interleave.                *)
(***************************************************************************)

\* The entry a write puts in.
LEMMA InsertedMap ==
    ASSUME CacheTypeOK, CallsAreSet, NEW t \in Threads, WriteInsert(t)
    PROVE  /\ IsCacheMap(map')
           /\ DOMAIN map' = DOMAIN map \cup {midashi[t]}
           /\ map'[midashi[t]] = [time |-> time[t], candidates |-> candidates[t]]
           /\ \A m \in DOMAIN map : m # midashi[t] => map'[m] = map[m]
           /\ Cardinality(DOMAIN map') <= Cardinality(DOMAIN map) + 1
           /\ Cardinality(DOMAIN map) \in Nat
<1>1. midashi[t] \in Midashi /\ candidates[t] \in Candidates /\ time[t] \in 0..MaxTime
    BY DEF CacheTypeOK, CallsAreSet, WriteInsert, At, WriteLabels
<1>2. IsFiniteSet(DOMAIN map) /\ DOMAIN map \subseteq Midashi /\ map \in [DOMAIN map -> Entry]
    BY DEF CacheTypeOK, IsCacheMap
<1>3. /\ DOMAIN map' = DOMAIN map \cup {midashi[t]}
      /\ map'[midashi[t]] = [time |-> time[t], candidates |-> candidates[t]]
      /\ \A m \in DOMAIN map : m # midashi[t] => map'[m] = map[m]
    BY DEF WriteInsert
<1>4. map' \in [DOMAIN map' -> Entry]
    BY <1>1, <1>2 DEF WriteInsert, Entry
<1>5. /\ IsFiniteSet(DOMAIN map') /\ Cardinality(DOMAIN map) \in Nat
      /\ Cardinality(DOMAIN map') <= Cardinality(DOMAIN map) + 1
    <2>1. /\ IsFiniteSet(DOMAIN map \cup {midashi[t]})
          /\ Cardinality(DOMAIN map \cup {midashi[t]}) =
                IF midashi[t] \in DOMAIN map THEN Cardinality(DOMAIN map)
                ELSE Cardinality(DOMAIN map) + 1
        BY <1>2, FS_AddElement
    <2>2. Cardinality(DOMAIN map) \in Nat
        BY <1>2, FS_CardinalityType
    <2> QED
        BY <1>3, <2>1, <2>2
<1> QED
    BY <1>1, <1>2, <1>3, <1>4, <1>5 DEF IsCacheMap

\* The copy a write is to install.
LEMMA FilteredMap ==
    ASSUME CacheTypeOK, CallsAreSet, NEW t \in Threads, WriteFilter(t)
    PROVE  /\ expired_map'[t] \in Limited(Fresh(map, time[t]))
           /\ IsCacheMap(expired_map'[t])
           /\ DOMAIN expired_map' = Threads
           /\ \A u \in Threads : u # t => expired_map'[u] = expired_map[u]
<1>1. PICK entries \in Limited(Fresh(map, time[t])) :
          expired_map' = [expired_map EXCEPT ![t] = entries]
    BY DEF WriteFilter
<1>2. IsCacheMap(Fresh(map, time[t])) /\ cache_entries \in CacheEntries
    BY FreshFacts DEF CacheTypeOK
<1>3. IsCacheMap(entries)
    BY <1>2, LimitedFacts
<1> QED
    BY <1>1, <1>3 DEF CacheTypeOK

LEMMA TypesInductive ==
    CacheTypeOK /\ CallsAreSet /\ [Next]_vars => CacheTypeOK' /\ CallsAreSet'
<1> SUFFICES ASSUME CacheTypeOK, CallsAreSet, [Next]_vars
             PROVE  CacheTypeOK' /\ CallsAreSet'
    OBVIOUS
<1> USE DEF GetLabels, WriteLabels, Timed
<1>0. MaxTime \in Nat /\ StartTime \in Nat
    BY CacheAssumption
<1>1. ASSUME NEW t \in Threads, NEW m \in Midashi, GetContains(t, m)
      PROVE  CacheTypeOK' /\ CallsAreSet'
    <2>1. CacheTypeOK'
        BY <1>1 DEF CacheTypeOK, GetContains, Goto, cacheVars, historyVars
    <2>2. CallsAreSet'
        BY <1>1 DEF CacheTypeOK, CallsAreSet, GetContains, MayCall, Goto, cacheVars, historyVars
    <2> QED
        BY <2>1, <2>2
<1>2. ASSUME NEW t \in Threads, GetLength(t)
      PROVE  CacheTypeOK' /\ CallsAreSet'
    <2>1. CacheTypeOK'
        BY <1>2 DEF CacheTypeOK, GetLength, Goto, cacheVars, historyVars
    <2>2. CallsAreSet'
        BY <1>2 DEF CacheTypeOK, CallsAreSet, GetLength, At, Goto, cacheVars, historyVars
    <2> QED
        BY <2>1, <2>2
<1>3. ASSUME NEW t \in Threads, GetClone(t)
      PROVE  CacheTypeOK' /\ CallsAreSet'
    <2>1. CacheTypeOK'
        BY <1>3 DEF CacheTypeOK, GetClone, Goto, cacheVars, historyVars
    <2>2. CallsAreSet'
        BY <1>3 DEF CacheTypeOK, CallsAreSet, GetClone, At, Goto, cacheVars, historyVars
    <2> QED
        BY <2>1, <2>2
<1>4. ASSUME NEW t \in Threads, NEW m \in Midashi, NEW c \in Candidates, WriteContains(t, m, c)
      PROVE  CacheTypeOK' /\ CallsAreSet'
    <2>1. CacheTypeOK'
        BY <1>4 DEF CacheTypeOK, WriteContains, Goto, cacheVars, historyVars
    <2>2. CallsAreSet'
        BY <1>4 DEF CacheTypeOK, CallsAreSet, WriteContains, MayCall, Goto, cacheVars, historyVars
    <2> QED
        BY <2>1, <2>2
<1>5. ASSUME NEW t \in Threads, WriteCompare(t)
      PROVE  CacheTypeOK' /\ CallsAreSet'
    <2>1. CacheTypeOK'
        BY <1>5 DEF CacheTypeOK, WriteCompare, Goto, historyVars
    <2>2. CallsAreSet'
        BY <1>5 DEF CacheTypeOK, CallsAreSet, WriteCompare, At, Goto, historyVars
    <2> QED
        BY <2>1, <2>2
<1>6. ASSUME NEW t \in Threads, WriteClock(t)
      PROVE  CacheTypeOK' /\ CallsAreSet'
    <2>1. CacheTypeOK'
        BY <1>0, <1>6 DEF CacheTypeOK, WriteClock, Goto, cacheVars, historyVars
    <2>2. CallsAreSet'
        BY <1>0, <1>6 DEF CacheTypeOK, CallsAreSet, WriteClock, At, Goto, cacheVars, historyVars
    <2> QED
        BY <2>1, <2>2
<1>7. ASSUME NEW t \in Threads, WriteInsert(t)
      PROVE  CacheTypeOK' /\ CallsAreSet'
    <2>1. CacheTypeOK'
        BY <1>7, InsertedMap DEF CacheTypeOK, WriteInsert, Goto, historyVars
    <2>2. CallsAreSet'
        BY <1>7 DEF CacheTypeOK, CallsAreSet, WriteInsert, At, Goto, historyVars
    <2> QED
        BY <2>1, <2>2
<1>8. ASSUME NEW t \in Threads, WriteFilter(t)
      PROVE  CacheTypeOK' /\ CallsAreSet'
    <2>0. /\ pc' = [pc EXCEPT ![t] = "write_swap"] /\ pc[t] = "write_filter" /\ up
          /\ UNCHANGED <<cacheVars, now, midashi, candidates, time, historyVars>>
        BY <1>8 DEF WriteFilter, At, Goto
    <2>1. CacheTypeOK'
        BY <1>8, <2>0, FilteredMap DEF CacheTypeOK, cacheVars, historyVars
    <2>2. \A u \in Threads : IsCacheMap(expired_map'[u])
        BY <1>8, FilteredMap DEF CallsAreSet
    <2>3. CallsAreSet'
        BY <2>0, <2>2 DEF CacheTypeOK, CallsAreSet, cacheVars, historyVars
    <2> QED
        BY <2>1, <2>3
<1>9. ASSUME NEW t \in Threads, WriteSwap(t)
      PROVE  CacheTypeOK' /\ CallsAreSet'
    <2>1. CacheTypeOK'
        BY <1>9 DEF CacheTypeOK, CallsAreSet, WriteSwap, Goto, historyVars
    <2>2. CallsAreSet'
        BY <1>9 DEF CacheTypeOK, CallsAreSet, WriteSwap, At, Goto, historyVars
    <2> QED
        BY <2>1, <2>2
<1>10. ASSUME NEW t \in Threads, pc[t] \in WriteLabels, pc[t] \in Timed, WriteReturns(t)
       PROVE  /\ pc' \in [Threads -> {"idle", "panicked"} \cup GetLabels \cup WriteLabels]
              /\ midashi' \in [Threads -> Midashi \cup {Nothing}]
              /\ candidates' \in [Threads -> Candidates \cup {Nothing}]
              /\ time' \in [Threads -> 0..MaxTime]
              /\ DOMAIN expired_map' = Threads
              /\ last' \in [midashi : Midashi, candidates : Candidates, time : 0..MaxTime]
              /\ \A u \in Threads : IsCacheMap(expired_map'[u])
    <2>1. midashi[t] \in Midashi /\ candidates[t] \in Candidates /\ time[t] \in 0..MaxTime
        BY <1>10 DEF CacheTypeOK, CallsAreSet
    <2> QED
        BY <1>0, <1>10, <2>1, EmptyMapIsCacheMap DEF WriteReturns, CacheTypeOK, CallsAreSet, Goto
<1>11. ASSUME NEW t \in Threads, FileCreate(t)
       PROVE  CacheTypeOK' /\ CallsAreSet'
    <2>1. CASE WriteReturns(t) /\ file' = file /\ damaged' = TRUE
        <3>1. CacheTypeOK'
            BY <1>10, <1>11, <2>1 DEF FileCreate, CacheTypeOK
        <3>2. CallsAreSet'
            BY <1>10, <1>11, <2>1 DEF FileCreate, CallsAreSet, CacheTypeOK, WriteReturns, Goto
        <3> QED
            BY <3>1, <3>2
    <2>2. CASE /\ file' = Broken /\ damaged' = TRUE /\ Goto(t, "file_write")
               /\ UNCHANGED <<midashi, candidates, time, expired_map, last>>
        <3>1. CacheTypeOK'
            BY <1>11, <2>2 DEF FileCreate, CacheTypeOK, Goto
        <3>2. CallsAreSet'
            BY <1>11, <2>2 DEF FileCreate, CallsAreSet, CacheTypeOK, Goto
        <3> QED
            BY <3>1, <3>2
    <2> QED
        BY <1>11, <2>1, <2>2 DEF FileCreate
<1>12. ASSUME NEW t \in Threads, FileWrite(t)
       PROVE  CacheTypeOK' /\ CallsAreSet'
    <2>1. CacheTypeOK'
        BY <1>10, <1>12 DEF FileWrite, CacheTypeOK, CallsAreSet
    <2>2. CallsAreSet'
        BY <1>10, <1>12 DEF FileWrite, CallsAreSet, CacheTypeOK, WriteReturns, Goto
    <2> QED
        BY <2>1, <2>2
<1>13. ASSUME NEW t \in Threads, PoisonedPanic(t)
       PROVE  CacheTypeOK' /\ CallsAreSet'
    <2>1. CacheTypeOK'
        BY <1>13 DEF CacheTypeOK, PoisonedPanic, Goto, cacheVars, historyVars
    <2>2. CallsAreSet'
        BY <1>13 DEF CacheTypeOK, CallsAreSet, PoisonedPanic, Goto, cacheVars, historyVars
    <2> QED
        BY <2>1, <2>2
<1>14. CASE Tick
    <2>1. CacheTypeOK'
        BY <1>0, <1>14 DEF CacheTypeOK, Tick, cacheVars, callVars, historyVars
    <2>2. CallsAreSet'
        BY <1>0, <1>14 DEF CacheTypeOK, CallsAreSet, Tick, cacheVars, callVars, historyVars
    <2> QED
        BY <2>1, <2>2
<1>15. CASE Crash
    <2>1. CacheTypeOK'
        <3>1. 0 \in 0..MaxTime
            BY <1>0
        <3>2. time' \in [Threads -> 0..MaxTime]
            BY <1>15, <3>1 DEF Crash
        <3>3. {poisoned', up', damaged'} \subseteq BOOLEAN /\ loaded' \in Nat
            BY <1>15 DEF Crash, CacheTypeOK
        <3> QED
            BY <1>15, <3>2, <3>3, EmptyMapIsCacheMap DEF CacheTypeOK, Crash
    <2>2. CallsAreSet'
        BY <1>15, EmptyMapIsCacheMap DEF CallsAreSet, Crash
    <2> QED
        BY <2>1, <2>2
<1>16. CASE Restart
    <2>1. IsCacheMap(map')
        BY <1>16, EmptyMapIsCacheMap DEF Restart, ReadCache, CacheTypeOK
    <2>2. loaded' \in Nat
        BY <1>16, <2>1, FS_CardinalityType DEF Restart, IsCacheMap
    <2>3. CacheTypeOK'
        BY <1>16, <2>1, <2>2, LimitsAreEntries DEF CacheTypeOK, Restart, callVars, Limits
    <2>4. CallsAreSet'
        BY <1>16 DEF CallsAreSet, Restart, callVars
    <2> QED
        BY <2>3, <2>4
<1>17. CASE UNCHANGED vars
    <2>1. CacheTypeOK'
        BY <1>17 DEF CacheTypeOK, vars, cacheVars, callVars, historyVars
    <2>2. CallsAreSet'
        BY <1>17 DEF CallsAreSet, vars, cacheVars, callVars, historyVars
    <2> QED
        BY <2>1, <2>2
<1> QED
    BY <1>1, <1>2, <1>3, <1>4, <1>5, <1>6, <1>7, <1>8, <1>9, <1>11, <1>12, <1>13, <1>14, <1>15,
       <1>16, <1>17 DEF Next

-----------------------------------------------------------------------------
(***************************************************************************)
(* Calls that a mutex keeps apart.                                         *)
(***************************************************************************)

Alone(t) == \A u \in Threads : u # t => pc[u] = "idle"

\* The thread that takes a step is the only one with a call.
LEMMA StepsAreAlone ==
    ASSUME CacheInv, serialized, NEW t \in Threads, MayCall(t) \/ pc[t] # "idle"
    PROVE  Alone(t)
BY DEF CacheInv, SerializedInv, NoPanic, OneCall, MayCall, Busy, Alone

LEMMA AloneIsOneCall ==
    ASSUME NEW t \in Threads, Alone(t), CacheTypeOK, NEW label, Goto(t, label)
    PROVE  /\ pc'[t] = label /\ \A u \in Threads : u # t => pc'[u] = "idle"
           /\ OneCall'
BY DEF Alone, Goto, OneCall, Busy, CacheTypeOK

\* A step that changes neither the map nor the file, nor what they are compared with.
LEMMA QuietStep ==
    ASSUME CacheInv, serialized, NEW t \in Threads, Alone(t), NEW label, Goto(t, label),
           label \in {"idle"} \cup GetLabels \cup {"write_compare", "write_clock"},
           pc[t] \notin Inserted \cup Swapped,
           label \in GetLabels \cup {"write_compare"} => midashi'[t] \in DOMAIN map,
           UNCHANGED <<cacheVars, now, historyVars>>
    PROVE  SerializedInv'
<1> USE DEF GetLabels, Timed, Inserted, Swapped
<1>1. /\ pc'[t] = label /\ \A u \in Threads : u # t => pc'[u] = "idle"
      /\ OneCall'
    BY AloneIsOneCall DEF CacheInv
<1>2. \A u \in Threads : pc[u] \notin Inserted \cup Swapped /\ pc'[u] \notin Timed
    BY <1>1 DEF Alone
<1>3. /\ UNCHANGED <<map, file, poisoned, up, now, cache_entries, loaded, last, damaged>>
      /\ SerializedInv
    BY DEF CacheInv, cacheVars, historyVars
<1>4. NoPanic' /\ KeysAreThere'
    BY <1>1, <1>3 DEF SerializedInv, NoPanic, KeysAreThere
<1>5. NoEntryIsLater' /\ WriteFollowsItsSteps'
    BY <1>2, <1>3 DEF SerializedInv, NoEntryIsLater, WriteFollowsItsSteps
<1>6. SizeIsAllowed' /\ FileIsTheMap' /\ LastIsKept'
    <2>1. NotIn(Inserted) /\ NotIn(Inserted \cup Swapped)
        BY <1>2 DEF NotIn
    <2>2. /\ AllowedSize' = AllowedSize
          /\ \A s : FreshAt(map, s)' <=> FreshAt(map, s)
        BY <1>3 DEF AllowedSize, FreshAt
    <2> QED
        BY <1>3, <2>1, <2>2
        DEF SerializedInv, SizeIsAllowed, FileIsTheMap, LastIsKept, FreshAt, KeptIn
<1> QED
    BY <1>1, <1>4, <1>5, <1>6 DEF SerializedInv

LEMMA WriteClockStep ==
    ASSUME CacheInv, serialized, NEW t \in Threads, WriteClock(t)
    PROVE  SerializedInv'
<1> USE DEF GetLabels, Timed, Inserted, Swapped
<1>0. /\ Goto(t, "write_insert") /\ pc[t] = "write_clock" /\ Alone(t)
      /\ UNCHANGED <<map, file, poisoned, up, now, cache_entries, loaded, last, damaged>>
      /\ time'[t] = now
    BY StepsAreAlone DEF WriteClock, At, cacheVars, historyVars, CacheInv, CacheTypeOK
<1>1. /\ pc'[t] = "write_insert" /\ \A u \in Threads : u # t => pc'[u] = "idle"
      /\ OneCall'
    BY <1>0, AloneIsOneCall DEF CacheInv
<1>2. SerializedInv /\ NotIn(Inserted) /\ NotIn(Inserted \cup Swapped)
    BY <1>0 DEF NotIn, CacheInv, Alone
<1>3. NoPanic' /\ KeysAreThere'
    BY <1>0, <1>1, <1>2 DEF SerializedInv, NoPanic, KeysAreThere
<1>4. NoEntryIsLater' /\ WriteFollowsItsSteps'
    BY <1>0, <1>1, <1>2 DEF SerializedInv, NoEntryIsLater, WriteFollowsItsSteps
<1>5. SizeIsAllowed' /\ FileIsTheMap' /\ LastIsKept'
    BY <1>0, <1>2
    DEF SerializedInv, SizeIsAllowed, FileIsTheMap, LastIsKept, FreshAt, KeptIn, AllowedSize
<1> QED
    BY <1>1, <1>3, <1>4, <1>5 DEF SerializedInv

LEMMA WriteInsertStep ==
    ASSUME CacheInv, serialized, NEW t \in Threads, WriteInsert(t)
    PROVE  SerializedInv'
<1> USE DEF GetLabels, Timed, Inserted, Swapped
<1>0. /\ Goto(t, "write_filter") /\ pc[t] = "write_insert" /\ Alone(t)
      /\ UNCHANGED <<file, poisoned, up, now, midashi, candidates, time, cache_entries, loaded,
                     last, damaged>>
    BY StepsAreAlone DEF WriteInsert, At, historyVars, CacheInv
<1>1. /\ pc'[t] = "write_filter" /\ \A u \in Threads : u # t => pc'[u] = "idle"
      /\ OneCall'
    BY <1>0, AloneIsOneCall DEF CacheInv
<1>2. SerializedInv /\ NotIn(Inserted)
    BY <1>0 DEF NotIn, CacheInv, Alone
<1>3. /\ DOMAIN map' = DOMAIN map \cup {midashi[t]}
      /\ map'[midashi[t]] = [time |-> time[t], candidates |-> candidates[t]]
      /\ \A m \in DOMAIN map : m # midashi[t] => map'[m] = map[m]
      /\ Cardinality(DOMAIN map') <= Cardinality(DOMAIN map) + 1
      /\ Cardinality(DOMAIN map) \in Nat /\ IsCacheMap(map')
    BY InsertedMap DEF CacheInv
<1>4. NoPanic' /\ KeysAreThere'
    BY <1>0, <1>1, <1>2 DEF SerializedInv, NoPanic, KeysAreThere
<1>5. NoEntryIsLater'
    <2>1. time[t] <= now
        BY <1>0 DEF CacheInv, CallsAreSet
    <2>2. \A m \in DOMAIN map : map[m].time <= now /\ map[m].time <= time[t]
        BY <1>0, <1>2 DEF SerializedInv, NoEntryIsLater
    <2>3. time[t] <= time[t]
        BY <1>0 DEF CacheInv, CacheTypeOK
    <2>4. \A m \in DOMAIN map' : map'[m].time <= now /\ map'[m].time <= time[t]
        BY <1>3, <2>1, <2>2, <2>3
    <2> QED
        BY <1>0, <1>1, <1>2, <2>4 DEF SerializedInv, NoEntryIsLater
<1>6. WriteFollowsItsSteps'
    BY <1>0, <1>1, <1>3 DEF WriteFollowsItsSteps
<1>7. SizeIsAllowed'
    <2>1. Cardinality(DOMAIN map) <= AllowedSize /\ AllowedSize' = AllowedSize
        BY <1>0, <1>2 DEF SerializedInv, SizeIsAllowed, AllowedSize
    <2>2. AllowedSize \in Nat
        BY CacheAssumption DEF AllowedSize, CacheInv, CacheTypeOK
    <2>3. Cardinality(DOMAIN map') \in Nat
        BY <1>3, FS_CardinalityType DEF IsCacheMap
    <2>4. Cardinality(DOMAIN map') <= AllowedSize + 1
        BY <1>3, <2>1, <2>2, <2>3
    <2>5. ~NotIn(Inserted)'
        BY <1>1 DEF NotIn
    <2>6. (loaded > 0 => loaded >= cache_entries)'
        BY <1>0, <1>2 DEF SerializedInv, SizeIsAllowed
    <2> QED
        BY <2>1, <2>4, <2>5, <2>6 DEF SizeIsAllowed
<1>8. FileIsTheMap' /\ LastIsKept'
    <2>1. ~NotIn(Inserted \cup Swapped)'
        BY <1>1 DEF NotIn
    <2> QED
        BY <1>0, <1>2, <2>1 DEF SerializedInv, FileIsTheMap, LastIsKept
<1> QED
    BY <1>1, <1>4, <1>5, <1>6, <1>7, <1>8 DEF SerializedInv

LEMMA WriteFilterStep ==
    ASSUME CacheInv, serialized, NEW t \in Threads, WriteFilter(t)
    PROVE  SerializedInv'
<1> USE DEF GetLabels, Timed, Inserted, Swapped
<1>0. /\ Goto(t, "write_swap") /\ pc[t] = "write_filter" /\ Alone(t)
      /\ UNCHANGED <<map, file, poisoned, up, now, midashi, candidates, time, cache_entries,
                     loaded, last, damaged>>
    BY StepsAreAlone DEF WriteFilter, At, historyVars, cacheVars, CacheInv
<1>1. /\ pc'[t] = "write_swap" /\ \A u \in Threads : u # t => pc'[u] = "idle"
      /\ OneCall'
    BY <1>0, AloneIsOneCall DEF CacheInv
<1>2. SerializedInv /\ ~NotIn(Inserted)' /\ ~NotIn(Inserted \cup Swapped)'
    BY <1>1 DEF NotIn, CacheInv
<1>3. expired_map'[t] \in Limited(Fresh(map, time[t]))
    BY FilteredMap DEF CacheInv
<1>4. NoPanic' /\ KeysAreThere'
    BY <1>0, <1>1, <1>2 DEF SerializedInv, NoPanic, KeysAreThere
<1>5. NoEntryIsLater'
    BY <1>0, <1>1, <1>2 DEF SerializedInv, NoEntryIsLater
<1>6. WriteFollowsItsSteps'
    <2>1. expired_map'[t] \in Limited(Fresh(map, time[t]))'
        BY <1>0, <1>3 DEF Limited
    <2> QED
        BY <1>0, <1>1, <1>2, <2>1 DEF SerializedInv, WriteFollowsItsSteps
<1>7. SizeIsAllowed' /\ FileIsTheMap' /\ LastIsKept'
    BY <1>0, <1>2
    DEF SerializedInv, SizeIsAllowed, AllowedSize, FileIsTheMap, LastIsKept
<1> QED
    BY <1>1, <1>4, <1>5, <1>6, <1>7 DEF SerializedInv

\* The map a write installs, of the map it has inserted its entry in.
LEMMA SwappedMap ==
    ASSUME CacheInv, serialized, NEW t \in Threads, pc[t] = "write_swap"
    PROVE  /\ IsCacheMap(expired_map[t])
           /\ DOMAIN expired_map[t] \subseteq DOMAIN map
           /\ \A m \in DOMAIN expired_map[t] : expired_map[t][m] = map[m]
           /\ FreshAt(expired_map[t], time[t])
           /\ ExpireSeconds <= StartTime =>
                 KeptIn(expired_map[t], midashi[t], candidates[t], time[t])
           /\ Cardinality(DOMAIN expired_map[t]) <= AllowedSize
           /\ \A m \in DOMAIN map \ DOMAIN expired_map[t] :
                 \/ map[m].time + ExpireSeconds <= time[t]
                 \/ \A n \in DOMAIN expired_map[t] : map[m].time <= map[n].time
<1> DEFINE fresh == Fresh(map, time[t])
           kept == expired_map[t]
<1>0. /\ kept \in Limited(fresh) /\ SerializedInv
      /\ IsCacheMap(map) /\ cache_entries \in CacheEntries
      /\ time[t] \in 0..MaxTime /\ time[t] \in StartTime..now
      /\ midashi[t] \in DOMAIN map
      /\ map[midashi[t]] = [time |-> time[t], candidates |-> candidates[t]]
      /\ \A m \in DOMAIN map : map[m].time <= time[t]
    BY DEF CacheInv, CacheTypeOK, CallsAreSet, SerializedInv, WriteFollowsItsSteps, NoEntryIsLater,
           Timed, Inserted
<1>1. \A m \in DOMAIN map : map[m].time \in Nat
    <2>1. MaxTime \in Nat
        BY CacheAssumption
    <2> QED
        BY <1>0, <2>1 DEF IsCacheMap, Entry
<1>2. /\ IsCacheMap(fresh)
      /\ DOMAIN fresh \subseteq DOMAIN map
      /\ \A m \in DOMAIN fresh : fresh[m] = map[m]
      /\ FreshAt(fresh, time[t])
      /\ \A m \in DOMAIN map \ DOMAIN fresh :
             map[m].time + ExpireSeconds <= time[t] \/ DOMAIN fresh = {}
      /\ time[t] >= ExpireSeconds => midashi[t] \in DOMAIN fresh
    BY <1>0, FreshFacts
<1> HIDE DEF fresh, kept
<1>3. /\ IsCacheMap(kept)
      /\ DOMAIN kept \subseteq DOMAIN fresh
      /\ \A m \in DOMAIN kept : kept[m] = fresh[m]
      /\ \A m \in DOMAIN fresh \ DOMAIN kept, n \in DOMAIN fresh : fresh[m].time <= fresh[n].time
      /\ DOMAIN fresh # {} => DOMAIN kept # {}
      /\ \A size \in Nat : /\ size >= cache_entries
                           /\ Cardinality(DOMAIN fresh) <= size + 1
                           => Cardinality(DOMAIN kept) <= size
    BY <1>0, <1>2, LimitedFacts
<1>4. FreshAt(kept, time[t])
    BY <1>2, <1>3 DEF FreshAt
<1>5. ASSUME ExpireSeconds <= StartTime
      PROVE  KeptIn(kept, midashi[t], candidates[t], time[t])
    <2>1. time[t] >= ExpireSeconds
        BY <1>0, <1>5, CacheAssumption
    <2>2. CASE midashi[t] \in DOMAIN kept
        BY <1>0, <1>2, <1>3, <2>2 DEF KeptIn
    <2>3. CASE midashi[t] \notin DOMAIN kept
        <3>1. PICK n \in DOMAIN kept : TRUE
            BY <1>2, <1>3, <2>1
        <3>2. kept[n] = map[n] /\ n \in DOMAIN map /\ fresh[n] = map[n] /\ n \in DOMAIN fresh
            BY <1>2, <1>3
        <3>3. map[midashi[t]].time <= map[n].time
            BY <1>2, <1>3, <2>1, <2>3, <3>2
        <3>4. map[n].time = time[t]
            BY <1>0, <1>1, <3>2, <3>3
        <3> QED
            BY <3>2, <3>4 DEF KeptIn
    <2> QED
        BY <2>2, <2>3
<1>6. Cardinality(DOMAIN kept) <= AllowedSize
    <2>1. AllowedSize \in Nat /\ AllowedSize >= cache_entries
        BY <1>0, CacheAssumption
        DEF AllowedSize, CacheInv, CacheTypeOK, SerializedInv, SizeIsAllowed
    <2>2. Cardinality(DOMAIN map) <= AllowedSize + 1
        BY <1>0 DEF SerializedInv, SizeIsAllowed
    <2>3. IsFiniteSet(DOMAIN map) /\ IsFiniteSet(DOMAIN fresh)
        BY <1>0, <1>2 DEF IsCacheMap
    <2>4. /\ Cardinality(DOMAIN fresh) <= Cardinality(DOMAIN map)
          /\ Cardinality(DOMAIN fresh) \in Nat /\ Cardinality(DOMAIN map) \in Nat
        BY <1>2, <2>3, FS_Subset, FS_CardinalityType
    <2>5. Cardinality(DOMAIN fresh) <= AllowedSize + 1
        BY <2>1, <2>2, <2>4
    <2> QED
        BY <1>3, <2>1, <2>5
<1>7. ASSUME NEW m \in DOMAIN map \ DOMAIN kept
      PROVE  \/ map[m].time + ExpireSeconds <= time[t]
             \/ \A n \in DOMAIN kept : map[m].time <= map[n].time
    <2>1. CASE m \in DOMAIN fresh
        BY <1>2, <1>3, <1>7, <2>1
    <2>2. CASE m \notin DOMAIN fresh
        BY <1>2, <1>3, <1>7, <2>2
    <2> QED
        BY <2>1, <2>2
<1>8. /\ DOMAIN kept \subseteq DOMAIN map
      /\ \A m \in DOMAIN kept : kept[m] = map[m]
    BY <1>2, <1>3
<1> QED
    BY <1>3, <1>4, <1>5, <1>6, <1>7, <1>8 DEF kept

LEMMA WriteSwapStep ==
    ASSUME CacheInv, serialized, NEW t \in Threads, WriteSwap(t)
    PROVE  SerializedInv'
<1> USE DEF GetLabels, Timed, Inserted, Swapped
<1>0. /\ Goto(t, "file_create") /\ pc[t] = "write_swap" /\ Alone(t) /\ map' = expired_map[t]
      /\ UNCHANGED <<file, poisoned, up, now, midashi, candidates, time, cache_entries, loaded,
                     last, damaged, expired_map>>
    BY StepsAreAlone DEF WriteSwap, At, historyVars, CacheInv
<1>1. /\ pc'[t] = "file_create" /\ \A u \in Threads : u # t => pc'[u] = "idle"
      /\ OneCall'
    BY <1>0, AloneIsOneCall DEF CacheInv
<1>2. SerializedInv /\ ~NotIn(Inserted \cup Swapped)'
    BY <1>1 DEF NotIn, CacheInv
<1>3. /\ DOMAIN map' \subseteq DOMAIN map
      /\ \A m \in DOMAIN map' : map'[m] = map[m]
      /\ FreshAt(map', time[t])
      /\ ExpireSeconds <= StartTime => KeptIn(map', midashi[t], candidates[t], time[t])
      /\ Cardinality(DOMAIN map') <= AllowedSize
    BY <1>0, SwappedMap
<1>4. NoPanic' /\ KeysAreThere'
    BY <1>0, <1>1, <1>2 DEF SerializedInv, NoPanic, KeysAreThere
<1>5. NoEntryIsLater'
    BY <1>0, <1>1, <1>2, <1>3 DEF SerializedInv, NoEntryIsLater
<1>6. WriteFollowsItsSteps'
    BY <1>0, <1>1, <1>3 DEF WriteFollowsItsSteps, FreshAt, KeptIn
<1>7. SizeIsAllowed'
    <2>1. AllowedSize \in Nat /\ AllowedSize' = AllowedSize
        BY <1>0, CacheAssumption DEF AllowedSize, CacheInv, CacheTypeOK
    <2>2. Cardinality(DOMAIN map') \in Nat
        BY <1>0, FS_CardinalityType DEF CacheInv, CallsAreSet, IsCacheMap
    <2>3. Cardinality(DOMAIN map') <= AllowedSize + 1
        BY <1>3, <2>1, <2>2
    <2> QED
        BY <1>0, <1>2, <1>3, <2>1, <2>3 DEF SerializedInv, SizeIsAllowed
<1>8. FileIsTheMap' /\ LastIsKept'
    BY <1>0, <1>2 DEF SerializedInv, FileIsTheMap, LastIsKept
<1> QED
    BY <1>1, <1>4, <1>5, <1>6, <1>7, <1>8 DEF SerializedInv

\* The return of write_candidates: it has written the file, or tried to.
LEMMA WriteReturnsStep ==
    ASSUME CacheInv, serialized, NEW t \in Threads, pc[t] \in Swapped, WriteReturns(t),
           UNCHANGED <<cache_entries, map, poisoned, up, now, loaded>>,
           \/ damaged' = TRUE /\ file' \in {file, Broken}
           \/ damaged' = FALSE /\ file' = expired_map[t]
    PROVE  SerializedInv'
<1> USE DEF GetLabels, Timed, Inserted, Swapped
<1>0. /\ Goto(t, "idle") /\ Alone(t)
      /\ last' = [midashi |-> midashi[t], candidates |-> candidates[t], time |-> time[t]]
    BY StepsAreAlone DEF WriteReturns
<1>1. /\ pc'[t] = "idle" /\ \A u \in Threads : u # t => pc'[u] = "idle"
      /\ OneCall'
    BY <1>0, AloneIsOneCall DEF CacheInv
<1>2. SerializedInv /\ NotIn(Inserted)
    BY <1>0 DEF CacheInv, NotIn, Alone
<1>3. /\ map = expired_map[t] /\ IsCacheMap(map)
      /\ FreshAt(map, time[t])
      /\ ExpireSeconds <= StartTime => KeptIn(map, midashi[t], candidates[t], time[t])
    BY <1>2 DEF SerializedInv, WriteFollowsItsSteps, CacheInv, CacheTypeOK
<1>4. NoPanic' /\ KeysAreThere'
    BY <1>0, <1>1, <1>2 DEF SerializedInv, NoPanic, KeysAreThere
<1>5. NoEntryIsLater'
    BY <1>1, <1>2, <1>3 DEF SerializedInv, NoEntryIsLater
<1>6. WriteFollowsItsSteps'
    BY <1>1 DEF WriteFollowsItsSteps
<1>7. SizeIsAllowed'
    BY <1>2 DEF SerializedInv, SizeIsAllowed, AllowedSize
<1>8. FileIsTheMap'
    <2>1. map # Broken
        BY <1>3, BrokenIsNoCacheMap
    <2> QED
        BY <1>3, <2>1 DEF FileIsTheMap
<1>9. LastIsKept'
    BY <1>0, <1>3 DEF LastIsKept, FreshAt, KeptIn
<1> QED
    BY <1>1, <1>4, <1>5, <1>6, <1>7, <1>8, <1>9 DEF SerializedInv

LEMMA FileCreateStep ==
    ASSUME CacheInv, serialized, NEW t \in Threads, FileCreate(t)
    PROVE  SerializedInv'
<1> USE DEF GetLabels, Timed, Inserted, Swapped
<1>0. /\ pc[t] = "file_create" /\ Alone(t) /\ damaged' = TRUE
      /\ UNCHANGED <<cache_entries, map, poisoned, up, now, loaded>>
    BY StepsAreAlone DEF FileCreate
<1>1. CASE WriteReturns(t) /\ file' = file
    BY <1>0, <1>1, WriteReturnsStep
<1>2. CASE /\ file' = Broken /\ Goto(t, "file_write")
           /\ UNCHANGED <<midashi, candidates, time, expired_map, last>>
    <2>1. /\ pc'[t] = "file_write" /\ \A u \in Threads : u # t => pc'[u] = "idle"
          /\ OneCall'
        BY <1>0, <1>2, AloneIsOneCall DEF CacheInv
    <2>2. SerializedInv /\ NotIn(Inserted) /\ ~NotIn(Inserted \cup Swapped)'
        BY <1>0, <2>1 DEF CacheInv, NotIn, Alone
    <2>3. NoPanic' /\ KeysAreThere'
        BY <1>0, <2>1, <2>2 DEF SerializedInv, NoPanic, KeysAreThere
    <2>4. NoEntryIsLater'
        BY <1>0, <1>2, <2>1, <2>2 DEF SerializedInv, NoEntryIsLater
    <2>5. WriteFollowsItsSteps'
        BY <1>0, <1>2, <2>1, <2>2 DEF SerializedInv, WriteFollowsItsSteps, FreshAt, KeptIn
    <2>6. SizeIsAllowed' /\ FileIsTheMap' /\ LastIsKept'
        BY <1>0, <2>2
        DEF SerializedInv, SizeIsAllowed, AllowedSize, FileIsTheMap, LastIsKept
    <2> QED
        BY <2>1, <2>3, <2>4, <2>5, <2>6 DEF SerializedInv
<1> QED
    BY <1>1, <1>2 DEF FileCreate

\* Time passes.
LEMMA TickStep ==
    ASSUME CacheInv, serialized, Tick
    PROVE  SerializedInv'
<1> USE DEF GetLabels, Timed, Inserted, Swapped
<1>0. /\ SerializedInv /\ now' = now + 1 /\ now \in Nat /\ IsCacheMap(map)
      /\ file = Broken \/ IsCacheMap(file)
      /\ UNCHANGED <<cacheVars, callVars, historyVars>>
    BY CacheAssumption DEF Tick, CacheInv, CacheTypeOK
<1>1. ASSUME NEW entries, IsCacheMap(entries), NEW m \in DOMAIN entries, entries[m].time <= now
      PROVE  entries[m].time <= now + 1
    <2>1. entries[m].time \in Nat
        BY <1>1, CacheAssumption DEF IsCacheMap, Entry
    <2> QED
        BY <1>0, <1>1, <2>1
<1>2. NoEntryIsLater'
    <2>1. \A m \in DOMAIN map : map[m].time <= now + 1
        BY <1>0, <1>1 DEF SerializedInv, NoEntryIsLater
    <2>2. file # Broken => \A m \in DOMAIN file : file[m].time <= now + 1
        BY <1>0, <1>1 DEF SerializedInv, NoEntryIsLater
    <2> QED
        BY <1>0, <2>1, <2>2 DEF SerializedInv, NoEntryIsLater, cacheVars, callVars, historyVars
<1>3. NoPanic' /\ OneCall' /\ KeysAreThere'
    BY <1>0 DEF SerializedInv, NoPanic, OneCall, Busy, KeysAreThere, cacheVars, callVars
<1>4. WriteFollowsItsSteps'
    <2>1. ASSUME NEW t \in Threads, pc[t] = "write_swap"
          PROVE  expired_map'[t] \in Limited(Fresh(map, time[t]))'
        <3>1. UNCHANGED <<map, time, expired_map, cache_entries>>
            BY <1>0 DEF cacheVars, callVars
        <3>2. expired_map[t] \in Limited(Fresh(map, time[t]))
            BY <1>0, <2>1 DEF SerializedInv, WriteFollowsItsSteps
        <3> QED
            BY <3>1, <3>2 DEF Limited
    <2> QED
        BY <1>0, <2>1
        DEF SerializedInv, WriteFollowsItsSteps, FreshAt, KeptIn, cacheVars, callVars
<1>5. SizeIsAllowed' /\ FileIsTheMap'
    BY <1>0 DEF SerializedInv, SizeIsAllowed, AllowedSize, FileIsTheMap, NotIn, cacheVars,
                callVars, historyVars
<1>6. LastIsKept'
    BY <1>0 DEF SerializedInv, LastIsKept, NotIn, FreshAt, KeptIn, cacheVars, callVars,
                historyVars
<1> QED
    BY <1>2, <1>3, <1>4, <1>5, <1>6 DEF SerializedInv

LEMMA CrashStep ==
    ASSUME CacheInv, serialized, Crash
    PROVE  SerializedInv'
<1> USE DEF GetLabels, Timed, Inserted, Swapped
<1>0. /\ SerializedInv /\ map' = EmptyMap /\ poisoned' = FALSE /\ up' = FALSE
      /\ \A t \in Threads : pc'[t] = "idle"
      /\ last' = Nothing /\ loaded' = 0
      /\ UNCHANGED <<file, now, cache_entries, damaged>>
    BY DEF CacheInv, Crash
<1>1. NoPanic' /\ OneCall' /\ KeysAreThere'
    BY <1>0 DEF NoPanic, OneCall, Busy, KeysAreThere
<1>2. NoEntryIsLater' /\ WriteFollowsItsSteps'
    BY <1>0, EmptyMapIsCacheMap DEF SerializedInv, NoEntryIsLater, WriteFollowsItsSteps
<1>3. SizeIsAllowed'
    <2>1. cache_entries' \in Nat /\ AllowedSize' = cache_entries'
        BY <1>0, CacheAssumption DEF AllowedSize, CacheInv, CacheTypeOK
    <2> QED
        BY <1>0, <2>1, EmptyMapIsCacheMap DEF SizeIsAllowed
<1>4. FileIsTheMap' /\ LastIsKept'
    BY <1>0 DEF SerializedInv, FileIsTheMap, LastIsKept
<1> QED
    BY <1>1, <1>2, <1>3, <1>4 DEF SerializedInv

\* The map is that of the file, whatever the limit it was written under, or empty.
LEMMA RestartStep ==
    ASSUME CacheInv, serialized, Restart
    PROVE  SerializedInv'
<1> USE DEF GetLabels, Timed, Inserted, Swapped
<1>0. /\ SerializedInv /\ map' \in {EmptyMap, file}
      /\ map' = file => file # Broken
      /\ map' # file => damaged' \/ file = Broken
      /\ loaded' = IF Cardinality(DOMAIN map') > cache_entries' THEN Cardinality(DOMAIN map')
                   ELSE 0
      /\ \A t \in Threads : pc'[t] = "idle"
      /\ ~poisoned /\ last = Nothing
      /\ damaged' = damaged \/ damaged' = TRUE
      /\ UNCHANGED <<file, now, poisoned, last>>
    <2>1. EmptyMap # Broken
        BY EmptyMapIsCacheMap, BrokenIsNoCacheMap
    <2> QED
        BY <2>1 DEF CacheInv, CallsAreSet, Restart, ReadCache, callVars
<1>1. NoPanic' /\ OneCall' /\ KeysAreThere'
    BY <1>0 DEF NoPanic, OneCall, Busy, KeysAreThere
<1>2. NoEntryIsLater' /\ WriteFollowsItsSteps'
    <2>1. \A m \in DOMAIN map' : map'[m].time <= now
        BY <1>0, EmptyMapIsCacheMap DEF SerializedInv, NoEntryIsLater
    <2> QED
        BY <1>0, <2>1 DEF SerializedInv, NoEntryIsLater, WriteFollowsItsSteps
<1>3. SizeIsAllowed'
    <2>1. cache_entries' \in Nat
        BY LimitsAreEntries, CacheAssumption DEF Restart
    <2>2. IsCacheMap(map')
        BY <1>0, EmptyMapIsCacheMap DEF CacheInv, CacheTypeOK
    <2>3. Cardinality(DOMAIN map') \in Nat
        BY <2>2, FS_CardinalityType DEF IsCacheMap
    <2> QED
        BY <1>0, <2>1, <2>3 DEF SizeIsAllowed, AllowedSize
<1>4. FileIsTheMap' /\ LastIsKept'
    BY <1>0 DEF SerializedInv, FileIsTheMap, LastIsKept
<1> QED
    BY <1>1, <1>2, <1>3, <1>4 DEF SerializedInv

-----------------------------------------------------------------------------

LEMMA CacheInvInductive == CacheInv /\ [Next]_vars => CacheInv'
<1> SUFFICES ASSUME CacheInv, [Next]_vars
             PROVE  CacheInv'
    OBVIOUS
<1>0. CacheTypeOK' /\ CallsAreSet' /\ serialized' = serialized
    <2>1. CacheTypeOK' /\ CallsAreSet'
        BY TypesInductive DEF CacheInv
    <2>2. serialized' = serialized
        BY DEF Next, vars, cacheVars, GetContains, GetLength, GetClone, WriteContains,
               WriteCompare, WriteClock, WriteInsert, WriteFilter, WriteSwap, FileCreate,
               FileWrite, PoisonedPanic, Tick, Crash, Restart
    <2> QED
        BY <2>1, <2>2
<1> SUFFICES ASSUME serialized
             PROVE  SerializedInv'
    BY <1>0 DEF CacheInv
<1> USE DEF GetLabels, Inserted, Swapped
<1>1. ASSUME NEW t \in Threads, NEW m \in Midashi, GetContains(t, m)
      PROVE  SerializedInv'
    <2>1. CASE m \in DOMAIN map
        <3>1. Alone(t) /\ pc[t] = "idle"
            BY <1>1, StepsAreAlone DEF GetContains, MayCall
        <3>2. midashi'[t] = m
            BY <1>1, <2>1 DEF GetContains, CacheInv, CacheTypeOK
        <3> QED
            BY <1>1, <2>1, <3>1, <3>2, QuietStep DEF GetContains
    <2>2. CASE m \notin DOMAIN map
        <3>1. Alone(t) /\ pc[t] = "idle" /\ Goto(t, "idle")
            BY <1>1, <2>2, StepsAreAlone
            DEF GetContains, MayCall, Goto, CacheInv, CacheTypeOK
        <3> QED
            BY <1>1, <3>1, QuietStep DEF GetContains
    <2> QED
        BY <2>1, <2>2
<1>2. ASSUME NEW t \in Threads, GetLength(t)
      PROVE  SerializedInv'
    <2>1. pc[t] = "get_length" /\ Alone(t)
        BY <1>2, StepsAreAlone DEF GetLength, At
    <2>2. midashi[t] \in DOMAIN map
        BY <2>1 DEF CacheInv, SerializedInv, KeysAreThere
    <2> QED
        BY <1>2, <2>1, <2>2, QuietStep DEF GetLength
<1>3. ASSUME NEW t \in Threads, GetClone(t)
      PROVE  SerializedInv'
    <2>1. pc[t] = "get_clone" /\ Alone(t)
        BY <1>3, StepsAreAlone DEF GetClone, At
    <2>2. midashi[t] \in DOMAIN map
        BY <2>1 DEF CacheInv, SerializedInv, KeysAreThere
    <2> QED
        BY <1>3, <2>1, <2>2, QuietStep DEF GetClone
<1>4. ASSUME NEW t \in Threads, NEW m \in Midashi, NEW c \in Candidates, WriteContains(t, m, c)
      PROVE  SerializedInv'
    <2>1. Alone(t) /\ pc[t] = "idle"
        BY <1>4, StepsAreAlone DEF WriteContains, MayCall
    <2>2. midashi'[t] = m
        BY <1>4 DEF WriteContains, CacheInv, CacheTypeOK
    <2> QED
        BY <1>4, <2>1, <2>2, QuietStep DEF WriteContains
<1>5. ASSUME NEW t \in Threads, WriteCompare(t)
      PROVE  SerializedInv'
    <2>1. pc[t] = "write_compare" /\ Alone(t)
        BY <1>5, StepsAreAlone DEF WriteCompare, At
    <2>2. midashi[t] \in DOMAIN map
        BY <2>1 DEF CacheInv, SerializedInv, KeysAreThere
    <2> QED
        BY <1>5, <2>1, <2>2, QuietStep DEF WriteCompare, cacheVars
<1>6. ASSUME NEW t \in Threads, FileWrite(t)
      PROVE  SerializedInv'
    BY <1>6, WriteReturnsStep DEF FileWrite
<1>7. ASSUME NEW t \in Threads, PoisonedPanic(t)
      PROVE  SerializedInv'
    BY <1>7 DEF PoisonedPanic, CacheInv, SerializedInv, NoPanic
<1>8. CASE UNCHANGED vars
    <2>1. SerializedInv
        BY DEF CacheInv
    <2>2. /\ NoPanic' /\ OneCall' /\ KeysAreThere' /\ NoEntryIsLater'
        BY <1>8, <2>1 DEF SerializedInv, NoPanic, OneCall, Busy, KeysAreThere, NoEntryIsLater,
                          vars, cacheVars, callVars
    <2>3. WriteFollowsItsSteps'
        <3>1. ASSUME NEW t \in Threads, pc[t] = "write_swap"
              PROVE  expired_map'[t] \in Limited(Fresh(map, time[t]))'
            <4>1. UNCHANGED <<map, time, expired_map, cache_entries>>
                BY <1>8 DEF vars, cacheVars, callVars
            <4>2. expired_map[t] \in Limited(Fresh(map, time[t]))
                BY <2>1, <3>1 DEF SerializedInv, WriteFollowsItsSteps
            <4> QED
                BY <4>1, <4>2 DEF Limited
        <3> QED
            BY <1>8, <2>1, <3>1
            DEF SerializedInv, WriteFollowsItsSteps, FreshAt, KeptIn, vars, cacheVars, callVars
    <2>4. SizeIsAllowed' /\ FileIsTheMap'
        BY <1>8, <2>1 DEF SerializedInv, SizeIsAllowed, AllowedSize, FileIsTheMap, NotIn, vars,
                          cacheVars, callVars, historyVars
    <2>5. LastIsKept'
        BY <1>8, <2>1 DEF SerializedInv, LastIsKept, NotIn, FreshAt, KeptIn, vars, cacheVars,
                          callVars, historyVars
    <2> QED
        BY <2>2, <2>3, <2>4, <2>5 DEF SerializedInv
<1> QED
    BY <1>1, <1>2, <1>3, <1>4, <1>5, <1>6, <1>7, <1>8, WriteClockStep, WriteInsertStep,
       WriteFilterStep, WriteSwapStep, FileCreateStep, TickStep, CrashStep, RestartStep DEF Next

-----------------------------------------------------------------------------
(***************************************************************************)
(* Theorems.                                                               *)
(***************************************************************************)

\* The invariant holds: in particular, while the callers of get_candidates and
\* write_candidates keep their calls apart, each lock acquisition finds the map as
\* the one before it left it.
THEOREM CacheInvariant == Spec => []CacheInv
<1>1. Init => CacheInv
    BY CacheInvInit
<1>2. CacheInv /\ [Next]_vars => CacheInv'
    BY CacheInvInductive
<1> QED
    BY <1>1, <1>2, PTL DEF Spec

\* No lookup and no write ever indexes the map with a key that is gone.
THEOREM SerializedCallsAreSafe == Spec => []SerializedCallsNeverPanic
<1>1. CacheInv => SerializedCallsNeverPanic
    BY DEF CacheInv, SerializedInv, SerializedCallsNeverPanic
<1> QED
    BY <1>1, CacheInvariant, PTL

\* Between calls google_cache_entries bounds the map, or what an older run with a
\* larger limit left in the file.
THEOREM CacheStaysWithinLimit == Spec => []WithinLimit
<1>1. CacheInv => WithinLimit
    <2> SUFFICES ASSUME CacheInv, serialized, Busy = {}
                 PROVE  Cardinality(DOMAIN map) <= AllowedSize
        BY DEF WithinLimit, AllowedSize
    <2>1. NotIn(Inserted)
        BY DEF Busy, NotIn, Inserted
    <2> QED
        BY <2>1 DEF CacheInv, SerializedInv, SizeIsAllowed
<1> QED
    BY <1>1, CacheInvariant, PTL

\* What write_candidates wrote last is what get_candidates will find, whatever expired
\* or was evicted, on a clock that is past the expiry (it does not wrap).
THEOREM CacheKeepsTheLastWrite ==
    ASSUME ExpireSeconds <= StartTime
    PROVE  Spec => []WrittenIsKept
<1>1. CacheInv => WrittenIsKept
    <2> SUFFICES ASSUME CacheInv, serialized, last # Nothing, Busy = {}
                 PROVE  KeptIn(map, last.midashi, last.candidates, last.time)
        BY DEF WrittenIsKept, KeptIn
    <2>1. NotIn(Inserted \cup Swapped)
        BY DEF Busy, NotIn, Inserted, Swapped
    <2> QED
        BY <2>1 DEF CacheInv, SerializedInv, LastIsKept
<1> QED
    BY <1>1, CacheInvariant, PTL

\* No write leaves an entry that had expired when it read the clock, even on a clock
\* so low that the subtraction of the expiry wraps.
THEOREM CacheDropsTheExpired == Spec => []NothingExpired
<1>1. CacheInv => NothingExpired
    <2> SUFFICES ASSUME CacheInv, serialized, last # Nothing, Busy = {}
                 PROVE  FreshAt(map, last.time)
        BY DEF NothingExpired, FreshAt
    <2>1. NotIn(Inserted \cup Swapped)
        BY DEF Busy, NotIn, Inserted, Swapped
    <2> QED
        BY <2>1 DEF CacheInv, SerializedInv, LastIsKept
<1> QED
    BY <1>1, CacheInvariant, PTL

\* The cache file is the map between two calls, over crashes and restarts, unless a
\* file operation failed or was cut short.
THEOREM CacheFileIsTheMap == Spec => []FileFollowsMap
<1>1. CacheInv => FileFollowsMap
    <2> SUFFICES ASSUME CacheInv, serialized, up, Busy = {}, ~damaged
                 PROVE  file = map
        BY DEF FileFollowsMap
    <2>1. NotIn(Inserted \cup Swapped)
        BY DEF Busy, NotIn, Inserted, Swapped
    <2> QED
        BY <2>1 DEF CacheInv, SerializedInv, FileIsTheMap
<1> QED
    BY <1>1, CacheInvariant, PTL

\* After a panic under the lock the map is frozen: whatever the threads do.
THEOREM PoisonFreezesTheMap == Spec => PoisonStopsTheCache
<1>1. CacheInv /\ [Next]_vars => [poisoned /\ up' => map' = map]_vars
    <2> SUFFICES ASSUME CacheInv, [Next]_vars, poisoned, up'
                 PROVE  map' = map
        OBVIOUS
    <2>1. up
        BY DEF CacheInv, CallsAreSet
    <2> QED
        BY <2>1 DEF Next, vars, cacheVars, GetContains, GetLength, GetClone, WriteContains,
            WriteCompare, WriteClock, WriteInsert, WriteFilter, WriteSwap, FileCreate,
            FileWrite, PoisonedPanic, Tick, Crash, Restart, At
<1> QED
    BY <1>1, CacheInvariant, PTL DEF Spec, PoisonStopsTheCache

\* The only entries a running server loses are expired ones and the oldest of those
\* there are.
THEOREM CacheEvictsTheRightOnes == Spec => EvictsExpiredOrOldest
<1> DEFINE Evicts ==
        serialized /\ up' => \A m \in DOMAIN map \ DOMAIN map' :
            \/ map[m].time + ExpireSeconds <= now
            \/ \A n \in DOMAIN map' : map[m].time <= map'[n].time
<1>1. ASSUME CacheInv, [Next]_vars, serialized, up', NEW m \in DOMAIN map \ DOMAIN map'
      PROVE  \/ map[m].time + ExpireSeconds <= now
             \/ \A n \in DOMAIN map' : map[m].time <= map'[n].time
    <2>1. ASSUME NEW t \in Threads, WriteSwap(t)
          PROVE  \/ map[m].time + ExpireSeconds <= now
                 \/ \A n \in DOMAIN map' : map[m].time <= map'[n].time
        <3>1. pc[t] = "write_swap" /\ map' = expired_map[t]
            BY <2>1 DEF WriteSwap, At
        <3>2. /\ \A n \in DOMAIN map' : map'[n] = map[n]
              /\ \/ map[m].time + ExpireSeconds <= time[t]
                 \/ \A n \in DOMAIN map' : map[m].time <= map[n].time
            BY <1>1, <3>1, SwappedMap
        <3>3. time[t] <= now /\ time[t] \in Nat /\ now \in Nat
            BY <1>1, <3>1, CacheAssumption
            DEF CacheInv, CacheTypeOK, CallsAreSet, Timed
        <3>4. map[m].time + ExpireSeconds \in Nat
            BY <1>1, CacheAssumption DEF CacheInv, CacheTypeOK, IsCacheMap, Entry
        <3> QED
            BY <3>2, <3>3, <3>4
    <2>2. ASSUME NEW t \in Threads, WriteInsert(t)
          PROVE  FALSE
        BY <1>1, <2>2, InsertedMap DEF CacheInv
    <2>3. CASE Restart
        BY <1>1, <2>3, EmptyMapIsCacheMap DEF Restart, CacheInv, CallsAreSet
    <2>4. map' # map
        BY <1>1
    <2> QED
        BY <1>1, <2>1, <2>2, <2>3, <2>4 DEF Next, vars, cacheVars, GetContains, GetLength,
           GetClone, WriteContains, WriteCompare, WriteClock, WriteFilter, FileCreate,
           FileWrite, PoisonedPanic, Tick, Crash
<1>2. CacheInv /\ [Next]_vars => [Evicts]_vars
    BY <1>1
<1> QED
    BY <1>2, CacheInvariant, PTL DEF Spec, EvictsExpiredOrOldest
=============================================================================
