------------------------------ MODULE CcrStore ------------------------------
(***************************************************************************)
(* The compressed-content store behind the <<ccr:...>> markers             *)
(* (upstream-python/headroom/cache/compression_store.py) over the          *)
(* in-memory backend (cache/backends/memory.py).                           *)
(*                                                                         *)
(* Entries live in a dict.  Two heaps index them, by age for eviction and  *)
(* by expiry for cleanup, and are maintained lazily: deleting or replacing *)
(* an entry leaves its tuples behind, and a counter per heap estimates how *)
(* many are stale, so that the heaps can be rebuilt once half of one is.   *)
(*                                                                         *)
(* Every public operation runs under the store's lock and is one action,   *)
(* except store(): it reads the clock for created_at before it takes the   *)
(* lock, so it is two (StampStore, CommitStore), and the stamps of two     *)
(* threads can reach the lock in either order.  Two stores never read the  *)
(* same time.time().  A heap is the set of its tuples: a pop takes the     *)
(* least one.                                                              *)
(***************************************************************************)
EXTENDS Integers, FiniteSets

CONSTANTS
  Threads,      \* threads that call store()
  Keys,         \* hashes of stored content
  Ttls,         \* values of ttl, in ticks
  MaxEntries,   \* max_entries
  MaxTime,      \* bound on the clock
  MaxRestarts,  \* bound on restarts of the process
  NoEntry,      \* the backend has no entry for the key
  NoStore       \* the thread is not inside store()

ASSUME BoundsAssumption ==
  MaxEntries \in Nat \ {0} /\ MaxTime \in Nat /\ MaxRestarts \in Nat /\ Ttls \subseteq Nat

Entry == [created : Nat, ttl : Nat]
Stamped == [key : Keys, created : Nat, ttl : Nat]

ASSUME SentinelAssumption ==
  /\ NoEntry \notin Nat \cup Entry \cup [created : Nat, expires : Nat]
  /\ NoStore \notin Stamped

VARIABLES
  now,          \* time.time()
  lastStamp,    \* the latest created_at handed out
  store,        \* _backend: key -> [created, ttl] or NoEntry
  evictHeap,    \* _eviction_heap: <<created_at, key>>
  expireHeap,   \* _expiration_heap: <<expires_at, created_at, key>>
  staleEvict,   \* _stale_heap_entries
  staleExpire,  \* _stale_expiration_heap_entries
  pending,      \* thread -> the entry its store() built before the lock
  saved,        \* key -> expiry in the snapshot of a shutdown, until imported
  restarts      \* restarts so far

index == <<evictHeap, expireHeap, staleEvict, staleExpire>>
vars == <<now, lastStamp, store, index, pending, saved, restarts>>

TypeOK ==
  /\ now \in Nat
  /\ lastStamp \in -1 .. now
  /\ store \in [Keys -> Entry \cup {NoEntry}]
  /\ evictHeap \subseteq Nat \X Keys
  /\ expireHeap \subseteq Nat \X Nat \X Keys
  /\ staleEvict \in Nat /\ staleExpire \in Nat
  /\ pending \in [Threads -> Stamped \cup {NoStore}]
  /\ saved \in [Keys -> Nat \cup {NoEntry}]
  /\ restarts \in Nat

Init ==
  /\ now = 0
  /\ lastStamp = -1
  /\ store = [k \in Keys |-> NoEntry]
  /\ evictHeap = {} /\ expireHeap = {}
  /\ staleEvict = 0 /\ staleExpire = 0
  /\ pending = [t \in Threads |-> NoStore]
  /\ saved = [k \in Keys |-> NoEntry]
  /\ restarts = 0

-----------------------------------------------------------------------------
(* Entries and heap tuples.                                                *)

Stored == {k \in Keys : store[k] # NoEntry}
ExpirationTime(e) == e.created + e.ttl
IsExpired(e) == now - e.created > e.ttl
EvictTuple(k, e) == <<e.created, k>>
ExpireTuple(k, e) == <<ExpirationTime(e), e.created, k>>

\* The order of two tuples of the expiration heap; stamps are distinct.
Sooner(a, b) == a[1] < b[1] \/ (a[1] = b[1] /\ a[2] < b[2])

\* A tuple is current when the entry it was pushed for is still there.
EvictCurrent(t) == store[t[2]] # NoEntry /\ store[t[2]].created = t[1]
ExpireCurrent(t) == store[t[3]] # NoEntry /\ ExpireTuple(t[3], store[t[3]]) = t

Positive(n) == IF n > 0 THEN n ELSE 0

(***************************************************************************)
(* The index as a record, so that an operation can rebuild it and go on.   *)
(***************************************************************************)
Index == [evict |-> evictHeap, expire |-> expireHeap, se |-> staleEvict, sx |-> staleExpire]

SetIndex(ix) ==
  /\ evictHeap' = ix.evict
  /\ expireHeap' = ix.expire
  /\ staleEvict' = ix.se
  /\ staleExpire' = ix.sx

\* Mutant: a deletion takes its tuples off the counts instead of adding them.
MarkStaleDown(ix) == [ix EXCEPT !.se = @ - 1, !.sx = @ - 1]

MarkStale(ix) == [ix EXCEPT !.se = @ + 1, !.sx = @ + 1]

RebuildHeap(st) ==
  [evict  |-> {EvictTuple(k, st[k]) : k \in {j \in Keys : st[j] # NoEntry}},
   expire |-> {ExpireTuple(k, st[k]) : k \in {j \in Keys : st[j] # NoEntry}},
   se |-> 0, sx |-> 0]

\* Half of a heap is stale; an empty heap never is.
MostlyStale(ix) ==
  \/ ix.evict # {} /\ 2 * ix.se >= Cardinality(ix.evict)
  \/ ix.expire # {} /\ 2 * ix.sx >= Cardinality(ix.expire)

RebuildIfNeeded(ix, st) == IF MostlyStale(ix) THEN RebuildHeap(st) ELSE ix

-----------------------------------------------------------------------------
(* Eviction.  Both loops pop a run of least tuples and stop at the first   *)
(* point where their condition says so: the run is the shortest one that   *)
(* stops.                                                                  *)

AtCapacity == Cardinality(Stored) >= MaxEntries

\* What _evict_if_needed does to the index before it looks for victims.
FreshIndex ==
  IF AtCapacity /\ Positive(Cardinality(evictHeap) - staleEvict) # Cardinality(Stored)
  THEN RebuildHeap(store)
  ELSE RebuildIfNeeded(Index, store)

ExpiredTuples(ix) == {t \in ix.expire : t[1] < now}
Least(S) == CHOOSE t \in S : \A u \in S \ {t} : Sooner(t, u)

\* Runs of least tuples of S, the empty one included.
Runs(S) == {{}} \cup {{t \in S : t = u \/ Sooner(t, u)} : u \in S}
Shortest(runs) == CHOOSE r \in runs : \A q \in runs : r \subseteq q

\* Keys a run of expired tuples deletes.
ExpiredKeys(run) == {t[3] : t \in {u \in run : ExpireCurrent(u)}}
Gone(run) == (Keys \ Stored) \cup ExpiredKeys(run)
RoomAfter(keys) == Cardinality(Stored \ keys) < MaxEntries

(***************************************************************************)
(* Below capacity the loop pops one expired tuple.  At capacity it pops    *)
(* until there is room, no expired tuple is left, or the next one names a  *)
(* key that is not there: then it gives up on the whole eviction.          *)
(***************************************************************************)
GivesUp(ix, run) ==
  LET rest == ExpiredTuples(ix) \ run
  IN  AtCapacity /\ rest # {} /\ Least(rest)[3] \in Gone(run)

StopsExpiring(ix, run) ==
  \/ ExpiredTuples(ix) \subseteq run
  \/ ~AtCapacity /\ run # {}
  \/ AtCapacity /\ RoomAfter(ExpiredKeys(run))
  \/ GivesUp(ix, run)

ExpiredRun(ix) == Shortest({r \in Runs(ExpiredTuples(ix)) : StopsExpiring(ix, r)})

AfterExpired(ix, run) ==
  LET orphans == Cardinality({t \in run : ~ExpireCurrent(t)})
  IN  [ix EXCEPT !.expire = @ \ run,
                 !.sx = Positive(@ - orphans),
                 !.se = @ + Cardinality(ExpiredKeys(run)) + Positive(orphans - ix.sx)]

\* The oldest-first loop over what the first loop left: tuples as Sooner orders them.
Aged(ix) == {<<t[1], t[1], t[2]>> : t \in ix.evict}
OldestKeys(run, gone) == {t[3] : t \in {u \in run : EvictCurrent(<<u[1], u[3]>>) /\ u[3] \notin gone}}
OldestRun(ix, gone) ==
  Shortest({r \in Runs(Aged(ix)) :
              r = Aged(ix) \/ RoomAfter(gone \cup OldestKeys(r, gone))})

\* Mutant: the expiration tuple of an evicted entry is not counted.
AfterOldestForgets(ix, run, gone) ==
  LET victims == OldestKeys(run, gone)
  IN  [ix EXCEPT !.evict = @ \ {<<t[1], t[3]>> : t \in run},
                 !.se = Positive(@ - (Cardinality(run) - Cardinality(victims)))]

AfterOldest(ix, run, gone) ==
  LET victims == OldestKeys(run, gone)
  IN  [ix EXCEPT !.evict = @ \ {<<t[1], t[3]>> : t \in run},
                 !.se = Positive(@ - (Cardinality(run) - Cardinality(victims))),
                 !.sx = @ + Cardinality(victims)]

(***************************************************************************)
(* _evict_if_needed: the keys it deletes and the index it leaves.          *)
(***************************************************************************)
EvictIfNeeded ==
  LET ix0  == FreshIndex
      run  == ExpiredRun(ix0)
      gone == ExpiredKeys(run)
      ix1  == AfterExpired(ix0, run)
      old  == OldestRun(ix1, gone)
  IN  IF ~AtCapacity \/ RoomAfter(gone) \/ GivesUp(ix0, run)
      THEN [keys |-> gone, ix |-> ix1]
      ELSE [keys |-> gone \cup OldestKeys(old, gone), ix |-> AfterOldest(ix1, old, gone)]

Push(ix, k, e) ==
  [ix EXCEPT !.evict = @ \cup {EvictTuple(k, e)}, !.expire = @ \cup {ExpireTuple(k, e)}]

\* Mutant: room is made before the key is looked up.
InsertEvictsFirst(k, e) ==
  LET out == EvictIfNeeded
  IN  [st |-> [j \in Keys |-> IF j = k THEN e ELSE IF j \in out.keys THEN NoEntry ELSE store[j]],
       ix |-> Push(out.ix, k, e)]

\* Mutant: the heaps are rebuilt before the backend has the new entry.
InsertRebuildsEarly(k, e) ==
  IF k \in Stored
  THEN [st |-> [store EXCEPT ![k] = e],
        ix |-> RebuildIfNeeded(Push(MarkStale(Index), k, e), store)]
  ELSE LET out == EvictIfNeeded
       IN  [st |-> [j \in Keys |-> IF j = k THEN e ELSE IF j \in out.keys THEN NoEntry ELSE store[j]],
            ix |-> Push(out.ix, k, e)]

\* The locked part of store(): returns the entries and the index after it.
Insert(k, e) ==
  IF k \in Stored
  THEN LET st == [store EXCEPT ![k] = e]
       IN  [st |-> st, ix |-> RebuildIfNeeded(Push(MarkStale(Index), k, e), st)]
  ELSE LET out == EvictIfNeeded
       IN  [st |-> [j \in Keys |-> IF j = k THEN e ELSE IF j \in out.keys THEN NoEntry ELSE store[j]],
            ix |-> Push(out.ix, k, e)]

-----------------------------------------------------------------------------
(* Operations.                                                             *)

\* The process serves once every saved entry has been looked at.
Serving == \A k \in Keys : saved[k] = NoEntry

\* store() builds the entry: hash, created_at and ttl, before the lock.
StampStore(t, k, ttl) ==
  /\ Serving
  /\ pending[t] = NoStore
  /\ lastStamp < now
  /\ pending' = [pending EXCEPT ![t] = [key |-> k, created |-> now, ttl |-> ttl]]
  /\ lastStamp' = now
  /\ UNCHANGED <<now, store, index, saved, restarts>>

CommitStore(t) ==
  /\ pending[t] # NoStore
  /\ LET p == pending[t]
         r == Insert(p.key, [created |-> p.created, ttl |-> p.ttl])
     IN  store' = r.st /\ SetIndex(r.ix)
  /\ pending' = [pending EXCEPT ![t] = NoStore]
  /\ UNCHANGED <<now, lastStamp, saved, restarts>>

\* What every reader does to an entry it finds expired.
DropExpired(k) ==
  /\ Serving
  /\ k \in Stored
  /\ IsExpired(store[k])
  /\ store' = [store EXCEPT ![k] = NoEntry]
  /\ SetIndex(MarkStale(Index))
  /\ UNCHANGED <<now, lastStamp, pending, saved, restarts>>

Retrieve(k) == DropExpired(k)
GetMetadata(k) == DropExpired(k)
ExistsClean(k) == DropExpired(k)
EntryStatusClean(k) == DropExpired(k)

\* get_stats() deletes every expired entry (_clean_expired).
GetStats ==
  LET expired == {k \in Stored : IsExpired(store[k])}
      n       == Cardinality(expired)
  IN  /\ Serving
      /\ expired # {}
      /\ store' = [k \in Keys |-> IF k \in expired THEN NoEntry ELSE store[k]]
      /\ SetIndex([Index EXCEPT !.se = @ + n, !.sx = @ + n])
      /\ UNCHANGED <<now, lastStamp, pending, saved, restarts>>

Clear ==
  /\ Serving
  /\ store' = [k \in Keys |-> NoEntry]
  /\ SetIndex([evict |-> {}, expire |-> {}, se |-> 0, sx |-> 0])
  /\ UNCHANGED <<now, lastStamp, pending, saved, restarts>>

(***************************************************************************)
(* A graceful restart: the shutdown exports the live entries that the      *)
(* saved conversations name, the memory backend is lost with the process.  *)
(***************************************************************************)
Restart(names) ==
  /\ Serving
  /\ restarts < MaxRestarts
  /\ \A t \in Threads : pending[t] = NoStore
  /\ saved' = [k \in Keys |->
                 IF k \in names \cap Stored
                 THEN IF IsExpired(store[k]) THEN NoEntry ELSE ExpirationTime(store[k])
                 ELSE NoEntry]
  /\ store' = [k \in Keys |-> NoEntry]
  /\ SetIndex([evict |-> {}, expire |-> {}, se |-> 0, sx |-> 0])
  /\ restarts' = restarts + 1
  /\ UNCHANGED <<now, lastStamp, pending>>

(***************************************************************************)
(* import_entries, one entry: store it again for the rest of its time.     *)
(* The time left is counted in whole ticks, as int() counts it in seconds; *)
(* the moments the loop takes from one entry to the next are not charged   *)
(* to the entry.                                                           *)
(***************************************************************************)
ImportEntry(k) ==
  /\ saved[k] # NoEntry
  /\ IF saved[k] - now <= 0 \/ (k \in Stored /\ ~IsExpired(store[k]))
     THEN UNCHANGED <<store, index, lastStamp>>
     ELSE LET r == Insert(k, [created |-> now, ttl |-> saved[k] - now])
          IN  /\ lastStamp < now
              /\ store' = r.st
              /\ SetIndex(r.ix)
              /\ lastStamp' = now
  /\ saved' = [saved EXCEPT ![k] = NoEntry]
  /\ UNCHANGED <<now, pending, restarts>>

Tick ==
  /\ now < MaxTime
  /\ now' = now + 1
  /\ UNCHANGED <<lastStamp, store, index, pending, saved, restarts>>

Next ==
  \/ \E t \in Threads, k \in Keys, ttl \in Ttls : StampStore(t, k, ttl)
  \/ \E t \in Threads : CommitStore(t)
  \/ \E k \in Keys : Retrieve(k) \/ GetMetadata(k) \/ ExistsClean(k) \/ EntryStatusClean(k)
  \/ GetStats
  \/ Clear
  \/ \E names \in SUBSET Keys : Restart(names)
  \/ \E k \in Keys : ImportEntry(k)
  \/ Tick

Spec == Init /\ [][Next]_vars

-----------------------------------------------------------------------------
(* Properties.                                                             *)

\* Nothing stored is lost to the cleanup: whatever sequence of evictions,
\* replacements, lazy deletions and rebuilds went before, every entry of the
\* backend has its own tuple in both heaps (store, _evict_if_needed,
\* _rebuild_heap).
IndexComplete ==
  \A k \in Stored :
    /\ EvictTuple(k, store[k]) \in evictHeap
    /\ ExpireTuple(k, store[k]) \in expireHeap

\* The two counters that decide on a rebuild are exact: each equals the number
\* of tuples of its heap whose entry was deleted or replaced, although they are
\* only ever incremented and decremented by one at six places
\* (_mark_heap_entries_stale, _evict_if_needed, _clean_expired).
StaleCountsExact ==
  /\ staleEvict = Cardinality({t \in evictHeap : ~EvictCurrent(t)})
  /\ staleExpire = Cardinality({t \in expireHeap : ~ExpireCurrent(t)})

\* "Evict expired, then oldest live entries until below capacity": a store never
\* leaves more than max_entries in the backend (_evict_if_needed).
CapacityHeld == Cardinality(Stored) <= MaxEntries

\* Seen by the markers, the store is the simple one of CcrContract: a live entry
\* only ever leaves for the room of a new key, the oldest first and one room at
\* most; a duplicate store evicts nobody; a restart keeps expiries.
Held == [k \in Keys |->
           IF k \in Stored
           THEN IF IsExpired(store[k]) THEN NoEntry
                ELSE [created |-> store[k].created, expires |-> ExpirationTime(store[k])]
           ELSE NoEntry]
Contract == INSTANCE CcrContract WITH held <- Held
ImplementsContract == Contract!Spec

=============================================================================
