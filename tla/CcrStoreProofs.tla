--------------------------- MODULE CcrStoreProofs ---------------------------
(***************************************************************************)
(* TLAPS proofs about the compressed-content store, for every number of    *)
(* threads and keys, every capacity and any ttl, clock and number of       *)
(* restarts: its index stays complete, its counters exact, and the store   *)
(* implements CcrContract.                                                 *)
(***************************************************************************)
EXTENDS CcrStore, FiniteSetTheorems, WellFoundedInduction, TLAPS

\* What the properties say of the store's index, of any index of any store.
In(st) == {k \in Keys : st[k] # NoEntry}
EvictCur(st, t) == st[t[2]] # NoEntry /\ st[t[2]].created = t[1]
ExpireCur(st, t) == st[t[3]] # NoEntry /\ ExpireTuple(t[3], st[t[3]]) = t
StaleE(ix, st) == {t \in ix.evict : ~EvictCur(st, t)}
StaleX(ix, st) == {t \in ix.expire : ~ExpireCur(st, t)}

StoreType == [Keys -> Entry \cup {NoEntry}]
IndexType ==
  [evict : SUBSET (Nat \X Keys), expire : SUBSET (Nat \X Nat \X Keys), se : Nat, sx : Nat]

\* No two tuples of a heap carry one stamp.
Unique(ix) ==
  /\ \A t, u \in ix.evict : t[1] = u[1] => t = u
  /\ \A t, u \in ix.expire : t[2] = u[2] => t = u

Complete(ix, st) ==
  \A k \in In(st) : EvictTuple(k, st[k]) \in ix.evict /\ ExpireTuple(k, st[k]) \in ix.expire

\* Each entry has one tuple in each heap, so the stale tuples are the ones the
\* entries do not account for.
IndexOK(ix, st) ==
  /\ ix \in IndexType
  /\ IsFiniteSet(ix.evict) /\ IsFiniteSet(ix.expire)
  /\ Unique(ix)
  /\ Complete(ix, st)
  /\ ix.se = Cardinality(ix.evict) - Cardinality(In(st))
  /\ ix.sx = Cardinality(ix.expire) - Cardinality(In(st))

\* A stamp is handed out once: one that waits for the lock is in no heap and is
\* no other thread's.
StampsFresh ==
  /\ \A t \in evictHeap : t[1] <= lastStamp
  /\ \A t \in expireHeap : t[2] <= lastStamp
  /\ \A th \in Threads :
       pending[th] # NoStore =>
         /\ pending[th].created <= lastStamp
         /\ \A t \in evictHeap : t[1] # pending[th].created
         /\ \A t \in expireHeap : t[2] # pending[th].created
         /\ \A other \in Threads \ {th} :
              pending[other] # NoStore => pending[other].created # pending[th].created

\* Nothing is stored but by the import until the import is over.
Importing ==
  ~Serving => /\ \A th \in Threads : pending[th] = NoStore
              /\ \A k \in Keys : saved[k] # NoEntry => store[k] = NoEntry

\* The inductive invariant.
IInv ==
  /\ TypeOK
  /\ IndexOK(Index, store)
  /\ StampsFresh
  /\ Importing

-----------------------------------------------------------------------------
(* Counting.                                                               *)

LEMMA SameSize ==
  ASSUME NEW S, NEW T, IsFiniteSet(S), NEW f \in [S -> T],
         \A x, y \in S : f[x] = f[y] => x = y,
         \A t \in T : \E x \in S : f[x] = t
  PROVE  IsFiniteSet(T) /\ Cardinality(T) = Cardinality(S)
<1>1. f \in Bijection(S, T)
  BY DEF Bijection, Injection, Surjection, IsInjective
<1> QED BY <1>1, FS_Bijection DEF ExistsBijection

LEMMA EntryType ==
  ASSUME NEW st \in StoreType, NEW k \in In(st)
  PROVE  k \in Keys /\ st[k] \in Entry /\ st[k].created \in Nat /\ st[k].ttl \in Nat
BY SentinelAssumption DEF StoreType, In, Entry

(* A complete index has as many current tuples in a heap as there are      *)
(* entries.                                                                *)
LEMMA StaleSizes ==
  ASSUME NEW ix \in IndexType, NEW st \in StoreType, Complete(ix, st),
         IsFiniteSet(ix.evict), IsFiniteSet(ix.expire)
  PROVE  /\ IsFiniteSet(In(st))
         /\ Cardinality(StaleE(ix, st)) = Cardinality(ix.evict) - Cardinality(In(st))
         /\ Cardinality(StaleX(ix, st)) = Cardinality(ix.expire) - Cardinality(In(st))
         /\ Cardinality(StaleE(ix, st)) \in Nat /\ Cardinality(StaleX(ix, st)) \in Nat
<1> DEFINE fe == [k \in In(st) |-> EvictTuple(k, st[k])]
           fx == [k \in In(st) |-> ExpireTuple(k, st[k])]
           ce == {t \in ix.evict : EvictCur(st, t)}
           cx == {t \in ix.expire : ExpireCur(st, t)}
<1>1. ix.evict \subseteq Nat \X Keys /\ ix.expire \subseteq Nat \X Nat \X Keys
  BY DEF IndexType
<1>2. /\ \A k \in In(st) : fe[k] \in ce /\ fx[k] \in cx
      /\ \A j, k \in In(st) : fe[j] = fe[k] \/ fx[j] = fx[k] => j = k
  BY EntryType DEF Complete, EvictCur, ExpireCur, EvictTuple, ExpireTuple, In
<1>3. \A t \in ce : \E k \in In(st) : fe[k] = t
  <2> SUFFICES ASSUME NEW t \in ce
               PROVE  t[2] \in In(st) /\ fe[t[2]] = t
    OBVIOUS
  <2>1. t \in Nat \X Keys /\ EvictCur(st, t)
    BY <1>1
  <2> QED BY <2>1 DEF EvictCur, EvictTuple, In
<1>4. \A t \in cx : \E k \in In(st) : fx[k] = t
  <2> SUFFICES ASSUME NEW t \in cx
               PROVE  t[3] \in In(st) /\ fx[t[3]] = t
    OBVIOUS
  <2>1. t \in Nat \X Nat \X Keys /\ ExpireCur(st, t)
    BY <1>1
  <2> QED BY <2>1 DEF ExpireCur, In
<1>5. fe \in [In(st) -> ce] /\ fx \in [In(st) -> cx]
  BY <1>2
<1> HIDE DEF fe, fx
<1>6. IsFiniteSet(ce) /\ IsFiniteSet(cx)
  BY FS_Subset
<1>7. IsFiniteSet(In(st))
  <2>1. fe \in Injection(In(st), ce)
    BY <1>2, <1>5 DEF Injection, IsInjective
  <2> QED BY <1>6, <2>1, FS_Injection
<1>8. Cardinality(ce) = Cardinality(In(st))
  BY <1>2, <1>3, <1>5, <1>7, SameSize
<1>9. Cardinality(cx) = Cardinality(In(st))
  BY <1>2, <1>4, <1>5, <1>7, SameSize
<1>10. StaleE(ix, st) = ix.evict \ ce /\ ix.evict \cap ce = ce
  BY DEF StaleE
<1>11. StaleX(ix, st) = ix.expire \ cx /\ ix.expire \cap cx = cx
  BY DEF StaleX
<1> HIDE DEF ce, cx
<1>12. /\ Cardinality(StaleE(ix, st)) = Cardinality(ix.evict) - Cardinality(ce)
       /\ IsFiniteSet(StaleE(ix, st))
  BY <1>10, FS_Difference
<1>13. /\ Cardinality(StaleX(ix, st)) = Cardinality(ix.expire) - Cardinality(cx)
       /\ IsFiniteSet(StaleX(ix, st))
  BY <1>11, FS_Difference
<1> QED BY <1>7, <1>8, <1>9, <1>12, <1>13, FS_CardinalityType

-----------------------------------------------------------------------------
(* Runs of least tuples.                                                   *)

\* A heap of tuples that Sooner orders: no two carry one stamp.
Ordered(S) ==
  /\ S \subseteq Nat \X Nat \X Keys
  /\ IsFiniteSet(S)
  /\ \A t, u \in S : t[2] = u[2] => t = u

UpTo(S, u) == {t \in S : t = u \/ Sooner(t, u)}

LEMMA SoonerOrder ==
  ASSUME NEW S, Ordered(S), NEW t \in S, NEW u \in S
  PROVE  /\ ~Sooner(t, t)
         /\ t = u \/ Sooner(t, u) \/ Sooner(u, t)
         /\ ~(Sooner(t, u) /\ Sooner(u, t))
         /\ \A v \in S : Sooner(t, u) /\ Sooner(u, v) => Sooner(t, v)
<1>1. \A w \in S : w[1] \in Nat /\ w[2] \in Nat
  BY DEF Ordered
<1> QED BY <1>1 DEF Ordered, Sooner

(* A run holds whatever is sooner than a tuple it holds.                   *)
LEMMA RunIsDown ==
  ASSUME NEW S, Ordered(S), NEW r \in Runs(S)
  PROVE  /\ r \subseteq S /\ IsFiniteSet(r) /\ Cardinality(r) \in Nat
         /\ Cardinality(r) <= Cardinality(S)
         /\ \A t \in r, u \in S : Sooner(u, t) => u \in r
<1>1. r = {} \/ \E u \in S : r = UpTo(S, u)
  BY DEF Runs, UpTo
<1>2. r \subseteq S
  BY <1>1 DEF UpTo
<1>3. IsFiniteSet(S) /\ IsFiniteSet(r) /\ Cardinality(r) <= Cardinality(S)
  BY <1>2, FS_Subset DEF Ordered
<1>4. ASSUME NEW t \in r, NEW u \in S, Sooner(u, t)
      PROVE  u \in r
  <2>1. PICK w \in S : r = UpTo(S, w)
    BY <1>1, <1>4
  <2>2. t \in S /\ (t = w \/ Sooner(t, w))
    BY <2>1 DEF UpTo
  <2>3. Sooner(u, w)
    BY <1>4, <2>2, SoonerOrder
  <2> QED BY <2>1, <2>3 DEF UpTo
<1> QED BY <1>2, <1>3, <1>4, FS_CardinalityType

LEMMA RunsNest ==
  ASSUME NEW S, Ordered(S), NEW r \in Runs(S), NEW q \in Runs(S)
  PROVE  /\ r \subseteq q \/ q \subseteq r
         /\ Cardinality(r) <= Cardinality(q) => r \subseteq q
<1>1. r \subseteq q \/ q \subseteq r
  <2> SUFFICES ASSUME NEW t \in r, t \notin q, NEW u \in q, u \notin r
               PROVE  FALSE
    OBVIOUS
  <2>1. t \in S /\ u \in S /\ t # u
    BY RunIsDown
  <2>2. Sooner(t, u) \/ Sooner(u, t)
    BY <2>1, SoonerOrder
  <2> QED BY <2>1, <2>2, RunIsDown
<1>2. ASSUME Cardinality(r) <= Cardinality(q), q \subseteq r
      PROVE  q = r
  <2>1. IsFiniteSet(r) /\ Cardinality(r) \in Nat /\ Cardinality(q) \in Nat
    BY RunIsDown
  <2>2. Cardinality(q) <= Cardinality(r) /\ (Cardinality(r) = Cardinality(q) => r = q)
    BY <1>2, <2>1, FS_Subset
  <2> QED BY <1>2, <2>1, <2>2
<1> QED BY <1>1, <1>2

LEMMA LeastNatural ==
  ASSUME NEW T \in SUBSET Nat, T # {}
  PROVE  \E m \in T : \A n \in T : m <= n
<1> DEFINE R == {ss \in Nat \X Nat : ss[1] < ss[2]}
<1>1. IsWellFoundedOn(R, Nat)
  BY NatLessThanWellFounded, Zenon DEF OpToRel
<1>2. PICK m \in T : \A n \in T : ~(<<n, m>> \in R)
  <2> HIDE DEF R
  <2> QED BY <1>1, WFMin
<1>3. ASSUME NEW n \in T
      PROVE  m <= n
  <2>1. n < m => <<n, m>> \in R
    OBVIOUS
  <2> QED BY <1>2, <2>1
<1> QED BY <1>3

(* Among some runs one is the shortest and one is the longest.             *)
LEMMA ShortestRun ==
  ASSUME NEW S, Ordered(S), NEW P \in SUBSET Runs(S), P # {}
  PROVE  Shortest(P) \in P /\ \A q \in P : Shortest(P) \subseteq q
<1> DEFINE T == {Cardinality(q) : q \in P}
<1>1. T \subseteq Nat /\ T # {}
  BY RunIsDown
<1>2. PICK m \in T : \A n \in T : m <= n
  BY <1>1, LeastNatural
<1>3. PICK r \in P : m = Cardinality(r)
  OBVIOUS
<1>4. \A q \in P : r \subseteq q
  BY <1>2, <1>3, RunsNest
<1> QED BY <1>4 DEF Shortest

LEMMA LongestRun ==
  ASSUME NEW S, Ordered(S), NEW P \in SUBSET Runs(S), P # {}
  PROVE  \E r \in P : \A q \in P : q \subseteq r
<1> DEFINE T == {Cardinality(S) - Cardinality(q) : q \in P}
<1>0. Cardinality(S) \in Nat
  BY FS_CardinalityType DEF Ordered
<1>1. T \subseteq Nat /\ T # {}
  BY <1>0, RunIsDown
<1>2. PICK m \in T : \A n \in T : m <= n
  BY <1>1, LeastNatural
<1>3. PICK r \in P : m = Cardinality(S) - Cardinality(r)
  OBVIOUS
<1>4. ASSUME NEW q \in P
      PROVE  q \subseteq r
  <2>1. Cardinality(S) - Cardinality(r) <= Cardinality(S) - Cardinality(q)
    BY <1>2, <1>3
  <2>2. Cardinality(q) <= Cardinality(r)
    BY <1>0, <2>1, RunIsDown
  <2> QED BY <2>2, RunsNest
<1> QED BY <1>4

(* The whole heap is a run.                                                *)
LEMMA AllIsRun ==
  ASSUME NEW S, Ordered(S)
  PROVE  S \in Runs(S)
<1>1. {} \in Runs(S)
  BY DEF Runs
<1>2. PICK r \in Runs(S) : \A q \in Runs(S) : q \subseteq r
  BY <1>1, LongestRun
<1>3. ASSUME NEW t \in S
      PROVE  t \in r
  <2>1. UpTo(S, t) \in Runs(S) /\ t \in UpTo(S, t)
    BY DEF UpTo, Runs
  <2> QED BY <1>2, <2>1
<1>4. r \subseteq S
  BY RunIsDown
<1> QED BY <1>3, <1>4

(* The run before the last pop.                                            *)
LEMMA RunBefore ==
  ASSUME NEW S, Ordered(S), NEW r \in Runs(S), r # {}
  PROVE  \E q \in Runs(S), u \in r : q = r \ {u}
<1> DEFINE P == {q \in Runs(S) : q \subseteq r /\ q # r}
<1>1. P \in SUBSET Runs(S) /\ P # {}
  <2>1. {} \in P
    BY DEF Runs
  <2> QED BY <2>1
<1>2. PICK q \in P : \A p \in P : p \subseteq q
  <2> HIDE DEF P
  <2> QED BY <1>1, LongestRun
<1>3. PICK u \in S : r = UpTo(S, u)
  BY DEF Runs, UpTo
<1>4. u \in r
  BY <1>3 DEF UpTo
<1>5. u \notin q
  <2> SUFFICES ASSUME u \in q
               PROVE  r \subseteq q
    OBVIOUS
  <2>1. \A t \in r : t \in S /\ (t = u \/ Sooner(t, u))
    BY <1>3 DEF UpTo
  <2> QED BY <2>1, RunIsDown
<1>6. ASSUME NEW t \in r, t # u
      PROVE  t \in q
  <2>1. t \in S /\ Sooner(t, u)
    BY <1>3, <1>6 DEF UpTo
  <2>2. ~Sooner(u, t)
    BY <2>1, SoonerOrder
  <2>3. UpTo(S, t) \in Runs(S) /\ t \in UpTo(S, t) /\ u \notin UpTo(S, t)
    BY <1>6, <2>1, <2>2 DEF UpTo, Runs
  <2>4. UpTo(S, t) \subseteq r
    BY <1>4, <2>3, RunsNest
  <2>5. UpTo(S, t) \in P
    BY <1>4, <2>3, <2>4
  <2> QED BY <1>2, <2>3, <2>5
<1>7. q = r \ {u}
  BY <1>5, <1>6
<1> QED BY <1>4, <1>7

-----------------------------------------------------------------------------
(* The index.                                                              *)

\* The store without the entries of D.
Minus(st, D) == [k \in Keys |-> IF k \in D THEN NoEntry ELSE st[k]]

\* No tuple of the index carries the stamp c.
Unstamped(ix, c) == (\A t \in ix.evict : t[1] # c) /\ (\A t \in ix.expire : t[2] # c)

\* Every tuple of ix was in the index old.
Within(ix, old) == ix.evict \subseteq old.evict /\ ix.expire \subseteq old.expire

LEMMA IndexFields ==
  ASSUME NEW ix \in IndexType
  PROVE  /\ ix.evict \subseteq Nat \X Keys /\ ix.expire \subseteq Nat \X Nat \X Keys
         /\ ix.se \in Nat /\ ix.sx \in Nat
BY DEF IndexType

LEMMA SizesType ==
  ASSUME NEW st \in StoreType, NEW ix, IndexOK(ix, st)
  PROVE  /\ IsFiniteSet(In(st)) /\ Cardinality(In(st)) \in Nat
         /\ Cardinality(ix.evict) \in Nat /\ Cardinality(ix.expire) \in Nat
         /\ ix.se = Cardinality(StaleE(ix, st)) /\ ix.sx = Cardinality(StaleX(ix, st))
BY StaleSizes, FS_CardinalityType DEF IndexOK

LEMMA MinusType ==
  ASSUME NEW st \in StoreType, NEW D
  PROVE  /\ Minus(st, D) \in StoreType
         /\ In(Minus(st, D)) = In(st) \ D
         /\ \A k \in In(Minus(st, D)) : Minus(st, D)[k] = st[k]
BY DEF Minus, StoreType, In

LEMMA MinusSize ==
  ASSUME NEW st \in StoreType, IsFiniteSet(In(st)), NEW D \in SUBSET In(st)
  PROVE  /\ Cardinality(In(Minus(st, D))) = Cardinality(In(st)) - Cardinality(D)
         /\ IsFiniteSet(D) /\ Cardinality(D) \in Nat
         /\ IsFiniteSet(In(Minus(st, D))) /\ Cardinality(In(Minus(st, D))) \in Nat
<1>1. In(Minus(st, D)) = In(st) \ D /\ In(st) \cap D = D
  BY MinusType
<1>2. IsFiniteSet(D) /\ IsFiniteSet(In(st) \ D)
  BY FS_Subset
<1> QED BY <1>1, <1>2, FS_Difference, FS_CardinalityType

(* Entries of one store do not share a stamp.                              *)
LEMMA EntriesUnique ==
  ASSUME NEW st \in StoreType, NEW ix, IndexOK(ix, st),
         NEW j \in In(st), NEW k \in In(st), st[j].created = st[k].created
  PROVE  j = k
<1>1. EvictTuple(j, st[j]) \in ix.evict /\ EvictTuple(k, st[k]) \in ix.evict
  BY DEF IndexOK, Complete
<1>2. EvictTuple(j, st[j]) = EvictTuple(k, st[k])
  BY <1>1 DEF IndexOK, Unique, EvictTuple
<1> QED BY <1>2 DEF EvictTuple

(* _rebuild_heap: one tuple for each entry.                                *)
LEMMA RebuildOK ==
  ASSUME NEW st \in StoreType, NEW ix, IndexOK(ix, st)
  PROVE  IndexOK(RebuildHeap(st), st) /\ Within(RebuildHeap(st), ix)
<1> DEFINE rb == RebuildHeap(st)
           fe == [k \in In(st) |-> EvictTuple(k, st[k])]
           fx == [k \in In(st) |-> ExpireTuple(k, st[k])]
<1>1. /\ rb.evict = {EvictTuple(k, st[k]) : k \in In(st)}
      /\ rb.expire = {ExpireTuple(k, st[k]) : k \in In(st)}
      /\ rb.se = 0 /\ rb.sx = 0
  BY DEF RebuildHeap, In
<1>2. rb \in IndexType
  <2>1. /\ \A k \in In(st) : EvictTuple(k, st[k]) \in Nat \X Keys
        /\ \A k \in In(st) : ExpireTuple(k, st[k]) \in Nat \X Nat \X Keys
    BY EntryType DEF EvictTuple, ExpireTuple, ExpirationTime
  <2>2. rb = [evict |-> rb.evict, expire |-> rb.expire, se |-> 0, sx |-> 0]
    BY DEF RebuildHeap
  <2>3. rb.evict \in SUBSET (Nat \X Keys) /\ rb.expire \in SUBSET (Nat \X Nat \X Keys)
    BY <1>1, <2>1
  <2> HIDE DEF rb
  <2> QED BY <2>2, <2>3 DEF IndexType
<1>3. Complete(rb, st)
  BY <1>1 DEF Complete
<1>4. Within(rb, ix)
  BY <1>1 DEF IndexOK, Complete, Within
<1>5. Unique(rb)
  BY <1>4 DEF Within, IndexOK, Unique
<1>6. IsFiniteSet(In(st)) /\ Cardinality(In(st)) \in Nat
  BY SizesType
<1>7. /\ fe \in [In(st) -> rb.evict] /\ fx \in [In(st) -> rb.expire]
      /\ \A j, k \in In(st) : fe[j] = fe[k] \/ fx[j] = fx[k] => j = k
      /\ \A t \in rb.evict : \E k \in In(st) : fe[k] = t
      /\ \A t \in rb.expire : \E k \in In(st) : fx[k] = t
  BY <1>1 DEF EvictTuple, ExpireTuple
<1> HIDE DEF fe, fx, rb
<1>8. IsFiniteSet(rb.evict) /\ Cardinality(rb.evict) = Cardinality(In(st))
  BY <1>6, <1>7, SameSize
<1>9. IsFiniteSet(rb.expire) /\ Cardinality(rb.expire) = Cardinality(In(st))
  BY <1>6, <1>7, SameSize
<1>10. IndexOK(rb, st)
  BY <1>1, <1>2, <1>3, <1>5, <1>6, <1>8, <1>9 DEF IndexOK
<1> QED BY <1>4, <1>10 DEF rb

LEMMA RebuildIfNeededOK ==
  ASSUME NEW st \in StoreType, NEW ix, IndexOK(ix, st)
  PROVE  IndexOK(RebuildIfNeeded(ix, st), st) /\ Within(RebuildIfNeeded(ix, st), ix)
BY RebuildOK DEF RebuildIfNeeded, Within

(* Deleting entries leaves one stale tuple of each in each heap.           *)
LEMMA DeleteOK ==
  ASSUME NEW st \in StoreType, NEW ix, IndexOK(ix, st), NEW D \in SUBSET In(st)
  PROVE  IndexOK([ix EXCEPT !.se = @ + Cardinality(D), !.sx = @ + Cardinality(D)], Minus(st, D))
<1> DEFINE n == Cardinality(D)
           nx == [ix EXCEPT !.se = @ + n, !.sx = @ + n]
<1>1. /\ IsFiniteSet(In(st)) /\ Cardinality(In(st)) \in Nat
      /\ Cardinality(ix.evict) \in Nat /\ Cardinality(ix.expire) \in Nat
  BY SizesType
<1>2. n \in Nat /\ Cardinality(In(Minus(st, D))) = Cardinality(In(st)) - n
  BY <1>1, MinusSize
<1>3. nx.evict = ix.evict /\ nx.expire = ix.expire /\ nx.se = ix.se + n /\ nx.sx = ix.sx + n
  BY DEF IndexOK, IndexType
<1>4. nx \in IndexType
  <2>1. ix \in IndexType
    BY DEF IndexOK
  <2>2. ix.se + n \in Nat /\ ix.sx + n \in Nat
    BY <1>2, <2>1, IndexFields
  <2> HIDE DEF n
  <2> QED BY <2>1, <2>2 DEF IndexType
<1>5. Complete(nx, Minus(st, D))
  BY <1>3, MinusType DEF IndexOK, Complete
<1>6. Unique(nx)
  BY <1>3 DEF IndexOK, Unique
<1> HIDE DEF n, nx
<1>7. IndexOK(nx, Minus(st, D))
  BY <1>1, <1>2, <1>3, <1>4, <1>5, <1>6 DEF IndexOK
<1> QED BY <1>7 DEF nx, n

LEMMA SplitSize ==
  ASSUME NEW S, IsFiniteSet(S), NEW C \in SUBSET S
  PROVE  /\ IsFiniteSet(C) /\ Cardinality(C) \in Nat /\ Cardinality(S) \in Nat
         /\ IsFiniteSet(S \ C) /\ Cardinality(S \ C) = Cardinality(S) - Cardinality(C)
         /\ Cardinality(S \ C) \in Nat
<1>1. S \cap C = C /\ IsFiniteSet(C) /\ IsFiniteSet(S \ C)
  BY FS_Subset
<1> QED BY <1>1, FS_Difference, FS_CardinalityType

(* The keys of popped tuples, one key for each current tuple.              *)
LEMMA ExpiredKeysSize ==
  ASSUME TypeOK, NEW ix, IndexOK(ix, store), NEW run \in SUBSET ix.expire
  PROVE  /\ ExpiredKeys(run) \in SUBSET Stored
         /\ IsFiniteSet(run) /\ IsFiniteSet(ExpiredKeys(run))
         /\ Cardinality(run) \in Nat /\ Cardinality(ExpiredKeys(run)) \in Nat
         /\ Cardinality({t \in run : ~ExpireCurrent(t)}) = Cardinality(run) - Cardinality(ExpiredKeys(run))
         /\ Cardinality({t \in run : ~ExpireCurrent(t)}) \in Nat
         /\ \A k \in ExpiredKeys(run) : ExpireTuple(k, store[k]) \in run
<1> DEFINE cur == {t \in run : ExpireCurrent(t)}
           f == [t \in cur |-> t[3]]
<1>1. run \subseteq Nat \X Nat \X Keys /\ IsFiniteSet(run)
  BY IndexFields, FS_Subset DEF IndexOK
<1>2. /\ ExpiredKeys(run) = {t[3] : t \in cur}
      /\ {t \in run : ~ExpireCurrent(t)} = run \ cur
      /\ \A t \in cur : t[3] \in Keys /\ t \in run /\ ExpireCurrent(t)
  BY <1>1 DEF ExpiredKeys
<1>3. ExpiredKeys(run) \in SUBSET Stored
  BY <1>2 DEF ExpireCurrent, Stored
<1>4. \A k \in ExpiredKeys(run) : ExpireTuple(k, store[k]) \in run
  BY <1>2 DEF ExpireCurrent
<1>5. /\ f \in [cur -> ExpiredKeys(run)]
      /\ \A t, u \in cur : f[t] = f[u] => t = u
      /\ \A k \in ExpiredKeys(run) : \E t \in cur : f[t] = k
  BY <1>2 DEF ExpireCurrent
<1>6. cur \in SUBSET run
  OBVIOUS
<1> HIDE DEF cur, f
<1>7. /\ IsFiniteSet(cur) /\ Cardinality(cur) \in Nat /\ Cardinality(run) \in Nat
      /\ Cardinality(run \ cur) = Cardinality(run) - Cardinality(cur) /\ Cardinality(run \ cur) \in Nat
  BY <1>1, <1>6, SplitSize
<1>8. IsFiniteSet(ExpiredKeys(run)) /\ Cardinality(ExpiredKeys(run)) = Cardinality(cur)
  BY <1>5, <1>7, SameSize
<1> QED BY <1>1, <1>2, <1>3, <1>4, <1>7, <1>8

LEMMA AfterExpiredOK ==
  ASSUME TypeOK, NEW ix, IndexOK(ix, store), NEW run \in SUBSET ix.expire
  PROVE  /\ IndexOK(AfterExpired(ix, run), Minus(store, ExpiredKeys(run)))
         /\ Within(AfterExpired(ix, run), ix)
<1> DEFINE D == ExpiredKeys(run)
           orphans == Cardinality({t \in run : ~ExpireCurrent(t)})
           sx == Positive(ix.sx - orphans)
           se == ix.se + Cardinality(D) + Positive(orphans - ix.sx)
           nx == AfterExpired(ix, run)
<1>1. nx = [ix EXCEPT !.expire = ix.expire \ run, !.sx = sx, !.se = se]
  BY DEF AfterExpired
<1>2. ix \in IndexType /\ store \in StoreType /\ Stored = In(store)
  BY DEF IndexOK, TypeOK, StoreType, Stored, In
<1>3. nx.evict = ix.evict /\ nx.expire = ix.expire \ run /\ nx.se = se /\ nx.sx = sx
  <2> HIDE DEF se, sx, nx
  <2> QED BY <1>1, <1>2 DEF IndexType
<1>4. /\ D \in SUBSET In(store) /\ Cardinality(D) \in Nat /\ orphans \in Nat /\ Cardinality(run) \in Nat
      /\ orphans = Cardinality(run) - Cardinality(D)
  BY <1>2, ExpiredKeysSize
<1>5. /\ IsFiniteSet(In(store)) /\ Cardinality(In(store)) \in Nat
      /\ Cardinality(ix.evict) \in Nat /\ Cardinality(ix.expire) \in Nat
      /\ IsFiniteSet(ix.evict) /\ IsFiniteSet(ix.expire) /\ Unique(ix) /\ Complete(ix, store)
      /\ ix.se = Cardinality(ix.evict) - Cardinality(In(store))
      /\ ix.sx = Cardinality(ix.expire) - Cardinality(In(store))
  BY <1>2, SizesType DEF IndexOK
<1>6. /\ IsFiniteSet(ix.expire \ run)
      /\ Cardinality(ix.expire \ run) = Cardinality(ix.expire) - Cardinality(run)
      /\ Cardinality(ix.expire \ run) \in Nat
  BY <1>5, SplitSize
<1>7. /\ Minus(store, D) \in StoreType /\ Cardinality(In(Minus(store, D))) \in Nat
      /\ Cardinality(In(Minus(store, D))) = Cardinality(In(store)) - Cardinality(D)
  BY <1>2, <1>4, <1>5, MinusType, MinusSize
<1>8. Complete(nx, Minus(store, D))
  <2> SUFFICES ASSUME NEW k \in In(Minus(store, D))
               PROVE  /\ EvictTuple(k, store[k]) \in nx.evict
                      /\ ExpireTuple(k, store[k]) \in nx.expire
    BY <1>2, MinusType DEF Complete
  <2>1. k \in In(store) /\ k \notin D /\ k \in Keys
    BY <1>2, MinusType DEF In
  <2>2. EvictTuple(k, store[k]) \in ix.evict /\ ExpireTuple(k, store[k]) \in ix.expire
    BY <1>5, <2>1 DEF Complete
  <2>3. ExpireTuple(k, store[k]) \notin run
    <3> SUFFICES ASSUME ExpireTuple(k, store[k]) \in run
                 PROVE  k \in D
      BY <2>1
    <3>1. ExpireTuple(k, store[k])[3] = k
      BY DEF ExpireTuple
    <3>2. ExpireCurrent(ExpireTuple(k, store[k]))
      BY <2>1, <3>1 DEF ExpireCurrent, In
    <3> QED BY <3>1, <3>2 DEF ExpiredKeys
  <2> QED BY <1>3, <2>2, <2>3
<1>9. Within(nx, ix) /\ Unique(nx)
  BY <1>3, <1>5 DEF Within, Unique
<1>10. ix.sx - orphans \in Nat
  <2> DEFINE mx == [ix EXCEPT !.expire = ix.expire \ run]
  <2>1. mx \in IndexType /\ mx.evict = ix.evict /\ mx.expire = ix.expire \ run
    BY <1>2 DEF IndexType
  <2>2. Complete(mx, Minus(store, D))
    BY <1>3, <1>8, <2>1 DEF Complete
  <2> HIDE DEF mx, D, orphans
  <2>3. Cardinality(mx.expire) - Cardinality(In(Minus(store, D))) \in Nat
    BY <1>5, <1>6, <1>7, <2>1, <2>2, StaleSizes
  <2> QED BY <1>4, <1>5, <1>6, <1>7, <2>1, <2>3
<1>11. sx = ix.sx - orphans /\ se = ix.se + Cardinality(D) /\ sx \in Nat /\ se \in Nat
  <2> HIDE DEF D, orphans
  <2>1. ix.sx \in Nat /\ ix.se \in Nat
    BY <1>2, IndexFields
  <2> QED BY <1>4, <1>10, <2>1 DEF Positive
<1>12. nx \in IndexType
  <2> HIDE DEF se, sx, nx
  <2> QED BY <1>1, <1>2, <1>11 DEF IndexType
<1> HIDE DEF D, orphans, se, sx, nx
<1>13. IndexOK(nx, Minus(store, D))
  BY <1>3, <1>4, <1>5, <1>6, <1>7, <1>8, <1>9, <1>11, <1>12 DEF IndexOK
<1> QED BY <1>9, <1>13 DEF D, nx

LEMMA OldestKeysSize ==
  ASSUME TypeOK, NEW gone \in SUBSET Stored, NEW ix, IndexOK(ix, Minus(store, gone)),
         NEW run \in SUBSET Aged(ix)
  PROVE  /\ OldestKeys(run, gone) \in SUBSET (Stored \ gone)
         /\ IsFiniteSet(OldestKeys(run, gone)) /\ Cardinality(OldestKeys(run, gone)) \in Nat
         /\ {<<t[1], t[3]>> : t \in run} \in SUBSET ix.evict
         /\ Cardinality(run) \in Nat
         /\ Cardinality({<<t[1], t[3]>> : t \in run}) = Cardinality(run)
         /\ \A k \in Stored \ gone :
              k \in OldestKeys(run, gone) <=> <<store[k].created, store[k].created, k>> \in run
<1> DEFINE popped == {<<t[1], t[3]>> : t \in run}
           keys == OldestKeys(run, gone)
           fp == [t \in popped |-> <<t[1], t[1], t[2]>>]
           fk == [k \in keys |-> <<store[k].created, store[k].created, k>>]
<1>1. ix.evict \subseteq Nat \X Keys /\ IsFiniteSet(ix.evict)
  BY IndexFields DEF IndexOK
<1>2. \A t \in run : <<t[1], t[3]>> \in ix.evict /\ t = <<t[1], t[1], t[3]>> /\ t[3] \in Keys
  BY <1>1 DEF Aged
<1>3. popped \in SUBSET ix.evict
  BY <1>2
<1>4. \A k \in keys : k \in Stored \ gone
  BY <1>2 DEF OldestKeys, EvictCurrent, Stored
<1>5. ASSUME NEW k \in Stored \ gone
      PROVE  k \in keys <=> <<store[k].created, store[k].created, k>> \in run
  <2>1. ASSUME k \in keys
        PROVE  <<store[k].created, store[k].created, k>> \in run
    <3>1. PICK t \in run : EvictCurrent(<<t[1], t[3]>>) /\ t[3] = k
      BY <2>1 DEF OldestKeys
    <3>2. t[1] = store[k].created
      BY <3>1 DEF EvictCurrent
    <3> QED BY <1>2, <3>1, <3>2
  <2>2. ASSUME <<store[k].created, store[k].created, k>> \in run
        PROVE  k \in keys
    <3>1. EvictCurrent(<<store[k].created, k>>)
      BY DEF EvictCurrent, Stored
    <3> DEFINE t == <<store[k].created, store[k].created, k>>
    <3>2. t \in run /\ t[1] = store[k].created /\ t[3] = k
      BY <2>2
    <3> HIDE DEF t
    <3>3. t \in {u \in run : EvictCurrent(<<u[1], u[3]>>) /\ u[3] \notin gone}
      BY <3>1, <3>2
    <3> QED BY <3>2, <3>3 DEF OldestKeys
  <2> QED BY <2>1, <2>2
<1>6. IsFiniteSet(popped) /\ Cardinality(popped) \in Nat
  BY <1>1, <1>3, FS_Subset, FS_CardinalityType
<1>7. /\ fp \in [popped -> run]
      /\ \A t, u \in popped : fp[t] = fp[u] => t = u
      /\ \A t \in run : \E u \in popped : fp[u] = t
  <2>1. \A t \in run : <<t[1], t[3]>> \in popped /\ fp[<<t[1], t[3]>>] = t
    BY <1>2
  <2>2. ASSUME NEW u \in popped
        PROVE  u = <<u[1], u[2]>> /\ fp[u] \in run /\ fp[u] = <<u[1], u[1], u[2]>>
    <3>1. PICK t \in run : u = <<t[1], t[3]>>
      OBVIOUS
    <3>2. fp[u] = <<u[1], u[1], u[2]>>
      OBVIOUS
    <3>3. u[1] = t[1] /\ u[2] = t[3]
      BY <3>1
    <3> QED BY <1>2, <3>1, <3>2, <3>3
  <2>3. \A t \in run : \E u \in popped : fp[u] = t
    BY <2>1
  <2>4. ASSUME NEW t \in popped, NEW u \in popped, fp[t] = fp[u]
        PROVE  t = u
    <3>1. t[1] = u[1] /\ t[2] = u[2]
      BY <2>2, <2>4
    <3> QED BY <2>2, <3>1
  <2>5. fp \in [popped -> run]
    BY <2>2
  <2> QED BY <2>3, <2>4, <2>5
<1>8. /\ fk \in [keys -> run]
      /\ \A j, k \in keys : fk[j] = fk[k] => j = k
  BY <1>4, <1>5
<1> HIDE DEF popped, keys, fp, fk
<1>9. IsFiniteSet(run) /\ Cardinality(run) = Cardinality(popped)
  BY <1>6, <1>7, SameSize
<1>10. IsFiniteSet(keys)
  <2>1. fk \in Injection(keys, run)
    BY <1>8 DEF Injection, IsInjective
  <2> QED BY <1>9, <2>1, FS_Injection
<1>11. /\ keys \in SUBSET (Stored \ gone)
       /\ IsFiniteSet(keys) /\ Cardinality(keys) \in Nat
       /\ popped \in SUBSET ix.evict
       /\ Cardinality(run) \in Nat
       /\ Cardinality(popped) = Cardinality(run)
       /\ \A k \in Stored \ gone : k \in keys <=> <<store[k].created, store[k].created, k>> \in run
  BY <1>3, <1>4, <1>5, <1>6, <1>9, <1>10, FS_CardinalityType
<1> QED BY <1>11 DEF popped, keys

LEMMA MinusMinus ==
  ASSUME NEW st, NEW D, NEW V
  PROVE  Minus(Minus(st, D), V) = Minus(st, D \cup V)
BY DEF Minus

LEMMA AfterOldestOK ==
  ASSUME TypeOK, NEW gone \in SUBSET Stored, NEW ix, IndexOK(ix, Minus(store, gone)),
         NEW run \in SUBSET Aged(ix)
  PROVE  /\ IndexOK(AfterOldest(ix, run, gone), Minus(store, gone \cup OldestKeys(run, gone)))
         /\ Within(AfterOldest(ix, run, gone), ix)
<1> DEFINE V == OldestKeys(run, gone)
           popped == {<<t[1], t[3]>> : t \in run}
           st == Minus(store, gone)
           se == Positive(ix.se - (Cardinality(run) - Cardinality(V)))
           sx == ix.sx + Cardinality(V)
           nx == AfterOldest(ix, run, gone)
<1>1. nx = [ix EXCEPT !.evict = ix.evict \ popped, !.se = se, !.sx = sx]
  BY DEF AfterOldest
<1>2. ix \in IndexType /\ store \in StoreType /\ Stored = In(store)
  BY DEF IndexOK, TypeOK, StoreType, Stored, In
<1>3. nx.expire = ix.expire /\ nx.evict = ix.evict \ popped /\ nx.se = se /\ nx.sx = sx
  <2> HIDE DEF se, sx, nx, popped
  <2> QED BY <1>1, <1>2 DEF IndexType
<1>4. st \in StoreType /\ In(st) = Stored \ gone /\ \A k \in In(st) : st[k] = store[k]
  BY <1>2, MinusType
<1>5. /\ V \in SUBSET In(st) /\ Cardinality(V) \in Nat /\ Cardinality(run) \in Nat
      /\ popped \in SUBSET ix.evict /\ Cardinality(popped) = Cardinality(run)
      /\ \A k \in In(st) : k \in V <=> <<store[k].created, store[k].created, k>> \in run
  BY <1>4, OldestKeysSize
<1> HIDE DEF V, st
<1>6. /\ IsFiniteSet(In(st)) /\ Cardinality(In(st)) \in Nat
      /\ Cardinality(ix.evict) \in Nat /\ Cardinality(ix.expire) \in Nat
      /\ IsFiniteSet(ix.evict) /\ IsFiniteSet(ix.expire) /\ Unique(ix) /\ Complete(ix, st)
      /\ ix.se = Cardinality(ix.evict) - Cardinality(In(st))
      /\ ix.sx = Cardinality(ix.expire) - Cardinality(In(st))
  BY <1>4, SizesType DEF IndexOK, st
<1>7. /\ IsFiniteSet(ix.evict \ popped)
      /\ Cardinality(ix.evict \ popped) = Cardinality(ix.evict) - Cardinality(run)
      /\ Cardinality(ix.evict \ popped) \in Nat
  BY <1>5, <1>6, SplitSize
<1>8. /\ Minus(st, V) \in StoreType /\ Cardinality(In(Minus(st, V))) \in Nat
      /\ Cardinality(In(Minus(st, V))) = Cardinality(In(st)) - Cardinality(V)
  BY <1>4, <1>5, <1>6, MinusType, MinusSize
<1>9. Complete(nx, Minus(st, V))
  <2> SUFFICES ASSUME NEW k \in In(Minus(st, V))
               PROVE  /\ EvictTuple(k, st[k]) \in nx.evict
                      /\ ExpireTuple(k, st[k]) \in nx.expire
    BY <1>4, MinusType DEF Complete
  <2>1. k \in In(st) /\ k \notin V /\ st[k] = store[k]
    BY <1>4, MinusType
  <2>2. EvictTuple(k, st[k]) \in ix.evict /\ ExpireTuple(k, st[k]) \in ix.expire
    BY <1>6, <2>1 DEF Complete
  <2>3. EvictTuple(k, st[k]) \notin popped
    <3> SUFFICES ASSUME NEW t \in run, <<t[1], t[3]>> = <<store[k].created, k>>
                 PROVE  FALSE
      BY <2>1 DEF EvictTuple
    <3>1. t = <<t[1], t[1], t[3]>>
      BY DEF Aged
    <3> QED BY <1>5, <2>1, <3>1
  <2> QED BY <1>3, <2>2, <2>3
<1>10. Within(nx, ix) /\ Unique(nx)
  BY <1>3, <1>6 DEF Within, Unique
<1>11. ix.se - (Cardinality(run) - Cardinality(V)) \in Nat
  <2> DEFINE mx == [ix EXCEPT !.evict = ix.evict \ popped]
  <2> HIDE DEF popped
  <2>1. mx \in IndexType /\ mx.expire = ix.expire /\ mx.evict = ix.evict \ popped
    BY <1>2 DEF IndexType
  <2>2. Complete(mx, Minus(st, V))
    BY <1>3, <1>9, <2>1 DEF Complete
  <2> HIDE DEF mx
  <2>3. Cardinality(mx.evict) - Cardinality(In(Minus(st, V))) \in Nat
    BY <1>6, <1>7, <1>8, <2>1, <2>2, StaleSizes
  <2> QED BY <1>5, <1>6, <1>7, <1>8, <2>1, <2>3
<1>12. /\ se = ix.se - (Cardinality(run) - Cardinality(V)) /\ sx = ix.sx + Cardinality(V)
       /\ sx \in Nat /\ se \in Nat
  <2>1. ix.sx \in Nat /\ ix.se \in Nat
    BY <1>2, IndexFields
  <2> QED BY <1>5, <1>11, <2>1 DEF Positive
<1>13. nx \in IndexType
  <2> HIDE DEF se, sx, nx, popped
  <2> QED BY <1>1, <1>2, <1>12 DEF IndexType
<1> HIDE DEF popped, se, sx, nx
<1>14. IndexOK(nx, Minus(st, V))
  BY <1>3, <1>5, <1>6, <1>7, <1>8, <1>9, <1>10, <1>12, <1>13 DEF IndexOK
<1>15. IndexOK(nx, Minus(store, gone \cup V))
  BY <1>14, MinusMinus DEF st
<1> QED BY <1>10, <1>15 DEF nx, V

(* A stored entry pushes one tuple on each heap.                           *)
LEMMA PushNewOK ==
  ASSUME NEW st \in StoreType, NEW ix, IndexOK(ix, st), NEW k \in Keys, st[k] = NoEntry,
         NEW e \in Entry, Unstamped(ix, e.created)
  PROVE  IndexOK(Push(ix, k, e), [st EXCEPT ![k] = e])
<1> DEFINE nx == Push(ix, k, e)
           ns == [st EXCEPT ![k] = e]
<1>1. ix \in IndexType /\ e.created \in Nat /\ e.ttl \in Nat /\ e # NoEntry
  BY SentinelAssumption DEF IndexOK, Entry
<1>2. EvictTuple(k, e) \in Nat \X Keys /\ ExpireTuple(k, e) \in Nat \X Nat \X Keys
  BY <1>1 DEF EvictTuple, ExpireTuple, ExpirationTime
<1>3. EvictTuple(k, e) \notin ix.evict /\ ExpireTuple(k, e) \notin ix.expire
  BY DEF Unstamped, EvictTuple, ExpireTuple
<1>4. /\ nx.evict = ix.evict \cup {EvictTuple(k, e)} /\ nx.expire = ix.expire \cup {ExpireTuple(k, e)}
      /\ nx.se = ix.se /\ nx.sx = ix.sx
  BY <1>1 DEF Push, IndexType
<1>5. nx \in IndexType
  BY <1>1, <1>2 DEF Push, IndexType
<1>6. ns \in StoreType /\ In(ns) = In(st) \cup {k} /\ k \notin In(st)
  BY <1>1 DEF StoreType, In
<1>7. Complete(nx, ns)
  BY <1>4, <1>6 DEF IndexOK, Complete, StoreType
<1>8. Unique(nx)
  <2>1. EvictTuple(k, e)[1] = e.created /\ ExpireTuple(k, e)[2] = e.created
    BY DEF EvictTuple, ExpireTuple
  <2> QED BY <1>4, <2>1 DEF IndexOK, Unique, Unstamped
<1>9. /\ IsFiniteSet(In(st)) /\ Cardinality(In(st)) \in Nat
      /\ Cardinality(ix.evict) \in Nat /\ Cardinality(ix.expire) \in Nat
  BY SizesType
<1> HIDE DEF nx, ns
<1>10. /\ Cardinality(nx.evict) = Cardinality(ix.evict) + 1 /\ IsFiniteSet(nx.evict)
       /\ Cardinality(nx.expire) = Cardinality(ix.expire) + 1 /\ IsFiniteSet(nx.expire)
       /\ Cardinality(In(ns)) = Cardinality(In(st)) + 1
  <2>1. IsFiniteSet(ix.evict) /\ IsFiniteSet(ix.expire)
    BY DEF IndexOK
  <2>2. Cardinality(nx.evict) = Cardinality(ix.evict) + 1 /\ IsFiniteSet(nx.evict)
    BY <1>3, <1>4, <2>1, FS_AddElement
  <2>3. Cardinality(nx.expire) = Cardinality(ix.expire) + 1 /\ IsFiniteSet(nx.expire)
    BY <1>3, <1>4, <2>1, FS_AddElement
  <2>4. Cardinality(In(ns)) = Cardinality(In(st)) + 1
    BY <1>6, <1>9, FS_AddElement
  <2> QED BY <2>2, <2>3, <2>4
<1>11. IndexOK(nx, ns)
  BY <1>4, <1>5, <1>7, <1>8, <1>9, <1>10 DEF IndexOK
<1> QED BY <1>11 DEF nx, ns

(* Replacing an entry is deleting it and storing the new one.              *)
LEMMA PushAgainOK ==
  ASSUME NEW st \in StoreType, NEW ix, IndexOK(ix, st), NEW k \in In(st),
         NEW e \in Entry, Unstamped(ix, e.created)
  PROVE  IndexOK(Push(MarkStale(ix), k, e), [st EXCEPT ![k] = e])
<1> DEFINE mx == [ix EXCEPT !.se = @ + Cardinality({k}), !.sx = @ + Cardinality({k})]
           ms == Minus(st, {k})
<1>1. MarkStale(ix) = mx
  BY FS_Singleton DEF MarkStale
<1>2. IndexOK(mx, ms)
  BY DeleteOK
<1>3. ms \in StoreType /\ k \in Keys /\ ms[k] = NoEntry /\ [ms EXCEPT ![k] = e] = [st EXCEPT ![k] = e]
  BY MinusType DEF Minus, In, StoreType
<1>4. mx.evict = ix.evict /\ mx.expire = ix.expire
  BY DEF IndexOK, IndexType
<1>5. Unstamped(mx, e.created)
  BY <1>4 DEF Unstamped
<1> HIDE DEF mx, ms
<1>6. IndexOK(Push(mx, k, e), [ms EXCEPT ![k] = e])
  BY <1>2, <1>3, <1>5, PushNewOK
<1> QED BY <1>1, <1>3, <1>6

-----------------------------------------------------------------------------
(* Eviction.                                                               *)

LEMMA FreshIndexOK ==
  ASSUME TypeOK, IndexOK(Index, store)
  PROVE  IndexOK(FreshIndex, store) /\ Within(FreshIndex, Index)
BY RebuildOK, RebuildIfNeededOK DEF FreshIndex, TypeOK, StoreType

(* The first loop stops after a run of expired tuples.                     *)
LEMMA ExpiredRunOK ==
  ASSUME NEW st, NEW ix, IndexOK(ix, st)
  PROVE  /\ Ordered(ExpiredTuples(ix))
         /\ ExpiredRun(ix) \in SUBSET ExpiredTuples(ix)
         /\ ExpiredRun(ix) \in SUBSET ix.expire
         /\ StopsExpiring(ix, ExpiredRun(ix))
<1> DEFINE S == ExpiredTuples(ix)
           P == {r \in Runs(S) : StopsExpiring(ix, r)}
<1>1. Ordered(S) /\ S \subseteq ix.expire
  <2>1. S \in SUBSET ix.expire
    BY DEF ExpiredTuples
  <2>2. IsFiniteSet(S) /\ ix.expire \subseteq Nat \X Nat \X Keys
    BY <2>1, FS_Subset, IndexFields DEF IndexOK
  <2> QED BY <2>1, <2>2 DEF Ordered, IndexOK, Unique
<1>2. S \in P
  BY <1>1, AllIsRun DEF StopsExpiring
<1>3. P \in SUBSET Runs(S) /\ P # {}
  BY <1>2
<1>4. \A r \in P : StopsExpiring(ix, r) /\ r \in Runs(S)
  OBVIOUS
<1>5. ExpiredRun(ix) = Shortest(P)
  BY DEF ExpiredRun
<1> HIDE DEF S, P
<1>6. ExpiredRun(ix) \in P
  BY <1>1, <1>3, <1>5, ShortestRun
<1>7. ExpiredRun(ix) \subseteq S
  BY <1>1, <1>4, <1>6, RunIsDown
<1> QED BY <1>1, <1>4, <1>6, <1>7 DEF S

(* The second loop stops after a run of the oldest tuples.                 *)
LEMMA OldestRunOK ==
  ASSUME NEW st, NEW ix, IndexOK(ix, st), NEW gone
  PROVE  /\ Ordered(Aged(ix))
         /\ OldestRun(ix, gone) \in Runs(Aged(ix))
         /\ OldestRun(ix, gone) \in SUBSET Aged(ix)
         /\ \A r \in Runs(Aged(ix)) :
              RoomAfter(gone \cup OldestKeys(r, gone)) => OldestRun(ix, gone) \subseteq r
<1> DEFINE S == Aged(ix)
           P == {r \in Runs(S) : r = S \/ RoomAfter(gone \cup OldestKeys(r, gone))}
           f == [t \in ix.evict |-> <<t[1], t[1], t[2]>>]
<1>1. ix.evict \subseteq Nat \X Keys /\ IsFiniteSet(ix.evict)
  BY IndexFields DEF IndexOK
<1>2. \A u \in S : \E t \in ix.evict : u = <<t[1], t[1], t[2]>>
  BY DEF Aged
<1>3. S \subseteq Nat \X Nat \X Keys
  BY <1>1, <1>2
<1>4. \A t, u \in S : t[2] = u[2] => t = u
  <2> SUFFICES ASSUME NEW t \in S, NEW u \in S, t[2] = u[2]
               PROVE  t = u
    OBVIOUS
  <2>1. PICK a \in ix.evict : t = <<a[1], a[1], a[2]>>
    BY <1>2
  <2>2. PICK b \in ix.evict : u = <<b[1], b[1], b[2]>>
    BY <1>2
  <2>3. a[1] = b[1]
    BY <2>1, <2>2
  <2>4. a = b
    BY <2>3 DEF IndexOK, Unique
  <2> QED BY <2>1, <2>2, <2>4
<1>5. IsFiniteSet(S)
  <2>1. f \in Surjection(ix.evict, S)
    BY DEF Surjection, Aged
  <2> QED BY <1>1, <2>1, FS_Surjection
<1>6. Ordered(S)
  BY <1>3, <1>4, <1>5 DEF Ordered
<1>7. S \in P
  BY <1>6, AllIsRun
<1>8. P \in SUBSET Runs(S) /\ P # {}
  BY <1>7
<1>9. \A r \in Runs(S) : RoomAfter(gone \cup OldestKeys(r, gone)) => r \in P
  OBVIOUS
<1>10. OldestRun(ix, gone) = Shortest(P)
  BY DEF OldestRun
<1> HIDE DEF S, P
<1>11. OldestRun(ix, gone) \in Runs(S) /\ \A q \in P : OldestRun(ix, gone) \subseteq q
  BY <1>6, <1>8, <1>10, ShortestRun
<1>12. OldestRun(ix, gone) \subseteq S
  BY <1>6, <1>11, RunIsDown
<1> QED BY <1>6, <1>9, <1>11, <1>12 DEF S

LEMMA EvictIfNeededOK ==
  ASSUME TypeOK, IndexOK(Index, store)
  PROVE  /\ EvictIfNeeded.keys \in SUBSET Stored
         /\ IndexOK(EvictIfNeeded.ix, Minus(store, EvictIfNeeded.keys))
         /\ Within(EvictIfNeeded.ix, Index)
<1> DEFINE ix0  == FreshIndex
           run  == ExpiredRun(ix0)
           gone == ExpiredKeys(run)
           ix1  == AfterExpired(ix0, run)
           old  == OldestRun(ix1, gone)
<1>1. IndexOK(ix0, store) /\ Within(ix0, Index)
  BY FreshIndexOK
<1> HIDE DEF ix0
<1>2. run \in SUBSET ix0.expire
  BY <1>1, ExpiredRunOK
<1> HIDE DEF run
<1>3. /\ gone \in SUBSET Stored /\ IndexOK(ix1, Minus(store, gone)) /\ Within(ix1, ix0)
  BY <1>1, <1>2, ExpiredKeysSize, AfterExpiredOK
<1> HIDE DEF gone, ix1
<1>4. old \in SUBSET Aged(ix1)
  BY <1>3, OldestRunOK
<1> HIDE DEF old
<1>5. /\ OldestKeys(old, gone) \in SUBSET Stored
      /\ IndexOK(AfterOldest(ix1, old, gone), Minus(store, gone \cup OldestKeys(old, gone)))
      /\ Within(AfterOldest(ix1, old, gone), ix1)
  BY <1>3, <1>4, OldestKeysSize, AfterOldestOK
<1>6. \/ EvictIfNeeded = [keys |-> gone, ix |-> ix1]
      \/ EvictIfNeeded = [keys |-> gone \cup OldestKeys(old, gone), ix |-> AfterOldest(ix1, old, gone)]
  BY DEF EvictIfNeeded, ix0, run, gone, ix1, old
<1> DEFINE late == AfterOldest(ix1, old, gone)
           keys == gone \cup OldestKeys(old, gone)
<1>7. keys \in SUBSET Stored /\ IndexOK(late, Minus(store, keys)) /\ Within(late, Index) /\ Within(ix1, Index)
  BY <1>1, <1>3, <1>5 DEF Within
<1> HIDE DEF late, keys
<1>8. CASE EvictIfNeeded = [keys |-> gone, ix |-> ix1]
  BY <1>3, <1>7, <1>8
<1>9. CASE EvictIfNeeded = [keys |-> keys, ix |-> late]
  BY <1>7, <1>9
<1> QED BY <1>6, <1>8, <1>9 DEF late, keys

\* What an insertion stamped c leaves in the heaps.
Stamps(ix, old, c) ==
  /\ \A t \in ix.evict : t \in old.evict \/ t[1] = c
  /\ \A t \in ix.expire : t \in old.expire \/ t[2] = c

(* The locked part of store().                                             *)
LEMMA InsertOK ==
  ASSUME TypeOK, IndexOK(Index, store), NEW k \in Keys, NEW e \in Entry, Unstamped(Index, e.created)
  PROVE  /\ Insert(k, e).st \in StoreType
         /\ IndexOK(Insert(k, e).ix, Insert(k, e).st)
         /\ Stamps(Insert(k, e).ix, Index, e.created)
         /\ \A j \in Keys \ {k} : store[j] = NoEntry => Insert(k, e).st[j] = NoEntry
<1>0. store \in StoreType /\ Stored = In(store) /\ Index \in IndexType
  BY DEF TypeOK, StoreType, Stored, In, IndexOK
<1>1. ASSUME NEW ix \in IndexType, Within(ix, Index)
      PROVE  Stamps(Push(ix, k, e), Index, e.created)
  <2>1. /\ Push(ix, k, e).evict = ix.evict \cup {EvictTuple(k, e)}
        /\ Push(ix, k, e).expire = ix.expire \cup {ExpireTuple(k, e)}
    BY DEF Push, IndexType
  <2>2. EvictTuple(k, e)[1] = e.created /\ ExpireTuple(k, e)[2] = e.created
    BY DEF EvictTuple, ExpireTuple
  <2> QED BY <1>1, <2>1, <2>2 DEF Stamps, Within
<1>2. CASE k \in Stored
  <2> DEFINE st == [store EXCEPT ![k] = e]
             px == Push(MarkStale(Index), k, e)
             ix == RebuildIfNeeded(px, st)
  <2>1. Insert(k, e) = [st |-> st, ix |-> ix]
    BY <1>2 DEF Insert
  <2>2. IndexOK(px, st)
    BY <1>0, <1>2, PushAgainOK
  <2>3. st \in StoreType
    BY <1>0 DEF StoreType
  <2>4. Stamps(px, Index, e.created)
    <3>1. MarkStale(Index) \in IndexType /\ Within(MarkStale(Index), Index)
      <4> DEFINE se == Index.se + 1
                 sx == Index.sx + 1
      <4>1. MarkStale(Index) = [Index EXCEPT !.se = se, !.sx = sx] /\ se \in Nat /\ sx \in Nat
        BY <1>0, IndexFields DEF MarkStale
      <4> HIDE DEF se, sx
      <4> QED BY <1>0, <4>1 DEF IndexType, Within
    <3> QED BY <1>1, <3>1
  <2> HIDE DEF px
  <2>5. IndexOK(ix, st) /\ Within(ix, px)
    BY <2>2, <2>3, RebuildIfNeededOK
  <2>6. \A j \in Keys \ {k} : st[j] = store[j]
    BY <1>0 DEF StoreType
  <2> HIDE DEF ix, st
  <2>7. Stamps(ix, Index, e.created)
    BY <2>4, <2>5 DEF Stamps, Within
  <2> QED BY <2>1, <2>3, <2>5, <2>6, <2>7
<1>3. CASE k \notin Stored
  <2> DEFINE out == EvictIfNeeded
             ms == Minus(store, out.keys)
             st == [ms EXCEPT ![k] = e]
             ix == Push(out.ix, k, e)
  <2>1. out.keys \in SUBSET Stored /\ IndexOK(out.ix, ms) /\ Within(out.ix, Index)
    BY EvictIfNeededOK
  <2>2. Insert(k, e) = [st |-> st, ix |-> ix]
    <3>1. st = [j \in Keys |-> IF j = k THEN e ELSE IF j \in out.keys THEN NoEntry ELSE store[j]]
      BY DEF Minus
    <3> HIDE DEF st
    <3> QED BY <1>3, <3>1 DEF Insert
  <2> HIDE DEF out
  <2>3. ms \in StoreType /\ ms[k] = NoEntry
    BY <1>0, <1>3, <2>1, MinusType DEF Minus, Stored
  <2>4. Unstamped(out.ix, e.created) /\ out.ix \in IndexType
    BY <2>1 DEF Unstamped, Within, IndexOK
  <2>5. IndexOK(ix, st)
    BY <2>1, <2>3, <2>4, PushNewOK
  <2>6. Stamps(ix, Index, e.created)
    BY <1>1, <2>1, <2>4
  <2>7. st \in StoreType /\ \A j \in Keys \ {k} : st[j] = IF j \in out.keys THEN NoEntry ELSE store[j]
    BY <2>3 DEF StoreType, Minus
  <2> HIDE DEF st, ix
  <2> QED BY <2>2, <2>5, <2>6, <2>7
<1> QED BY <1>2, <1>3

-----------------------------------------------------------------------------
(* The invariant.                                                          *)

LEMMA InitOK ==
  ASSUME Init
  PROVE  IInv
<1>1. TypeOK
  BY DEF Init, TypeOK
<1>2. In(store) = {} /\ evictHeap = {} /\ expireHeap = {} /\ staleEvict = 0 /\ staleExpire = 0
  BY DEF Init, In
<1>3. Index = [evict |-> {}, expire |-> {}, se |-> 0, sx |-> 0]
  BY <1>2 DEF Index
<1>4. IndexOK(Index, store)
  BY <1>2, <1>3, FS_EmptySet DEF IndexOK, IndexType, Unique, Complete
<1>5. StampsFresh
  BY DEF Init, StampsFresh
<1>6. Importing
  BY DEF Init, Importing
<1> QED BY <1>1, <1>4, <1>5, <1>6 DEF IInv

LEMMA EmptyOK ==
  ASSUME NEW st, st = [k \in Keys |-> NoEntry]
  PROVE  /\ st \in StoreType
         /\ IndexOK([evict |-> {}, expire |-> {}, se |-> 0, sx |-> 0], st)
<1>1. In(st) = {} /\ st \in StoreType
  BY DEF In, StoreType
<1> QED BY <1>1, FS_EmptySet DEF IndexOK, IndexType, Unique, Complete

(* An action that sets the store and its index sets a sound pair.          *)
LEMMA SetIndexOK ==
  ASSUME NEW ix, SetIndex(ix), store' \in StoreType, IndexOK(ix, store')
  PROVE  /\ IndexOK(Index', store') /\ Index' = ix
         /\ store' \in [Keys -> Entry \cup {NoEntry}]
         /\ evictHeap' \subseteq Nat \X Keys
         /\ expireHeap' \subseteq Nat \X Nat \X Keys
         /\ staleEvict' \in Nat /\ staleExpire' \in Nat
<1>1. ix \in IndexType /\ Index' = ix
  <2>1. ix \in IndexType
    BY DEF IndexOK
  <2>2. Index' = [evict |-> ix.evict, expire |-> ix.expire, se |-> ix.se, sx |-> ix.sx]
    BY DEF SetIndex, Index
  <2> QED BY <2>1, <2>2 DEF IndexType
<1> QED BY <1>1, IndexFields DEF SetIndex, StoreType

LEMMA SameIndexOK ==
  ASSUME IInv, UNCHANGED <<store, index>>
  PROVE  IndexOK(Index', store') /\ Index' = Index
<1>1. store' = store /\ Index' = Index
  BY DEF Index, index
<1> QED BY <1>1 DEF IInv

LEMMA StampStoreStep ==
  ASSUME IInv, NEW t \in Threads, NEW k \in Keys, NEW ttl \in Ttls, StampStore(t, k, ttl)
  PROVE  IInv'
<1> DEFINE p == [key |-> k, created |-> now, ttl |-> ttl]
<1>1. /\ pending' = [pending EXCEPT ![t] = p] /\ lastStamp < now /\ lastStamp' = now
      /\ now' = now /\ evictHeap' = evictHeap /\ expireHeap' = expireHeap /\ saved' = saved
      /\ UNCHANGED <<store, index, restarts>> /\ Serving
  BY DEF StampStore, index
<1>2. p \in Stamped /\ p # NoStore /\ p.created = now
  BY BoundsAssumption, SentinelAssumption DEF IInv, TypeOK, Stamped
<1>3. now \in Nat /\ lastStamp \in Int
  BY DEF IInv, TypeOK
<1>4. IndexOK(Index', store')
  BY <1>1, SameIndexOK
<1> HIDE DEF p
<1>5. TypeOK'
  BY <1>1, <1>2, <1>3 DEF IInv, TypeOK, index
<1>6. StampsFresh'
  <2>1. /\ \A u \in evictHeap : u[1] <= lastStamp /\ u[1] \in Nat
        /\ \A u \in expireHeap : u[2] <= lastStamp /\ u[2] \in Nat
    BY DEF IInv, TypeOK, StampsFresh
  <2>2. \A th \in Threads : pending[th] # NoStore => pending[th].created <= lastStamp /\ pending[th].created \in Nat
    BY DEF IInv, TypeOK, Stamped, StampsFresh
  <2>3. \A th \in Threads : pending'[th] = IF th = t THEN p ELSE pending[th]
    BY <1>1 DEF IInv, TypeOK
  <2>4. /\ \A u \in evictHeap' : u[1] <= lastStamp'
        /\ \A u \in expireHeap' : u[2] <= lastStamp'
    BY <1>1, <1>3, <2>1
  <2>5. ASSUME NEW th \in Threads, pending'[th] # NoStore
        PROVE  /\ pending'[th].created <= lastStamp'
               /\ \A u \in evictHeap' : u[1] # pending'[th].created
               /\ \A u \in expireHeap' : u[2] # pending'[th].created
               /\ \A other \in Threads \ {th} :
                    pending'[other] # NoStore => pending'[other].created # pending'[th].created
    <3>1. CASE th = t
      BY <1>1, <1>2, <1>3, <2>1, <2>2, <2>3, <3>1
    <3>2. CASE th # t
      BY <1>1, <1>2, <1>3, <2>2, <2>3, <2>5, <3>2 DEF IInv, StampsFresh
    <3> QED BY <3>1, <3>2
  <2> QED BY <2>4, <2>5 DEF StampsFresh
<1>7. Importing'
  BY <1>1 DEF Importing, Serving
<1> QED BY <1>4, <1>5, <1>6, <1>7 DEF IInv

LEMMA CommitStoreStep ==
  ASSUME IInv, NEW t \in Threads, CommitStore(t)
  PROVE  IInv'
<1> DEFINE p == pending[t]
           e == [created |-> p.created, ttl |-> p.ttl]
           r == Insert(p.key, e)
<1>1. p \in Stamped /\ p.key \in Keys /\ e \in Entry /\ e.created = p.created /\ p.created \in Nat
  BY DEF CommitStore, IInv, TypeOK, Stamped, Entry
<1>2. /\ store' = r.st /\ SetIndex(r.ix) /\ pending' = [pending EXCEPT ![t] = NoStore]
      /\ now' = now /\ lastStamp' = lastStamp /\ saved' = saved /\ restarts' = restarts /\ p # NoStore
  BY DEF CommitStore
<1>3. Unstamped(Index, e.created)
  BY <1>1, <1>2 DEF IInv, StampsFresh, Unstamped, Index
<1> HIDE DEF e
<1>4. r.st \in StoreType /\ IndexOK(r.ix, r.st) /\ Stamps(r.ix, Index, e.created)
  BY <1>1, <1>3, InsertOK DEF IInv
<1> HIDE DEF r, p
<1>5. /\ IndexOK(Index', store') /\ Index' = r.ix
      /\ store' \in [Keys -> Entry \cup {NoEntry}]
      /\ evictHeap' \subseteq Nat \X Keys
      /\ expireHeap' \subseteq Nat \X Nat \X Keys
      /\ staleEvict' \in Nat /\ staleExpire' \in Nat
  BY <1>2, <1>4, SetIndexOK
<1>6. TypeOK'
  BY <1>2, <1>5 DEF IInv, TypeOK
<1>7. StampsFresh'
  <2>1. /\ \A u \in evictHeap' : u \in evictHeap \/ u[1] = p.created
        /\ \A u \in expireHeap' : u \in expireHeap \/ u[2] = p.created
    BY <1>1, <1>4, <1>5 DEF Stamps, Index
  <2>2. p.created <= lastStamp
    BY <1>2 DEF IInv, StampsFresh, p
  <2>3. \A th \in Threads : pending'[th] # NoStore => th # t /\ pending'[th] = pending[th]
    BY <1>2 DEF IInv, TypeOK
  <2>4. \A th \in Threads \ {t} : pending[th] # NoStore => pending[th].created # p.created
    BY <1>2 DEF IInv, StampsFresh, p
  <2>5. /\ \A u \in evictHeap' : u[1] <= lastStamp'
        /\ \A u \in expireHeap' : u[2] <= lastStamp'
    BY <1>2, <2>1, <2>2 DEF IInv, StampsFresh
  <2>6. ASSUME NEW th \in Threads, pending'[th] # NoStore
        PROVE  /\ pending'[th].created <= lastStamp'
               /\ \A u \in evictHeap' : u[1] # pending'[th].created
               /\ \A u \in expireHeap' : u[2] # pending'[th].created
               /\ \A other \in Threads \ {th} :
                    pending'[other] # NoStore => pending'[other].created # pending'[th].created
    BY <1>2, <2>1, <2>3, <2>4, <2>6 DEF IInv, StampsFresh
  <2> QED BY <2>5, <2>6 DEF StampsFresh
<1>8. Importing'
  BY <1>2 DEF IInv, Importing, Serving, p
<1> QED BY <1>5, <1>6, <1>7, <1>8 DEF IInv

(* Deleting expired entries.                                               *)
LEMMA DeleteStep ==
  ASSUME IInv, Serving, NEW D \in SUBSET Stored, store' = Minus(store, D),
         SetIndex([Index EXCEPT !.se = @ + Cardinality(D), !.sx = @ + Cardinality(D)]),
         UNCHANGED <<now, lastStamp, pending, saved, restarts>>
  PROVE  IInv'
<1> DEFINE ix == [Index EXCEPT !.se = @ + Cardinality(D), !.sx = @ + Cardinality(D)]
<1>1. store \in StoreType /\ Stored = In(store) /\ IndexOK(Index, store)
  BY DEF IInv, TypeOK, StoreType, Stored, In
<1>2. IndexOK(ix, store') /\ store' \in StoreType
  BY <1>1, DeleteOK, MinusType
<1>3. ix.evict = evictHeap /\ ix.expire = expireHeap
  BY DEF Index
<1> HIDE DEF ix
<1>4. /\ IndexOK(Index', store') /\ Index' = ix
      /\ store' \in [Keys -> Entry \cup {NoEntry}]
      /\ evictHeap' \subseteq Nat \X Keys
      /\ expireHeap' \subseteq Nat \X Nat \X Keys
      /\ staleEvict' \in Nat /\ staleExpire' \in Nat
  BY <1>2, SetIndexOK DEF ix
<1>5. evictHeap' = evictHeap /\ expireHeap' = expireHeap
  BY <1>3, <1>4 DEF Index
<1>6. TypeOK'
  BY <1>4 DEF IInv, TypeOK
<1>7. StampsFresh'
  BY <1>5 DEF IInv, StampsFresh
<1>8. Importing'
  BY DEF Importing, Serving
<1> QED BY <1>4, <1>6, <1>7, <1>8 DEF IInv

LEMMA DropExpiredStep ==
  ASSUME IInv, NEW k \in Keys, DropExpired(k)
  PROVE  IInv'
<1>1. MarkStale(Index) = [Index EXCEPT !.se = @ + Cardinality({k}), !.sx = @ + Cardinality({k})]
  BY FS_Singleton DEF MarkStale
<1>2. store' = Minus(store, {k})
  BY DEF DropExpired, Minus, IInv, TypeOK
<1>3. /\ {k} \in SUBSET Stored /\ Serving
      /\ UNCHANGED <<now, lastStamp, pending, saved, restarts>>
      /\ SetIndex([Index EXCEPT !.se = @ + Cardinality({k}), !.sx = @ + Cardinality({k})])
  BY <1>1 DEF DropExpired
<1> QED BY <1>2, <1>3, DeleteStep

LEMMA GetStatsStep ==
  ASSUME IInv, GetStats
  PROVE  IInv'
<1> DEFINE D == {k \in Stored : IsExpired(store[k])}
<1>1. /\ Serving /\ store' = Minus(store, D)
      /\ SetIndex([Index EXCEPT !.se = @ + Cardinality(D), !.sx = @ + Cardinality(D)])
      /\ UNCHANGED <<now, lastStamp, pending, saved, restarts>>
  BY DEF GetStats, Minus
<1>2. D \in SUBSET Stored
  OBVIOUS
<1> HIDE DEF D
<1> QED BY <1>1, <1>2, DeleteStep

(* The store is emptied.                                                   *)
LEMMA EmptyStep ==
  ASSUME IInv, store' = [k \in Keys |-> NoEntry],
         SetIndex([evict |-> {}, expire |-> {}, se |-> 0, sx |-> 0]),
         UNCHANGED <<now, lastStamp, pending>>,
         saved' \in [Keys -> Nat \cup {NoEntry}], restarts' \in Nat,
         saved' = saved \/ \A th \in Threads : pending[th] = NoStore
  PROVE  IInv'
<1>1. /\ IndexOK(Index', store')
      /\ store' \in [Keys -> Entry \cup {NoEntry}]
      /\ evictHeap' \subseteq Nat \X Keys
      /\ expireHeap' \subseteq Nat \X Nat \X Keys
      /\ staleEvict' \in Nat /\ staleExpire' \in Nat
  BY EmptyOK, SetIndexOK
<1>2. evictHeap' = {} /\ expireHeap' = {}
  BY DEF SetIndex
<1>3. TypeOK'
  BY <1>1 DEF IInv, TypeOK
<1>4. StampsFresh'
  BY <1>2 DEF IInv, StampsFresh
<1>5. Importing'
  BY DEF IInv, Importing, Serving
<1> QED BY <1>1, <1>3, <1>4, <1>5 DEF IInv

LEMMA RestartStep ==
  ASSUME IInv, NEW names \in SUBSET Keys, Restart(names)
  PROVE  IInv'
<1>1. saved' \in [Keys -> Nat \cup {NoEntry}]
  <2>1. \A k \in Stored : ExpirationTime(store[k]) \in Nat
    BY SentinelAssumption DEF IInv, TypeOK, Entry, Stored, ExpirationTime
  <2> QED BY <2>1 DEF Restart
<1>2. /\ store' = [k \in Keys |-> NoEntry]
      /\ SetIndex([evict |-> {}, expire |-> {}, se |-> 0, sx |-> 0])
      /\ UNCHANGED <<now, lastStamp, pending>> /\ restarts' \in Nat
      /\ \A th \in Threads : pending[th] = NoStore
  BY DEF Restart, IInv, TypeOK
<1> QED BY <1>1, <1>2, EmptyStep

LEMMA ImportEntryStep ==
  ASSUME IInv, NEW k \in Keys, ImportEntry(k)
  PROVE  IInv'
<1>1. /\ saved[k] # NoEntry /\ saved' = [saved EXCEPT ![k] = NoEntry]
      /\ now' = now /\ pending' = pending /\ restarts' = restarts
  BY DEF ImportEntry
<1>2. /\ \A th \in Threads : pending[th] = NoStore
      /\ \A j \in Keys : saved[j] # NoEntry => store[j] = NoEntry
      /\ \A j \in Keys : saved'[j] # NoEntry => j # k /\ saved'[j] = saved[j]
      /\ saved' \in [Keys -> Nat \cup {NoEntry}]
  BY <1>1 DEF IInv, Importing, Serving, TypeOK
<1>3. CASE UNCHANGED <<store, index, lastStamp>>
  <2>1. IndexOK(Index', store')
    BY <1>3, SameIndexOK
  <2>2. TypeOK'
    BY <1>1, <1>2, <1>3 DEF IInv, TypeOK, index
  <2>3. StampsFresh'
    BY <1>1, <1>3 DEF IInv, StampsFresh, index
  <2>4. Importing'
    BY <1>1, <1>2, <1>3 DEF Importing
  <2> QED BY <2>1, <2>2, <2>3, <2>4 DEF IInv
<1>4. CASE ~(saved[k] - now <= 0) /\ ~UNCHANGED <<store, index, lastStamp>>
  <2> DEFINE e == [created |-> now, ttl |-> saved[k] - now]
             r == Insert(k, e)
  <2>1. now \in Nat /\ lastStamp \in Int /\ saved[k] - now \in Nat
    BY <1>1, <1>4 DEF IInv, TypeOK
  <2>2. e \in Entry /\ e.created = now
    BY <2>1 DEF Entry
  <2>3. lastStamp < now /\ store' = r.st /\ SetIndex(r.ix) /\ lastStamp' = now
    BY <1>4 DEF ImportEntry
  <2>4. Unstamped(Index, e.created)
    BY <2>1, <2>2, <2>3 DEF IInv, StampsFresh, TypeOK, Unstamped, Index
  <2> HIDE DEF e
  <2>5. /\ r.st \in StoreType /\ IndexOK(r.ix, r.st) /\ Stamps(r.ix, Index, e.created)
        /\ \A j \in Keys \ {k} : store[j] = NoEntry => r.st[j] = NoEntry
    BY <2>2, <2>4, InsertOK DEF IInv
  <2> HIDE DEF r
  <2>6. /\ IndexOK(Index', store') /\ Index' = r.ix
        /\ store' \in [Keys -> Entry \cup {NoEntry}]
        /\ evictHeap' \subseteq Nat \X Keys
        /\ expireHeap' \subseteq Nat \X Nat \X Keys
        /\ staleEvict' \in Nat /\ staleExpire' \in Nat
    BY <2>3, <2>5, SetIndexOK
  <2>7. TypeOK'
    BY <1>1, <1>2, <2>1, <2>3, <2>6 DEF IInv, TypeOK
  <2>8. StampsFresh'
    <3>1. /\ \A u \in evictHeap' : u \in evictHeap \/ u[1] = now
          /\ \A u \in expireHeap' : u \in expireHeap \/ u[2] = now
      BY <2>2, <2>5, <2>6 DEF Stamps, Index
    <3>2. /\ \A u \in evictHeap : u[1] <= lastStamp /\ u[1] \in Nat
          /\ \A u \in expireHeap : u[2] <= lastStamp /\ u[2] \in Nat
      BY DEF IInv, TypeOK, StampsFresh
    <3> QED BY <1>1, <1>2, <2>1, <2>3, <3>1, <3>2 DEF StampsFresh
  <2>9. Importing'
    BY <1>1, <1>2, <2>3, <2>5 DEF Importing
  <2> QED BY <2>6, <2>7, <2>8, <2>9 DEF IInv
<1>5. UNCHANGED <<store, index, lastStamp>> \/ ~(saved[k] - now <= 0)
  BY DEF ImportEntry
<1> QED BY <1>3, <1>4, <1>5

LEMMA QuietStep ==
  ASSUME IInv, Tick \/ UNCHANGED vars
  PROVE  IInv'
<1>1. /\ now' \in Nat /\ now' >= now /\ UNCHANGED <<lastStamp, store, index, pending, saved, restarts>>
  BY DEF IInv, TypeOK, Tick, vars
<1>2. IndexOK(Index', store')
  BY <1>1, SameIndexOK
<1>3. TypeOK'
  BY <1>1 DEF IInv, TypeOK, index
<1>4. StampsFresh' /\ Importing'
  BY <1>1 DEF IInv, StampsFresh, Importing, Serving, index
<1> QED BY <1>2, <1>3, <1>4 DEF IInv

LEMMA StepOK ==
  ASSUME IInv, [Next]_vars
  PROVE  IInv'
<1>1. ASSUME NEW k \in Keys, Retrieve(k) \/ GetMetadata(k) \/ ExistsClean(k) \/ EntryStatusClean(k)
      PROVE  DropExpired(k)
  BY <1>1 DEF Retrieve, GetMetadata, ExistsClean, EntryStatusClean
<1>2. CASE Clear
  <2>1. saved' \in [Keys -> Nat \cup {NoEntry}] /\ restarts' \in Nat
    BY <1>2 DEF Clear, IInv, TypeOK
  <2> QED BY <1>2, <2>1, EmptyStep DEF Clear
<1> QED BY <1>1, <1>2, StampStoreStep, CommitStoreStep, DropExpiredStep, GetStatsStep,
           RestartStep, ImportEntryStep, QuietStep DEF Next

LEMMA Invariance == Spec => []IInv
<1>1. Init => IInv
  BY InitOK
<1>2. IInv /\ [Next]_vars => IInv'
  BY StepOK
<1> QED BY <1>1, <1>2, PTL DEF Spec

-----------------------------------------------------------------------------
(* What holds of every behaviour.                                          *)

(* Type correctness of the store and its index.                            *)
THEOREM TypeCorrect == Spec => []TypeOK
<1>1. IInv => TypeOK
  BY DEF IInv
<1> QED BY <1>1, Invariance, PTL

(* store, _evict_if_needed, _rebuild_heap, _clean_expired: however many    *)
(* threads, keys and restarts, no entry of the backend ever loses its own  *)
(* tuple in either heap, so every entry can be evicted and expired.        *)
THEOREM IndexStaysComplete == Spec => []IndexComplete
<1>1. IInv => IndexComplete
  BY DEF IInv, IndexOK, Complete, IndexComplete, Index, In, Stored
<1> QED BY <1>1, Invariance, PTL

(* _mark_heap_entries_stale and the increments and decrements of           *)
(* _evict_if_needed and _clean_expired: both counters equal the number of  *)
(* stale tuples of their heap in every reachable state.                    *)
THEOREM StaleCountsAreExact == Spec => []StaleCountsExact
<1>1. ASSUME IInv
      PROVE  StaleCountsExact
  <2>1. /\ staleEvict = Cardinality(StaleE(Index, store))
        /\ staleExpire = Cardinality(StaleX(Index, store))
    <3>1. store \in StoreType /\ IndexOK(Index, store)
      BY <1>1 DEF IInv, TypeOK, StoreType
    <3> QED BY <3>1, SizesType DEF Index
  <2>2. /\ StaleE(Index, store) = {t \in evictHeap : ~EvictCurrent(t)}
        /\ StaleX(Index, store) = {t \in expireHeap : ~ExpireCurrent(t)}
    BY DEF StaleE, StaleX, Index, EvictCur, ExpireCur, EvictCurrent, ExpireCurrent
  <2> QED BY <2>1, <2>2 DEF StaleCountsExact
<1> QED BY <1>1, Invariance, PTL

-----------------------------------------------------------------------------
(* The contract.                                                           *)

\* The entries a marker still resolves to.
LiveKeys == {k \in Stored : ~IsExpired(store[k])}

LEMMA HeldIsLive ==
  ASSUME TypeOK
  PROVE  /\ Contract!Live = LiveKeys
         /\ \A k \in LiveKeys : Held[k] = [created |-> store[k].created, expires |-> ExpirationTime(store[k])]
         /\ \A k \in Keys \ LiveKeys : Held[k] = NoEntry
<1>1. \A k \in LiveKeys : /\ k \in Stored /\ k \in Keys
                          /\ [created |-> store[k].created, expires |-> ExpirationTime(store[k])] # NoEntry
  <2> SUFFICES ASSUME NEW k \in LiveKeys
               PROVE  /\ k \in Stored /\ k \in Keys
                      /\ [created |-> store[k].created, expires |-> ExpirationTime(store[k])] # NoEntry
    OBVIOUS
  <2>1. k \in Keys /\ k \in Stored /\ store[k] \in Entry
    BY DEF LiveKeys, Stored, TypeOK
  <2>2. store[k].created \in Nat /\ ExpirationTime(store[k]) \in Nat
    BY <2>1 DEF Entry, ExpirationTime
  <2> QED BY <2>1, <2>2, SentinelAssumption
<1>2. /\ \A k \in LiveKeys : Held[k] = [created |-> store[k].created, expires |-> ExpirationTime(store[k])]
      /\ \A k \in Keys \ LiveKeys : Held[k] = NoEntry
  BY <1>1 DEF Held, LiveKeys
<1>3. Contract!Live = LiveKeys
  BY <1>1, <1>2 DEF Contract!Live, Contract!Holds
<1> QED BY <1>2, <1>3

(* The first loop deletes expired entries only.                            *)
LEMMA ExpiredKeysExpired ==
  ASSUME TypeOK, NEW ix, IndexOK(ix, store), NEW run \in SUBSET ExpiredTuples(ix)
  PROVE  \A k \in ExpiredKeys(run) : k \in Stored /\ IsExpired(store[k])
<1>1. run \in SUBSET ix.expire
  BY DEF ExpiredTuples
<1>2. \A k \in ExpiredKeys(run) : k \in Stored /\ ExpireTuple(k, store[k]) \in run
  BY <1>1, ExpiredKeysSize
<1> SUFFICES ASSUME NEW k \in ExpiredKeys(run)
             PROVE  k \in Stored /\ IsExpired(store[k])
  OBVIOUS
<1>3. store[k].created \in Nat /\ store[k].ttl \in Nat /\ now \in Nat
  BY <1>2, EntryType DEF TypeOK, StoreType, Stored, In
<1>4. store[k].created + store[k].ttl < now
  BY <1>2 DEF ExpiredTuples, ExpireTuple, ExpirationTime
<1> QED BY <1>2, <1>3, <1>4 DEF IsExpired

(* When it pops every expired tuple, it deletes every expired entry.       *)
LEMMA AllExpiredGone ==
  ASSUME TypeOK, NEW ix, IndexOK(ix, store), NEW run, ExpiredTuples(ix) \subseteq run,
         NEW k \in Stored, IsExpired(store[k])
  PROVE  k \in ExpiredKeys(run)
<1> DEFINE t == ExpireTuple(k, store[k])
<1>1. store[k].created \in Nat /\ store[k].ttl \in Nat /\ now \in Nat
  BY EntryType DEF TypeOK, StoreType, Stored, In
<1>2. t \in ix.expire
  BY DEF IndexOK, Complete, Stored, In
<1>3. t[1] = store[k].created + store[k].ttl /\ t[3] = k
  BY DEF ExpireTuple, ExpirationTime
<1>4. ExpireCurrent(t)
  BY <1>3 DEF ExpireCurrent, Stored
<1> HIDE DEF t
<1>5. t \in run
  BY <1>1, <1>2, <1>3 DEF ExpiredTuples, IsExpired
<1> QED BY <1>3, <1>4, <1>5 DEF ExpiredKeys

(* The second loop deletes the oldest of what the first one left, and one  *)
(* room at most: before its last pop there was none.                       *)
LEMMA OldestVictims ==
  ASSUME TypeOK, NEW gone \in SUBSET Stored, NEW ix, IndexOK(ix, Minus(store, gone)),
         NEW V, V = OldestKeys(OldestRun(ix, gone), gone)
  PROVE  /\ V \in SUBSET (Stored \ gone)
         /\ V # {} => Cardinality(Stored \ gone) - Cardinality(V) >= MaxEntries - 1
         /\ \A v \in V, s \in (Stored \ gone) \ V : store[v].created < store[s].created
<1> DEFINE old == OldestRun(ix, gone)
           L == Stored \ gone
           tuple(k) == <<store[k].created, store[k].created, k>>
<1>1. /\ Ordered(Aged(ix)) /\ old \in Runs(Aged(ix)) /\ old \in SUBSET Aged(ix)
      /\ \A r \in Runs(Aged(ix)) : RoomAfter(gone \cup OldestKeys(r, gone)) => old \subseteq r
  BY OldestRunOK
<1>2. store \in StoreType /\ Stored = In(store)
  BY DEF TypeOK, StoreType, Stored, In
<1>3. IsFiniteSet(L)
  <2>1. Minus(store, gone) \in StoreType /\ In(Minus(store, gone)) = L
    BY <1>2, MinusType
  <2> QED BY <2>1, SizesType
<1> HIDE DEF old
<1>4. ASSUME NEW r \in SUBSET Aged(ix)
      PROVE  /\ OldestKeys(r, gone) \in SUBSET L /\ IsFiniteSet(OldestKeys(r, gone))
             /\ Cardinality(OldestKeys(r, gone)) \in Nat
             /\ \A k \in L : k \in OldestKeys(r, gone) <=> tuple(k) \in r
  BY OldestKeysSize
<1>5. /\ V \in SUBSET L /\ IsFiniteSet(V) /\ Cardinality(V) \in Nat
      /\ \A k \in L : k \in V <=> tuple(k) \in old
  BY <1>1, <1>4 DEF old
<1>6. ASSUME V # {}
      PROVE  Cardinality(L) - Cardinality(V) >= MaxEntries - 1
  <2>1. old # {}
    BY <1>5, <1>6
  <2>2. PICK q \in Runs(Aged(ix)), u \in old : q = old \ {u}
    BY <1>1, <2>1, RunBefore
  <2> DEFINE W == OldestKeys(q, gone)
  <2>3. ~RoomAfter(gone \cup W)
    BY <1>1, <2>2
  <2>4. q \in SUBSET Aged(ix)
    BY <1>1, <2>2
  <2>5. /\ W \in SUBSET L /\ IsFiniteSet(W) /\ Cardinality(W) \in Nat
        /\ \A k \in L : k \in W <=> tuple(k) \in q
    BY <1>4, <2>4
  <2> HIDE DEF W
  <2>6. V \in SUBSET (W \cup {u[3]})
    <3> SUFFICES ASSUME NEW v \in V, v \notin W
                 PROVE  v = u[3]
      OBVIOUS
    <3>1. tuple(v) \in old /\ tuple(v) \notin q
      BY <1>5, <2>5
    <3>2. tuple(v) = u /\ tuple(v)[3] = v
      BY <2>2, <3>1
    <3> QED BY <3>2
  <2>7. Cardinality(V) <= Cardinality(W) + 1
    <3>1. IsFiniteSet(W \cup {u[3]}) /\ Cardinality(W \cup {u[3]}) <= Cardinality(W) + 1
      BY <2>5, FS_AddElement
    <3>2. Cardinality(V) <= Cardinality(W \cup {u[3]}) /\ Cardinality(W \cup {u[3]}) \in Nat
      BY <2>6, <3>1, FS_Subset, FS_CardinalityType
    <3> QED BY <1>5, <2>5, <3>1, <3>2
  <2>8. Stored \ (gone \cup W) = L \ W
    OBVIOUS
  <2>9. Cardinality(L \ W) = Cardinality(L) - Cardinality(W) /\ Cardinality(L) \in Nat
    BY <1>3, <2>5, SplitSize
  <2>10. Cardinality(L) - Cardinality(W) >= MaxEntries /\ MaxEntries \in Nat
    <3>1. ~(Cardinality(L \ W) < MaxEntries)
      BY <2>3, <2>8, Zenon DEF RoomAfter
    <3> HIDE DEF L
    <3> QED BY <2>5, <2>9, <3>1, BoundsAssumption
  <2> HIDE DEF L
  <2> QED BY <1>5, <2>5, <2>7, <2>9, <2>10
<1>7. ASSUME NEW v \in V, NEW s \in L \ V
      PROVE  store[v].created < store[s].created
  <2>1. v \in L /\ s \in L /\ tuple(v) \in old /\ tuple(s) \notin old
    BY <1>5
  <2>2. store[v].created \in Nat /\ store[s].created \in Nat
    BY <1>2, <2>1, EntryType
  <2>3. tuple(s) \in Aged(ix)
    <3>1. Minus(store, gone)[s] = store[s] /\ s \in In(Minus(store, gone))
      BY <1>2, <2>1, MinusType
    <3>2. <<store[s].created, s>> \in ix.evict
      BY <3>1 DEF IndexOK, Complete, EvictTuple
    <3> QED BY <3>2 DEF Aged
  <2>4. Sooner(tuple(v), tuple(s))
    BY <1>1, <2>1, <2>3, SoonerOrder, RunIsDown
  <2> QED BY <2>2, <2>4 DEF Sooner
<1> QED BY <1>5, <1>6, <1>7

(* Of the live entries, _evict_if_needed deletes the oldest ones, and one  *)
(* room at most.                                                           *)
LEMMA EvictVictims ==
  ASSUME TypeOK, IndexOK(Index, store), NEW victims, victims = EvictIfNeeded.keys \cap LiveKeys
  PROVE  /\ victims # {} => Cardinality(LiveKeys) - Cardinality(victims) >= MaxEntries - 1
         /\ \A v \in victims, s \in LiveKeys \ victims : store[v].created < store[s].created
<1> DEFINE ix0  == FreshIndex
           run  == ExpiredRun(ix0)
           gone == ExpiredKeys(run)
           ix1  == AfterExpired(ix0, run)
           V    == OldestKeys(OldestRun(ix1, gone), gone)
<1>1. IndexOK(ix0, store)
  BY FreshIndexOK
<1> HIDE DEF ix0
<1>2. run \in SUBSET ExpiredTuples(ix0) /\ run \in SUBSET ix0.expire /\ StopsExpiring(ix0, run)
  BY <1>1, ExpiredRunOK
<1> HIDE DEF run
<1>3. gone \in SUBSET Stored /\ IndexOK(ix1, Minus(store, gone))
  BY <1>1, <1>2, ExpiredKeysSize, AfterExpiredOK
<1>4. \A k \in gone : k \in Stored /\ IsExpired(store[k])
  BY <1>1, <1>2, ExpiredKeysExpired
<1>5. /\ V \in SUBSET (Stored \ gone)
      /\ V # {} => Cardinality(Stored \ gone) - Cardinality(V) >= MaxEntries - 1
      /\ \A v \in V, s \in (Stored \ gone) \ V : store[v].created < store[s].created
  <2> HIDE DEF gone, ix1
  <2>1. V = OldestKeys(OldestRun(ix1, gone), gone)
    OBVIOUS
  <2> HIDE DEF V
  <2> QED BY <1>3, <2>1, OldestVictims
<1>6. CASE ~AtCapacity \/ RoomAfter(gone) \/ GivesUp(ix0, run)
  <2>1. EvictIfNeeded.keys = gone
    BY <1>6 DEF EvictIfNeeded, ix0, run
  <2>2. victims = {}
    BY <1>4, <2>1 DEF LiveKeys
  <2> QED BY <2>2
<1>7. CASE ~(~AtCapacity \/ RoomAfter(gone) \/ GivesUp(ix0, run))
  <2>1. EvictIfNeeded.keys = gone \cup V
    BY <1>7 DEF EvictIfNeeded, ix0, run
  <2>2. ExpiredTuples(ix0) \subseteq run
    BY <1>2, <1>7 DEF StopsExpiring
  <2>3. Stored \ gone = LiveKeys
    BY <1>1, <1>4, <2>2, AllExpiredGone DEF LiveKeys
  <2> HIDE DEF gone, V
  <2>4. victims = V
    BY <1>5, <2>1, <2>3
  <2> QED BY <1>5, <2>3, <2>4
<1> QED BY <1>6, <1>7

(* The contract's module counts as this one does.                          *)
LEMMA ContractCounts ==
  ASSUME NEW S
  PROVE  Contract!Cardinality(S) = Cardinality(S)
BY DEF Contract!Cardinality, Contract!IsFiniteSet, Cardinality, IsFiniteSet

LEMMA HeldSame ==
  ASSUME NEW k \in Keys, store'[k] = store[k], now' = now
  PROVE  Held'[k] = Held[k]
BY DEF Held, Stored, IsExpired, ExpirationTime

LEMMA HeldNext ==
  ASSUME NEW k \in Keys, NEW e, store'[k] = e, e # NoEntry
  PROVE  Held'[k] = IF now' - e.created > e.ttl THEN NoEntry
                    ELSE [created |-> e.created, expires |-> e.created + e.ttl]
<1>1. k \in Stored'
  BY DEF Stored
<1>2. Held'[k] = IF IsExpired(store[k])' THEN NoEntry
                 ELSE [created |-> store'[k].created, expires |-> ExpirationTime(store'[k])]
  BY <1>1 DEF Held
<1> QED BY <1>2, Zenon DEF IsExpired, ExpirationTime

LEMMA HeldNothing ==
  ASSUME NEW k \in Keys
  PROVE  /\ store[k] = NoEntry => Held[k] = NoEntry
         /\ store'[k] = NoEntry => Held'[k] = NoEntry
BY DEF Held, Stored

LEMMA HeldFunction ==
  ASSUME NEW f, f = [k \in Keys |-> Held'[k]]
  PROVE  Held' = f
BY DEF Held

(* An insertion keeps the contract: the victims are what                   *)
(* _evict_if_needed deletes of the live entries.                           *)
LEMMA InsertKeeps ==
  ASSUME TypeOK, IndexOK(Index, store), NEW k \in Keys, NEW e \in Entry,
         store' = Insert(k, e).st, now' = now
  PROVE  \E victims \in SUBSET (Contract!Live \ {k}) : Contract!Keep(k, Held'[k], victims)
<1>1. Contract!Live = LiveKeys /\ LiveKeys \subseteq Stored /\ Stored \subseteq Keys
  BY HeldIsLive DEF LiveKeys, Stored
<1>2. CASE k \in Stored
  <2>1. \A j \in Keys \ {k} : store'[j] = store[j]
    <3> DEFINE st == [store EXCEPT ![k] = e]
               ix == RebuildIfNeeded(Push(MarkStale(Index), k, e), st)
    <3>1. Insert(k, e) = [st |-> st, ix |-> ix]
      BY <1>2 DEF Insert
    <3> HIDE DEF ix
    <3> QED BY <3>1 DEF TypeOK
  <2>2. \A j \in Keys \ {k} : Held'[j] = Held[j]
    BY <2>1, HeldSame
  <2>3. Held' = [j \in Keys |-> IF j = k THEN Held'[k] ELSE IF j \in {} THEN NoEntry ELSE Held[j]]
    <3> DEFINE f == [j \in Keys |-> IF j = k THEN Held'[k] ELSE IF j \in {} THEN NoEntry ELSE Held[j]]
    <3>1. f = [j \in Keys |-> Held'[j]]
      BY <2>2
    <3> HIDE DEF f
    <3>2. Held' = f
      BY <3>1, HeldFunction
    <3> QED BY <3>2 DEF f
  <2>4. Contract!Keep(k, Held'[k], {})
    BY <2>3 DEF Contract!Keep
  <2> QED BY <2>4
<1>3. CASE k \notin Stored
  <2> DEFINE keys == EvictIfNeeded.keys
             victims == keys \cap LiveKeys
  <2>1. /\ victims # {} => Cardinality(LiveKeys) - Cardinality(victims) >= MaxEntries - 1
        /\ \A v \in victims, s \in LiveKeys \ victims : store[v].created < store[s].created
    BY EvictVictims
  <2>2. \A j \in Keys \ {k} : store'[j] = IF j \in keys THEN NoEntry ELSE store[j]
    <3> DEFINE st == [j \in Keys |-> IF j = k THEN e ELSE IF j \in keys THEN NoEntry ELSE store[j]]
               ix == Push(EvictIfNeeded.ix, k, e)
    <3>1. Insert(k, e) = [st |-> st, ix |-> ix]
      BY <1>3 DEF Insert
    <3> HIDE DEF ix, keys
    <3> QED BY <3>1
  <2> HIDE DEF keys
  <2>3. ASSUME NEW j \in Keys \ {k}
        PROVE  Held'[j] = IF j \in victims THEN NoEntry ELSE Held[j]
    <3>1. CASE j \in keys
      <4>1. Held'[j] = NoEntry
        BY <2>2, <3>1, HeldNothing
      <4>2. j \notin victims => Held[j] = NoEntry
        BY <3>1, HeldIsLive
      <4> QED BY <4>1, <4>2
    <3>2. CASE j \notin keys
      BY <2>2, <3>2, HeldSame
    <3> QED BY <3>1, <3>2
  <2>4. Held' = [j \in Keys |-> IF j = k THEN Held'[k] ELSE IF j \in victims THEN NoEntry ELSE Held[j]]
    <3> HIDE DEF victims
    <3> DEFINE f == [j \in Keys |-> IF j = k THEN Held'[k] ELSE IF j \in victims THEN NoEntry ELSE Held[j]]
    <3>1. f = [j \in Keys |-> Held'[j]]
      BY <2>3
    <3> HIDE DEF f
    <3>2. Held' = f
      BY <3>1, HeldFunction
    <3> QED BY <3>2 DEF f
  <2>5. victims \in SUBSET (LiveKeys \ {k}) /\ ~Contract!Holds(k)
    BY <1>1, <1>3, HeldIsLive DEF Contract!Holds
  <2>6. \A v \in victims, s \in LiveKeys \ victims : Held[v].created < Held[s].created
    <3> SUFFICES ASSUME NEW v \in victims, NEW s \in LiveKeys \ victims
                 PROVE  Held[v].created < Held[s].created
      OBVIOUS
    <3>1. v \in LiveKeys /\ s \in LiveKeys
      BY <2>5
    <3>2. /\ Held[v] = [created |-> store[v].created, expires |-> ExpirationTime(store[v])]
          /\ Held[s] = [created |-> store[s].created, expires |-> ExpirationTime(store[s])]
      BY <3>1, HeldIsLive, Zenon
    <3>3. Held[v].created = store[v].created /\ Held[s].created = store[s].created
      BY <3>2
    <3> QED BY <2>1, <3>3
  <2> HIDE DEF victims
  <2>7. Contract!Keep(k, Held'[k], victims)
    <3>1. victims # {} => Contract!Cardinality(LiveKeys) - Contract!Cardinality(victims) >= MaxEntries - 1
      BY <2>1, ContractCounts
    <3> QED BY <1>1, <2>4, <2>5, <2>6, <3>1, Zenon DEF Contract!Keep
  <2> QED BY <1>1, <2>5, <2>7
<1> QED BY <1>2, <1>3

(* Expired entries may leave at any time: nobody sees it.                  *)
LEMMA HeldKept ==
  ASSUME TypeOK, NEW D \in SUBSET Stored, \A k \in D : IsExpired(store[k]),
         store' = Minus(store, D), now' = now
  PROVE  Held' = Held
<1>1. ASSUME NEW k \in Keys
      PROVE  Held'[k] = Held[k]
  <2>1. CASE k \in D
    <3>1. store'[k] = NoEntry
      BY <2>1 DEF Minus
    <3>2. k \notin LiveKeys
      BY <2>1 DEF LiveKeys
    <3> QED BY <3>1, <3>2, HeldNothing, HeldIsLive
  <2>2. CASE k \notin D
    BY <2>2, HeldSame DEF Minus
  <2> QED BY <2>1, <2>2
<1>2. Held = [k \in Keys |-> Held'[k]]
  <2>1. Held = [k \in Keys |-> Held[k]]
    BY DEF Held
  <2> QED BY <1>1, <2>1
<1> QED BY <1>2, HeldFunction

LEMMA HeldEmpty ==
  ASSUME store' = [k \in Keys |-> NoEntry]
  PROVE  Held' = [k \in Keys |-> NoEntry]
<1>1. [k \in Keys |-> NoEntry] = [k \in Keys |-> Held'[k]]
  BY HeldNothing
<1> QED BY <1>1, HeldFunction

LEMMA CommitStoreKeeps ==
  ASSUME IInv, NEW t \in Threads, CommitStore(t)
  PROVE  Contract!Next
<1> DEFINE p == pending[t]
           e == [created |-> p.created, ttl |-> p.ttl]
<1>1. p.key \in Keys /\ e \in Entry
  BY DEF CommitStore, IInv, TypeOK, Stamped, Entry
<1>2. store' = Insert(p.key, e).st /\ now' = now /\ saved' = saved
  BY DEF CommitStore
<1> HIDE DEF e
<1>3. \E victims \in SUBSET (Contract!Live \ {p.key}) : Contract!Keep(p.key, Held'[p.key], victims)
  BY <1>1, <1>2, InsertKeeps DEF IInv
<1>4. Contract!Put(p.key)
  BY <1>2, <1>3, Zenon DEF Contract!Put
<1> QED BY <1>1, <1>4 DEF Contract!Next

LEMMA ImportEntryKeeps ==
  ASSUME IInv, NEW k \in Keys, ImportEntry(k)
  PROVE  Contract!Next
<1>1. /\ saved[k] # NoEntry /\ saved' = [saved EXCEPT ![k] = NoEntry] /\ now' = now
      /\ now \in Nat /\ saved[k] \in Nat /\ store[k] = NoEntry
  BY DEF ImportEntry, IInv, TypeOK, Importing, Serving
<1>2. CASE saved[k] - now <= 0
  <2>1. store' = store /\ saved[k] <= now
    BY <1>1, <1>2 DEF ImportEntry
  <2>2. Held' = Held
    BY <1>1, <2>1 DEF Held, Stored, IsExpired, ExpirationTime
  <2>3. Contract!GiveUp(k)
    BY <1>1, <2>1, <2>2 DEF Contract!GiveUp
  <2> QED BY <2>3 DEF Contract!Next
<1>3. CASE ~(saved[k] - now <= 0)
  <2> DEFINE e == [created |-> now, ttl |-> saved[k] - now]
  <2>1. e \in Entry /\ e # NoEntry
    BY <1>1, <1>3, SentinelAssumption DEF Entry
  <2>2. store' = Insert(k, e).st
    BY <1>1, <1>3 DEF ImportEntry, Stored
  <2>3. store'[k] = e
    <3> DEFINE st == [j \in Keys |-> IF j = k THEN e ELSE IF j \in EvictIfNeeded.keys THEN NoEntry ELSE store[j]]
               ix == Push(EvictIfNeeded.ix, k, e)
    <3>1. Insert(k, e) = [st |-> st, ix |-> ix]
      BY <1>1 DEF Insert, Stored
    <3>2. st[k] = e
      OBVIOUS
    <3> HIDE DEF ix, st
    <3> QED BY <2>2, <3>1, <3>2
  <2>4. Held'[k] = [created |-> now, expires |-> saved[k]]
    <3>1. e.created = now /\ e.ttl = saved[k] - now /\ e.created + e.ttl = saved[k] /\ ~(now - e.created > e.ttl)
      BY <1>1, <1>3
    <3> HIDE DEF e
    <3>2. Held'[k] = IF now' - e.created > e.ttl THEN NoEntry
                     ELSE [created |-> e.created, expires |-> e.created + e.ttl]
      BY <2>1, <2>3, HeldNext
    <3> QED BY <1>1, <3>1, <3>2
  <2> HIDE DEF e
  <2>5. \E victims \in SUBSET (Contract!Live \ {k}) : Contract!Keep(k, Held'[k], victims)
    BY <1>1, <2>1, <2>2, InsertKeeps DEF IInv
  <2>6. Contract!Restore(k)
    BY <1>1, <2>4, <2>5, Zenon DEF Contract!Restore
  <2> QED BY <2>6 DEF Contract!Next
<1> QED BY <1>2, <1>3

LEMMA TickKeeps ==
  ASSUME IInv, Tick
  PROVE  Contract!Next
<1>1. now' = now + 1 /\ store' = store /\ saved' = saved /\ TypeOK
  BY DEF Tick, IInv
<1> DEFINE f == [k \in Keys |->
                   IF k \in Contract!Live /\ Held[k].expires >= now' THEN Held[k] ELSE NoEntry]
<1>2. ASSUME NEW k \in Keys
      PROVE  Held'[k] = f[k]
  <2>1. CASE k \in LiveKeys
    <3>1. k \in Contract!Live /\ k \in Stored /\ ~IsExpired(store[k])
      BY <1>1, <2>1, HeldIsLive DEF LiveKeys
    <3>2. Held[k] = [created |-> store[k].created, expires |-> ExpirationTime(store[k])]
      BY <1>1, <2>1, HeldIsLive, Zenon
    <3>3. store[k].created \in Nat /\ store[k].ttl \in Nat /\ now \in Nat
      BY <1>1, <3>1, EntryType DEF TypeOK, StoreType, Stored, In
    <3>4. k \in Stored' /\ store'[k] = store[k]
      BY <1>1, <3>1 DEF Stored
    <3>5. Held'[k] = IF now + 1 - store[k].created > store[k].ttl THEN NoEntry
                     ELSE [created |-> store[k].created, expires |-> store[k].created + store[k].ttl]
      <4>1. store[k] # NoEntry
        BY <3>1 DEF Stored
      <4>2. now' = now + 1 /\ store'[k] = store[k]
        BY <1>1
      <4> HIDE DEF f
      <4> QED BY <3>3, <4>1, <4>2, HeldNext
    <3>6. f[k] = IF store[k].created + store[k].ttl >= now + 1
                 THEN [created |-> store[k].created, expires |-> store[k].created + store[k].ttl]
                 ELSE NoEntry
      BY <1>1, <3>1, <3>2 DEF ExpirationTime
    <3>7. (now + 1 - store[k].created > store[k].ttl) <=> ~(store[k].created + store[k].ttl >= now + 1)
      BY <3>3
    <3> QED BY <3>5, <3>6, <3>7, Zenon
  <2>2. CASE k \notin LiveKeys
    <3>1. f[k] = NoEntry
      BY <1>1, <2>2, HeldIsLive
    <3>2. ASSUME k \in Stored
          PROVE  IsExpired(store[k])' /\ store'[k] = store[k]
      <4>1. store[k].created \in Nat /\ store[k].ttl \in Nat /\ now \in Nat
        BY <1>1, <3>2, EntryType DEF TypeOK, StoreType, Stored, In
      <4> QED BY <1>1, <2>2, <3>2, <4>1 DEF LiveKeys, IsExpired
    <3>3. Held'[k] = NoEntry
      BY <1>1, <3>2 DEF Held, Stored, IsExpired
    <3> QED BY <3>1, <3>3
  <2> QED BY <2>1, <2>2
<1>3. f = [k \in Keys |-> Held'[k]]
  BY <1>2
<1>4. Held' = f
  <2> HIDE DEF f
  <2> QED BY <1>3, HeldFunction
<1>5. Contract!Tick
  BY <1>1, <1>4 DEF Contract!Tick
<1> QED BY <1>5 DEF Contract!Next

LEMMA RestartKeeps ==
  ASSUME IInv, NEW names \in SUBSET Keys, Restart(names)
  PROVE  Contract!Next
<1>1. Held' = [k \in Keys |-> NoEntry] /\ now' = now /\ TypeOK
  BY HeldEmpty DEF Restart, IInv
<1>2. ASSUME NEW k \in Keys, saved'[k] # NoEntry
      PROVE  k \in Contract!Live /\ saved'[k] = Held[k].expires
  <2>1. k \in LiveKeys /\ saved'[k] = ExpirationTime(store[k])
    BY <1>2 DEF Restart, LiveKeys
  <2>2. Held[k] = [created |-> store[k].created, expires |-> ExpirationTime(store[k])]
    BY <1>1, <2>1, HeldIsLive, Zenon
  <2> QED BY <1>1, <2>1, <2>2, HeldIsLive
<1>3. Contract!Restart
  BY <1>1, <1>2 DEF Contract!Restart
<1> QED BY <1>3 DEF Contract!Next

LEMMA NobodySees ==
  ASSUME IInv, \/ \E k \in Keys : DropExpired(k)
               \/ GetStats
               \/ \E t \in Threads, k \in Keys, ttl \in Ttls : StampStore(t, k, ttl)
               \/ UNCHANGED vars
  PROVE  UNCHANGED Contract!vars
<1>1. TypeOK
  BY DEF IInv
<1>2. ASSUME NEW k \in Keys, DropExpired(k)
      PROVE  UNCHANGED <<now, Held, saved>>
  <2>1. /\ {k} \in SUBSET Stored /\ \A j \in {k} : IsExpired(store[j])
        /\ store' = Minus(store, {k}) /\ now' = now /\ saved' = saved
    BY <1>1, <1>2 DEF DropExpired, Minus, TypeOK
  <2> QED BY <1>1, <2>1, HeldKept
<1>3. ASSUME GetStats
      PROVE  UNCHANGED <<now, Held, saved>>
  <2> DEFINE D == {k \in Stored : IsExpired(store[k])}
  <2>1. /\ D \in SUBSET Stored /\ \A j \in D : IsExpired(store[j])
        /\ store' = Minus(store, D) /\ now' = now /\ saved' = saved
    BY <1>3 DEF GetStats, Minus
  <2> HIDE DEF D
  <2> QED BY <1>1, <2>1, HeldKept
<1>4. ASSUME UNCHANGED <<now, store, saved>>
      PROVE  UNCHANGED <<now, Held, saved>>
  BY <1>4 DEF Held, Stored, IsExpired, ExpirationTime
<1> QED BY <1>2, <1>3, <1>4 DEF StampStore, vars, Contract!vars

LEMMA ContractStep ==
  ASSUME IInv, [Next]_vars
  PROVE  [Contract!Next]_(Contract!vars)
<1>1. ASSUME NEW k \in Keys, Retrieve(k) \/ GetMetadata(k) \/ ExistsClean(k) \/ EntryStatusClean(k)
      PROVE  DropExpired(k)
  BY <1>1 DEF Retrieve, GetMetadata, ExistsClean, EntryStatusClean
<1>2. CASE Clear
  <2>1. Contract!Clear
    BY <1>2, HeldEmpty DEF Clear, Contract!Clear
  <2> QED BY <2>1 DEF Contract!Next
<1> QED BY <1>1, <1>2, CommitStoreKeeps, ImportEntryKeeps, TickKeeps, RestartKeeps, NobodySees DEF Next

(* The store implements its contract: whatever the heaps, counters and     *)
(* rebuilds do, and in whatever order the stamps of concurrent stores      *)
(* reach the lock, a live entry leaves only for the room of a new key, the *)
(* oldest first and one room at most, and a restart keeps expiries.        *)
THEOREM StoreImplementsContract == Spec => ImplementsContract
<1>1. Init => Contract!Init
  <2> SUFFICES ASSUME Init
               PROVE  Contract!Init
    OBVIOUS
  <2>1. Held = [k \in Keys |-> NoEntry]
    BY DEF Init, Held, Stored
  <2> QED BY <2>1 DEF Init, Contract!Init
<1>2. IInv /\ [Next]_vars => [Contract!Next]_(Contract!vars)
  BY ContractStep
<1> QED BY <1>1, <1>2, Invariance, PTL DEF Spec, ImplementsContract, Contract!Spec

=============================================================================
