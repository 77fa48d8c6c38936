------------------------- MODULE CompressTurnsProofs -------------------------
(***************************************************************************)
(* TLAPS proofs about the session turns of /v1/compress, for every number  *)
(* of calls, sessions and workers and every timeout, threshold and         *)
(* capacity.                                                               *)
(*                                                                         *)
(* That what was handed out is kept rests on one turn lock per session,    *)
(* and so on a hypothesis: the registry evicts no session while a turn of  *)
(* it waits to run (EvictsQueued).  The accounts of the executor do not.   *)
(***************************************************************************)
EXTENDS CompressTurns, FiniteSetTheorems, TLAPS

\* From the submit to the end of the worker.
InFlight == {"queued", "taken", "blocked", "working"}

\* The parts of TypeOK that need no accounting.
StateType ==
  /\ caller \in [Calls -> {"new", "waiting", "expired", "answered", "failed"}]
  /\ age \in [Calls -> 0 .. Timeout]
  /\ worker \in [Calls -> {"none", "queued", "taken", "blocked", "working", "done"}]
  /\ result \in [Calls -> {"none", "ok", "error"}]
  /\ blockedFor \in [Calls -> 0 .. LockTimeout]
  /\ queue \in Seq(Calls)
  /\ timedOut \subseteq Calls /\ owing \subseteq Calls
  /\ quarantine \in 0 .. QuarantineMax
  /\ caches \in [Sessions -> Calls \cup {None}]
  /\ newer \subseteq Sessions \X Sessions
  /\ got \in [Calls -> Calls \cup {None}]
  /\ holder \in [Calls -> Calls \cup {None}]
  /\ tracker \in [Sessions -> SUBSET Calls]
  /\ prev \in [Calls -> SUBSET Calls]

\* A call has no worker before it arrives, a result only from a worker that
\* ended, and an answer only from a result.
CallOrder ==
  \A c \in Calls :
    /\ caller[c] = "new" => worker[c] = "none"
    /\ result[c] # "none" => worker[c] = "done"
    /\ caller[c] = "answered" => result[c] = "ok"

\* The stragglers are the calls that owe.
Stragglers == {c \in timedOut : worker[c] \in {"blocked", "working"}}

Accounts ==
  /\ owing = Stragglers
  /\ debt = Cardinality(owing)
  /\ IsFiniteSet(Running) /\ Cardinality(Running) <= Workers

\* The inductive invariant of the executor.
PoolInv == StateType /\ CallOrder /\ Accounts

\* The calls of a session that are in flight have one cache, the session's.
OneCache ==
  \A c \in Calls :
    worker[c] \in InFlight => got[c] \in Calls /\ caches[SessionOf[c]] = got[c]

\* A working turn holds its cache's turn lock and has read what the tracker
\* still holds; what ended well is in the tracker.
TurnsSerial ==
  \A c \in Calls :
    /\ worker[c] = "working" => holder[got[c]] = c /\ tracker[SessionOf[c]] \subseteq prev[c]
    /\ result[c] = "ok" => c \in tracker[SessionOf[c]]

\* The inductive invariant of the turns.
TurnInv == PoolInv /\ OneCache /\ TurnsSerial

-----------------------------------------------------------------------------
(* The state outside the accounts.                                         *)

(* _get_compression_cache gives a call its session's cache, or a new one,  *)
(* and keeps or drops the caches of the other sessions.                    *)
LEMMA GetCacheEffect ==
  ASSUME StateType, NEW c \in Calls, NEW swept \in SUBSET Sweepable, GetCache(c, swept)
  PROVE  /\ caches' \in [Sessions -> Calls \cup {None}]
         /\ newer' \subseteq Sessions \X Sessions
         /\ got' \in [Calls -> Calls \cup {None}]
         /\ got'[c] \in Calls /\ caches'[SessionOf[c]] = got'[c]
         /\ \A d \in Calls \ {c} : got'[d] = got[d]
<1> DEFINE s == SessionOf[c]
           held == Held \ swept
           kept == held \ (Evicted(s, held) \cup {s})
           cache == IF s \in held THEN caches[s] ELSE c
<1>1. s \in Sessions
  BY SessionAssumption
<1>2. held \subseteq Sessions /\ kept \subseteq Sessions
  BY DEF Held
<1>3. cache \in Calls
  BY DEF StateType, Held
<1>4. /\ caches' = [r \in Sessions |-> IF r = s THEN cache ELSE IF r \in kept THEN caches[r] ELSE None]
      /\ newer' = {p \in newer : p[1] \in kept /\ p[2] \in kept} \cup {<<s, r>> : r \in kept}
      /\ got' = [got EXCEPT ![c] = cache]
  BY DEF GetCache
<1> HIDE DEF s, held, kept, cache
<1>5. caches' \in [Sessions -> Calls \cup {None}]
  BY <1>3, <1>4 DEF StateType
<1>6. newer' \subseteq Sessions \X Sessions
  BY <1>1, <1>2, <1>4 DEF StateType
<1>7. got' \in [Calls -> Calls \cup {None}] /\ got'[c] = cache /\ \A d \in Calls \ {c} : got'[d] = got[d]
  BY <1>3, <1>4 DEF StateType
<1>8. caches'[s] = cache
  BY <1>1, <1>4
<1> QED BY <1>3, <1>5, <1>6, <1>7, <1>8 DEF s

(* The finally block of _wrapped.                                          *)
LEMMA EndType ==
  ASSUME StateType, NEW c \in Calls, NEW v \in {"ok", "error"}, End(c, v),
         tracker' \in [Sessions -> SUBSET Calls],
         holder' \in [Calls -> Calls \cup {None}],
         UNCHANGED <<caller, age, queue, timedOut, quarantine, caches, newer>>
  PROVE  StateType'
<1>1. 0 \in 0 .. LockTimeout
  BY TimeAssumption
<1> QED BY <1>1 DEF StateType, End

(* Every step keeps the types.                                             *)
LEMMA StateTypeStep ==
  ASSUME StateType, [Next]_vars
  PROVE  StateType'
<1>0. /\ 0 \in 0 .. Timeout /\ 0 \in 0 .. LockTimeout
      /\ QuarantineMax \in 0 .. QuarantineMax /\ 0 \in 0 .. QuarantineMax
  BY TimeAssumption
<1>1. ASSUME NEW c \in Calls, Arrive(c)
      PROVE  StateType'
  <2>1. PICK swept \in SUBSET Sweepable : GetCache(c, swept)
    BY <1>1 DEF Arrive
  <2>2. /\ caches' \in [Sessions -> Calls \cup {None}]
        /\ newer' \subseteq Sessions \X Sessions
        /\ got' \in [Calls -> Calls \cup {None}]
    BY <2>1, GetCacheEffect
  <2>3. /\ caller' \in [Calls -> {"new", "waiting", "expired", "answered", "failed"}]
        /\ worker' \in [Calls -> {"none", "queued", "taken", "blocked", "working", "done"}]
    BY <1>1 DEF StateType, Arrive
  <2>4. queue' \in Seq(Calls)
    <3>1. queue \in Seq(Calls) /\ queue' \in {queue, Append(queue, c)}
      BY <1>1 DEF StateType, Arrive
    <3> QED BY <3>1
  <2>5. UNCHANGED <<age, result, blockedFor, timedOut, owing, quarantine, holder, tracker, prev>>
    BY <1>1 DEF Arrive
  <2> QED BY <2>2, <2>3, <2>4, <2>5 DEF StateType
<1>2. ASSUME NEW c \in Calls, HandlerStep(c)
      PROVE  StateType'
  <2>1. CASE Deliver(c)  BY <1>0, <2>1 DEF StateType, Deliver, pool, sessions
  <2>2. CASE Expire(c)  BY <1>0, <2>2 DEF StateType, Expire, pool, sessions
  <2>3. CASE Settle(c)  BY <1>0, <2>3 DEF StateType, Settle, RecordDebt, sessions
  <2> QED BY <1>2, <2>1, <2>2, <2>3 DEF HandlerStep
<1>3. ASSUME NEW c \in Calls, WorkerStep(c) \/ Finish(c) \/ Raise(c)
      PROVE  StateType'
  <2>0. SessionOf[c] \in Sessions /\ holder \in [Calls -> Calls \cup {None}]
    BY SessionAssumption DEF StateType
  <2>1. CASE Start(c)  BY <1>0, <2>1 DEF StateType, Start, RecordDebt, sessions
  <2>2. CASE Acquire(c)  BY <1>0, <2>0, <2>2 DEF StateType, Acquire, pool, sessions
  <2>3. CASE LockBusy(c)
    <3>1. /\ End(c, "error")
          /\ UNCHANGED <<caller, age, queue, timedOut, quarantine, caches, newer, holder, tracker>>
      BY <2>3 DEF LockBusy
    <3> QED BY <3>1, EndType DEF StateType
  <2>4. CASE Finish(c)
    <3>1. tracker' \in [Sessions -> SUBSET Calls]
      BY <2>0, <2>4 DEF StateType, Finish
    <3>2. holder' \in [Calls -> Calls \cup {None}]
      BY <2>4 DEF StateType, Finish
    <3> QED BY <2>4, <3>1, <3>2, EndType DEF Finish
  <2>5. CASE Raise(c)
    <3>1. tracker' \in [Sessions -> SUBSET Calls]
      BY <2>5 DEF StateType, Raise
    <3>2. holder' \in [Calls -> Calls \cup {None}]
      BY <2>5 DEF StateType, Raise
    <3> QED BY <2>5, <3>1, <3>2, EndType DEF Raise
  <2> QED BY <1>3, <2>1, <2>2, <2>3, <2>4, <2>5 DEF WorkerStep
<1>4. CASE Take
  BY <1>4 DEF StateType, Take, sessions
<1>5. CASE Tick
  <2>1. age' \in [Calls -> 0 .. Timeout]
    BY <1>5, TimeAssumption DEF StateType, Tick
  <2>2. blockedFor' \in [Calls -> 0 .. LockTimeout]
    BY <1>5, TimeAssumption DEF StateType, Tick
  <2>3. quarantine' \in 0 .. QuarantineMax
    BY <1>5, TimeAssumption DEF StateType, Tick
  <2> QED BY <1>5, <2>1, <2>2, <2>3 DEF StateType, Tick, sessions
<1>6. CASE UNCHANGED vars
  BY <1>6 DEF StateType, vars, pool, sessions
<1> QED BY <1>1, <1>2, <1>3, <1>4, <1>5, <1>6 DEF Next

(* A call goes from its arrival to its answer in one order.                *)
LEMMA CallOrderStep ==
  ASSUME StateType, CallOrder, [Next]_vars
  PROVE  CallOrder'
<1> USE DEF CallOrder, StateType
<1>1. ASSUME NEW c \in Calls, Arrive(c)
      PROVE  CallOrder'
  BY <1>1 DEF Arrive
<1>2. ASSUME NEW c \in Calls, HandlerStep(c)
      PROVE  CallOrder'
  <2>1. CASE Deliver(c)  BY <2>1 DEF Deliver
  <2>2. CASE Expire(c)  BY <2>2 DEF Expire
  <2>3. CASE Settle(c)  BY <2>3 DEF Settle
  <2> QED BY <1>2, <2>1, <2>2, <2>3 DEF HandlerStep
<1>3. ASSUME NEW c \in Calls, WorkerStep(c) \/ Finish(c) \/ Raise(c)
      PROVE  CallOrder'
  <2>1. CASE Start(c)  BY <2>1 DEF Start
  <2>2. CASE Acquire(c)  BY <2>2 DEF Acquire
  <2>3. CASE LockBusy(c)  BY <2>3 DEF LockBusy, End
  <2>4. CASE Finish(c)  BY <2>4 DEF Finish, End
  <2>5. CASE Raise(c)  BY <2>5 DEF Raise, End
  <2> QED BY <1>3, <2>1, <2>2, <2>3, <2>4, <2>5 DEF WorkerStep
<1>4. CASE Take
  <2>1. Head(queue) \in Calls
    BY <1>4 DEF Take
  <2> QED BY <1>4, <2>1 DEF Take
<1>5. CASE Tick
  BY <1>5 DEF Tick
<1>6. CASE UNCHANGED vars
  BY <1>6 DEF vars
<1> QED BY <1>1, <1>2, <1>3, <1>4, <1>5, <1>6 DEF Next

-----------------------------------------------------------------------------
(* The accounts.                                                           *)

(* A worker is taken only when one is free, and comes back once.           *)
LEMMA RunningMoves ==
  ASSUME StateType, CallOrder, [Next]_vars
  PROVE  \/ Running' = Running
         \/ \E c \in Calls : Running' = Running \cup {c} /\ Cardinality(Running) < Workers
         \/ \E c \in Calls : Running' = Running \ {c}
<1> USE DEF StateType, Running
<1>1. ASSUME NEW c \in Calls, Arrive(c)
      PROVE  Running' = Running
  BY <1>1 DEF Arrive, CallOrder
<1>2. ASSUME NEW c \in Calls, HandlerStep(c) \/ Start(c) \/ Acquire(c)
      PROVE  Running' = Running
  BY <1>2 DEF HandlerStep, Deliver, Expire, Settle, Start, Acquire
<1>3. ASSUME NEW c \in Calls, LockBusy(c) \/ Finish(c) \/ Raise(c)
      PROVE  Running' = Running \ {c}
  BY <1>3 DEF LockBusy, Finish, Raise, End
<1>4. ASSUME Take
      PROVE  \/ Running' = Running
             \/ Running' = Running \cup {Head(queue)} /\ Cardinality(Running) < Workers
  <2>1. Head(queue) \in Calls
    BY <1>4 DEF Take
  <2>2. /\ Cardinality(Running) < Workers
        /\ worker' = [worker EXCEPT ![Head(queue)] = IF @ = "queued" THEN "taken" ELSE @]
    BY <1>4 DEF Take
  <2>3. CASE worker[Head(queue)] = "queued"
    <3>1. Running' = Running \cup {Head(queue)}
      BY <2>1, <2>2, <2>3
    <3> QED BY <2>2, <3>1
  <2>4. CASE worker[Head(queue)] # "queued"
    BY <2>1, <2>2, <2>4
  <2> QED BY <2>3, <2>4
<1>5. Take => Head(queue) \in Calls
  BY DEF Take
<1>6. Tick \/ UNCHANGED vars => Running' = Running
  BY DEF Tick, vars
<1> QED BY <1>1, <1>2, <1>3, <1>4, <1>5, <1>6 DEF Next, WorkerStep

(* Debt is recorded for a call that owes nothing and paid by one that      *)
(* does, whichever of its deadline, its start and its end comes first.     *)
LEMMA DebtMoves ==
  ASSUME StateType, CallOrder, owing = Stragglers, [Next]_vars
  PROVE  /\ owing' = Stragglers'
         /\ \/ UNCHANGED <<owing, debt>>
            \/ \E c \in Calls : c \notin owing /\ owing' = owing \cup {c} /\ debt' = debt + 1
            \/ \E c \in owing : owing' = owing \ {c} /\ debt' = debt - 1
<1> USE DEF StateType, Stragglers
<1> DEFINE Moves == \/ UNCHANGED <<owing, debt>>
                    \/ \E c \in Calls : c \notin owing /\ owing' = owing \cup {c} /\ debt' = debt + 1
                    \/ \E c \in owing : owing' = owing \ {c} /\ debt' = debt - 1
<1>1. ASSUME NEW c \in Calls, Arrive(c)
      PROVE  owing' = Stragglers' /\ UNCHANGED <<owing, debt>>
  BY <1>1 DEF Arrive, CallOrder
<1>2. ASSUME NEW c \in Calls, Deliver(c) \/ Expire(c)
      PROVE  owing' = Stragglers' /\ UNCHANGED <<owing, debt>>
  BY <1>2 DEF Deliver, Expire, pool
<1>3. ASSUME NEW c \in Calls, Settle(c)
      PROVE  owing' = Stragglers' /\ Moves
  <2>1. UNCHANGED worker /\ timedOut' = timedOut \cup {c}
    BY <1>3 DEF Settle
  <2>2. CASE Straggles(c, timedOut')
    <3>1. c \notin owing /\ owing' = owing \cup {c} /\ debt' = debt + 1
      BY <1>3, <2>2 DEF Settle, RecordDebt, Straggles
    <3>2. worker[c] \in {"blocked", "working"}
      BY <2>2 DEF Straggles
    <3> QED BY <2>1, <3>1, <3>2
  <2>3. CASE ~Straggles(c, timedOut')
    <3>1. UNCHANGED <<owing, debt>>
      BY <1>3, <2>3 DEF Settle
    <3>2. worker[c] \notin {"blocked", "working"} \/ c \in owing
      BY <2>1, <2>3 DEF Straggles
    <3> QED BY <2>1, <3>1, <3>2
  <2> QED BY <2>2, <2>3
<1>4. ASSUME NEW c \in Calls, Start(c)
      PROVE  owing' = Stragglers' /\ Moves
  <2>1. /\ worker[c] = "taken" /\ UNCHANGED timedOut
        /\ worker' = [worker EXCEPT ![c] = "blocked"]
    BY <1>4 DEF Start
  <2>2. CASE c \in timedOut
    <3>1. c \notin owing /\ owing' = owing \cup {c} /\ debt' = debt + 1
      BY <1>4, <2>1, <2>2 DEF Start, RecordDebt
    <3> QED BY <2>1, <2>2, <3>1
  <2>3. CASE c \notin timedOut
    <3>1. UNCHANGED <<owing, debt>>
      BY <1>4, <2>3 DEF Start
    <3> QED BY <2>1, <2>3, <3>1
  <2> QED BY <2>2, <2>3
<1>5. ASSUME NEW c \in Calls, Acquire(c)
      PROVE  owing' = Stragglers' /\ UNCHANGED <<owing, debt>>
  BY <1>5 DEF Acquire, pool
<1>6. ASSUME NEW c \in Calls, LockBusy(c) \/ Finish(c) \/ Raise(c)
      PROVE  owing' = Stragglers' /\ Moves
  <2>1. /\ worker' = [worker EXCEPT ![c] = "done"] /\ UNCHANGED timedOut
        /\ owing' = owing \ {c}
        /\ debt' = IF c \in owing THEN debt - 1 ELSE debt
    BY <1>6 DEF LockBusy, Finish, Raise, End
  <2>2. owing' = Stragglers'
    BY <2>1
  <2>3. CASE c \in owing
    BY <2>1, <2>2, <2>3
  <2>4. CASE c \notin owing
    BY <2>1, <2>2, <2>4
  <2> QED BY <2>3, <2>4
<1>7. ASSUME Take
      PROVE  owing' = Stragglers' /\ UNCHANGED <<owing, debt>>
  <2>1. Head(queue) \in Calls
    BY <1>7 DEF Take
  <2> QED BY <1>7, <2>1 DEF Take
<1>8. Tick \/ UNCHANGED vars => owing' = Stragglers' /\ UNCHANGED <<owing, debt>>
  BY DEF Tick, vars, pool
<1> HIDE DEF Stragglers, StateType
<1> QED BY <1>1, <1>2, <1>3, <1>4, <1>5, <1>6, <1>7, <1>8 DEF Next, HandlerStep, WorkerStep

(* The workers that run are no more than the pool has.                     *)
LEMMA AccountsStep ==
  ASSUME StateType, CallOrder, Accounts, [Next]_vars
  PROVE  Accounts'
<1>1. owing = Stragglers /\ debt = Cardinality(owing)
  BY DEF Accounts
<1>2. IsFiniteSet(Running) /\ Cardinality(Running) \in Nat /\ Cardinality(Running) <= Workers
  BY FS_CardinalityType DEF Accounts
<1>3. IsFiniteSet(owing) /\ Cardinality(owing) \in Nat
  <2>1. owing \subseteq Running
    BY <1>1 DEF Stragglers, Running, StateType
  <2> QED BY <1>2, <2>1, FS_Subset, FS_CardinalityType
<1>4. IsFiniteSet(Running') /\ Cardinality(Running') <= Workers
  <2>1. CASE Running' = Running
    BY <1>2, <2>1
  <2>2. ASSUME NEW c \in Calls, Running' = Running \cup {c}, Cardinality(Running) < Workers
        PROVE  IsFiniteSet(Running') /\ Cardinality(Running') <= Workers
    BY <1>2, <2>2, FS_AddElement, PoolAssumption
  <2>3. ASSUME NEW c \in Calls, Running' = Running \ {c}
        PROVE  IsFiniteSet(Running') /\ Cardinality(Running') <= Workers
    BY <1>2, <2>3, FS_RemoveElement, PoolAssumption
  <2> QED BY <2>1, <2>2, <2>3, RunningMoves
<1>5. debt' = Cardinality(owing')
  <2>1. CASE UNCHANGED <<owing, debt>>
    BY <1>1, <2>1
  <2>2. ASSUME NEW c \in Calls, c \notin owing, owing' = owing \cup {c}, debt' = debt + 1
        PROVE  debt' = Cardinality(owing')
    BY <1>1, <1>3, <2>2, FS_AddElement
  <2>3. ASSUME NEW c \in owing, owing' = owing \ {c}, debt' = debt - 1
        PROVE  debt' = Cardinality(owing')
    BY <1>1, <1>3, <2>3, FS_RemoveElement
  <2> QED BY <1>1, <2>1, <2>2, <2>3, DebtMoves
<1>6. owing' = Stragglers'
  BY <1>1, DebtMoves
<1> QED BY <1>4, <1>5, <1>6 DEF Accounts

-----------------------------------------------------------------------------
(* The turns of a session.                                                 *)

(* The registry keeps the cache of a session with a turn in flight: the    *)
(* sweep and the eviction skip it for its lock or because it is waited for.*)
LEMMA BusyKept ==
  ASSUME ~EvictsQueued, TurnInv, NEW c \in Calls, NEW swept \in SUBSET Sweepable, GetCache(c, swept),
         NEW d \in Calls, worker[d] \in InFlight
  PROVE  caches'[SessionOf[d]] = caches[SessionOf[d]]
<1> DEFINE s == SessionOf[c]
           r == SessionOf[d]
           held == Held \ swept
           kept == held \ (Evicted(s, held) \cup {s})
<1>1. r \in Sessions /\ caches[r] \in Calls /\ caches[r] = got[d]
  BY SessionAssumption DEF TurnInv, OneCache
<1>2. ~(Unlocked(r) /\ ~Queued(r))
  <2>1. CASE worker[d] = "working"
    <3>1. holder[caches[r]] = d /\ d # None
      BY <1>1, <2>1, NoneAssumption DEF TurnInv, TurnsSerial
    <3> QED BY <3>1 DEF Unlocked
  <2>2. CASE worker[d] # "working"
    BY <2>2 DEF Queued, InFlight
  <2> QED BY <2>1, <2>2
<1>3. r \in held
  BY <1>1, <1>2, NoneAssumption DEF Held, Sweepable
<1>4. r \notin Evicted(s, held)
  BY <1>2 DEF Evicted
<1>5. caches' = [q \in Sessions |-> IF q = s THEN IF s \in held THEN caches[s] ELSE c
                                    ELSE IF q \in kept THEN caches[q] ELSE None]
  BY DEF GetCache
<1> HIDE DEF s, r, held
<1> QED BY <1>1, <1>3, <1>4, <1>5 DEF r

(* A call in flight keeps its cache, and its session too.                  *)
LEMMA OneCacheStep ==
  ASSUME ~EvictsQueued, TurnInv, [Next]_vars
  PROVE  OneCache'
<1> SUFFICES ASSUME NEW d \in Calls, worker'[d] \in InFlight
             PROVE  got'[d] \in Calls /\ caches'[SessionOf[d]] = got'[d]
  BY DEF OneCache
<1>0. worker[d] \in InFlight => got[d] \in Calls /\ caches[SessionOf[d]] = got[d]
  BY DEF TurnInv, OneCache
<1> USE DEF TurnInv, PoolInv, StateType
<1>1. ASSUME NEW c \in Calls, Arrive(c)
      PROVE  got'[d] \in Calls /\ caches'[SessionOf[d]] = got'[d]
  <2>1. PICK swept \in SUBSET Sweepable : GetCache(c, swept)
    BY <1>1 DEF Arrive
  <2>2. /\ got'[c] \in Calls /\ caches'[SessionOf[c]] = got'[c]
        /\ \A e \in Calls \ {c} : got'[e] = got[e]
    BY <2>1, GetCacheEffect
  <2>3. CASE d = c
    BY <2>2, <2>3
  <2>4. CASE d # c
    <3>1. worker[d] \in InFlight
      BY <1>1, <2>4 DEF Arrive
    <3>2. caches'[SessionOf[d]] = caches[SessionOf[d]]
      BY <2>1, <3>1, BusyKept
    <3> QED BY <1>0, <2>2, <2>4, <3>1, <3>2
  <2> QED BY <2>3, <2>4
<1>2. ASSUME NEW c \in Calls, HandlerStep(c) \/ Start(c) \/ Acquire(c)
      PROVE  worker[d] \in InFlight /\ UNCHANGED <<got, caches>>
  BY <1>2 DEF HandlerStep, Deliver, Expire, Settle, Start, Acquire, sessions, InFlight
<1>3. ASSUME NEW c \in Calls, LockBusy(c) \/ Finish(c) \/ Raise(c)
      PROVE  worker[d] \in InFlight /\ got'[d] = got[d] /\ UNCHANGED caches
  BY <1>3 DEF LockBusy, Finish, Raise, End, InFlight
<1>4. ASSUME Take
      PROVE  worker[d] \in InFlight /\ UNCHANGED <<got, caches>>
  <2>1. Head(queue) \in Calls
    BY <1>4 DEF Take
  <2> QED BY <1>4, <2>1 DEF Take, sessions, InFlight
<1>5. Tick \/ UNCHANGED vars => worker[d] \in InFlight /\ UNCHANGED <<got, caches>>
  BY DEF Tick, vars, sessions
<1> QED BY <1>0, <1>1, <1>2, <1>3, <1>4, <1>5 DEF Next, WorkerStep

(* Two turns of one session do not work at once, so what one of them       *)
(* records carries on what the tracker holds.                              *)
LEMMA TurnsSerialStep ==
  ASSUME TurnInv, [Next]_vars
  PROVE  TurnsSerial'
<1> DEFINE W(d) == worker[d] = "working" => holder[got[d]] = d /\ tracker[SessionOf[d]] \subseteq prev[d]
           K(d) == result[d] = "ok" => d \in tracker[SessionOf[d]]
<1> SUFFICES ASSUME NEW d \in Calls
             PROVE  W(d)' /\ K(d)'
  BY DEF TurnsSerial
<1> USE DEF TurnInv, PoolInv, StateType
<1>0. W(d) /\ K(d) /\ SessionOf[d] \in Sessions
  BY SessionAssumption DEF TurnsSerial
<1>1. ASSUME NEW c \in Calls, Arrive(c)
      PROVE  W(d)' /\ K(d)'
  <2>1. got'[d] = got[d] \/ d = c
    BY <1>1, GetCacheEffect DEF Arrive
  <2>2. worker[c] = "none" /\ worker'[c] # "working"
    BY <1>1 DEF Arrive, CallOrder
  <2> QED BY <1>0, <1>1, <2>1, <2>2 DEF Arrive
<1>2. ASSUME NEW c \in Calls, HandlerStep(c) \/ Start(c)
      PROVE  W(d)' /\ K(d)'
  BY <1>0, <1>2 DEF HandlerStep, Deliver, Expire, Settle, Start, sessions
<1>3. ASSUME NEW c \in Calls, Acquire(c)
      PROVE  W(d)' /\ K(d)'
  <2>1. /\ worker[c] = "blocked" /\ holder[got[c]] = None
        /\ worker' = [worker EXCEPT ![c] = "working"]
        /\ holder' = [holder EXCEPT ![got[c]] = c]
        /\ prev' = [prev EXCEPT ![c] = tracker[SessionOf[c]]]
        /\ UNCHANGED <<result, got, tracker>>
    BY <1>3 DEF Acquire, sessions
  <2>2. got[c] \in Calls
    BY <2>1 DEF OneCache, InFlight
  <2>3. CASE d = c
    BY <1>0, <2>1, <2>2, <2>3
  <2>4. CASE d # c
    <3>1. worker[d] = "working" => got[d] # got[c]
      BY <1>0, <2>1, NoneAssumption
    <3> QED BY <1>0, <2>1, <2>2, <2>4, <3>1
  <2> QED BY <2>3, <2>4
<1>4. ASSUME NEW c \in Calls, LockBusy(c)
      PROVE  W(d)' /\ K(d)'
  BY <1>0, <1>4 DEF LockBusy, End
<1>5. ASSUME NEW c \in Calls, Finish(c) \/ Raise(c)
      PROVE  W(d)' /\ K(d)'
  <2>1. /\ worker[c] = "working" /\ worker' = [worker EXCEPT ![c] = "done"]
        /\ holder' = [holder EXCEPT ![got[c]] = None]
        /\ got' = [got EXCEPT ![c] = None]
        /\ prev' = [prev EXCEPT ![c] = {}]
    BY <1>5 DEF Finish, Raise, End
  <2>2. /\ holder[got[c]] = c /\ tracker[SessionOf[c]] \subseteq prev[c]
        /\ got[c] \in Calls /\ caches[SessionOf[c]] = got[c] /\ SessionOf[c] \in Sessions
    BY <2>1, SessionAssumption DEF TurnsSerial, OneCache, InFlight
  <2>3. worker[d] = "working" /\ d # c => got[d] # got[c] /\ SessionOf[d] # SessionOf[c]
    BY <1>0, <2>2 DEF OneCache, InFlight
  <2>4. CASE Finish(c)
    <3>1. /\ tracker' = [tracker EXCEPT ![SessionOf[c]] = prev[c] \cup {c}]
          /\ result' = [result EXCEPT ![c] = "ok"]
      BY <2>4 DEF Finish, End
    <3>2. W(d)'
      BY <1>0, <2>1, <2>2, <2>3, <3>1
    <3>3. K(d)'
      BY <1>0, <2>2, <3>1
    <3> QED BY <3>2, <3>3
  <2>5. CASE Raise(c)
    <3>1. UNCHANGED tracker /\ result' = [result EXCEPT ![c] = "error"]
      BY <2>5 DEF Raise, End
    <3>2. W(d)'
      BY <1>0, <2>1, <2>2, <2>3, <3>1
    <3>3. K(d)'
      BY <1>0, <3>1
    <3> QED BY <3>2, <3>3
  <2> QED BY <1>5, <2>4, <2>5
<1>6. ASSUME Take
      PROVE  W(d)' /\ K(d)'
  <2>1. Head(queue) \in Calls
    BY <1>6 DEF Take
  <2> QED BY <1>0, <1>6, <2>1 DEF Take, sessions
<1>7. Tick \/ UNCHANGED vars => W(d)' /\ K(d)'
  BY <1>0 DEF Tick, vars, sessions
<1> HIDE DEF W, K
<1> QED BY <1>1, <1>2, <1>3, <1>4, <1>5, <1>6, <1>7 DEF Next, WorkerStep

-----------------------------------------------------------------------------
(* The theorems.                                                           *)

(* Nothing has arrived, and nobody owes.                                   *)
LEMMA InitOK ==
  ASSUME Init
  PROVE  TurnInv
<1>1. StateType
  BY TimeAssumption DEF Init, StateType
<1>2. CallOrder /\ OneCache /\ TurnsSerial
  BY DEF Init, CallOrder, OneCache, TurnsSerial, InFlight
<1>3. Accounts
  <2>1. owing = {} /\ Stragglers = {} /\ Running = {} /\ debt = 0
    BY DEF Init, Stragglers, Running
  <2>2. IsFiniteSet({}) /\ Cardinality({}) = 0 /\ 0 <= Workers
    BY FS_EmptySet, PoolAssumption
  <2> QED BY <2>1, <2>2 DEF Accounts
<1> QED BY <1>1, <1>2, <1>3 DEF TurnInv, PoolInv

(* The accounts hold whatever the registry evicts.                         *)
LEMMA PoolInvariance == Spec => []PoolInv
<1>1. Init => PoolInv
  BY InitOK DEF TurnInv
<1>2. PoolInv /\ [Next]_vars => PoolInv'
  BY StateTypeStep, CallOrderStep, AccountsStep DEF PoolInv
<1> QED BY <1>1, <1>2, PTL DEF Spec

(***************************************************************************)
(* Types: the debt is never negative and never more than the workers of    *)
(* the pool, so it can always be paid back (_run_compression_in_executor,  *)
(* the finally block of _wrapped).                                         *)
(***************************************************************************)
THEOREM TypeCorrect == Spec => []TypeOK
<1>1. ASSUME PoolInv
      PROVE  TypeOK
  <2>1. owing \subseteq Running
    BY <1>1 DEF PoolInv, Accounts, Stragglers, Running, StateType
  <2>2. Cardinality(owing) \in Nat /\ Cardinality(owing) <= Cardinality(Running)
    BY <1>1, <2>1, FS_Subset, FS_CardinalityType DEF PoolInv, Accounts
  <2>3. Cardinality(Running) \in Nat /\ Cardinality(Running) <= Workers
    BY <1>1, FS_CardinalityType DEF PoolInv, Accounts
  <2>4. debt \in 0 .. Workers
    BY <1>1, <2>2, <2>3, PoolAssumption DEF PoolInv, Accounts
  <2> QED BY <1>1, <2>4 DEF PoolInv, StateType, TypeOK
<1> QED BY <1>1, PoolInvariance, PTL

(***************************************************************************)
(* Timeout debt counts exactly the workers that run past their caller's    *)
(* deadline, in whatever order the deadline, the start and the end of a    *)
(* worker come (_record_timeout_debt_locked).                              *)
(***************************************************************************)
THEOREM DebtCountsStragglers == Spec => []DebtIsExact
<1>1. PoolInv => DebtIsExact
  BY DEF PoolInv, Accounts, Stragglers, DebtIsExact
<1> QED BY <1>1, PoolInvariance, PTL

(***************************************************************************)
(* What a caller was given stays in the tracker, if the registry evicts no *)
(* session that has a turn waiting to run: the turns of a session work one *)
(* at a time, each from what the last one recorded (session_turn_lock,     *)
(* record_returned, _get_compression_cache).                               *)
(***************************************************************************)
THEOREM HandedOutStays ==
  ASSUME ~EvictsQueued
  PROVE  Spec => []HandedOutIsKept
<1>1. Init => TurnInv
  BY InitOK
<1>2. TurnInv /\ [Next]_vars => TurnInv'
  <2> SUFFICES ASSUME TurnInv, [Next]_vars
               PROVE  TurnInv'
    OBVIOUS
  <2>1. PoolInv'
    BY StateTypeStep, CallOrderStep, AccountsStep DEF TurnInv, PoolInv
  <2> QED BY <2>1, OneCacheStep, TurnsSerialStep DEF TurnInv
<1>3. TurnInv => HandedOutIsKept
  BY DEF TurnInv, PoolInv, CallOrder, TurnsSerial, HandedOutIsKept
<1> QED BY <1>1, <1>2, <1>3, PTL DEF Spec

=============================================================================
