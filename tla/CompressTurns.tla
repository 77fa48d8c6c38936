---------------------------- MODULE CompressTurns ----------------------------
(***************************************************************************)
(* Session turns of /v1/compress on the bounded compression executor       *)
(* (upstream-python/headroom/proxy: server.py, handlers/openai.py).        *)
(*                                                                         *)
(* A handler on the event loop fetches its session's CompressionCache,     *)
(* which carries the session's turn lock, and submits the turn.  A worker  *)
(* thread takes the lock, reads what the tracker last returned, compresses,*)
(* records the result and releases.  A thread cannot be stopped: when the  *)
(* handler's deadline passes the caller gets a 503 and the worker, now a   *)
(* straggler, goes on, is counted as timeout debt, and may hang for ever.  *)
(* Enough debt refuses new work for a while (the quarantine).              *)
(*                                                                         *)
(* Handler steps run between two awaits of the event loop, worker steps    *)
(* between two lock operations.  What a turn returned is the set of turns  *)
(* whose bytes it carries on.                                              *)
(***************************************************************************)
EXTENDS Integers, Sequences, FiniteSets

CONSTANTS
  Calls,         \* compress calls
  Sessions,
  SessionOf,     \* call -> its session
  Workers,       \* compression_max_workers
  Threshold,     \* _compression_quarantine_threshold
  Timeout,       \* COMPRESSION_TIMEOUT_SECONDS, in ticks
  LockTimeout,   \* _SESSION_TURN_LOCK_TIMEOUT_SECONDS, in ticks
  QuarantineMax, \* _compression_quarantine_max_seconds, in ticks
  Cap,           \* MAX_COMPRESSION_CACHE_SESSIONS
  EvictsQueued,  \* may a session be the least recently used while a turn of it waits to run
  None

ASSUME SessionAssumption == SessionOf \in [Calls -> Sessions]
ASSUME PoolAssumption == Workers \in Nat \ {0} /\ Threshold \in Nat \ {0} /\ Cap \in Nat \ {0}
ASSUME TimeAssumption ==
  /\ Timeout \in Nat /\ LockTimeout \in Nat /\ QuarantineMax \in Nat
  /\ LockTimeout < Timeout
ASSUME NoneAssumption == None \notin Calls

VARIABLES
  caller,        \* the handler of each call
  age,           \* how long it has waited
  worker,        \* the executor's side of each call
  result,        \* what the worker's future holds
  blockedFor,    \* how long it has waited for the turn lock
  queue,         \* the executor's queue
  timedOut,      \* state["timed_out"]
  owing,         \* state["timeout_debt_recorded"]
  debt,          \* _compression_timed_out_in_flight
  quarantine,    \* ticks left until _compression_quarantine_deadline
  caches,        \* _compression_caches: session -> cache (the call that created it) or None
  newer,         \* its access order: <<r, q>> when session r was used after q
  got,           \* the cache each call works with
  holder,        \* cache -> the call that holds its session_turn_lock, or None
  tracker,       \* session -> the turns last returned
  prev           \* what each turn read of it

pool == <<queue, timedOut, owing, debt, quarantine>>
sessions == <<caches, newer, got>>
vars == <<caller, age, worker, result, blockedFor, pool, sessions, holder, tracker, prev>>

TypeOK ==
  /\ caller \in [Calls -> {"new", "waiting", "expired", "answered", "failed"}]
  /\ age \in [Calls -> 0 .. Timeout]
  /\ worker \in [Calls -> {"none", "queued", "taken", "blocked", "working", "done"}]
  /\ result \in [Calls -> {"none", "ok", "error"}]
  /\ blockedFor \in [Calls -> 0 .. LockTimeout]
  /\ queue \in Seq(Calls)
  /\ timedOut \subseteq Calls /\ owing \subseteq Calls
  /\ debt \in 0 .. Workers
  /\ quarantine \in 0 .. QuarantineMax
  /\ caches \in [Sessions -> Calls \cup {None}]
  /\ newer \subseteq Sessions \X Sessions
  /\ got \in [Calls -> Calls \cup {None}]
  /\ holder \in [Calls -> Calls \cup {None}]
  /\ tracker \in [Sessions -> SUBSET Calls]
  /\ prev \in [Calls -> SUBSET Calls]

Init ==
  /\ caller = [c \in Calls |-> "new"]
  /\ age = [c \in Calls |-> 0]
  /\ worker = [c \in Calls |-> "none"]
  /\ result = [c \in Calls |-> "none"]
  /\ blockedFor = [c \in Calls |-> 0]
  /\ queue = <<>>
  /\ timedOut = {} /\ owing = {}
  /\ debt = 0
  /\ quarantine = 0
  /\ caches = [s \in Sessions |-> None]
  /\ newer = {}
  /\ got = [c \in Calls |-> None]
  /\ holder = [c \in Calls |-> None]
  /\ tracker = [s \in Sessions |-> {}]
  /\ prev = [c \in Calls |-> {}]

-----------------------------------------------------------------------------
(* The cache registry.                                                     *)

Held == {s \in Sessions : caches[s] # None}

\* Mutant: a session with a turn in flight is evicted like any other.
UnlockedAny(s) == TRUE

\* session_turn_lock.locked() is false
Unlocked(s) == holder[caches[s]] = None

\* A turn of the session has its cache and has not come to the lock yet.
Queued(s) == \E c \in Calls : SessionOf[c] = s /\ worker[c] \in {"queued", "taken", "blocked"}

\* _maybe_cleanup_compression_caches: a TTL of an hour outlasts every queued turn.
Sweepable == {s \in Held : Unlocked(s) /\ ~Queued(s)}

\* The least recently used quarter that may go, when a new cache finds the registry full.
Evicted(s, held) ==
  LET candidates == {r \in held : Unlocked(r) /\ (EvictsQueued \/ ~Queued(r))}
      quarter == IF Cap \div 4 > 1 THEN Cap \div 4 ELSE 1
      older(r) == {q \in candidates : <<r, q>> \in newer}
  IN  IF s \in held \/ Cardinality(held) < Cap THEN {}
      ELSE {r \in candidates : Cardinality(older(r)) < quarter}

\* _get_compression_cache, for call c, when the sweep has taken some sessions.
GetCache(c, swept) ==
  LET s == SessionOf[c]
      held == Held \ swept
      kept == held \ (Evicted(s, held) \cup {s})
      cache == IF s \in held THEN caches[s] ELSE c
  IN  /\ caches' = [r \in Sessions |-> IF r = s THEN cache ELSE IF r \in kept THEN caches[r] ELSE None]
      /\ newer' = {p \in newer : p[1] \in kept /\ p[2] \in kept} \cup {<<s, r>> : r \in kept}
      /\ got' = [got EXCEPT ![c] = cache]

-----------------------------------------------------------------------------
(* The handler: _run_compression_in_executor on the event loop.            *)

\* Mutant: the quarantine lasts as long as the debt (#2360).
QuarantinedByDebt == debt >= Threshold

Quarantined == debt >= Threshold /\ quarantine > 0

\* The worker of a timed-out call still runs.
Straggles(c, late) == c \in late /\ worker[c] \in {"blocked", "working"} /\ c \notin owing

\* _record_timeout_debt_locked
RecordDebt(c) ==
  /\ owing' = owing \cup {c}
  /\ debt' = debt + 1
  /\ quarantine' = QuarantineMax

\* A session turn arrives: fetch its cache, and submit unless quarantined.
Arrive(c) ==
  /\ caller[c] = "new"
  /\ \E swept \in SUBSET Sweepable : GetCache(c, swept)
  /\ IF Quarantined
     THEN /\ caller' = [caller EXCEPT ![c] = "failed"]
          /\ UNCHANGED <<worker, queue>>
     ELSE /\ caller' = [caller EXCEPT ![c] = "waiting"]
          /\ worker' = [worker EXCEPT ![c] = "queued"]
          /\ queue' = Append(queue, c)
  /\ UNCHANGED <<age, result, blockedFor, timedOut, owing, debt, quarantine, holder, tracker, prev>>

\* The future's result reaches the handler: the answer, or a 503.
Deliver(c) ==
  /\ caller[c] = "waiting"
  /\ result[c] # "none"
  /\ caller' = [caller EXCEPT ![c] = IF result[c] = "ok" THEN "answered" ELSE "failed"]
  /\ age' = [age EXCEPT ![c] = 0]
  /\ UNCHANGED <<worker, result, blockedFor, pool, sessions, holder, tracker, prev>>

\* Mutant: the executor is awaited without a deadline.
ExpireNever(c) == FALSE /\ UNCHANGED vars

\* asyncio.wait_for gives up and cancels the future, which works while it is
\* queued (the executor's queue keeps the cancelled call) ...
Expire(c) ==
  /\ caller[c] = "waiting"
  /\ age[c] = Timeout
  /\ caller' = [caller EXCEPT ![c] = "expired"]
  /\ age' = [age EXCEPT ![c] = 0]
  /\ worker' = [worker EXCEPT ![c] = IF @ = "queued" THEN "done" ELSE @]
  /\ UNCHANGED <<result, blockedFor, pool, sessions, holder, tracker, prev>>

\* Mutant: the debt of a straggler is recorded whether or not its worker has finished.
SettleAlways(c) ==
  /\ caller[c] = "expired"
  /\ caller' = [caller EXCEPT ![c] = "failed"]
  /\ timedOut' = timedOut \cup {c}
  /\ RecordDebt(c)
  /\ UNCHANGED <<age, worker, result, blockedFor, queue, sessions, holder, tracker, prev>>

\* ... and the TimeoutError is accounted for and becomes a 503.
Settle(c) ==
  /\ caller[c] = "expired"
  /\ caller' = [caller EXCEPT ![c] = "failed"]
  /\ timedOut' = timedOut \cup {c}
  /\ IF Straggles(c, timedOut') THEN RecordDebt(c) ELSE UNCHANGED <<owing, debt, quarantine>>
  /\ UNCHANGED <<age, worker, result, blockedFor, queue, sessions, holder, tracker, prev>>

-----------------------------------------------------------------------------
(* The worker: _wrapped around _run_session_turn.                          *)

Running == {c \in Calls : worker[c] \in {"taken", "blocked", "working"}}

\* A free worker takes the next call, which can no longer be cancelled, or drops
\* one that was.
Take ==
  /\ queue # <<>>
  /\ Cardinality(Running) < Workers
  /\ worker' = [worker EXCEPT ![Head(queue)] = IF @ = "queued" THEN "taken" ELSE @]
  /\ queue' = Tail(queue)
  /\ UNCHANGED <<caller, age, result, blockedFor, timedOut, owing, debt, quarantine, sessions, holder, tracker, prev>>

\* The worker marks itself started, perhaps after its caller has timed out.
Start(c) ==
  /\ worker[c] = "taken"
  /\ worker' = [worker EXCEPT ![c] = "blocked"]
  /\ IF c \in timedOut THEN RecordDebt(c) ELSE UNCHANGED <<owing, debt, quarantine>>
  /\ UNCHANGED <<caller, age, result, blockedFor, queue, timedOut, sessions, holder, tracker, prev>>

Acquire(c) ==
  /\ worker[c] = "blocked"
  /\ holder[got[c]] = None
  /\ worker' = [worker EXCEPT ![c] = "working"]
  /\ holder' = [holder EXCEPT ![got[c]] = c]
  /\ prev' = [prev EXCEPT ![c] = tracker[SessionOf[c]]]
  /\ blockedFor' = [blockedFor EXCEPT ![c] = 0]
  /\ UNCHANGED <<caller, age, result, pool, sessions, tracker>>

\* Mutant: a straggler that ends leaves its debt standing.
EndKeepsDebt(c, value) ==
  /\ worker' = [worker EXCEPT ![c] = "done"]
  /\ result' = [result EXCEPT ![c] = value]
  /\ got' = [got EXCEPT ![c] = None]
  /\ prev' = [prev EXCEPT ![c] = {}]
  /\ blockedFor' = [blockedFor EXCEPT ![c] = 0]
  /\ UNCHANGED <<owing, debt>>

\* The finally block of _wrapped: the worker is free and owes nothing more.
End(c, value) ==
  /\ worker' = [worker EXCEPT ![c] = "done"]
  /\ result' = [result EXCEPT ![c] = value]
  /\ got' = [got EXCEPT ![c] = None]
  /\ prev' = [prev EXCEPT ![c] = {}]
  /\ blockedFor' = [blockedFor EXCEPT ![c] = 0]
  /\ owing' = owing \ {c}
  /\ debt' = IF c \in owing THEN debt - 1 ELSE debt

\* Mutant: the lock is waited for without a timeout.
LockBusyNever(c) == FALSE /\ UNCHANGED vars

\* The turn lock stays busy: a TimeoutError, which the caller sees as a 503.
LockBusy(c) ==
  /\ worker[c] = "blocked"
  /\ holder[got[c]] # None
  /\ blockedFor[c] = LockTimeout
  /\ End(c, "error")
  /\ UNCHANGED <<caller, age, queue, timedOut, quarantine, caches, newer, holder, tracker>>

\* update_from_result, record_returned, release.
Finish(c) ==
  /\ worker[c] = "working"
  /\ tracker' = [tracker EXCEPT ![SessionOf[c]] = prev[c] \cup {c}]
  /\ holder' = [holder EXCEPT ![got[c]] = None]
  /\ End(c, "ok")
  /\ UNCHANGED <<caller, age, queue, timedOut, quarantine, caches, newer>>

\* The pipeline raises: nothing is recorded.
Raise(c) ==
  /\ worker[c] = "working"
  /\ holder' = [holder EXCEPT ![got[c]] = None]
  /\ End(c, "error")
  /\ UNCHANGED <<caller, age, queue, timedOut, quarantine, caches, newer, tracker>>

\* Time passes for whoever waits.
Tick ==
  /\ age' = [c \in Calls |-> IF caller[c] = "waiting" /\ age[c] < Timeout THEN age[c] + 1 ELSE age[c]]
  /\ blockedFor' = [c \in Calls |-> IF worker[c] = "blocked" /\ blockedFor[c] < LockTimeout
                                    THEN blockedFor[c] + 1 ELSE blockedFor[c]]
  /\ quarantine' = IF quarantine > 0 THEN quarantine - 1 ELSE 0
  /\ UNCHANGED <<caller, worker, result, queue, timedOut, owing, debt, sessions, holder, tracker, prev>>

HandlerStep(c) == Deliver(c) \/ Expire(c) \/ Settle(c)
WorkerStep(c) == Start(c) \/ Acquire(c) \/ LockBusy(c)

Next ==
  \/ \E c \in Calls : Arrive(c) \/ HandlerStep(c) \/ WorkerStep(c) \/ Finish(c) \/ Raise(c)
  \/ Take
  \/ Tick

(***************************************************************************)
(* Clocks, the event loop and threads run.  Nothing says that a call       *)
(* arrives, or that a compression ever returns.                            *)
(***************************************************************************)
Fairness ==
  /\ WF_vars(Tick)
  /\ \A c \in Calls : WF_vars(HandlerStep(c)) /\ WF_vars(WorkerStep(c))

Spec == Init /\ [][Next]_vars /\ Fairness

-----------------------------------------------------------------------------
(* Properties.                                                             *)

\* "Whatever we hand back IS what the caller sends upstream": what a caller was
\* given stays in the tracker, whatever stragglers, retries and evictions follow,
\* so that the next turn can replay it (record_returned, session_turn_lock).
HandedOutIsKept ==
  \A c \in Calls : caller[c] = "answered" => c \in tracker[SessionOf[c]]

\* Timeout debt counts exactly the workers that run past their caller's deadline,
\* whichever of the timeout, the start and the end of the worker came first
\* (_record_timeout_debt_locked).
DebtIsExact ==
  debt = Cardinality({c \in timedOut : worker[c] \in {"blocked", "working"}})

\* Every caller gets an answer or a 503, even when compressions hang for ever
\* (asyncio.wait_for around the executor).
EveryCallAnswered ==
  \A c \in Calls : caller[c] = "waiting" ~> caller[c] \in {"answered", "failed"}

\* "An untimed lock lets one slow session's retries park executor workers doing
\* no work": a worker never stays parked on a turn lock (timed acquire).
ParkedWorkersReturn ==
  \A c \in Calls : worker[c] = "blocked" ~> worker[c] # "blocked"

\* A worker that never returns does not pin the quarantine open (#2360).
QuarantineLifts == Quarantined ~> ~Quarantined

=============================================================================
