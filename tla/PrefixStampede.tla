--------------------------- MODULE PrefixStampede ---------------------------
(***************************************************************************)
(* The same-head stampede gate of headroom-proxy                           *)
(* (crates/headroom-proxy/src/cache_stabilization/prefix_stampede.rs, used *)
(* by proxy/forward/buffered_send.rs and settled by                        *)
(* proxy/forward/presend.rs).                                              *)
(*                                                                         *)
(* Requests that share a cacheable head are admitted under one key.  The   *)
(* first under a cold key leads and goes at once; the others park on the   *)
(* leader's Notify until its response begins, it fails, or their budget    *)
(* runs out.                                                               *)
(*                                                                         *)
(* Time is kept as ages rather than as a clock, because the code only ever *)
(* compares a difference of two Instants with wait_cap or warm_ttl: an age *)
(* stops growing at the bound it is compared with, so the model needs no   *)
(* limit on how long the system runs.  The identity of an Arc<Notify> is   *)
(* the request that created it: a request creates at most one.             *)
(***************************************************************************)
EXTENDS Integers, FiniteSets

CONSTANTS
  Requests,     \* requests that pass the gate, each once
  Keys,         \* digests of forwarded heads (head_key)
  Capacity,     \* entries the LRU holds
  WaitCap,      \* wait_cap, in ticks
  WarmTtl,      \* warm_ttl, in ticks
  NONE          \* Option::None

ASSUME CapacityAssumption == Capacity \in Nat \ {0}
ASSUME TimeAssumption == WaitCap \in Nat \ {0} /\ WarmTtl \in Nat \ {0}
ASSUME NoneAssumption == NONE \notin Requests /\ NONE \notin Keys /\ NONE \notin Int

VARIABLES
  entries,      \* key -> its Entry or NONE: [leader_age, warm_age, notify]
  newer,        \* recency of the keys held: <<a, b>> when a was used after b
  pc,           \* where each request is
  key,          \* the head each request carries
  parked,       \* the `parked` flag of admit
  waited,       \* ticks since admit was called, capped at WaitCap + 1
  notify,       \* the Notify whose `notified` future the request holds
  budget,       \* ticks left before the request's timeout fires
  woken,        \* that future has been notified
  token,        \* the request holds an unsettled LeaderToken
  begun         \* history: ticks since a response under the key last began,
                \* capped at WarmTtl, or NONE

gateVars == <<entries, newer>>
reqVars == <<pc, key, parked, waited, notify, budget, woken, token>>
vars == <<gateVars, reqVars, begun>>

Entry == [leader_age : 0..WaitCap, warm_age : (0..WarmTtl) \cup {NONE},
          notify : Requests]

\* "polling" is the loop head of admit, "arming" the window between a step
\* that said Wait and the call of notified(), "armed" the window between that
\* call and the second look, "sleeping" the timeout.
Waiting == {"polling", "arming", "armed", "sleeping"}
Stages == {"idle", "sent", "done"} \cup Waiting

(* The type invariant.                                                     *)
TypeOK ==
  /\ entries \in [Keys -> Entry \cup {NONE}]
  /\ newer \subseteq Keys \X Keys
  /\ pc \in [Requests -> Stages]
  /\ key \in [Requests -> Keys]
  /\ parked \in [Requests -> BOOLEAN]
  /\ waited \in [Requests -> 0..(WaitCap + 1)]
  /\ notify \in [Requests -> Requests \cup {NONE}]
  /\ budget \in [Requests -> 0..WaitCap]
  /\ woken \in [Requests -> BOOLEAN]
  /\ token \in [Requests -> BOOLEAN]
  /\ begun \in [Keys -> (0..WarmTtl) \cup {NONE}]

Init ==
  /\ entries = [k \in Keys |-> NONE]
  /\ newer = {}
  /\ pc = [r \in Requests |-> "idle"]
  /\ key \in [Requests -> Keys]
  /\ parked = [r \in Requests |-> FALSE]
  /\ waited = [r \in Requests |-> 0]
  /\ notify = [r \in Requests |-> NONE]
  /\ budget = [r \in Requests |-> 0]
  /\ woken = [r \in Requests |-> FALSE]
  /\ token = [r \in Requests |-> FALSE]
  /\ begun = [k \in Keys |-> NONE]

-----------------------------------------------------------------------------
(* The LRU map.                                                            *)

Held(k) == entries[k] # NONE

\* LruCache::get and get_mut: the key becomes the most recently used.
Used(k) ==
  {p \in newer : k \notin {p[1], p[2]}} \cup {<<k, x>> : x \in {y \in Keys : Held(y)} \ {k}}

\* LruCache::put of a key: past Capacity the least recently used key goes.
Evicted(k) ==
  LET held == {x \in Keys : Held(x)} \cup {k}
  IN  {x \in held \ {k} : /\ Cardinality(held) > Capacity
                          /\ \A y \in held \ {x} : <<y, x>> \in Used(k)}

Put(k, e) ==
  /\ newer' = {p \in Used(k) : p[2] \notin Evicted(k)}
  /\ entries' = [x \in Keys |-> IF x = k THEN e
                               ELSE IF x \in Evicted(k) THEN NONE ELSE entries[x]]

\* LruCache::pop.
Pop(k) ==
  /\ newer' = {p \in newer : k \notin {p[1], p[2]}}
  /\ entries' = [entries EXCEPT ![k] = NONE]

\* Notify::notify_waiters on n: every future made from n is woken.
NotifyWaiters(n) ==
  woken' = [r \in Requests |-> woken[r] \/ (notify[r] = n /\ pc[r] \in {"armed", "sleeping"})]

-----------------------------------------------------------------------------
(* admit() and step().                                                     *)

WarmNow(k) == Held(k) /\ entries[k].warm_age # NONE /\ entries[k].warm_age < WarmTtl
WarmStale(k) == Held(k) /\ entries[k].warm_age # NONE /\ entries[k].warm_age >= WarmTtl
Cold(k) == Held(k) /\ entries[k].warm_age = NONE
Stuck(k) == Cold(k) /\ entries[k].leader_age >= WaitCap

\* The request leaves the gate and goes upstream.
Admitted(r) ==
  /\ pc' = [pc EXCEPT ![r] = "sent"]
  /\ notify' = [notify EXCEPT ![r] = NONE]
  /\ woken' = [woken EXCEPT ![r] = FALSE]
  /\ budget' = [budget EXCEPT ![r] = 0]
  /\ UNCHANGED <<key, parked, waited, begun>>

\* Mutant: the request that leads a stale head again inherits its warm_at.
StepLeadKeepsWarm(r) ==
  /\ ~Held(key[r]) \/ WarmStale(key[r])
  /\ Put(key[r], [leader_age |-> 0, notify |-> r,
                  warm_age |-> IF Held(key[r]) THEN 0 ELSE NONE])
  /\ token' = [token EXCEPT ![r] = TRUE]
  /\ Admitted(r)

\* step: the entry is warm, so the request goes (Warm, or Follower with
\* LeaderWarm when it had been parked).
StepWarm(r) ==
  /\ WarmNow(key[r])
  /\ newer' = Used(key[r])
  /\ Admitted(r)
  /\ UNCHANGED <<entries, token>>

\* step and lead: no entry, or a warm one gone stale: the request leads.
StepLead(r) ==
  /\ ~Held(key[r]) \/ WarmStale(key[r])
  /\ Put(key[r], [leader_age |-> 0, warm_age |-> NONE, notify |-> r])
  /\ token' = [token EXCEPT ![r] = TRUE]
  /\ Admitted(r)

\* step: the leader has been in flight past wait_cap (Follower, StaleLeader).
StepStaleLeader(r) ==
  /\ Stuck(key[r])
  /\ newer' = Used(key[r])
  /\ Admitted(r)
  /\ UNCHANGED <<entries, token>>

StepAdmits(r) == StepWarm(r) \/ StepLead(r) \/ StepStaleLeader(r)

\* step: a leader is still young enough to wait for.
MustWait(k) == Cold(k) /\ ~Stuck(k)

\* Mutant: every follower gets the whole of wait_cap.
BudgetForWhole(k) == WaitCap

\* Mutant: the remainder is rounded up by one tick.
BudgetForRounded(k) == WaitCap - entries[k].leader_age + 1

\* What is left of wait_cap for this leader.
BudgetFor(k) == WaitCap - entries[k].leader_age

\* A request calls admit.
Arrive(r) ==
  /\ pc[r] = "idle"
  /\ pc' = [pc EXCEPT ![r] = "polling"]
  /\ UNCHANGED <<gateVars, key, parked, waited, notify, budget, woken, token, begun>>

\* First look: admitted at once, or handed the Notify to wait on.
FirstStep(r) ==
  /\ pc[r] = "polling"
  /\ \/ StepAdmits(r)
     \/ /\ MustWait(key[r])
        /\ newer' = Used(key[r])
        /\ pc' = [pc EXCEPT ![r] = "arming"]
        /\ notify' = [notify EXCEPT ![r] = entries[key[r]].notify]
        /\ budget' = [budget EXCEPT ![r] = BudgetFor(key[r])]
        /\ woken' = [woken EXCEPT ![r] = FALSE]
        /\ UNCHANGED <<entries, key, parked, waited, token, begun>>

\* notify.notified() and enable(): wakes are received from here on.
Arm(r) ==
  /\ pc[r] = "arming"
  /\ pc' = [pc EXCEPT ![r] = "armed"]
  /\ parked' = [parked EXCEPT ![r] = TRUE]
  /\ UNCHANGED <<gateVars, key, waited, notify, budget, woken, token, begun>>

\* Second look: admitted, or any Wait falls through to the future armed above.
SecondStep(r) ==
  /\ pc[r] = "armed"
  /\ \/ StepAdmits(r)
     \/ /\ MustWait(key[r])
        /\ newer' = Used(key[r])
        /\ pc' = [pc EXCEPT ![r] = "sleeping"]
        /\ UNCHANGED <<entries, key, parked, waited, notify, budget, woken, token, begun>>

\* The future resolved first: back to the loop head.
Wake(r) ==
  /\ pc[r] = "sleeping"
  /\ woken[r]
  /\ pc' = [pc EXCEPT ![r] = "polling"]
  /\ notify' = [notify EXCEPT ![r] = NONE]
  /\ woken' = [woken EXCEPT ![r] = FALSE]
  /\ budget' = [budget EXCEPT ![r] = 0]
  /\ UNCHANGED <<gateVars, key, parked, waited, token, begun>>

\* Mutant: the future is awaited without the timeout.
TimeOutNever(r) == Wake(r) /\ ~woken[r]

\* The timeout resolved first (Follower, Timeout).
TimeOut(r) ==
  /\ pc[r] = "sleeping"
  /\ ~woken[r]
  /\ budget[r] = 0
  /\ Admitted(r)
  /\ UNCHANGED <<gateVars, token>>

\* The client went away while the request was held: the future is dropped.
Cancel(r) ==
  /\ pc[r] \in Waiting
  /\ pc' = [pc EXCEPT ![r] = "done"]
  /\ notify' = [notify EXCEPT ![r] = NONE]
  /\ woken' = [woken EXCEPT ![r] = FALSE]
  /\ budget' = [budget EXCEPT ![r] = 0]
  /\ UNCHANGED <<gateVars, key, parked, waited, token, begun>>

-----------------------------------------------------------------------------
(* Settling the admission once upstream answered (observe_upstream_head).  *)

\* The response under key[r] began: the history notes it.
Begins(r) == begun' = [begun EXCEPT ![key[r]] = 0]

\* Mutant: the leader's failure wakes its followers and leaves its entry.
DropTokenKeepsEntry(r) ==
  /\ pc[r] = "sent"
  /\ token[r]
  /\ pc' = [pc EXCEPT ![r] = "done"]
  /\ token' = [token EXCEPT ![r] = FALSE]
  /\ IF Held(key[r])
     THEN NotifyWaiters(entries[key[r]].notify)
     ELSE UNCHANGED woken
  /\ UNCHANGED <<gateVars, key, parked, waited, notify, budget, begun>>

\* LeaderToken::first_byte.  An entry the LRU dropped is not put back.
FirstByte(r) ==
  /\ pc[r] = "sent"
  /\ token[r]
  /\ pc' = [pc EXCEPT ![r] = "done"]
  /\ token' = [token EXCEPT ![r] = FALSE]
  /\ Begins(r)
  /\ IF Held(key[r])
     THEN /\ entries' = [entries EXCEPT ![key[r]].warm_age = 0]
          /\ newer' = Used(key[r])
          /\ NotifyWaiters(entries[key[r]].notify)
     ELSE UNCHANGED <<gateVars, woken>>
  /\ UNCHANGED <<key, parked, waited, notify, budget>>

\* PrefixStampedeGate::touch, by a request that did not lead.
Touch(r) ==
  /\ pc[r] = "sent"
  /\ ~token[r]
  /\ pc' = [pc EXCEPT ![r] = "done"]
  /\ Begins(r)
  /\ IF Held(key[r])
     THEN /\ entries' = [entries EXCEPT ![key[r]].warm_age = 0]
          /\ newer' = Used(key[r])
          /\ NotifyWaiters(entries[key[r]].notify)
     ELSE /\ Put(key[r], [leader_age |-> 0, warm_age |-> 0, notify |-> r])
          /\ UNCHANGED woken
  /\ UNCHANGED <<key, parked, waited, notify, budget, token>>

\* Drop of an unsettled LeaderToken: the leader failed or was cancelled.
\* Whatever entry the key names now is popped and its waiters released.
DropToken(r) ==
  /\ pc[r] = "sent"
  /\ token[r]
  /\ pc' = [pc EXCEPT ![r] = "done"]
  /\ token' = [token EXCEPT ![r] = FALSE]
  /\ IF Held(key[r])
     THEN /\ Pop(key[r])
          /\ NotifyWaiters(entries[key[r]].notify)
     ELSE UNCHANGED <<gateVars, woken>>
  /\ UNCHANGED <<key, parked, waited, notify, budget, begun>>

\* A request without a token failed: nothing to settle.
FailFollower(r) ==
  /\ pc[r] = "sent"
  /\ ~token[r]
  /\ pc' = [pc EXCEPT ![r] = "done"]
  /\ UNCHANGED <<gateVars, key, parked, waited, notify, budget, woken, token, begun>>

-----------------------------------------------------------------------------
(* Time.  A tick is long against the lock-protected steps of admit: it     *)
(* comes only when no request stands inside admit with work to do.         *)

Busy(r) ==
  \/ pc[r] \in {"polling", "arming", "armed"}
  \/ pc[r] = "sleeping" /\ (woken[r] \/ budget[r] = 0)

Older(age, bound) == IF age < bound THEN age + 1 ELSE age

OlderEntry(e) ==
  [leader_age |-> Older(e.leader_age, WaitCap),
   warm_age |-> IF e.warm_age = NONE THEN NONE ELSE Older(e.warm_age, WarmTtl),
   notify |-> e.notify]

Tick ==
  /\ \A r \in Requests : ~Busy(r)
  /\ entries' = [k \in Keys |-> IF Held(k) THEN OlderEntry(entries[k]) ELSE NONE]
  /\ waited' = [r \in Requests |->
                  IF pc[r] = "sleeping" THEN Older(waited[r], WaitCap + 1) ELSE waited[r]]
  /\ budget' = [r \in Requests |->
                  IF pc[r] = "sleeping" THEN budget[r] - 1 ELSE budget[r]]
  /\ begun' = [k \in Keys |-> IF begun[k] = NONE THEN NONE ELSE Older(begun[k], WarmTtl)]
  /\ UNCHANGED <<newer, pc, key, parked, notify, woken, token>>

\* The steps admit takes by itself once it is called.
AdmitStep(r) == FirstStep(r) \/ Arm(r) \/ SecondStep(r) \/ Wake(r) \/ TimeOut(r)

Settle(r) == FirstByte(r) \/ Touch(r) \/ DropToken(r) \/ FailFollower(r)

Next ==
  \/ \E r \in Requests : Arrive(r) \/ AdmitStep(r) \/ Cancel(r) \/ Settle(r)
  \/ Tick

\* The runtime polls every ready task and time goes on; nothing says that a
\* request ever arrives or that a response ever comes.
Fairness == WF_vars(Tick) /\ \A r \in Requests : WF_vars(AdmitStep(r))

Spec == Init /\ [][Next]_vars /\ Fairness

-----------------------------------------------------------------------------
(* Properties.                                                             *)

(* step lets a request park only behind an entry with warm_at = None, so   *)
(* such an entry must never outlive the request that leads it: whoever     *)
(* created a cold entry is still upstream and still holds the LeaderToken  *)
(* whose first_byte or Drop will settle it - also after evictions, stuck   *)
(* leaders and a key led by several requests in turn.                      *)
ColdEntryHasLiveLeader ==
  \A k \in Keys : Cold(k) =>
    LET r == entries[k].notify
    IN  pc[r] = "sent" /\ token[r] /\ key[r] = k

(* An entry is as warm as the latest response under its key: the age step  *)
(* compares with warm_ttl is the age of the last response that began, so   *)
(* neither Warm nor LeaderWarm is reported for a head whose cache write    *)
(* has expired or never became readable.                                   *)
WarmMeansBegun ==
  \A k \in Keys :
    Held(k) /\ entries[k].warm_age # NONE => begun[k] = entries[k].warm_age

(* A follower asleep behind the entry its key names sleeps until that      *)
(* leader's wait_cap and not longer: what is left of its timeout and the   *)
(* leader's age add up to wait_cap, whatever step handed it the budget.    *)
FollowerBudget ==
  \A r \in Requests :
    LET k == key[r]
    IN  /\ pc[r] \in {"arming", "armed", "sleeping"}
        /\ Cold(k)
        /\ notify[r] = entries[k].notify
        => budget[r] + entries[k].leader_age = WaitCap

(* Whoever a Notify belongs to has left the gate: an entry's Notify and the *)
(* one a follower holds were made by a request that was sent upstream.      *)
(* With it the three invariants above are inductive.                        *)
NotifyCreated ==
  /\ \A k \in Keys : Held(k) => pc[entries[k].notify] \in {"sent", "done"}
  /\ \A r \in Requests : notify[r] # NONE => pc[notify[r]] \in {"sent", "done"}

(* A request that called admit leaves it, admitted or cancelled: failing   *)
(* leaders, lost wakes and evictions only delay it.                        *)
EveryWaitEnds ==
  \A r \in Requests : pc[r] \in Waiting ~> pc[r] \in {"sent", "done"}

(* prefix_stampede.rs:17-18: "A key stays warm for `warm_ttl` after any    *)
(* first byte, so an ordinary next turn never waits."                      *)
StaysWarm ==
  \A k \in Keys : begun[k] # NONE /\ begun[k] < WarmTtl => WarmNow(k)

(* prefix_stampede.rs:20-21: "a follower under a cold key starts at most   *)
(* `wait_cap` later than it would have."                                   *)
WaitIsCapped == \A r \in Requests : waited[r] <= WaitCap

=============================================================================
