# Headroom: TLA+ verification project

Headroom is a local proxy between a coding client (Claude Code, Codex) and a
model API. It rewrites each request to make it smaller, and keeps the rewritten
history byte for byte stable from turn to turn, because the provider bills a
cached prefix at a tenth of the price and any changed byte loses the cache from
there on. The product is `crates/headroom-proxy` with `crates/headroom-core`.
`upstream-python/` is the original it is ported from: a complete proxy with its
command line, not part of the Rust build, and kept (`src/README.md:227`) so that
upstream changes can be read when porting.

This project models the parts whose mistakes are silent and expensive. Of the
Rust proxy: which bytes go upstream, under which stored prefix, when a
request is held back so that its siblings can read the cache it writes, and how
a routed turn survives limited exits while those exits are rotated. Of the
Python original: the store behind the retrieval markers, the session turns of
`/v1/compress` on their bounded executor, and the two ways in which concurrent
`headroom wrap` processes share something, a settings file and a proxy. Modules
about Python code say so in their headers; a result about them is a result about
`upstream-python/` and not about the Rust port.

## 1. Inventory

| Component | State | Operations | Hard behaviour | Status |
|---|---|---|---|---|
| Prefix stampede gate (`cache_stabilization/prefix_stampede.rs`) | LRU of heads: leader's start, warm time, Notify | admit (two looks, wait), first_byte, Drop, touch | leaders that fail or hang, lost wakes, eviction under waiters, timeouts | modelled, proved |
| Prefix replay: comparison and splice (`prefix_replay/compare.rs`, `overlay.rs`) | none | canonical compare, alignment, floor, overlay | index spaces that shift against each other | modelled (operators), proved with the store |
| Prefix replay: store, tracker (`prefix_replay/store.rs`, `tracker.rs`) | trackers with alternates and chain ids, pending turns, files | hydrate, adopt, select, park, complete, persist, invalidate | interleaved turns, out-of-order completion, restart, expiry, adoption races | modelled, proved |
| Replay request path (`proxy/replay.rs`, `proxy/forward/*`) | per request | boundary, probe, splice, send | check-then-act across lock acquisitions | modelled with the store, proved |
| Breakpoints, `cache_control`, TTL order | none | marker rewriting | limits on markers | not modelled |
| Drift detector | per-session hot-zone hashes | observe | boundary decisions | input of `ReplayStore` |
| Tool roster pin, beta and session sticky values | per-session LRU | pin, reuse | eviction, order | not modelled |
| Context offload and its store | offloaded bodies, readiness | offload, seed, resolve | readiness against in-flight turns | not modelled |
| Live-zone compression, transforms | none | text rewriting | none for TLC | abstracted to a message's form |
| CCR stores of the Rust core, batch store, tracker | hash to payload, order queue | put, get, sweep, evict | stale queue entries, sliding expiry | not modelled |
| Python: compressed-content store (`cache/compression_store.py`) | entries, two lazy heaps, two stale counters | store, retrieve, exists, status, stats, clear, export, import | stamps taken outside the lock, lazy deletion, restart | modelled, proved, refines `CcrContract` |
| Python: wrap settings (`cli/wrap.py`) | one env key of `settings.local.json`, owner record, marker, hook | claim, write, restore, stale check, self-heal, unwrap | processes that overlap, die and clean up after each other | modelled, proved |
| Python: wrap proxies and orphan watchdog (`cli/wrap.py`, `proxy/orphan_watchdog.py`) | client markers, start locks, listeners, idle clocks | register, look, kill, spawn, bind, launch, poll | detached processes, fallback ports, stale markers | modelled, proved |
| Python: compression executor and session turns (`proxy/server.py`, `proxy/handlers/openai.py`) | queue, timeout debt, quarantine, cache registry, turn locks, trackers | submit, time out, run, record, evict | threads that cannot be stopped, retries against stragglers | modelled, proved |
| Python: request handlers, transforms, memory, telemetry, providers, evals, integrations | various | various | payload conversion, text and ML algorithms, external databases | not modelled |
| CCR response handler, SSE interception | per-stream buffers | feed, retrieve, resume | partial events, retries mid-stream | planned |
| Routed upstream gate and zen hold (`routed/retry.rs`, `upstream_gate.rs`, `zen_hold.rs`, `proxy/egress.rs`) | per lane: in-flight count, send slots, maintenance; per turn: lane, guard, slot, attempts, pauses | acquire, move, back off, hold, probe, pause, resend | counts against a drain, CAS loop, holds that wait for what waits for them | modelled, proved |
| Egress relay (`bin/egress_relay.rs`) | lane being rotated | gate, drain, cut, lift | lost control calls, drain timeout | rotation modelled with the gate; the byte relay is I/O |
| Stream retries | per stream | retry | retry of what was already sent | planned |
| Admission, rate limiter, budget, in-flight table | buckets, counters | admit, charge, release | eviction resets a bucket, partial charge | planned |
| Background compression, quarantine | channel, pending keys, drain task | enqueue, drain | the drain task's end, deduplication | planned |
| Websocket registry and relay | sessions, relay counts | register, deregister | I/O | planned (registry) |
| Semantic cache, memory, savings, metrics, subscription, retention, translation, redaction, configuration | various | various | accounting, I/O, SQL or stateless conversion | not modelled |

How the modelled parts meet: a request reaches the *rebuild boundary* check,
which may invalidate its lane's tracker; the *freshness probe* of the offload
pass hydrates and may adopt another session's prefix; the passes in front
rewrite each message in place; `replay_prefix` selects a stored prefix, reads
the confirmed floor, splices, and parks the turn; the *stampede gate* may hold
the request; the response's end calls `complete`, which updates the tracker and
writes its file. No lock is held between these steps. The gate never changes
what is sent and shares no state with the store, so the two are modelled apart.

A routed Zen turn takes a lane of the egress pool and its guard, a send slot, and
goes through `send_with_retry`; the relay, another process, asks the proxy to
gate a lane, polls the lane's in-flight count down to zero, gives the lane a new
exit, cuts its old tunnels and has the gate lifted. The turn meets the rotation
only through the count and the gate, which is why they are one module.

On the Python side a wrap session first gets a proxy (`WrapProxy`) and then
writes its URL into the settings (`WrapSettings`, where the proxy is reduced to
a port that answers or does not). `/v1/compress` (`CompressTurns`) leaves
markers in what it returns, which the store (`CcrStore`) must resolve later; a
graceful restart carries trackers and the entries they name over together.

What makes each part correct:

* gate: nobody waits on a leader that is gone; a head is reported warm only if
  a response under it began recently enough; every wait ends;
* store: what is stored was sent, under that system block; a chain id names one
  stream; files move forward; the bounds hold;
* compressed-content store: a marker resolves until its entry expires or gives
  way to a newer key, oldest first; the bound holds; the indexes stay true;
* wrap settings: live sessions stay routed and the user's value comes back;
* wrap proxies: a session is served by a proxy that routes as it asked, starts
  end, orphans stop;
* session turns: what a caller was handed stays recorded, callers are answered,
  hung threads neither block the pool nor keep compression off for ever;
* routed turns: the counts a drain reads are exact, a rotation cuts no request,
  a held turn is released by the rotation it waits for, a gate is lifted;
* splice: the provider sees the conversation the client sent, nothing dropped
  or repeated, in a shape it accepts.

`PROJECT.json` lists every component and, under `hazards`, where each of these
can go wrong.

## 2. Plan

Done so far: 1 to 7. Order of the rest:

1. `PrefixStampede`, its runs and its proofs.
2. `PrefixOverlay`, `ReplayStore` and their runs.
3. `CcrStore` and the contract it implements.
4. `WrapSettings` and `WrapProxy`.
5. `CompressTurns`.
6. `ZenSend`, the routed Zen send with the rotation of its lanes.
7. Proofs: `ZenSend`, `WrapProxy`, `WrapSettings`, `CompressTurns`, `CcrStore`
   with its refinement, `ReplayStore`, and what replayed bodies say
   (`ReplayContentProofs`). None of these modules declares a RECURSIVE operator;
   alternates, heaps, holders and markers are sets. Every invariant and action
   property of a passing run has its theorem.
8. `Admission` with the rate limiter, `BackgroundCompressor`, the stream retries.
9. An abstract `ReplayContract` (a lane's log of sent bodies, a replay repeats
   a logged prefix) that `ReplayStore` refines.

## 3. Modules

### PrefixStampede

One record per head, as in `Entry`: the leader's age, the age of `warm_at`, and
the `Notify`, named by the request that created it. `entries` and `newer` are
the LRU (a key above another was used later). Per request: `pc`, the `Notify` it
listens on, its remaining budget, whether a wake has reached it, whether it
holds a `LeaderToken`. `begun` is history: the age of the last response that
began under a key.

| Action | Code |
|---|---|
| `Arrive`, `FirstStep`, `Arm`, `SecondStep`, `Wake`, `TimeOut`, `Cancel` | `admit`, split where it awaits or lets go of the lock |
| `StepWarm`, `StepLead`, `StepStaleLeader`, `MustWait` | the returns of `step`, with `lead` |
| `FirstByte`, `DropToken` | `LeaderToken::first_byte` and its `Drop` |
| `Touch`, `FailFollower` | a request without a token, answered or not |
| `Tick` | time, in units long against the locked steps |

`Notify::notify_waiters` and the LRU are external, modelled by their contract:
`notify_waiters` wakes exactly the futures created before it, and a `get` makes
a key the most recently used one.

### PrefixOverlay

Operators only. A message is its role, its text (all that the canonical
comparison sees) and its form (one rendering, weighing that many bytes).
`AlignOver`, `AgreementLen`, `MatchesPrefix`, `ReplayableLen`, `SplitAtFloor`,
`OverlayDiverged` and `Overlay` are the functions of the same purpose in
`compare.rs` and `overlay.rs`, guard by guard in the order of the code;
`PickReplay` is `pick_replay_candidate`, `AdoptableLen` is `adoptable_len`.

### ReplayStore

State: `trackers` (a `PrefixReplayTracker` per lane: primary prefix, alternates
with their positions, next chain id, confirmed count, age), `pending`, `disk`,
`lock` (`persist_lock`), and per request the stage it is in and what it holds
between locks: the file read (`loaded`), the donor found (`donor`), the prefix
selected (`picked`), the body sent (`sent`). `NONE` and `UNREAD` are no file and
no donor (`SentinelAssumption`).

| Action | Code |
|---|---|
| `HydrateRead`, `HydrateInstall` | `hydrate`: the read without a lock, the install |
| `AdoptScan`, `AdoptInstall` | `hydrate_or_adopt`, `install_adopted` |
| `Boundary` | `invalidate` at a rebuild boundary |
| `ProbeEnd` | `history_will_be_rewritten` |
| `Select` | `previous_turn_for` under the tracker lock |
| `Send` | the floor, the overlay, `begin_request` |
| `PopPending`, `Update`, `Write` | `complete` and `persist` |
| `Fail` | any end that does not call `complete` |
| `Crash`, `Tick` | restart with its sweep; time |

Abstractions, each an over-approximation unless it says otherwise:

* an LRU past its capacity drops *any* other entry (trackers, pending turns);
* the number of messages a response confirms is any of `FrozenCounts`: the code
  estimates it from token counts, and reports 0 below 1024 cached tokens;
* the passes in front give every message of a turn one form (`level`); they
  never drop a message, which is what the code checks for and declines on;
* head index and remembered file heads are left out: they narrow the scans to
  lanes with the same opening, which the minimum agreement implies;
* left out: `cache_control` markers, the restoring of fetched blocks, the chat
  variant without the adjacency net, the cold-prefix fork (off by default), a
  poisoned lock, a file too large to write (it behaves as a failed write, which
  is modelled), and the repeated `hydrate` of the agreement readers;
* a file's age starts when it is written; `saved_at_unix` and mtime are one.

### CcrContract, CcrStore

`CcrContract` is what a marker may rely on: a map from keys to entries with an
expiry, in which a live entry leaves early only for the room of a new key,
oldest first and one room at most; a duplicate store evicts nobody; a restart
brings an entry back with the expiry it had. `CcrStore` is the Python store:
`store` (the dict of the memory backend), both heaps as sets of tuples, both
stale counters. `Held` maps its state to the contract's: an entry that has
expired and lingers is not held.

| Action | Code |
|---|---|
| `StampStore`, `CommitStore` | `store`: the entry with its `created_at`, then everything under the lock |
| `EvictIfNeeded` | `_evict_if_needed`: rebuild or not, the expiry loop, the oldest-first loop |
| `Retrieve`, `GetMetadata`, `ExistsClean`, `EntryStatusClean`, `GetStats` | the readers, which delete what they find expired |
| `Clear`, `Restart`, `ImportEntry` | `clear`; shutdown with `export_entries`; `import_entries` |

The two loops pop tuples in order until a condition holds, so each is the
shortest run of least tuples at which it holds; this says the same without
recursion. A claim that waits for the lock is `Stamped`, an entry that is stored
is an `Entry`; `NoEntry` and `NoStore` are neither (`SentinelAssumption`). Left
out: payloads, retrieval counts and the feedback queue (they
decide nothing here), the write-back of a read entry (it changes no key or
stamp), `external_revision` and self-expiring backends, two equal
`time.time()` values.

### WrapSettings

One env key of `.claude/settings.local.json` and its two sidecar files. Whatever
runs under `_wrap_settings_lock` is one action; the stale check, the write and
the hook installation of a starting session, the probe and the restore of a
self-heal, and the two halves of `unwrap` are apart. `Restore` is
`_restore_claude_wrap_base_url` with `_release_wrap_key` and the rehoming of the
marker inside it, early returns included: a file without `env` keeps its marker.
A proxy URL is its port; pids are not reused. The record's list of holders is a
set with places that grow with every claim: only its front matters, which
inherits the marker.

Assumption: `QuietStart`. A session acts twice, milliseconds apart, on what it
read outside the lock; the runs assume that nobody dies, heals or unwraps inside
these two windows. Without it the property fails (section 4). `IdleUnwrap =
FALSE` says that an `unwrap` meets no value under the key without a marker; it is
assumed in `wrap_heal` and dropped in `MCWrapIdleUnwrap.cfg`.

### WrapProxy

Client markers per port, one start lock per requested port, the proxies that
load (`booting`) and the one that listens on each port. `Look` is the decision
of `_ensure_proxy_unlocked` for wrap-owned proxies of one version: share,
replace when nobody else uses it, or go to the next free port. A spawned proxy
is detached and binds later, whatever became of its session.

| Action | Code |
|---|---|
| `Register`, `Launch` | `_register_proxy_client`; the move of the marker to the port obtained |
| `Look`, `Kill`, `Spawn`, `Ready`, `StartFails` | `_ensure_proxy` with `_kill_proxy_by_pid`, `_find_available_port`, `_start_proxy` |
| `Exit`, `Die` | cleanup after the tool or a signal; SIGKILL |
| `Bind`, `Poll`, `Stop` | the proxy binds its port; one turn of `orphan_watchdog_loop`, the last of which only raises SIGTERM; the server closes its listener |

Assumptions: `DiesInBoot = FALSE` (a session does not end while its own proxy
loads) in the passing run, which `MCWrapOrphanBoot.cfg` drops; `LooksInStop =
FALSE` (no session looks at a proxy between the watchdog's signal and the close of
the listener, some tenths of a second), which `MCWrapDying.cfg` drops; the last poll of a
grace period of at least a minute does not fall between a proxy's bind and its
session's marker (`Arriving`); sessions ask for one port. Traffic without a
marker, which only delays the watchdog, is left out.

### CompressTurns

A handler per call on the event loop, a worker per call on the executor. The
tracker of a session holds the set of turns whose bytes the last return carries
on, so that a lost update is a missing member.

| Action | Code |
|---|---|
| `Arrive` | `_get_compression_cache` with its sweep and eviction; the quarantine gate; submission |
| `Deliver`, `Expire`, `Settle` | the awaited future: result, deadline, accounting and the 503 |
| `Take`, `Start`, `End` | the executor's thread and `_wrapped` around the turn |
| `Acquire`, `LockBusy`, `Finish`, `Raise` | `_run_session_turn`: timed lock, record and release, error |

The registry's LRU order is the relation `newer` between sessions. A call that
times out in the queue is cancelled and stays there; the thread that takes it
finds it cancelled and drops it (`Take`), as `ThreadPoolExecutor` does. `Finish`
joins the release of the turn lock with the end of `_wrapped`: between
them the worker touches nothing that another step reads. Assumption:
`EvictsQueued = FALSE`, no session becomes the least recently used of the
registry (500 by default) while a turn of it waits for a worker or its lock,
which is at most the executor timeout. Left out: gauges, the usage relay,
trackers shared between replicas, the tracker store's own expiry.

### ZenSend

Per turn the stage of `send_with_retry` it is in, its lane, the lane whose
in-flight guard it has, the lane whose send slot it has (the slot stays with the
first lane when the turn moves), the lanes tried, and the three budgets: lane
moves, attempts, pauses. Per lane the two counters, the gate and whether the
provider limits its exit. `rot` is where the relay is in a rotation.

| Action | Code |
|---|---|
| `Start` | `select_upstream_client`, `zen_client_for_lane` |
| `LoadSlots`, `TakeSlot`, `ForgoSlot` | the compare-and-swap loop of `acquire_zen_slot`, split at the exchange |
| `SendAgain` | the end of `wait_behind_parked_host` or of a backoff, and the next send |
| `AnswerKept`, `AnswerTooLarge`, `AnswerLimited`, `AnswerOverloaded` | the arms of the loop by status: returned, 413, 429, 5xx |
| `ConnectFails`, `SendFails` | `recover_zen_send` and `handle_transport_error` |
| `OverloadOver`, `TransportOver` | the second halves of `hold_for_overload` and `recover_zen_send`, after their sleeps |
| `Probe`, `ProbeRecovers`, `ProbeFails`, `HoldSpent` | `run_hold_probe` in `hold_for_rotation`; the last resend of `try_zen_hold` |
| `StreamEnds`, `Disconnect` | `EgressGuardedStream`; a dropped future or body |
| `Gate`, `Drained`, `DrainTimesOut`, `Cut`, `Lift`, `GateLost`, `LiftLost` | `gate_and_drain`, `drain_egress`, `reopen`; a control call that fails, applied or not |
| `Limit` | the provider |

Abstractions: time is left out, so a sleep, a budget or a pass-over mark ends at
any point; a lane's mark only changes which lane a turn is given, and any open
one may be. A limited exit answers 429 and nothing else. A lane is a Nord lane:
its rotation ends with another exit (the Proton walk may come back with the old
one). `Start` joins the selection of the sticky lane with the failover from it:
the guard taken on the first is given back in the same call. `Gate` has no branch
for a lane that changed during the rotation (`egress_relay.rs:1203`): generation
and host are written under `rotation_lock`, which the rotation holds throughout.
While it rotates the relay refuses new tunnels (`egress_relay.rs:962`), which a
turn sees as a failed connect; `ConnectFails` may happen at any time, and a send
over an open tunnel is not refused, so both outcomes are there on a gated lane.
Left out: turns that are not Zen's and the codex token refresh,
continuations (they hold no guard), the reasoning blobs, the heal probes.

The `MC` modules hold the instances: symmetry where nothing tells the members
apart, the turns, ports, routings and sessions of each run.

## 4. Runs

A turn's client messages have form 3 and the passes make them 1 or 2, so a later
turn may compress better or worse than the stored one: both outcomes of the
non-inflation bound occur.

Passing:

| Run | Instance | Shows |
|---|---|---|
| `stampede` | 3 requests, 2 heads, capacity 1, cap 2, TTL 2 | `TypeOK`, `ColdEntryHasLiveLeader`, `WarmMeansBegun`, `FollowerBudget`, `EveryWaitEnds` |
| `replay_persist` | 1 lane, a conversation of three turns with a boundary and a fork, 3 requests, 2 open, files, one restart anywhere, expiry | `TypeOK`, `StoredPairWasSent`, `ChainIdsDistinct`, `AlternatesWithinBudget`, `ClientContentKept`, `DiskMovesForward` |
| `replay_adopt` | 3 lanes in a store of 2, two systems, files | `ReplayKeepsSystem`, `ChainIdsDistinct` |
| `replay_withdraw` | 1 lane, 4 requests one after the other, scaffolding added, replaced, withdrawn, side errand, cold cache | `AdjacencyNetNeverFires`, `ForwardedCoversOriginals`, `ClientContentKept` |
| `ccr_store` | 2 threads, 3 keys, 2 entries, TTL 1 or 3, 5 ticks, one restart | `TypeOK`, `IndexComplete`, `StaleCountsExact`, `ImplementsContract` (the refinement) |
| `wrap_shared` | 3 sessions on one port, all alive at once if they like, 2 crashes, with and without a user value, the hook not yet installed | `TypeOK`, `UserValueRestored`, `LiveSessionStaysRouted` |
| `wrap_heal` | 3 sessions one at a time, 2 crashes, a proxy death, 2 self-heals, an unwrap, with and without a user value | `UserValueRestored` |
| `wrap_proxy` | 4 sessions, 2 routings, a feature, 2 ports, one SIGKILL | `TypeOK`, `ServedAsAsked`, `NoSpawnRace`, `EveryStartEnds`, `OrphansStop` |
| `compress_turns` | 2 calls of one session, one of another, 2 workers, a registry of 1 | `TypeOK`, `HandedOutIsKept`, `DebtIsExact`, `EveryCallAnswered`, `ParkedWorkersReturn`, `QuarantineLifts` |
| `zen_send` | 2 turns, 2 lanes, one slot each, 2 attempts, one move, one pause of each kind, 2 limits, one lost control call | `TypeOK`, `CountsExact`, `OnlyResumedTurnsAreCut` |
| `zen_ends` | the same with 1 attempt, no pauses, one limit | `EveryTurnEnds`, `GateLifts` |

One run is a violation, a disagreement between the code and what is written
beside it (`findings` in `PROJECT.json` quotes the lines): in
`replay_shifted_span` a scaffolding message is withdrawn, then the tail is
edited, `ClientContentKept` fails and a client message is not sent.

More disagreements have a configuration of their own, to be run by hand
(`tlc -config X.cfg M`):

| Configuration (module) | Violates | What happens, and what it contradicts |
|---|---|---|
| `MCPrefixStampedeWarm.cfg` (`MCPrefixStampede`) | `StaysWarm` | a stuck leader's late failure removes an entry a follower made warm; `prefix_stampede.rs:17` "stays warm for `warm_ttl` after any first byte" |
| `MCPrefixStampedeCap.cfg` (`MCPrefixStampede`) | `WaitIsCapped` | a chain of failing leaders adds up; `prefix_stampede.rs:20` "at most `wait_cap` later" |
| `MCReplayPartialFloor.cfg` (`MCReplayStore`) | `ClientContentKept` | a partial floor on the withdrawal turn itself: a client message is not sent; `overlay.rs:198` "a shifted span is atomic" |
| `MCReplayBoundary.cfg` (`MCReplayStore`) | `BoundaryTurnReplaysNothing` | a completion between `invalidate` and the selection; `session.rs:396` "the next turn opens a fresh chain" |
| `MCReplaySystem.cfg` (`MCReplayStore`) | `ReplayKeepsSystem` | the fallback primary replays under another system; `store.rs:736` "is not a replay source" |
| `MCReplayBudget.cfg` (`MCReplayStore`) | `AlternatesWithinBudget` | an adopted prefix is put in front of the alternates and only their number is capped (`store.rs:1622`); `prefix_replay.rs:136` "the bound that actually matters" |
| `MCWrapUnwrap.cfg` (`MCWrapSettings`) | `UserValueRestored` | unwrap under two live sessions drops the record; the second one's exit puts the first one's proxy URL back; `wrap.py:2152` "never left pointing at a dead proxy" |
| `MCWrapIdleUnwrap.cfg` (`MCWrapSettings`) | `UserValueRestored` | `unwrap` where nothing is wrapped (no record, no marker) deletes a URL the user set: it reads "no marker" as "there was no value" (`wrap.py:6606`); `wrap.py:6617` "unwrap is the user asking for their settings back" |
| `MCWrapPorts.cfg` (`MCWrapSettings`) | `LiveSessionStaysRouted` | the session with a port of its own ends and its URL stays while the other runs: the survivor is rehomed in the marker and not in the file |
| `MCCompressEvict.cfg` (`MCCompressTurns`) | `HandedOutIsKept` | a session evicted while its turn waits for a worker splits its turn lock; only a held lock protects it |
| `MCCcrCapacity.cfg` (`MCCcrStore`) | `CapacityHeld` | an eviction leaves the evicted key's expiration tuple behind; once it has expired it is at the root of the heap and every later store gives up on meeting it: the store grows past `max_entries` until a rebuild drops it (`compression_store.py:884`); `compression_store.py:849` "Evict expired, then oldest live entries until below capacity." |
| `MCWrapOrphanBoot.cfg` (`MCWrapProxy`) | `ServedAsAsked` | a session ends while its proxy loads; the next one spawns its own on the same port, the orphan binds first and is taken for ready (`wrap.py:961`); `wrap.py:5242` "reusing a proxy that forwards to a backend/upstream the caller did not request is broken, not degraded" |
| `MCWrapDying.cfg` (`MCWrapProxy`) | `ServedAsAsked` | the watchdog has raised SIGTERM and the listener is still open: a session that looks then shares a proxy that is about to close (`orphan_watchdog.py:222`); `wrap.py:5242` as above is about the routing, here the tool starts with no proxy at all |
| `MCZenCut.cfg` (`MCZenSend`) | `NoTurnIsCut` | an overload or transport pause ends while the turn's lane is gated: the refusal is dropped, the turn sends uncounted, the drain reads zero and the cut hits it (`retry.rs:648`, `retry.rs:556`); `proxy/state.rs:302` "Existing requests remain visible to the normal in-flight drain and can finish before old tunnels are closed" |

`ClientContentKept`, `AdjacencyNetNeverFires`, `ReplayKeepsSystem` and
`AlternatesWithinBudget` appear both as passing and as violated. What separates
the two is in each case stated as a hypothesis under which the property is proved
(section 5). The passing runs of
`ClientContentKept` and `AdjacencyNetNeverFires` leave out the two combinations
that break the first: withdrawal with a partial floor, and withdrawal followed
by an edit of the tail (in `replay_withdraw` no response confirms anything, and
the real thresholds of 4 and 2 keep its short turns from counting as edits).
`replay_withdraw` thus also covers withdrawals that do no harm, which the theorems
leave out. `ReplayKeepsSystem` passes where no scaffolding is withdrawn,
`AlternatesWithinBudget` where there is nobody to adopt from. The split of
`MCReplayPartialFloor.cfg` can also make the adjacency net fire, by dropping the
user message between an answer and a note. The wrap runs pass under the
assumptions named with their modules. `OnlyResumedTurnsAreCut` says that the
turns of `MCZenCut.cfg` are the only ones a cut can hit.

`EveryTurnEnds` and `GateLifts` allow one exception, a lane that a lost control
call leaves gated (`LeftGated`), and it is needed: nothing connects over such a
lane, the proxy logs no 429 of it, and the hourly rotation finds it idle and
skips it (`egress_relay.rs:1141`), so a turn held on it probes nothing and, with
the default unbounded hold, waits for ever. The relay's answer does say "restart
Headroom" when the lift is lost; when the gating call is applied and its answer
is lost it says only that the call failed, and does not try to undo it
(`egress_relay.rs:1035`).

Smaller disagreements met while modelling, which have no configuration:

* between the two looks of `admit` the leader may fail and another lead; the
  second look's `Wait` is ignored and the follower sleeps on the old `Notify`
  until its old budget ends (`prefix_stampede.rs:206`; `EveryWaitEnds` covers
  that it does end);
* after a rewind both the primary and an alternate may lead a turn:
  `previous_turn_for` reports the longer one's chain, `update_from_response`
  records the primary's (`tracker.rs:228`);
* with `QuietStart = FALSE`: a founder that dies between another session's stale
  check and its write leaves its URL to be recorded as the original; a self-heal
  that probed a dead port restores under a session that has just started there;
  the unlocked hook installation writes an old URL back (`wrap.py:1964`);
* sessions with different `--port` hold different start locks and can race for
  one fallback port, or replace a dedicated proxy before its session has moved
  its marker there (`wrap.py:5666`);
* a caller cancelled while its call is queued never leaves
  `_compression_queued` (`server.py:1778` catches the timeout alone);
* a turn that waits for a worker and then for its lock can pass the executor
  deadline while parked, and then counts as debt although it does no work;
* on the last attempt a 429 that tells the proxy not to retry still enters the
  hold, because only `backoff_retryable_status` reads the header
  (`retry.rs:332`; `retry.rs:921` "an explicit refusal owns even the hold");
* `_record_eviction_success` queues an event that
  `process_pending_feedback` drops, because it looks the deleted entry up.

### Bounds

* `Capacity` 1 or 2 is one less than the keys or lanes: eviction of something in
  use happens, which at 1000 needs the same code path.
* `WaitCap` and `WarmTtl` of 2 give an age below, at and past each limit.
* Three requests: a leader, a follower, a second leader and a bystander
  in the gate; a stored turn, one in flight and one that reads the result in the
  store. `replay_shifted_span` needs three turns.
* `MaxInFlight` 2 is the least with interleaving inside one lane. The runs about
  sequences of turns use 1.
* `MinAgreeingRun`, `TailEditSlack` and `AdoptMin` are scaled down (code: 4, 2,
  10) so that conversations of up to five messages reach them; the withdrawal
  runs use the real 4 and 2.
* `Ttl` 1: an age within, at and past the limit. Ages stop growing past it.
* `CcrStore`: one key more than entries, so that stores evict; a TTL that ends
  before and one that ends after other entries' ages; two threads, the least
  whose stamps can swap. `MCCcrCapacity.cfg` needs a fourth key.
* `WrapSettings`: three sessions are a founder, an heir and one that meets the
  leftovers of both; two may die. `wrap_heal` has them one at a time (`MaxLive`)
  so that the tools meet every order of leftovers.
* `WrapProxy`: four sessions give two on each routing, so that sharing and
  replacing meet; `Grace` 2 has a poll inside and one at the end of the period.
* `CompressTurns`: a turn, its retry and a stranger; two workers, so that a
  straggler and its retry run at once; deadlines of 2, 1 and 1 ticks keep the
  order of the code's 30, 10 and 60 seconds where it matters, the lock's
  before the executor's.
* `ZenSend`: two turns are a drained and a held one, or two that race for a
  slot; two lanes, the least with a move; with two limits a turn can meet a 429
  on the lane it moved to. `MaxLimits` also says that the provider does not limit
  fresh exits for ever; `MaxLost` 1 is a single fault, in any of its places.
  `zen_ends` keeps what the waits need: the pauses and further attempts only
  delay a turn.

### Fairness

`PrefixStampede` assumes weak fairness of each request's own steps inside
`admit` (the runtime polls ready tasks, the timer fires) and of `Tick`. Nothing
is assumed of arrivals, of responses or of the network: a leader may hang for
ever. `Cancel` is not fair. `ReplayStore`, `CcrStore` and `WrapSettings` state
safety only.

`WrapProxy` assumes weak fairness of a started session's own steps (its process
runs; `_start_proxy` counts down to a failure), of the binding of spawned
proxies, of each watchdog's poll and of the stop it asks for. Nobody has to start or to exit, and the
start lock is handed to any waiter: sessions run once, so none starves.
`CompressTurns` assumes weak fairness of the clock, of the event loop's steps and
of the worker steps that a thread is bound to take; none of `Finish` and `Raise`,
since a compression may hang for ever, none of arrivals, and none of `Take`,
which a hung pool disables.

`ZenSend` assumes weak fairness of each turn's steps (sleeps end; a request is
answered or fails; an answer ends) and of the relay's steps inside a rotation;
strong fairness of `Gate` for a lane that is open and in use, because the watcher
(`contrib/zen-rotate-watch.sh`) has every lane rotated once an hour and the relay
skips only idle ones; and strong fairness of a probe finding its lane open and of
one getting through on an exit that is not limited, because rotations of a lane
lie minutes apart (`COOLDOWN_SECS`) and probes at most `retry_max_delay_ms`.
Nobody has to start or to disconnect, and the hold's budget need not end. A drain
times out on a turn that is not a probe or on failed polls: a limited exit
refuses a probe at once, the drain waits two minutes.

## 5. Proofs

Every theorem holds for every value of the constants that the module's
assumptions allow. Where a theorem has a further hypothesis, it is stated in the
theorem, and section 4 has the behaviour that fails without it, most with a
configuration, named here. Each
safety theorem has the same shape: an inductive invariant, checked with TLC on
the component's instances before it was proved, a lemma per action that the
action preserves it, and the property as a consequence.

| Module | Theorem | States | Hypothesis |
|---|---|---|---|
| `PrefixStampedeProofs` | `TypeCorrect` | `[]TypeOK` | |
| | `NoOrphanedEntry` | `[]ColdEntryHasLiveLeader` | |
| | `WarmIsHonest` | `[]WarmMeansBegun` | |
| | `BudgetIsLeaders` | `[]FollowerBudget` | |
| `ReplayStoreProofs` | `TypeCorrect` | `[]TypeOK` | |
| | `StoredWasSent` | `[]StoredPairWasSent` | |
| | `ChainIdsStayDistinct` | `[]ChainIdsDistinct` | |
| | `ForwardedCovers` | `[]ForwardedCoversOriginals` | |
| | `FilesMoveForward` | `DiskMovesForward`, an action property | |
| `ReplayContentProofs` | `ContentKept` | `[]ClientContentKept` | `NothingWithdrawn` (`MCReplayShifted.cfg`, `MCReplayPartialFloor.cfg`) |
| | `SystemKept` | `[]ReplayKeepsSystem` | `NothingWithdrawn` (`MCReplaySystem.cfg`) |
| | `AdjacencyNetUnused` | `[]AdjacencyNetNeverFires` | `NothingWithdrawn`, `LegalTurns` |
| | `AlternatesCounted` | no lane holds more than `MaxAlternates` alternates, the first half of `AlternatesWithinBudget` | |
| | `AlternatesStayInBudget` | `[]AlternatesWithinBudget` | `NoAdoption` (`MCReplayBudget.cfg`) |
| `ZenSendProofs` | `TypeCorrect` | `[]TypeOK` | |
| | `CountsAreExact` | `[]CountsExact` | |
| | `OnlyResumedAreCut` | `[]OnlyResumedTurnsAreCut` | |
| `CompressTurnsProofs` | `TypeCorrect` | `[]TypeOK` | |
| | `DebtCountsStragglers` | `[]DebtIsExact` | |
| | `HandedOutStays` | `[]HandedOutIsKept` | `~EvictsQueued` (`MCCompressEvict.cfg`) |
| `CcrStoreProofs` | `TypeCorrect` | `[]TypeOK` | |
| | `IndexStaysComplete` | `[]IndexComplete` | |
| | `StaleCountsAreExact` | `[]StaleCountsExact` | |
| | `StoreImplementsContract` | `ImplementsContract`, the refinement | |
| `WrapProxyProofs` | `TypeCorrect` | `[]TypeOK` | |
| | `NoTwoProxiesRace` | `[]NoSpawnRace` | `OneAskPort`, `~DiesInBoot` (`MCWrapOrphanBoot.cfg`) |
| | `RunningIsServed` | `[]ServedAsAsked` | the same, and `~LooksInStop` (`MCWrapDying.cfg`) |
| `WrapSettingsProofs` | `TypeCorrect` | `[]TypeOK` | |
| | `SharersStayRouted` | `[]LiveSessionStaysRouted` | `OnePort` (`MCWrapPorts.cfg`), `NoTools` |
| | `SharersRestore` | `[]UserValueRestored` | `OnePort`, `NoTools` (`MCWrapUnwrap.cfg`), `QuietStart` |
| | `ToolsRestore` | `[]UserValueRestored` | `OneAtATime` (`MCWrapUnwrap.cfg`), `~IdleUnwrap` (`MCWrapIdleUnwrap.cfg`), `QuietStart` |

The inductive invariants, and why the properties alone are not inductive:

* **PrefixStampede**: the four properties and `NotifyCreated`, that whoever made
  a `Notify` has left the gate. `FollowerBudget` needs it: when a request leads,
  the new entry's `Notify` is its own, and no follower may already hold it or
  its budget would be compared with a leader it never waited for. The lemmas on
  the LRU (`Put`, `Pop`, `Used`) say that everything but the key at hand keeps
  its entry or loses it.
* **ReplayStore**: the sent requests form a log of (originals, body, system)
  triples that only grows. `HeldOK` says, for every place that keeps a prefix
  (trackers with their alternates, files, and what a request carries between two
  locks: the file it read, the donor it found, the prefix it selected), that it
  is a beginning of an entry of the log, is as long forwarded as original, and
  has an id below the tracker's next one. A property about the trackers alone is
  not inductive, because a request installs what it read before the lock.
  `PathOK` says that a body is fixed once sent and covers the client's messages,
  `WritersOK` that a writer has held `persist_lock` since its update, which gives
  the action property. That the body covers the originals rests on the alignment:
  `AlignOver` is a recursive function, its existence (`AlignWalk`) and
  `at[i] <= i` (`AlignOverBound`) are proved by `UpTo`, an induction over a set
  of numbers whose base is the well-foundedness of the naturals.
* **What a body says** (`ReplayContentProofs`): `NothingWithdrawn` is a condition
  on the client's turns: whenever the alignment accepts a recordable beginning of
  one turn for another turn, that turn repeats it. The instances of `replay_persist`,
  `replay_adopt` and `MCReplayBoundary.cfg` satisfy it, and so do conversations
  whose notes stay in place and whose trailing reminders come and go; the
  withdrawal instances do not. `CInv` then says that every prefix kept anywhere
  is as long forwarded as original, and its originals begin some turn
  (`EvenHeld`); that every body sent has, message by message, the
  canonical content of its turn (`BodiesFaithful`); and that a selected prefix
  is of the turn's system or is the fallback primary, which has chain 0 and does
  not lead the turn (`SystemGated`). It is proved on top of `IInv`, which says
  which body a stored prefix comes from. `OverlayFaithful` is the part about
  `overlay.rs`: along every path of `Overlay`, with any floor, an aligned prefix
  and the turn's own output make up a list that says what the turn says.
  `AlignExact` shows that over a repeated prefix the alignment is one to one,
  which is why indexes of originals and of forwarded messages agree here.
* **The budget of the alternates** (`ReplayContentProofs`): `BInv` adds that
  alternates are a finite list with positions of their own (`Listed`), without
  which neither cap means anything: both are spent along an order, and
  `RankIsBijective` shows that counting who comes before makes that order a
  numbering. `KeptWithin` follows the walk of `KeptAlternates` and bounds its
  result; `TruncatedCount` bounds what `install_adopted` leaves.
* **ZenSend**: the counts with what each stage implies of a turn's record
  (`TurnOK`: guard and slot at most on its lane, budgets not spent) and
  `RotationGated`: the lane of a rotation is gated, and once drained has count
  0. Both counts are cardinalities of sets of holders; `CountMoved` says how one
  changes when a turn trades its lane for another.
* **CompressTurns**: `PoolInv` for the accounts (`owing` is exactly the set of
  stragglers, `debt` its size, no more workers run than there are) and `TurnInv`
  for the turns: calls in flight share their session's cache, a working turn
  holds that cache's lock, and has read all the tracker still holds. The last
  part is what makes a lost update impossible.
* **CcrStore**: `IndexOK` says that each heap holds exactly one current tuple
  per entry and that no two tuples share a stamp, so a counter is the size of its
  heap less the number of entries, a form that every push, pop and rebuild
  preserves by arithmetic. `StampsFresh` gives the uniqueness: a stamp taken
  outside the lock is in no heap yet. The refinement maps the state to the live
  entries (`Held`); the eviction loops are analysed as shortest runs, whose
  existence comes from the well-foundedness of the naturals, and a commit maps to
  the contract's store with at most one room made, or to a duplicate.
* **WrapProxy**: who has the start lock, where each session's marker is, that a
  loading proxy belongs to the session that waits for it, and that nobody uses
  a proxy that is about to be killed (`KillsUnused`) or has been asked to stop
  (`StopsUnused`). The race of two starts needs only the lock and the loading
  proxies (`StartInv`), so its theorem does without `LooksInStop`.
* **WrapSettings**: whoever the record or the marker names has been through its
  write (`NamedHaveWritten`). `RoutingInv` adds that a routed session has its
  claim, which is why a restore finds it and keeps away, and that what a hook
  installation writes back names the same proxy; it needs no `QuietStart`.
  `SharedInv` adds the user's value: the record has it whenever it exists
  (`RecordTrue`), its founder remembers it, and a session about to write finds a
  routed one or a clean file (`CheckedClean`), or it would record a dead proxy's
  URL as the original. That last part is what a death between check and write
  breaks, and the one use of `QuietStart`. `AloneInv` is for sessions one after
  the other with tools: every value anybody remembers is the user's, and a
  proxy's URL in the file has its marker. `LiveSessionStaysRouted` has no theorem with tools,
  because taking the key from a running session is what they do.

Only model-checked:

* all liveness (`EveryWaitEnds`, `EveryStartEnds`, `OrphansStop`,
  `EveryCallAnswered`, `ParkedWorkersReturn`, `QuarantineLifts`, `EveryTurnEnds`,
  `GateLifts`), which is out of the prover's reach;
* the properties that have a hypothesis above, where it does not hold: in
  particular `ClientContentKept` and `AdjacencyNetNeverFires` under withdrawals
  that are neither followed by an edit of the tail nor cut by a partial floor
  (`replay_withdraw`).

## 6. Not modelled

See the inventory and the notes in `PROJECT.json`. In short:

* text and ML algorithms (transforms, tokenizers, live-zone compression), whose
  domain is unbounded, and payload conversion (request handlers, providers,
  translation, redaction), which is stateless;
* I/O, SQL and external services (memory backends, retention, the byte
  relay, subscription, the redis and sqlite CCR backends and sharing between workers);
* accounting and observability (savings, metrics, telemetry, learn, evals),
  which change no request;
* of the modelled Python components: persistent deployments, restarts for
  another version, `--no-proxy`, copilot seeds, foreign listeners, traffic
  without a marker; the tool-search key and the user-level settings; the
  feedback queue; the usage relay (which works without a lock once its cache is
  evicted), session trackers shared between replicas, the background compressor;
* the components of the plan's step 8, which are within reach and come next.
