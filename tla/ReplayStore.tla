----------------------------- MODULE ReplayStore -----------------------------
(***************************************************************************)
(* Prefix replay in headroom-proxy: SessionReplayStore, its trackers and   *)
(* its files (cache_stabilization/prefix_replay/store.rs and tracker.rs),  *)
(* and the request path that reads it, splices and sends                   *)
(* (proxy/replay.rs, proxy/forward/session.rs and ctx.rs).                 *)
(*                                                                         *)
(* A step is what runs under one lock: requests of one session and of      *)
(* several interleave between steps.  A session key is a lane.  The head   *)
(* index and the remembered file heads only speed the adoption scans up    *)
(* and are left out, and so are cache_control markers and the restoring of *)
(* fetched blocks.  An LruCache past its capacity drops any other entry:   *)
(* recency is abstracted.                                                  *)
(***************************************************************************)
EXTENDS PrefixOverlay, FiniteSets

CONSTANTS
  Requests,          \* requests, each sent once
  Sessions,          \* session (lane) keys
  Systems,           \* digests of forwarded system blocks
  Turns,             \* what a client may send: [session, msgs, sys, level, boundary]
  FrozenCounts,      \* leading messages a response may confirm as cached
  Capacity,          \* trackers the store holds
  PendingCapacity,   \* turns awaiting their response
  MaxAlternates,     \* MAX_ALTERNATE_PREFIXES
  MaxAlternateMsgs,  \* MAX_ALTERNATE_MESSAGES
  Ttl,               \* SESSION_TTL and PERSIST_MAX_AGE, in ticks
  PersistDir,        \* whether a directory is configured
  MaxInFlight,       \* bound: requests the client has open at once
  MaxCrashes,        \* bound: restarts of the proxy
  NONE,              \* Option::None
  UNREAD             \* not looked up yet

ASSUME BoundAssumption ==
  /\ Capacity \in Nat \ {0} /\ PendingCapacity \in Nat \ {0}
  /\ MaxAlternates \in Nat \ {0} /\ MaxAlternateMsgs \in Nat
  /\ Ttl \in Nat /\ MaxInFlight \in Nat /\ MaxCrashes \in Nat
  /\ FrozenCounts \subseteq Nat /\ PersistDir \in BOOLEAN
  /\ Turns \subseteq [session : Sessions, msgs : Seq(Message), sys : Systems, level : Nat,
                      boundary : BOOLEAN]
  /\ NONE \notin Requests /\ NONE # UNREAD

VARIABLES
  trackers,    \* session -> PrefixReplayTracker or NONE
  pending,     \* requests whose turn is parked
  disk,        \* session -> its persisted prefix or NONE
  lock,        \* the request holding persist_lock, or NONE
  pc,          \* where each request is
  turn,        \* the turn each request carries
  loaded,      \* hydrate: the file read, NONE once settled
  donor,       \* adoption: the prefix found, NONE once settled
  picked,      \* the prefix previous_turn_for returned, or NONE
  sent,        \* the body sent: [msgs, skip], or NONE
  crashes,     \* restarts so far
  updates      \* history: completed updates, per session

storeVars == <<trackers, disk>>
localVars == <<loaded, donor, picked, sent>>
vars == <<storeVars, pending, lock, pc, turn, localVars, crashes, updates>>

\* The stages of a request; the first four each start with hydrate.
Hydrating == {"boundary", "probe", "select", "floor"}
Open == Hydrating \cup {"inflight", "popped", "writing"}

Stages == Open \cup {"idle", "done"}

Prefix == [id : Nat, o : Seq(Message), f : Seq(Message), sys : Systems, pos : Nat]
Tracker == [id : Nat, o : Seq(Message), f : Seq(Message), sys : Systems, alts : SUBSET Prefix,
            next : Nat, frozen : Nat, age : 0..(Ttl + 1)]
File == [id : Nat, o : Seq(Message), f : Seq(Message), sys : Systems, frozen : Nat,
         age : 0..(Ttl + 1), stamp : Nat]
Adopted == [o : Seq(Message), f : Seq(Message), sys : Systems, frozen : Nat, age : 0..(Ttl + 1)]
SentBody == [msgs : Seq(Message), skip : Skips]

ASSUME SentinelAssumption ==
  /\ NONE \notin Tracker \cup File \cup Adopted \cup Prefix \cup SentBody
  /\ UNREAD \notin File \cup Adopted

(* The type invariant.                                                     *)
TypeOK ==
  /\ trackers \in [Sessions -> Tracker \cup {NONE}]
  /\ disk \in [Sessions -> File \cup {NONE}]
  /\ pending \subseteq Requests
  /\ lock \in Requests \cup {NONE}
  /\ pc \in [Requests -> Stages]
  /\ turn \in [Requests -> Turns \cup {NONE}]
  /\ loaded \in [Requests -> File \cup {NONE, UNREAD}]
  /\ donor \in [Requests -> Adopted \cup {NONE, UNREAD}]
  /\ picked \in [Requests -> Prefix \cup {NONE}]
  /\ sent \in [Requests -> SentBody \cup {NONE}]
  /\ crashes \in 0..MaxCrashes
  /\ updates \in [Sessions -> Nat]

-----------------------------------------------------------------------------
(* Trackers.                                                               *)

Session(r) == turn[r].session
Msgs(r) == turn[r].msgs
Tracked(s) == trackers[s] # NONE
Idle(t) == t.age > Ttl

\* PrefixReplayTracker::default.
DefaultTracker ==
  [id |-> 0, o |-> << >>, f |-> << >>, sys |-> NONE, alts |-> {}, next |-> 1,
   frozen |-> 0, age |-> 0]

Primary(t) == [id |-> t.id, o |-> t.o, f |-> t.f, sys |-> t.sys, pos |-> 0]
HeldPrefixes(t) == {Primary(t)} \cup t.alts

\* Vec::insert(0, ..): the others move back.
InsertFirst(alts, a) == {[b EXCEPT !.pos = @ + 1] : b \in alts} \cup {[a EXCEPT !.pos = 1]}

\* The order the budget is spent in: size, then recency.
SpentBefore(a, b) == Len(a.o) > Len(b.o) \/ (Len(a.o) = Len(b.o) /\ a.pos < b.pos)

\* Mutant: only the count is capped.
KeptAlternatesByCount(alts) ==
  {a \in alts : Cardinality({b \in alts : SpentBefore(b, a)}) < MaxAlternates}

\* The alternates that stay under both caps; at least one does.
KeptAlternates(alts) ==
  LET nth(i) == CHOOSE a \in alts : Cardinality({b \in alts : SpentBefore(b, a)}) = i - 1
      walk[i \in 0..Cardinality(alts)] ==
        IF i = 0 THEN [kept |-> {}, held |-> 0]
        ELSE LET w == walk[i - 1]
                 size == Len(nth(i).o)
             IN  IF \/ Cardinality(w.kept) >= MaxAlternates
                    \/ w.kept # {} /\ w.held + size > MaxAlternateMsgs
                 THEN w
                 ELSE [kept |-> w.kept \cup {nth(i)}, held |-> w.held + size]
  IN  {a \in alts : a \in walk[Cardinality(alts)].kept}

\* The alternates once the primary the turn does not continue is set aside.
Displaced(t, o) ==
  IF t.f # << >> /\ ~MatchesPrefix(t.o, o)
  THEN KeptAlternates(InsertFirst({a \in t.alts : a.o # t.o}, Primary(t)))
  ELSE t.alts

\* The chain the turn is recorded under: its primary's, else the first
\* alternate's that leads it, else 0 for a new one.
ContinuedChain(t, o, alts) ==
  LET displaced == t.f # << >> /\ ~MatchesPrefix(t.o, o)
      leading == {a \in alts : MatchesPrefix(a.o, o)}
  IN  IF t.id # 0 /\ ~displaced THEN t.id
      ELSE IF leading = {} THEN 0
      ELSE (CHOOSE a \in leading : \A b \in leading : a.pos <= b.pos).id

\* The fields of a served turn's tracker, whatever its slices.
Recorded(t, o, f, sys, frozen) ==
  LET alts == Displaced(t, o)
      chain == ContinuedChain(t, o, alts)
  IN  [id |-> IF chain = 0 THEN t.next ELSE chain,
       o |-> o, f |-> f, sys |-> sys,
       alts |-> {a \in alts : ~MatchesPrefix(a.o, o)},
       next |-> IF chain = 0 THEN t.next + 1 ELSE t.next,
       frozen |-> frozen, age |-> 0]

\* Mutant: the forwarded slice is cut at the originals' index.
UpdatedCutByIndex(t, originals, forwarded, sys, frozen) ==
  LET n == ReplayableLen(originals)
  IN  Recorded(t, Front(originals, n), Front(forwarded, Least(n, Len(forwarded))), sys, frozen)

\* Mutant: the trailing reminders are cut from the forwarded slice only.
UpdatedCutsForwardedOnly(t, originals, forwarded, sys, frozen) ==
  LET dropped == Len(originals) - ReplayableLen(originals)
  IN  Recorded(t, originals, Front(forwarded, Len(forwarded) - dropped), sys, frozen)

\* update_from_response: originals, forwarded and system of a served turn.
\* The trailing reminder-only messages are cut from both slices, counted from
\* each slice's own tail.
Updated(t, originals, forwarded, sys, frozen) ==
  LET n == ReplayableLen(originals)
      dropped == Len(originals) - n
  IN  Recorded(t, Front(originals, n),
               Front(forwarded, IF Len(forwarded) >= dropped THEN Len(forwarded) - dropped ELSE 0),
               sys, frozen)

\* PrefixReplayTracker::invalidate.
Invalidated(t) ==
  [t EXCEPT !.o = << >>, !.f = << >>, !.alts = {}, !.id = 0, !.frozen = 0]

\* LruCache::push of a session: past Capacity some other session goes.
Push(s, t) ==
  LET held == {x \in Sessions : Tracked(x)} \cup {s}
  IN  \/ /\ Cardinality(held) <= Capacity
         /\ trackers' = [trackers EXCEPT ![s] = t]
      \/ /\ Cardinality(held) > Capacity
         /\ \E v \in held \ {s} : trackers' = [trackers EXCEPT ![s] = t, ![v] = NONE]

-----------------------------------------------------------------------------
Init ==
  /\ trackers = [s \in Sessions |-> NONE]
  /\ disk = [s \in Sessions |-> NONE]
  /\ pending = {}
  /\ lock = NONE
  /\ pc = [r \in Requests |-> "idle"]
  /\ turn = [r \in Requests |-> NONE]
  /\ loaded = [r \in Requests |-> NONE]
  /\ donor = [r \in Requests |-> NONE]
  /\ picked = [r \in Requests |-> NONE]
  /\ sent = [r \in Requests |-> NONE]
  /\ crashes = 0
  /\ updates = [s \in Sessions |-> 0]

\* Entering a stage that starts with hydrate (nothing without a directory),
\* and for two of them a look for a donor.
Enter(r, stage) ==
  /\ pc' = [pc EXCEPT ![r] = stage]
  /\ loaded' = [loaded EXCEPT ![r] = IF PersistDir THEN UNREAD ELSE NONE]
  /\ donor' = [donor EXCEPT ![r] = IF stage \in {"probe", "select"} THEN UNREAD ELSE NONE]

\* A request comes in with any of the client's turns.  Off a boundary, and
\* past the first message, the offload pass first asks
\* history_will_be_rewritten.
Arrive(r, t) ==
  /\ pc[r] = "idle"
  /\ Cardinality({q \in Requests : pc[q] \in Open}) < MaxInFlight
  /\ turn' = [turn EXCEPT ![r] = t]
  /\ Enter(r, IF t.boundary THEN "boundary"
              ELSE IF Len(t.msgs) > 1 THEN "probe" ELSE "select")
  /\ UNCHANGED <<storeVars, pending, lock, picked, sent, crashes, updates>>

-----------------------------------------------------------------------------
(* hydrate: the file is read without a lock, and installed if the session  *)
(* is still not in memory.                                                 *)

Readable(s) == disk[s] # NONE /\ disk[s].age <= Ttl

HydrateRead(r) ==
  /\ pc[r] \in Hydrating
  /\ loaded[r] = UNREAD
  /\ loaded' = [loaded EXCEPT ![r] =
                  IF ~Tracked(Session(r)) /\ Readable(Session(r)) THEN disk[Session(r)] ELSE NONE]
  /\ UNCHANGED <<storeVars, pending, lock, pc, turn, donor, picked, sent, crashes, updates>>

\* Mutant: the system digest is not restored.
RehydratedWithoutSystem(d) ==
  [id |-> d.id, o |-> d.o, f |-> d.f, sys |-> NONE, alts |-> {}, next |-> d.id + 1,
   frozen |-> d.frozen, age |-> 0]

\* Mutant: ids start over.
RehydratedFreshIds(d) ==
  [id |-> d.id, o |-> d.o, f |-> d.f, sys |-> d.sys, alts |-> {}, next |-> 1,
   frozen |-> d.frozen, age |-> 0]

\* The tracker hydrate builds from a file.
Rehydrated(d) ==
  [id |-> d.id, o |-> d.o, f |-> d.f, sys |-> d.sys, alts |-> {}, next |-> d.id + 1,
   frozen |-> d.frozen, age |-> 0]

HydrateInstall(r) ==
  /\ pc[r] \in Hydrating
  /\ loaded[r] \notin {UNREAD, NONE}
  /\ loaded' = [loaded EXCEPT ![r] = NONE]
  /\ IF Tracked(Session(r))
     THEN UNCHANGED trackers
     ELSE Push(Session(r), Rehydrated(loaded[r]))
  /\ UNCHANGED <<disk, pending, lock, pc, turn, donor, picked, sent, crashes, updates>>

-----------------------------------------------------------------------------
(* hydrate_or_adopt, past its hydrate.                                     *)

\* leads_turn.
LeadsTurn(s, cur) ==
  Tracked(s) /\ ~Idle(trackers[s]) /\ Leading(HeldPrefixes(trackers[s]), cur) # {}

\* The slice of a prefix another session would hand over.
Slice(c, n, frozen, age) ==
  [o |-> Front(c.o, n), f |-> Front(c.f, n), sys |-> c.sys, frozen |-> frozen, age |-> age]

\* adoption_candidate_in_memory: the best prefix of each other live session.
InMemoryDonors(s, cur) ==
  LET fit(x) == {c \in HeldPrefixes(trackers[x]) : AdoptableLen(c, cur) > 0}
      best(x) == Longest(fit(x), LAMBDA c : AdoptableLen(c, cur))
  IN  {Slice(best(x), AdoptableLen(best(x), cur), trackers[x].frozen, trackers[x].age) :
         x \in {y \in Sessions \ {s} : Tracked(y) /\ ~Idle(trackers[y]) /\ fit(y) # {}}}

\* adoption_candidate_on_disk.
OnDiskDonors(s, cur) ==
  {Slice(disk[x], AdoptableLen(disk[x], cur), disk[x].frozen, disk[x].age) :
     x \in {y \in Sessions \ {s} : Readable(y) /\ AdoptableLen(disk[y], cur) > 0}}

\* AdoptedPrefix::beats.
Beats(a, b) == Len(a.o) > Len(b.o) \/ (Len(a.o) = Len(b.o) /\ a.age < b.age)

Donors(s, cur) ==
  LET found == IF InMemoryDonors(s, cur) # {} THEN InMemoryDonors(s, cur) ELSE OnDiskDonors(s, cur)
  IN  {d \in found : \A e \in found : ~Beats(e, d)}

\* The adoption gate.  The freshness probe has no system to compare yet.
MayAdopt(r, d) ==
  /\ d \in Donors(Session(r), Msgs(r))
  /\ pc[r] = "select" => d.sys = turn[r].sys

\* The scan: an admissible donor, or none.
AdoptScan(r) ==
  /\ pc[r] \in {"probe", "select"}
  /\ loaded[r] = NONE
  /\ donor[r] = UNREAD
  /\ LET s == Session(r)
         wanted == Len(Msgs(r)) >= AdoptMin /\ ~LeadsTurn(s, Msgs(r))
     IN  \/ /\ wanted
            /\ \E d \in Donors(s, Msgs(r)) :
                 donor' = [donor EXCEPT ![r] = IF MayAdopt(r, d) THEN d ELSE NONE]
         \/ /\ ~wanted \/ Donors(s, Msgs(r)) = {}
            /\ donor' = [donor EXCEPT ![r] = NONE]
  /\ UNCHANGED <<storeVars, pending, lock, pc, turn, loaded, picked, sent, crashes, updates>>

\* Vec::truncate(MAX_ALTERNATE_PREFIXES) on the alternates.
Truncated(alts) == {a \in alts : Cardinality({b \in alts : b.pos < a.pos}) < MaxAlternates}

\* Mutant: the adopted chain takes the next id without spending it.
WithAlternateReusesId(t, d) ==
  LET a == [id |-> t.next, o |-> d.o, f |-> d.f, sys |-> d.sys, pos |-> 1]
  IN  [t EXCEPT !.alts = Truncated(InsertFirst({b \in t.alts : b.o # d.o}, a)), !.age = 0]

\* The adopted slice becomes the newest alternate.
WithAlternate(t, d) ==
  LET a == [id |-> t.next, o |-> d.o, f |-> d.f, sys |-> d.sys, pos |-> 1]
  IN  [t EXCEPT !.alts = Truncated(InsertFirst({b \in t.alts : b.o # d.o}, a)),
                !.next = t.next + 1, !.age = 0]

FromDonor(d) ==
  [id |-> 1, o |-> d.o, f |-> d.f, sys |-> d.sys, alts |-> {}, next |-> 2,
   frozen |-> Least(d.frozen, Len(d.f)), age |-> 0]

\* install_adopted: the newest alternate of a live session, else its primary.
AdoptInstall(r) ==
  /\ pc[r] \in {"probe", "select"}
  /\ donor[r] \notin {UNREAD, NONE}
  /\ donor' = [donor EXCEPT ![r] = NONE]
  /\ LET s == Session(r)
     IN  IF Tracked(s) /\ ~Idle(trackers[s]) /\ trackers[s].f # << >>
         THEN trackers' = [trackers EXCEPT ![s] = WithAlternate(@, donor[r])]
         ELSE Push(s, FromDonor(donor[r]))
  /\ UNCHANGED <<disk, pending, lock, pc, turn, loaded, picked, sent, crashes, updates>>

-----------------------------------------------------------------------------
(* The request path.                                                       *)

\* The rebuild boundary: forwarded_agreement_len hydrated; now invalidate.
Boundary(r) ==
  /\ pc[r] = "boundary"
  /\ loaded[r] = NONE
  /\ trackers' = [trackers EXCEPT ![Session(r)] = IF @ = NONE THEN NONE ELSE Invalidated(@)]
  /\ Enter(r, "select")
  /\ UNCHANGED <<disk, pending, lock, turn, picked, sent, crashes, updates>>

\* history_will_be_rewritten has hydrated and adopted; its answer only
\* decides what the offload pass does.
ProbeEnd(r) ==
  /\ pc[r] = "probe"
  /\ loaded[r] = NONE /\ donor[r] = NONE
  /\ Enter(r, "select")
  /\ UNCHANGED <<storeVars, pending, lock, turn, picked, sent, crashes, updates>>

\* Mutant: any held prefix that leads the turn will do.
ReturnedPrefixAnySystem(t, cur, sys) ==
  LET found == PickReplay(HeldPrefixes(t), cur)
  IN  IF found # {} THEN found
      ELSE IF t.f = << >> THEN {}
      ELSE {[Primary(t) EXCEPT !.id = 0]}

\* The prefix previous_turn_for returns for a live tracker, as a set with at
\* most one element: the pick under this turn's system; nothing when only
\* another system's prefix would do; else the primary, under chain 0.
ReturnedPrefix(t, cur, sys) ==
  LET gated == PickReplay({c \in HeldPrefixes(t) : c.sys = sys}, cur)
  IN  IF gated # {} THEN gated
      ELSE IF t.f = << >> \/ PickReplay(HeldPrefixes(t), cur) # {} THEN {}
      ELSE {[Primary(t) EXCEPT !.id = 0]}

\* previous_turn_for under the tracker lock.
Select(r) ==
  /\ pc[r] = "select"
  /\ loaded[r] = NONE /\ donor[r] = NONE
  /\ LET s == Session(r)
         t == trackers[s]
         found == IF Tracked(s) /\ ~Idle(t)
                  THEN ReturnedPrefix(t, Msgs(r), turn[r].sys) ELSE {}
     IN  /\ trackers' = [trackers EXCEPT ![s] = IF Tracked(s) /\ Idle(t) THEN NONE ELSE @]
         /\ picked' = [picked EXCEPT ![r] = IF found = {} THEN NONE ELSE CHOOSE c \in found : TRUE]
  /\ Enter(r, "floor")
  /\ UNCHANGED <<disk, pending, lock, turn, sent, crashes, updates>>

\* This turn's own output: the passes in front rewrite each message in place.
Optimized(t) == [i \in 1..Len(t.msgs) |-> [t.msgs[i] EXCEPT !.form = t.level]]

\* confirmed_frozen_count, read apart from the prefix it will guard.
ConfirmedCount(s) ==
  IF Tracked(s) /\ ~Idle(trackers[s]) THEN trackers[s].frozen ELSE 0

\* The body replay_prefix sends.
Body(r) ==
  IF picked[r] = NONE
  THEN Overlay(Optimized(turn[r]), Msgs(r), << >>, << >>, FALSE, 0)
  ELSE Overlay(Optimized(turn[r]), Msgs(r), picked[r].o, picked[r].f, picked[r].id # 0,
               ConfirmedCount(Session(r)))

\* begin_request: past PendingCapacity some other parked turn goes.
Park(r) ==
  \/ /\ Cardinality(pending \cup {r}) <= PendingCapacity
     /\ pending' = pending \cup {r}
  \/ /\ Cardinality(pending \cup {r}) > PendingCapacity
     /\ \E q \in pending \ {r} : pending' = (pending \cup {r}) \ {q}

\* The overlay, the send and begin_request; a side errand is not parked.
Send(r) ==
  /\ pc[r] = "floor"
  /\ loaded[r] = NONE
  /\ sent' = [sent EXCEPT ![r] = Body(r)]
  /\ IF IsSideErrand(Msgs(r)) THEN UNCHANGED pending ELSE Park(r)
  /\ pc' = [pc EXCEPT ![r] = "inflight"]
  /\ UNCHANGED <<storeVars, lock, turn, loaded, donor, picked, crashes, updates>>

-----------------------------------------------------------------------------
(* complete, and the ways a request ends without it.                       *)

Finished(r) ==
  /\ pc' = [pc EXCEPT ![r] = "done"]
  /\ picked' = [picked EXCEPT ![r] = NONE]
  /\ loaded' = [loaded EXCEPT ![r] = NONE]

\* The stream ended cleanly: the parked turn is popped.
PopPending(r) ==
  /\ pc[r] = "inflight"
  /\ IF r \in pending
     THEN pc' = [pc EXCEPT ![r] = "popped"] /\ UNCHANGED <<picked, loaded>>
     ELSE Finished(r)
  /\ pending' = pending \ {r}
  /\ UNCHANGED <<storeVars, lock, turn, donor, sent, crashes, updates>>

\* Any other end: nothing pops the turn.
Fail(r) ==
  /\ pc[r] = "inflight"
  /\ Finished(r)
  /\ UNCHANGED <<storeVars, pending, lock, turn, donor, sent, crashes, updates>>

\* Mutant: the client's bytes are written as the forwarded ones.
SnapshotOfOriginals(t, n) ==
  [id |-> t.id, o |-> t.o, f |-> t.o, sys |-> t.sys, frozen |-> t.frozen, age |-> 0,
   stamp |-> n]

\* The file of a tracker; stamp is history.
Snapshot(t, n) ==
  [id |-> t.id, o |-> t.o, f |-> t.f, sys |-> t.sys, frozen |-> t.frozen, age |-> 0,
   stamp |-> n]

\* Mutant: the update does not wait for persist_lock.
LockFreeAlways == TRUE

\* persist_lock.lock() returns.
LockFree == lock = NONE

\* The tracker update under persist_lock and the tracker lock.  Response
\* usage decides how many leading messages are confirmed.
Update(r, frozen) ==
  /\ pc[r] = "popped"
  /\ LockFree
  /\ frozen <= Len(sent[r].msgs)
  /\ LET s == Session(r)
         t == Updated(IF Tracked(s) THEN trackers[s] ELSE DefaultTracker,
                      Msgs(r), sent[r].msgs, turn[r].sys, frozen)
     IN  /\ IF Tracked(s) THEN trackers' = [trackers EXCEPT ![s] = t] ELSE Push(s, t)
         /\ updates' = [updates EXCEPT ![s] = @ + 1]
         /\ IF PersistDir /\ t.f # << >>
            THEN /\ lock' = r
                 /\ pc' = [pc EXCEPT ![r] = "writing"]
                 /\ loaded' = [loaded EXCEPT ![r] = Snapshot(t, updates[s] + 1)]
                 /\ UNCHANGED picked
            ELSE Finished(r) /\ UNCHANGED lock
  /\ UNCHANGED <<disk, pending, turn, donor, sent, crashes>>

\* persist: write-then-rename took effect, or some part of it failed.
Write(r) ==
  /\ pc[r] = "writing"
  /\ disk' \in {disk, [disk EXCEPT ![Session(r)] = loaded[r]]}
  /\ lock' = NONE
  /\ Finished(r)
  /\ UNCHANGED <<trackers, pending, turn, donor, sent, crashes, updates>>

-----------------------------------------------------------------------------
(* The process stops and starts again: memory is lost, stale files are     *)
(* swept, and the requests it was serving are gone.                        *)
Crash ==
  /\ crashes < MaxCrashes
  /\ crashes' = crashes + 1
  /\ trackers' = [s \in Sessions |-> NONE]
  /\ disk' = [s \in Sessions |-> IF Readable(s) THEN disk[s] ELSE NONE]
  /\ pending' = {}
  /\ lock' = NONE
  /\ pc' = [r \in Requests |-> IF pc[r] \in Open THEN "done" ELSE pc[r]]
  /\ loaded' = [r \in Requests |-> NONE]
  /\ donor' = [r \in Requests |-> NONE]
  /\ picked' = [r \in Requests |-> NONE]
  /\ UNCHANGED <<turn, sent, updates>>

\* Time passes; an age stops growing once it is past the limit.
Aged(x) == IF x = NONE THEN NONE ELSE [x EXCEPT !.age = Least(@ + 1, Ttl + 1)]

Tick ==
  /\ trackers' = [s \in Sessions |-> Aged(trackers[s])]
  /\ disk' = [s \in Sessions |-> Aged(disk[s])]
  /\ UNCHANGED <<pending, lock, pc, turn, localVars, crashes, updates>>

Lookup(r) == HydrateRead(r) \/ HydrateInstall(r) \/ AdoptScan(r) \/ AdoptInstall(r)

Path(r) == Boundary(r) \/ ProbeEnd(r) \/ Select(r) \/ Send(r)

Response(r) ==
  PopPending(r) \/ Fail(r) \/ (\E n \in FrozenCounts : Update(r, n)) \/ Write(r)

Next ==
  \/ \E r \in Requests : (\E t \in Turns : Arrive(r, t)) \/ Lookup(r) \/ Path(r) \/ Response(r)
  \/ Crash
  \/ Tick

Spec == Init /\ [][Next]_vars

-----------------------------------------------------------------------------
(* Properties.                                                             *)

\* Some request sent f, or more, for o, or more, under the system sys.
WasSent(o, f, sys) ==
  \E r \in Requests : /\ sent[r] # NONE
                      /\ turn[r].sys = sys
                      /\ Leads(o, turn[r].msgs)
                      /\ Leads(f, sent[r].msgs)

(* Replay is safe only because a stored prefix is byte for byte what went  *)
(* upstream for those originals under that system.  Whatever the trackers, *)
(* the files and the requests' own copies hold - after truncation,         *)
(* displacement, adoption by another session, a restart - was sent.        *)
StoredPairWasSent ==
  /\ \A s \in Sessions : Tracked(s) =>
       \A c \in HeldPrefixes(trackers[s]) : c.f # << >> => WasSent(c.o, c.f, c.sys)
  /\ \A s \in Sessions : disk[s] # NONE => WasSent(disk[s].o, disk[s].f, disk[s].sys)
  /\ \A r \in Requests :
       /\ loaded[r] \notin {NONE, UNREAD} => WasSent(loaded[r].o, loaded[r].f, loaded[r].sys)
       /\ donor[r] \notin {NONE, UNREAD} => WasSent(donor[r].o, donor[r].f, donor[r].sys)
       /\ picked[r] # NONE => WasSent(picked[r].o, picked[r].f, picked[r].sys)

(* A chain id names one stream of a tracker: no two prefixes it holds      *)
(* share one, and the next id to be handed out is still free - across      *)
(* displacement, adoption by two requests at once, and hydration.          *)
ChainIdsDistinct ==
  \A s \in Sessions : Tracked(s) =>
    LET t == trackers[s]
    IN  /\ \A c \in HeldPrefixes(t) : c.id < t.next
        /\ \A a \in t.alts : a.id # t.id
        /\ \A a, b \in t.alts : a.id = b.id => a = b

\* Every message of every alternate counts.
MessagesHeld(alts) == Cardinality(UNION {{a} \X (1..Len(a.o)) : a \in alts})

(* prefix_replay.rs:136-137: MAX_ALTERNATE_MESSAGES is "the bound that     *)
(* actually matters: total messages held across a session's alternate      *)
(* prefixes".  One prefix alone may exceed it; several together may not.   *)
AlternatesWithinBudget ==
  \A s \in Sessions : Tracked(s) =>
    /\ Cardinality(trackers[s].alts) <= MaxAlternates
    /\ Cardinality(trackers[s].alts) > 1 => MessagesHeld(trackers[s].alts) <= MaxAlternateMsgs

(* A forwarded slice never covers fewer messages than its originals, so    *)
(* the splice never resumes past a gap (ReplaySkip::ForwardedCountMismatch *)
(* stays a net).                                                           *)
ForwardedCoversOriginals ==
  \A s \in Sessions :
    /\ Tracked(s) => \A c \in HeldPrefixes(trackers[s]) : Len(c.f) >= Len(c.o)
    /\ disk[s] # NONE => Len(disk[s].f) >= Len(disk[s].o)

\* What the user and the model said, each message with its rank among those
\* that are no scaffolding.
Conversation(msgs) ==
  LET said == {i \in 1..Len(msgs) : msgs[i].role # "system" /\ msgs[i].text # Reminder}
  IN  {<<Cardinality({j \in said : j <= i}), Canon(msgs[i])>> : i \in said}

(* Replay changes bytes, never the conversation: every message of the user *)
(* and the model that the client sent is in the body sent upstream, once   *)
(* and in order, and nothing else is.                                      *)
ClientContentKept ==
  \A r \in Requests : sent[r] # NONE => Conversation(sent[r].msgs) = Conversation(Msgs(r))

(* A prefix goes out only under the system block it was recorded under     *)
(* (store.rs:735-739: "a candidate whose recorded system differs is not a  *)
(* replay source").                                                        *)
ReplayKeepsSystem ==
  \A r \in Requests :
    /\ pc[r] = "inflight" /\ picked[r] # NONE
    /\ sent[r].msgs # Optimized(turn[r])
    => picked[r].sys = turn[r].sys

(* compare.rs:168-172: the adjacency check "is a net under the splice      *)
(* rather than a working part of it, and it should never fire".            *)
AdjacencyNetNeverFires ==
  \A r \in Requests : sent[r] # NONE => sent[r].skip # "system_adjacency_broken"

(* A session's file never goes back to an older turn: persist_lock orders  *)
(* whole snapshot-and-write sequences of turns that complete at once.      *)
DiskMovesForward ==
  [][\A s \in Sessions :
       disk[s] # NONE /\ disk'[s] # NONE => disk'[s].stamp >= disk[s].stamp]_vars

(* session.rs:396-402: at a rebuild boundary the stored prefixes are       *)
(* dropped "so the next turn opens a fresh chain instead of splicing bytes *)
(* against a cache that is gone".                                          *)
BoundaryTurnReplaysNothing ==
  \A r \in Requests : pc[r] = "inflight" /\ turn[r].boundary => picked[r] = NONE

=============================================================================
