------------------------------- MODULE ZenSend -------------------------------
(***************************************************************************)
(* How a routed Zen turn is sent (crates/headroom-proxy/src: routed/       *)
(* retry.rs, routed/upstream_gate.rs, routed/zen_hold.rs, proxy/egress.rs) *)
(* while the egress relay rotates the exits of the lanes it is sent on     *)
(* (bin/egress_relay.rs).                                                  *)
(*                                                                         *)
(* A turn takes a lane and its in-flight guard, waits for a send slot, and *)
(* sends.  An answer of 429 or a failed connect moves it to another lane;  *)
(* when the moves are used up it backs off, and when the attempts are too  *)
(* it parks: in the 429 hold until the exit has been rotated, or in a      *)
(* bounded pause when the backend is overloaded or no lane connects.  The  *)
(* relay gates a lane, waits until no guard is left on it, changes its     *)
(* exit, cuts the old tunnels and opens the lane again.                    *)
(*                                                                         *)
(* The pool is configured, retries and the 429 hold are enabled.  Time is  *)
(* left out: a sleep lasts any time, a budget ends at any time, and a lane *)
(* may at any time be marked as one to pass over (mark_limited and         *)
(* mark_unhealthy), which changes no more than the lane a turn is given.   *)
(* The shared hold of a limited egress (gate_hold, gate_wait_ms) only      *)
(* makes a sleep longer and is part of the sleeps.  A resend without the   *)
(* reasoning blobs the provider refused is part of the send it repeats.    *)
(***************************************************************************)
EXTENDS Naturals, FiniteSets

CONSTANTS
  Turns,            \* routed turns, each sent once
  Lanes,            \* slots of the egress pool
  MaxInflight,      \* retry_zen_max_inflight; 0 is no cap
  MaxAttempts,      \* retry_max_attempts
  MaxFailovers,     \* MAX_LANE_FAILOVERS
  OverloadRounds,   \* pauses retry_zen_overload_hold_ms has room for
  TransportRounds,  \* pauses retry_zen_transport_hold_ms has room for
  MaxLimits,        \* bound: times the provider starts to limit an exit
  MaxLost,          \* bound: control calls of the relay that fail
  None

ASSUME LanesAssumption == Lanes # {} /\ IsFiniteSet(Lanes) /\ None \notin Lanes
ASSUME TurnsAssumption == IsFiniteSet(Turns)
ASSUME RetryAssumption == /\ MaxInflight \in Nat /\ MaxAttempts \in Nat \ {0}
                          /\ MaxFailovers \in Nat
ASSUME RoundsAssumption == OverloadRounds \in Nat /\ TransportRounds \in Nat
ASSUME BoundAssumption == MaxLimits \in Nat /\ MaxLost \in Nat

VARIABLES
  turn,       \* turn -> where it is and what it holds
  inFlight,   \* lane -> in_flight, the count the drain reads
  slots,      \* lane -> its ZEN_INFLIGHT counter
  maint,      \* lanes in maintenance: they take no new request
  limited,    \* lanes whose exit the provider answers with 429
  rot,        \* what the relay does, and to which lane
  limits,     \* limits imposed so far
  lost        \* control calls lost so far

vars == <<turn, inFlight, slots, maint, limited, rot, limits, lost>>

LaneOrNone == Lanes \cup {None}

\* Stages in which a request or its answer is on the wire.
Live == {"send", "probe", "resend", "stream"}
Stages == Live \cup {"new", "slot", "cas", "sleep", "hold", "overload", "transport", "done"}

TurnState ==
  [pc : Stages, lane : LaneOrNone,
   guard : LaneOrNone,               \* lane whose EgressInflightGuard it has
   slot : LaneOrNone,                \* lane whose counter its ZenSlot is on
   seen : 0 .. MaxInflight,          \* the counter as the CAS loop loaded it
   tried : SUBSET Lanes, moves : 0 .. MaxFailovers, attempt : 0 .. MaxAttempts,
   overload : 0 .. OverloadRounds, transport : 0 .. TransportRounds]

TypeOK ==
  /\ turn \in [Turns -> TurnState]
  /\ inFlight \in [Lanes -> 0 .. Cardinality(Turns)]
  /\ slots \in [Lanes -> 0 .. MaxInflight]
  /\ maint \subseteq Lanes /\ limited \subseteq Lanes
  /\ rot \in [phase : {"idle", "drain", "cut", "lift"}, lane : LaneOrNone]
  /\ limits \in 0 .. MaxLimits /\ lost \in 0 .. MaxLost

New ==
  [pc |-> "new", lane |-> None, guard |-> None, slot |-> None, seen |-> 0, tried |-> {},
   moves |-> 0, attempt |-> 0, overload |-> 0, transport |-> 0]
Done == [New EXCEPT !.pc = "done"]
Resting == [phase |-> "idle", lane |-> None]

Init ==
  /\ turn = [t \in Turns |-> New]
  /\ inFlight = [l \in Lanes |-> 0]
  /\ slots = [l \in Lanes |-> 0]
  /\ maint = {} /\ limited = {}
  /\ rot = Resting
  /\ limits = 0 /\ lost = 0

-----------------------------------------------------------------------------
(* The pool.                                                               *)

\* A counter after one of its holders left `from` and one came to `to`.
Recount(count, from, to) ==
  [l \in Lanes |-> count[l] + (IF l = to THEN 1 ELSE 0) - (IF l = from THEN 1 ELSE 0)]

\* Mutant: a rotating lane is no reason to turn a request away.
AcquirableInMaintenance(lanes) == lanes

\* ProviderEgressPool::acquire turns requests away from a rotating lane.
Acquirable(lanes) == lanes \ maint

\* ProviderEgressPool::failover: the lanes a turn that has tried `tried` may
\* get.  A lane without a pass-over mark comes before one with a mark, and the
\* cursor that spreads the turns makes any lane of a group the first.
Failover(tried) == Acquirable(Lanes \ tried)

\* acquire_zen_egress(lane).ok().flatten(): None is a send without a guard.
Reacquired(l) == IF Acquirable({l}) # {} THEN l ELSE None

-----------------------------------------------------------------------------
(* Steps a turn's actions are made of.  `s` is the state of turn t.        *)

Becomes(t, s) == turn' = [turn EXCEPT ![t] = s]
Guards(t, l) == inFlight' = Recount(inFlight, turn[t].guard, l)
FreesSlot(t) == slots' = Recount(slots, turn[t].slot, None)

LanesKept == UNCHANGED <<maint, limited, rot, limits, lost>>

\* send_with_retry returns or its future is dropped: everything is given back.
Ends(t) == Becomes(t, Done) /\ Guards(t, None) /\ FreesSlot(t)

\* The loop breaks with a response; the guard rides in its body.
Answers(t) ==
  /\ Becomes(t, [New EXCEPT !.pc = "stream", !.lane = turn[t].lane, !.guard = turn[t].guard])
  /\ FreesSlot(t)
  /\ UNCHANGED inFlight

\* A turn's state when it starts a send that counts against its attempts.
Sending(s) == [s EXCEPT !.pc = "send", !.attempt = @ + 1]

\* Lane::move_on, and at once the next send: a move is no attempt.
Moved(s, l) ==
  [s EXCEPT !.pc = "send", !.lane = l, !.guard = l, !.tried = @ \cup {l}, !.moves = @ + 1]
CanMove(s) == s.moves < MaxFailovers /\ Failover(s.tried) # {}
MovesOn(t) ==
  \E l \in Failover(turn[t].tried) :
    Becomes(t, Moved(turn[t], l)) /\ Guards(t, l) /\ UNCHANGED slots

BacksOff(t) == Becomes(t, [turn[t] EXCEPT !.pc = "sleep"]) /\ UNCHANGED <<inFlight, slots>>

-----------------------------------------------------------------------------
(* A turn, up to its first send.                                           *)

\* AppState::zen_client_for_lane: the lane the stream is assigned to, or another
\* when that one rotates or is passed over; with every lane rotating the turn
\* is refused (select_upstream_client).
Start(t) ==
  /\ turn[t].pc = "new"
  /\ \/ Acquirable(Lanes) = {} /\ Becomes(t, Done) /\ UNCHANGED inFlight
     \/ \E l \in Acquirable(Lanes) :
          /\ Becomes(t, [New EXCEPT !.pc = IF MaxInflight = 0 THEN "sleep" ELSE "slot",
                                    !.lane = l, !.guard = l, !.tried = {l}])
          /\ Guards(t, l)
  /\ UNCHANGED slots /\ LanesKept

\* acquire_zen_slot loads the counter; full, it sleeps and loads it again.
LoadSlots(t) ==
  /\ turn[t].pc = "slot"
  /\ slots[turn[t].lane] < MaxInflight
  /\ Becomes(t, [turn[t] EXCEPT !.pc = "cas", !.seen = slots[turn[t].lane]])
  /\ UNCHANGED <<inFlight, slots>> /\ LanesKept

\* Waited long enough: the turn goes on without a slot.
ForgoSlot(t) ==
  /\ turn[t].pc = "slot"
  /\ slots[turn[t].lane] >= MaxInflight
  /\ Becomes(t, [turn[t] EXCEPT !.pc = "sleep"])
  /\ UNCHANGED <<inFlight, slots>> /\ LanesKept

\* Mutant: the counter is stored, not exchanged.
StoresSlot(s) == TRUE

\* compare_exchange
Exchanges(s) == slots[s.lane] = s.seen

TakeSlot(t) ==
  LET s == turn[t]
  IN  /\ s.pc = "cas"
      /\ IF Exchanges(s)
         THEN /\ Becomes(t, [s EXCEPT !.pc = "sleep", !.slot = s.lane, !.seen = 0])
              /\ slots' = [slots EXCEPT ![s.lane] = s.seen + 1]
         ELSE /\ Becomes(t, [s EXCEPT !.pc = "slot", !.seen = 0])
              /\ UNCHANGED slots
      /\ UNCHANGED inFlight /\ LanesKept

\* wait_behind_parked_host or a backoff is over.
SendAgain(t) ==
  /\ turn[t].pc = "sleep"
  /\ Becomes(t, Sending(turn[t]))
  /\ UNCHANGED <<inFlight, slots>> /\ LanesKept

-----------------------------------------------------------------------------
(* What a send may meet.                                                   *)

\* A status the loop returns as it is: a success, a client error, or an error
\* that tells the proxy not to retry.  The two last resends return any status.
AnswerKept(t) ==
  /\ \/ turn[t].pc = "resend"
     \/ turn[t].pc = "send" /\ turn[t].lane \notin limited
  /\ Answers(t)
  /\ LanesKept

\* 413: one last send without the replayed head (try_replay_stripped_resend).
AnswerTooLarge(t) ==
  /\ turn[t].pc = "send" /\ turn[t].lane \notin limited
  /\ Becomes(t, [turn[t] EXCEPT !.pc = "resend"])
  /\ UNCHANGED <<inFlight, slots>> /\ LanesKept

\* Mutant: the parked turn keeps its in-flight guard.
ParksCounted(t, s) == Becomes(t, [s EXCEPT !.guard = turn[t].guard]) /\ FreesSlot(t) /\ UNCHANGED inFlight

\* A parked turn gives back its slot and its guard.
Parks(t, s) == Becomes(t, s) /\ FreesSlot(t) /\ Guards(t, None)

\* 429: the turn moves, backs off, gives up when it
\* is told to, and is parked in the hold (try_zen_hold) after its attempts.
AnswerLimited(t) ==
  LET s == turn[t]
  IN  /\ s.pc = "send" /\ s.lane \in limited
      /\ IF CanMove(s) THEN MovesOn(t)
         ELSE IF s.attempt < MaxAttempts THEN BacksOff(t) \/ Answers(t)
         ELSE Parks(t, [New EXCEPT !.pc = "hold", !.lane = s.lane])
      /\ LanesKept

\* Mutant: the hold goes on for a round past its budget.
PauseLeftLate(rounds, max) == rounds <= max

\* HoldClock::next_pause: the clock has time left, or may have run out since
\* the first pause.
PauseLeft(rounds, max) == rounds < max
PauseSpent(rounds, max) == rounds > 0 \/ max = 0

\* 5xx: back off, then pause in rounds while the clock allows it
\* (hold_for_overload), then return the error.
AnswerOverloaded(t) ==
  LET s == turn[t]
  IN  /\ s.pc = "send" /\ s.lane \notin limited
      /\ IF s.attempt < MaxAttempts THEN BacksOff(t)
         ELSE \/ /\ PauseLeft(s.overload, OverloadRounds)
                 /\ Parks(t, [s EXCEPT !.pc = "overload", !.guard = None, !.slot = None,
                                       !.overload = @ + 1])
              \/ PauseSpent(s.overload, OverloadRounds) /\ Answers(t)
      /\ LanesKept

\* A connect failed (recover_zen_send, then handle_transport_error).
ConnectFails(t) ==
  LET s == turn[t]
  IN  /\ s.pc = "send"
      /\ IF CanMove(s) THEN MovesOn(t)
         ELSE IF s.attempt < MaxAttempts THEN BacksOff(t)
         ELSE \/ /\ PauseLeft(s.transport, TransportRounds)
                 /\ Becomes(t, [s EXCEPT !.pc = "transport", !.guard = None, !.transport = @ + 1])
                 /\ Guards(t, None) /\ UNCHANGED slots
              \/ PauseSpent(s.transport, TransportRounds) /\ Ends(t)
      /\ LanesKept

\* Any other failed send: a retryable one moves or backs off, the rest end the
\* turn with 502 or 503.
SendFails(t) ==
  LET s == turn[t]
  IN  /\ s.pc \in {"send", "resend"}
      /\ \/ s.pc = "send" /\ CanMove(s) /\ MovesOn(t)
         \/ s.pc = "send" /\ ~CanMove(s) /\ s.attempt < MaxAttempts /\ BacksOff(t)
         \/ Ends(t)
      /\ LanesKept

\* The overload pause is over: the guard is taken again, or not.
OverloadOver(t) ==
  LET s == [turn[t] EXCEPT !.attempt = 0, !.guard = Reacquired(turn[t].lane)]
  IN  /\ turn[t].pc = "overload"
      /\ Becomes(t, Sending(s)) /\ Guards(t, s.guard)
      /\ UNCHANGED slots /\ LanesKept

\* The transport pause is over: a fresh round, on another lane if one is open.
TransportOver(t) ==
  LET s == [turn[t] EXCEPT !.attempt = 1, !.tried = {turn[t].lane}, !.moves = 0]
      l == Reacquired(s.lane)
  IN  /\ s.pc = "transport"
      /\ IF CanMove(s)
         THEN \E m \in Failover(s.tried) : Becomes(t, Moved(s, m)) /\ Guards(t, m)
         ELSE Becomes(t, [s EXCEPT !.pc = "send", !.guard = l]) /\ Guards(t, l)
      /\ UNCHANGED slots /\ LanesKept

-----------------------------------------------------------------------------
(* The 429 hold (hold_for_rotation).                                       *)

\* run_hold_probe sends, unless the lane rotates; a skipped probe changes
\* nothing.
Probe(t) ==
  LET l == turn[t].lane
  IN  /\ turn[t].pc = "hold" /\ Acquirable({l}) # {}
      /\ Becomes(t, [turn[t] EXCEPT !.pc = "probe", !.guard = l]) /\ Guards(t, l)
      /\ UNCHANGED slots /\ LanesKept

\* The probe's answer is not a 429.
ProbeRecovers(t) ==
  /\ turn[t].pc = "probe" /\ turn[t].lane \notin limited
  /\ Answers(t)
  /\ LanesKept

\* Another 429, or any transport error: the turn stays parked.
ProbeFails(t) ==
  /\ turn[t].pc = "probe"
  /\ Parks(t, [turn[t] EXCEPT !.pc = "hold", !.guard = None])
  /\ LanesKept

\* A positive retry_zen_hold_budget_ms is spent: one honest resend, or 503
\* when the lane rotates.
HoldSpent(t) ==
  LET l == turn[t].lane
  IN  /\ turn[t].pc = "hold"
      /\ IF Acquirable({l}) = {} THEN Ends(t)
         ELSE /\ Becomes(t, [turn[t] EXCEPT !.pc = "resend", !.guard = l]) /\ Guards(t, l)
              /\ UNCHANGED slots
      /\ LanesKept

-----------------------------------------------------------------------------
(* The end of a turn.                                                      *)

\* The last byte of the answer, or the first error in it.
StreamEnds(t) ==
  /\ turn[t].pc = "stream"
  /\ Ends(t)
  /\ LanesKept

\* The client goes away: the future or the body is dropped where it is.
Disconnect(t) ==
  /\ turn[t].pc \notin {"new", "done"}
  /\ Ends(t)
  /\ LanesKept

-----------------------------------------------------------------------------
(* The provider.                                                           *)

Limit(l) ==
  /\ l \notin limited /\ limits < MaxLimits
  /\ limited' = limited \cup {l} /\ limits' = limits + 1
  /\ UNCHANGED <<turn, inFlight, slots, maint, rot, lost>>

-----------------------------------------------------------------------------
(* The relay rotates one lane at a time (Manager::rotate).                 *)

TurnsKept == UNCHANGED <<turn, inFlight, slots, limits>>

\* gate_and_drain gates the lane at the proxy.
Gate(l) ==
  /\ rot.phase = "idle"
  /\ rot' = [phase |-> "drain", lane |-> l]
  /\ maint' = maint \cup {l}
  /\ TurnsKept /\ UNCHANGED <<limited, lost>>

\* The call fails, applied or not, and the rotation is given up.
GateLost(l) ==
  /\ rot.phase = "idle" /\ lost < MaxLost
  /\ maint' \in {maint, maint \cup {l}}
  /\ lost' = lost + 1
  /\ TurnsKept /\ UNCHANGED <<limited, rot>>

\* drain_egress reads zero; the lane gets its new exit.
Drained ==
  /\ rot.phase = "drain" /\ inFlight[rot.lane] = 0
  /\ rot' = [rot EXCEPT !.phase = "cut"]
  /\ limited' = limited \ {rot.lane}
  /\ TurnsKept /\ UNCHANGED <<maint, lost>>

\* ROTATION_DRAIN_TIMEOUT runs out.  It outlasts a probe, which a limited exit
\* refuses at once, and not every answer; or the polls of the count fail.
DrainTimesOut ==
  /\ rot.phase = "drain"
  /\ \/ (\E t \in Turns : turn[t].guard = rot.lane /\ turn[t].pc # "probe") /\ UNCHANGED lost
     \/ lost < MaxLost /\ lost' = lost + 1
  /\ rot' = [rot EXCEPT !.phase = "lift"]
  /\ TurnsKept /\ UNCHANGED <<maint, limited>>

\* reopen cuts what still runs on the old exit (close_active).
Cut ==
  /\ rot.phase = "cut"
  /\ rot' = [rot EXCEPT !.phase = "lift"]
  /\ TurnsKept /\ UNCHANGED <<maint, limited, lost>>

\* Mutant: the relay forgets to open the lane.
LiftsNothing == maint

\* The lanes gated once the relay has opened its lane again.
Lifted == maint \ {rot.lane}

Lift ==
  /\ rot.phase = "lift"
  /\ rot' = Resting
  /\ maint' = Lifted
  /\ TurnsKept /\ UNCHANGED <<limited, lost>>

\* The call to open it fails, applied or not: "restart Headroom".
LiftLost ==
  /\ rot.phase = "lift" /\ lost < MaxLost
  /\ rot' = Resting
  /\ maint' \in {maint, Lifted}
  /\ lost' = lost + 1
  /\ TurnsKept /\ UNCHANGED limited

-----------------------------------------------------------------------------
\* What a turn and its upstream do by themselves.
Proceed(t) ==
  \/ LoadSlots(t) \/ ForgoSlot(t) \/ TakeSlot(t) \/ SendAgain(t)
  \/ AnswerKept(t) \/ AnswerTooLarge(t) \/ AnswerLimited(t)
  \/ AnswerOverloaded(t) \/ ConnectFails(t) \/ SendFails(t)
  \/ OverloadOver(t) \/ TransportOver(t)
  \/ Probe(t) \/ ProbeRecovers(t) \/ ProbeFails(t) \/ StreamEnds(t)

Next ==
  \/ \E t \in Turns : Start(t) \/ Proceed(t) \/ HoldSpent(t) \/ Disconnect(t)
  \/ \E l \in Lanes : Limit(l) \/ Gate(l) \/ GateLost(l)
  \/ Drained \/ DrainTimesOut \/ Cut \/ Lift \/ LiftLost

(***************************************************************************)
(* Sleeps end, requests are answered or fail, answers end, and the relay   *)
(* goes on with a rotation.  The rotation watcher asks for every lane once *)
(* an hour, and the relay skips the idle ones (is_idle), so a lane that    *)
(* turns use is not left out for ever; one that stays gated is, since      *)
(* nothing connects over it.  Between two rotations of a lane lie minutes, *)
(* between two probes half a minute at most, so a probe finds its lane     *)
(* open some time; and a probe over an open lane that is not limited gets  *)
(* through some time.  No client has to go away, and the 429 hold has no   *)
(* budget by default.                                                      *)
(***************************************************************************)
InUse(l) == l \notin maint /\ \E t \in Turns : turn[t].lane = l

Fairness ==
  /\ \A t \in Turns : WF_vars(Proceed(t)) /\ SF_vars(Probe(t)) /\ SF_vars(ProbeRecovers(t))
  /\ \A l \in Lanes : SF_vars(InUse(l) /\ Gate(l))
  /\ WF_vars(Drained) /\ WF_vars(Cut) /\ WF_vars(Lift)

Spec == Init /\ [][Next]_vars /\ Fairness

-----------------------------------------------------------------------------
(* Properties.                                                             *)

\* Every guard and every slot is given back once, on the lane it was taken on,
\* whatever path a turn takes: a lane's in_flight is the number of turns that
\* have its guard, its counter the number that have its slot, and no more have
\* one than the cap allows (EgressInflightGuard, ZenSlot, Lane::move_on,
\* acquire_zen_slot).
CountsExact ==
  \A l \in Lanes :
    /\ inFlight[l] = Cardinality({t \in Turns : turn[t].guard = l})
    /\ slots[l] = Cardinality({t \in Turns : turn[t].slot = l})
    /\ slots[l] <= MaxInflight

OnCutLane(t) == rot.phase = "cut" /\ turn[t].pc \in Live /\ turn[t].lane = rot.lane

\* When the relay cuts the old tunnels of a lane, the only requests it can hit
\* are those of turns that came back from an overload or transport pause while
\* the lane was gated and send uncounted; a turn in its first round, a probe of
\* the 429 hold and a lane move are all covered by the drain (acquire,
\* set_maintenance, gate_and_drain, run_hold_probe).
OnlyResumedTurnsAreCut ==
  \A t \in Turns :
    OnCutLane(t) =>
      /\ turn[t].guard = None
      /\ turn[t].pc # "stream" => turn[t].overload + turn[t].transport > 0

\* "Existing requests remain visible to the normal in-flight drain and can
\* finish before old tunnels are closed": no request is on the lane whose
\* tunnels are cut (set_zen_egress_maintenance).
NoTurnIsCut == \A t \in Turns : ~OnCutLane(t)

\* The relay gave up a rotation on a lost control call and the proxy still
\* turns requests away from the lane.
LeftGated(l) == lost > 0 /\ l \in maint /\ rot.lane # l

\* A turn that has started ends, answered or refused, with nobody's help: the
\* hold waits for a rotation of its lane, and the rotation waits for no turn
\* that waits for it.  The one way to wait for ever is on a lane that a lost
\* control call leaves gated (hold_for_rotation, wait_for_proxy_drain, is_idle).
EveryTurnEnds ==
  \A t \in Turns :
    turn[t].pc \notin {"new", "done"} ~> (turn[t].pc = "done" \/ LeftGated(turn[t].lane))

\* A rotation that loses no control call opens the lane it gated, drained or
\* timed out, whatever the turns on the lane do (gate_and_drain, reopen).
GateLifts == \A l \in Lanes : l \in maint ~> (l \notin maint \/ LeftGated(l))

=============================================================================
