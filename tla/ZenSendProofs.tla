---------------------------- MODULE ZenSendProofs ----------------------------
(***************************************************************************)
(* TLAPS proofs about routed Zen turns and the rotation of their lanes,    *)
(* for every number of turns and lanes, every send cap, every number of    *)
(* attempts, moves and pauses, and any number of limits and lost control   *)
(* calls.                                                                  *)
(***************************************************************************)
EXTENDS ZenSend, FiniteSetTheorems, TLAPS

\* Stages in which a turn that has no guard waits and sends nothing.
Unsent == {"new", "done", "hold", "overload", "transport"}

\* What a turn's record says at each stage: it has a lane from its first step
\* to its last; it has no slot before it took one and none in the 429 hold; a
\* counter seen below the cap is what it tries to take a slot with; a sleep
\* leaves an attempt; its guard is on the lane it sends on; and it sends
\* without a guard only after a pause.
TurnOK(s) ==
  /\ s.pc \in {"new", "done"} => s.guard = None /\ s.slot = None
  /\ s.pc \notin {"new", "done"} => s.lane \in Lanes
  /\ s.pc \in {"slot", "cas", "hold", "probe"} => s.slot = None
  /\ s.pc = "cas" => s.seen < MaxInflight
  /\ s.pc \in {"slot", "cas", "sleep"} => s.attempt < MaxAttempts
  /\ s.guard \in {None, s.lane}
  /\ s.pc = "overload" => s.overload > 0
  /\ s.pc = "transport" => s.transport > 0
  /\ s.pc \notin Unsent \cup {"stream"} => s.guard # None \/ s.overload + s.transport > 0

TurnsOK == \A t \in Turns : TurnOK(turn[t])

\* The lane of a rotation is gated to its end, and nothing is counted on it
\* once it has drained.
RotationGated ==
  /\ rot.phase # "idle" => rot.lane \in maint
  /\ rot.phase = "cut" => inFlight[rot.lane] = 0

\* The inductive invariant.
IInv == TypeOK /\ CountsExact /\ TurnsOK /\ RotationGated

-----------------------------------------------------------------------------
(* Counting holders.                                                       *)

(* A turn that trades its guard or slot for x is one holder less where it  *)
(* was and one more where it is.                                           *)
LEMMA CountMoved ==
  ASSUME NEW h \in [Turns -> LaneOrNone], NEW t \in Turns, NEW x \in LaneOrNone, NEW l \in Lanes
  PROVE  Cardinality({u \in Turns : [h EXCEPT ![t] = x][u] = l})
           = Cardinality({u \in Turns : h[u] = l})
               + (IF l = x THEN 1 ELSE 0) - (IF l = h[t] THEN 1 ELSE 0)
<1> DEFINE S == {u \in Turns : h[u] = l}
           R == {u \in Turns : [h EXCEPT ![t] = x][u] = l}
<1>1. IsFiniteSet(S) /\ Cardinality(S) \in Nat
  BY FS_Subset, FS_CardinalityType, TurnsAssumption
<1>2. CASE (l = x) <=> (l = h[t])
  <2>1. R = S
    BY <1>2
  <2> QED BY <1>1, <1>2, <2>1
<1>3. CASE l = x /\ l # h[t]
  <2>1. R = S \cup {t} /\ t \notin S
    BY <1>3
  <2> HIDE DEF S, R
  <2>2. Cardinality(R) = Cardinality(S) + 1
    BY <1>1, <2>1, FS_AddElement
  <2> QED BY <1>1, <1>3, <2>2 DEF S, R
<1>4. CASE l # x /\ l = h[t]
  <2>1. R = S \ {t} /\ t \in S
    BY <1>4
  <2> HIDE DEF S, R
  <2>2. Cardinality(R) = Cardinality(S) - 1
    BY <1>1, <2>1, FS_RemoveElement
  <2> QED BY <1>1, <1>4, <2>2 DEF S, R
<1> QED BY <1>2, <1>3, <1>4

(* The same for the guards and the slots of the turns.                     *)
LEMMA HoldersMoved ==
  ASSUME TypeOK, NEW t \in Turns, NEW s \in TurnState, Becomes(t, s), NEW l \in Lanes
  PROVE  /\ Cardinality({u \in Turns : turn'[u].guard = l})
              = Cardinality({u \in Turns : turn[u].guard = l})
                  + (IF l = s.guard THEN 1 ELSE 0) - (IF l = turn[t].guard THEN 1 ELSE 0)
         /\ Cardinality({u \in Turns : turn'[u].slot = l})
              = Cardinality({u \in Turns : turn[u].slot = l})
                  + (IF l = s.slot THEN 1 ELSE 0) - (IF l = turn[t].slot THEN 1 ELSE 0)
<1> DEFINE g == [u \in Turns |-> turn[u].guard]
           k == [u \in Turns |-> turn[u].slot]
<1>1. /\ g \in [Turns -> LaneOrNone] /\ k \in [Turns -> LaneOrNone]
      /\ s.guard \in LaneOrNone /\ s.slot \in LaneOrNone
  BY DEF TypeOK, TurnState
<1>2. /\ g[t] = turn[t].guard /\ k[t] = turn[t].slot
      /\ {u \in Turns : g[u] = l} = {u \in Turns : turn[u].guard = l}
      /\ {u \in Turns : k[u] = l} = {u \in Turns : turn[u].slot = l}
  OBVIOUS
<1>3. /\ {u \in Turns : [g EXCEPT ![t] = s.guard][u] = l} = {u \in Turns : turn'[u].guard = l}
      /\ {u \in Turns : [k EXCEPT ![t] = s.slot][u] = l} = {u \in Turns : turn'[u].slot = l}
  BY DEF TypeOK, Becomes
<1> HIDE DEF g, k
<1> QED BY <1>1, <1>2, <1>3, CountMoved

(* Keeping a guard or a slot is trading it for itself.                     *)
LEMMA RecountSame ==
  ASSUME NEW n, NEW count \in [Lanes -> 0 .. n], NEW x
  PROVE  Recount(count, x, x) = count
BY DEF Recount

-----------------------------------------------------------------------------
(* A step of one turn.                                                     *)

(* Every action of a turn replaces its record, trades its guard and its    *)
(* slot for the ones of the new record and leaves the relay alone.  It     *)
(* keeps the invariant if it takes no guard on a gated lane and no slot    *)
(* over the cap.                                                           *)
LEMMA TurnStep ==
  ASSUME IInv, NEW t \in Turns, NEW s \in TurnState, TurnOK(s),
         Becomes(t, s), Guards(t, s.guard),
         slots' = Recount(slots, turn[t].slot, s.slot),
         s.guard = turn[t].guard \/ s.guard \notin maint,
         s.slot \in {None, turn[t].slot} \/ slots[s.slot] < MaxInflight,
         LanesKept
  PROVE  IInv'
<1> USE DEF IInv
<1>1. turn' \in [Turns -> TurnState]
  BY DEF TypeOK, Becomes
<1>2. ASSUME NEW l \in Lanes
      PROVE  /\ inFlight'[l] = Cardinality({u \in Turns : turn'[u].guard = l})
             /\ slots'[l] = Cardinality({u \in Turns : turn'[u].slot = l})
  <2> DEFINE g == {u \in Turns : turn[u].guard = l}
             h == {u \in Turns : turn'[u].guard = l}
             k == {u \in Turns : turn[u].slot = l}
             m == {u \in Turns : turn'[u].slot = l}
  <2>1. /\ Cardinality(h) = Cardinality(g)
             + (IF l = s.guard THEN 1 ELSE 0) - (IF l = turn[t].guard THEN 1 ELSE 0)
        /\ Cardinality(m) = Cardinality(k)
             + (IF l = s.slot THEN 1 ELSE 0) - (IF l = turn[t].slot THEN 1 ELSE 0)
    BY HoldersMoved
  <2>2. inFlight[l] = Cardinality(g) /\ slots[l] = Cardinality(k)
    BY DEF CountsExact
  <2> HIDE DEF g, h, k, m
  <2>3. inFlight'[l] = Cardinality(h) /\ slots'[l] = Cardinality(m)
    BY <2>1, <2>2 DEF Guards, Recount
  <2> QED BY <2>3 DEF h, m
<1>3. ASSUME NEW l \in Lanes
      PROVE  /\ inFlight'[l] \in 0 .. Cardinality(Turns)
             /\ slots'[l] \in 0 .. MaxInflight
  <2> DEFINE h == {u \in Turns : turn'[u].guard = l}
             m == {u \in Turns : turn'[u].slot = l}
  <2>1. inFlight'[l] = Cardinality(h) /\ slots'[l] = Cardinality(m)
    BY <1>2
  <2>2. h \subseteq Turns /\ m \subseteq Turns
    OBVIOUS
  <2> HIDE DEF h, m
  <2>3. /\ Cardinality(Turns) \in Nat /\ Cardinality(m) \in Nat
        /\ Cardinality(h) \in Nat /\ Cardinality(h) <= Cardinality(Turns)
    BY <2>2, FS_Subset, FS_CardinalityType, TurnsAssumption
  <2>4. slots[l] \in 0 .. MaxInflight
    BY DEF TypeOK
  <2>5. slots'[l] <= MaxInflight
    BY <2>4, LanesAssumption, RetryAssumption DEF Recount
  <2> QED BY <2>1, <2>3, <2>5
<1>4. /\ inFlight' \in [Lanes -> 0 .. Cardinality(Turns)]
      /\ slots' \in [Lanes -> 0 .. MaxInflight]
  BY <1>3 DEF Guards, Recount
<1>5. TypeOK'
  BY <1>1, <1>4 DEF TypeOK, LanesKept
<1>6. CountsExact'
  <2> SUFFICES ASSUME NEW l \in Lanes
               PROVE  /\ inFlight'[l] = Cardinality({u \in Turns : turn'[u].guard = l})
                      /\ slots'[l] = Cardinality({u \in Turns : turn'[u].slot = l})
                      /\ slots'[l] <= MaxInflight
    BY DEF CountsExact
  <2>1. slots'[l] <= MaxInflight
    BY <1>3
  <2> QED BY <1>2, <2>1
<1>7. TurnsOK'
  BY DEF TypeOK, TurnsOK, Becomes
<1>8. RotationGated'
  <2>1. rot'.phase # "idle" => rot'.lane \in maint'
    BY DEF RotationGated, LanesKept
  <2>2. ASSUME rot.phase = "cut"
        PROVE  inFlight'[rot.lane] = 0
    <3>1. rot.lane \in maint /\ rot.lane \in Lanes /\ inFlight[rot.lane] = 0
      BY <2>2 DEF RotationGated, TypeOK
    <3>2. inFlight'[rot.lane] \in 0 .. Cardinality(Turns)
      BY <1>3, <3>1
    <3>3. inFlight'[rot.lane] <= 0
      BY <3>1 DEF Guards, Recount
    <3> QED BY <3>2, <3>3
  <2> QED BY <2>1, <2>2 DEF RotationGated, LanesKept
<1> QED BY <1>5, <1>6, <1>7, <1>8

(* A step that keeps the guard and the slot.                               *)
LEMMA QuietStep ==
  ASSUME IInv, NEW t \in Turns, NEW s \in TurnState, TurnOK(s), Becomes(t, s),
         s.guard = turn[t].guard, s.slot = turn[t].slot,
         UNCHANGED <<inFlight, slots>>, LanesKept
  PROVE  IInv'
<1>1. /\ Recount(inFlight, turn[t].guard, s.guard) = inFlight
      /\ Recount(slots, turn[t].slot, s.slot) = slots
  BY RecountSame DEF IInv, TypeOK
<1> QED BY <1>1, TurnStep DEF Guards

(* The record of a turn, and the empty ones.                               *)
LEMMA TurnFacts ==
  ASSUME IInv
  PROVE  /\ \A t \in Turns : turn[t] \in TurnState /\ TurnOK(turn[t])
         /\ New \in TurnState /\ TurnOK(New)
         /\ Done \in TurnState /\ TurnOK(Done)
<1>1. \A t \in Turns : turn[t] \in TurnState /\ TurnOK(turn[t])
  BY DEF IInv, TypeOK, TurnsOK
<1>2. New \in TurnState /\ Done \in TurnState
  BY RetryAssumption, RoundsAssumption DEF New, Done, TurnState, Stages, Live, LaneOrNone
<1>3. TurnOK(New) /\ TurnOK(Done)
  BY DEF TurnOK, New, Done, Unsent
<1> QED BY <1>1, <1>2, <1>3

(* A turn that is over has given everything back.                          *)
LEMMA EndsStep ==
  ASSUME IInv, NEW t \in Turns, Ends(t), LanesKept
  PROVE  IInv'
<1>1. Done.guard = None /\ Done.slot = None
  BY DEF Done, New
<1>2. None \notin maint
  BY LanesAssumption DEF IInv, TypeOK
<1> QED BY <1>1, <1>2, TurnFacts, TurnStep DEF Ends, FreesSlot

(* An answer keeps the guard for its body and gives back the slot.         *)
LEMMA AnswersStep ==
  ASSUME IInv, NEW t \in Turns, turn[t].pc \notin {"new", "done"}, Answers(t), LanesKept
  PROVE  IInv'
<1> DEFINE s == [New EXCEPT !.pc = "stream", !.lane = turn[t].lane, !.guard = turn[t].guard]
<1>1. turn[t] \in TurnState /\ TurnOK(turn[t]) /\ New \in TurnState
  BY TurnFacts
<1>2. s \in TurnState
  BY <1>1 DEF TurnState, Stages, Live
<1>3. TurnOK(s) /\ s.guard = turn[t].guard /\ s.slot = None
  BY <1>1 DEF TurnOK, New, TurnState, Unsent
<1>4. Becomes(t, s) /\ slots' = Recount(slots, turn[t].slot, None) /\ UNCHANGED inFlight
  BY DEF Answers, FreesSlot
<1> HIDE DEF s
<1>5. Guards(t, s.guard)
  BY <1>3, <1>4, RecountSame DEF Guards, IInv, TypeOK
<1> QED BY <1>2, <1>3, <1>4, <1>5, TurnStep

(* A turn that backs off has an attempt left.                              *)
LEMMA BacksOffStep ==
  ASSUME IInv, NEW t \in Turns, turn[t].pc = "send", turn[t].attempt < MaxAttempts,
         BacksOff(t), LanesKept
  PROVE  IInv'
<1> DEFINE s == [turn[t] EXCEPT !.pc = "sleep"]
<1>1. turn[t] \in TurnState /\ TurnOK(turn[t])
  BY TurnFacts
<1>2. s \in TurnState
  BY <1>1 DEF TurnState, Stages
<1>3. TurnOK(s) /\ s.guard = turn[t].guard /\ s.slot = turn[t].slot
  BY <1>1 DEF TurnOK, TurnState, Unsent
<1>4. Becomes(t, s) /\ UNCHANGED <<inFlight, slots>>
  BY DEF BacksOff
<1> HIDE DEF s
<1> QED BY <1>2, <1>3, <1>4, QuietStep

(* A lane a turn moves to or comes back to is not gated.                   *)
LEMMA OpenLanes ==
  ASSUME NEW lanes \in SUBSET Lanes
  PROVE  Acquirable(lanes) \in SUBSET (lanes \ maint)
BY DEF Acquirable

(* The record of a turn that has moved to an open lane.                    *)
LEMMA MovedType ==
  ASSUME NEW s \in TurnState, s.moves < MaxFailovers, NEW l \in Lanes
  PROVE  /\ Moved(s, l) \in TurnState /\ TurnOK(Moved(s, l))
         /\ Moved(s, l).guard = l /\ Moved(s, l).slot = s.slot
<1>1. s.moves + 1 \in 0 .. MaxFailovers
  BY RetryAssumption DEF TurnState
<1>2. Moved(s, l) \in TurnState
  BY <1>1 DEF Moved, TurnState, Stages, Live, LaneOrNone
<1>3. Moved(s, l).guard = l /\ Moved(s, l).slot = s.slot
  BY DEF Moved, TurnState
<1>4. TurnOK(Moved(s, l))
  BY LanesAssumption DEF Moved, TurnOK, TurnState, Unsent
<1> QED BY <1>2, <1>3, <1>4

(* A lane move trades the guard and keeps the slot.                        *)
LEMMA MovesOnStep ==
  ASSUME IInv, NEW t \in Turns, turn[t].pc = "send", CanMove(turn[t]), MovesOn(t), LanesKept
  PROVE  IInv'
<1>1. turn[t] \in TurnState /\ TurnOK(turn[t])
  BY TurnFacts
<1>2. PICK l \in Failover(turn[t].tried) :
        Becomes(t, Moved(turn[t], l)) /\ Guards(t, l) /\ UNCHANGED slots
  BY DEF MovesOn
<1>3. l \in Lanes /\ l \notin maint
  BY OpenLanes DEF Failover
<1>4. /\ Moved(turn[t], l) \in TurnState /\ TurnOK(Moved(turn[t], l))
      /\ Moved(turn[t], l).guard = l /\ Moved(turn[t], l).slot = turn[t].slot
  BY <1>1, <1>3, MovedType DEF CanMove
<1>5. slots' = Recount(slots, turn[t].slot, turn[t].slot)
  BY <1>2, RecountSame DEF IInv, TypeOK
<1> QED BY <1>2, <1>3, <1>4, <1>5, TurnStep

-----------------------------------------------------------------------------
(* The actions of a turn.                                                  *)

(* A turn starts on an open lane and with its guard, or not at all.        *)
LEMMA StartKeeps ==
  ASSUME IInv, NEW t \in Turns, Start(t)
  PROVE  IInv'
<1>1. /\ turn[t] \in TurnState /\ TurnOK(turn[t]) /\ turn[t].guard = None /\ turn[t].slot = None
      /\ New \in TurnState /\ Done \in TurnState /\ TurnOK(Done)
  BY TurnFacts DEF Start, TurnOK
<1>2. UNCHANGED slots /\ LanesKept
  BY DEF Start
<1>3. CASE Becomes(t, Done) /\ UNCHANGED inFlight
  <2>1. Done.guard = None /\ Done.slot = None
    BY DEF Done, New
  <2> QED BY <1>1, <1>2, <1>3, <2>1, QuietStep
<1>4. ASSUME NEW l \in Acquirable(Lanes), Guards(t, l),
             Becomes(t, [New EXCEPT !.pc = IF MaxInflight = 0 THEN "sleep" ELSE "slot",
                                    !.lane = l, !.guard = l, !.tried = {l}])
      PROVE  IInv'
  <2> DEFINE s == [New EXCEPT !.pc = IF MaxInflight = 0 THEN "sleep" ELSE "slot",
                              !.lane = l, !.guard = l, !.tried = {l}]
  <2>1. l \in Lanes /\ l \notin maint
    BY OpenLanes
  <2>2. s \in TurnState
    BY <1>1, <2>1 DEF TurnState, Stages, LaneOrNone
  <2>3. TurnOK(s) /\ s.guard = l /\ s.slot = None
    BY <2>1, LanesAssumption, RetryAssumption DEF TurnOK, New, Unsent
  <2>4. slots' = Recount(slots, turn[t].slot, None)
    BY <1>1, <1>2, RecountSame DEF IInv, TypeOK
  <2>5. Becomes(t, s)
    BY <1>4
  <2> HIDE DEF s
  <2> QED BY <1>2, <1>4, <2>1, <2>2, <2>3, <2>4, <2>5, TurnStep
<1> QED BY <1>3, <1>4 DEF Start

(* The counter the loop goes on with is below the cap.                     *)
LEMMA LoadSlotsKeeps ==
  ASSUME IInv, NEW t \in Turns, LoadSlots(t)
  PROVE  IInv'
<1> DEFINE s == [turn[t] EXCEPT !.pc = "cas", !.seen = slots[turn[t].lane]]
<1>1. turn[t] \in TurnState /\ TurnOK(turn[t]) /\ turn[t].lane \in Lanes
  BY TurnFacts DEF TurnOK, LoadSlots
<1>2. slots[turn[t].lane] \in 0 .. MaxInflight
  BY <1>1 DEF IInv, TypeOK
<1>3. s \in TurnState
  BY <1>1, <1>2 DEF TurnState, Stages
<1>4. TurnOK(s) /\ s.guard = turn[t].guard /\ s.slot = turn[t].slot
  BY <1>1 DEF LoadSlots, TurnOK, TurnState, Unsent
<1>5. Becomes(t, s) /\ UNCHANGED <<inFlight, slots>> /\ LanesKept
  BY DEF LoadSlots
<1> HIDE DEF s
<1> QED BY <1>3, <1>4, <1>5, QuietStep

(* Without a slot a turn goes on to its first attempt.                     *)
LEMMA ForgoSlotKeeps ==
  ASSUME IInv, NEW t \in Turns, ForgoSlot(t)
  PROVE  IInv'
<1> DEFINE s == [turn[t] EXCEPT !.pc = "sleep"]
<1>1. turn[t] \in TurnState /\ TurnOK(turn[t])
  BY TurnFacts
<1>2. s \in TurnState
  BY <1>1 DEF TurnState, Stages
<1>3. TurnOK(s) /\ s.guard = turn[t].guard /\ s.slot = turn[t].slot
  BY <1>1, RetryAssumption DEF ForgoSlot, TurnOK, TurnState, Unsent
<1>4. Becomes(t, s) /\ UNCHANGED <<inFlight, slots>> /\ LanesKept
  BY DEF ForgoSlot
<1> HIDE DEF s
<1> QED BY <1>2, <1>3, <1>4, QuietStep

(* compare_exchange takes a slot only at the count the loop loaded, which  *)
(* is below the cap.                                                       *)
LEMMA TakeSlotKeeps ==
  ASSUME IInv, NEW t \in Turns, TakeSlot(t)
  PROVE  IInv'
<1>0. 0 \in 0 .. MaxInflight
  BY RetryAssumption
<1>1. /\ turn[t] \in TurnState /\ TurnOK(turn[t]) /\ turn[t].pc = "cas"
      /\ turn[t].lane \in Lanes /\ turn[t].slot = None /\ turn[t].seen < MaxInflight
  BY TurnFacts DEF TurnOK, TakeSlot
<1>2. UNCHANGED inFlight /\ LanesKept
  BY DEF TakeSlot
<1>3. CASE Exchanges(turn[t])
  <2> DEFINE s == [turn[t] EXCEPT !.pc = "sleep", !.slot = turn[t].lane, !.seen = 0]
  <2>1. Becomes(t, s) /\ slots' = [slots EXCEPT ![turn[t].lane] = turn[t].seen + 1]
    BY <1>3 DEF TakeSlot
  <2>2. s \in TurnState
    BY <1>0, <1>1 DEF TurnState, Stages, LaneOrNone
  <2>3. TurnOK(s) /\ s.guard = turn[t].guard /\ s.slot = turn[t].lane
    BY <1>1, RetryAssumption DEF TurnOK, TurnState, Unsent
  <2>4. slots[turn[t].lane] = turn[t].seen /\ slots[turn[t].lane] < MaxInflight
    BY <1>1, <1>3 DEF Exchanges
  <2>5. slots' = Recount(slots, None, turn[t].lane)
    <3> DEFINE f == Recount(slots, None, turn[t].lane)
    <3>1. slots \in [Lanes -> 0 .. MaxInflight]
      BY DEF IInv, TypeOK
    <3>2. \A l \in Lanes : f[l] = slots'[l]
      BY <1>1, <2>1, <2>4, <3>1, LanesAssumption DEF Recount
    <3>3. f = [l \in Lanes |-> f[l]] /\ slots' = [l \in Lanes |-> slots'[l]]
      BY <2>1, <3>1 DEF Recount
    <3> QED BY <3>2, <3>3
  <2> HIDE DEF s
  <2>6. Guards(t, s.guard)
    BY <1>2, <2>3, RecountSame DEF Guards, IInv, TypeOK
  <2> QED BY <1>1, <1>2, <2>1, <2>2, <2>3, <2>4, <2>5, <2>6, TurnStep
<1>4. CASE ~Exchanges(turn[t])
  <2> DEFINE s == [turn[t] EXCEPT !.pc = "slot", !.seen = 0]
  <2>1. Becomes(t, s) /\ UNCHANGED slots
    BY <1>4 DEF TakeSlot
  <2>2. s \in TurnState
    BY <1>0, <1>1 DEF TurnState, Stages
  <2>3. TurnOK(s) /\ s.guard = turn[t].guard /\ s.slot = turn[t].slot
    BY <1>1 DEF TurnOK, TurnState, Unsent
  <2> HIDE DEF s
  <2> QED BY <1>2, <2>1, <2>2, <2>3, QuietStep
<1> QED BY <1>3, <1>4

(* A sleep ends in an attempt that is within the limit.                    *)
LEMMA SendAgainKeeps ==
  ASSUME IInv, NEW t \in Turns, SendAgain(t)
  PROVE  IInv'
<1> DEFINE s == Sending(turn[t])
<1>1. turn[t] \in TurnState /\ TurnOK(turn[t]) /\ turn[t].attempt < MaxAttempts
  BY TurnFacts DEF TurnOK, SendAgain
<1>2. turn[t].attempt + 1 \in 0 .. MaxAttempts
  BY <1>1, RetryAssumption DEF TurnState
<1>3. s \in TurnState
  BY <1>1, <1>2 DEF Sending, TurnState, Stages, Live
<1>4. TurnOK(s) /\ s.guard = turn[t].guard /\ s.slot = turn[t].slot
  BY <1>1 DEF SendAgain, Sending, TurnOK, TurnState, Unsent
<1>5. Becomes(t, s) /\ UNCHANGED <<inFlight, slots>> /\ LanesKept
  BY DEF SendAgain
<1> HIDE DEF s
<1> QED BY <1>3, <1>4, <1>5, QuietStep

(* The last resend rides on the guard of the send it repeats.              *)
LEMMA AnswerTooLargeKeeps ==
  ASSUME IInv, NEW t \in Turns, AnswerTooLarge(t)
  PROVE  IInv'
<1> DEFINE s == [turn[t] EXCEPT !.pc = "resend"]
<1>1. turn[t] \in TurnState /\ TurnOK(turn[t])
  BY TurnFacts
<1>2. s \in TurnState
  BY <1>1 DEF TurnState, Stages, Live
<1>3. TurnOK(s) /\ s.guard = turn[t].guard /\ s.slot = turn[t].slot
  BY <1>1 DEF AnswerTooLarge, TurnOK, TurnState, Unsent
<1>4. Becomes(t, s) /\ UNCHANGED <<inFlight, slots>> /\ LanesKept
  BY DEF AnswerTooLarge
<1> HIDE DEF s
<1> QED BY <1>2, <1>3, <1>4, QuietStep

(* 429: moved, backed off, answered, or parked in the hold with nothing.   *)
LEMMA AnswerLimitedKeeps ==
  ASSUME IInv, NEW t \in Turns, AnswerLimited(t)
  PROVE  IInv'
<1>1. turn[t] \in TurnState /\ TurnOK(turn[t]) /\ turn[t].pc = "send" /\ LanesKept
  BY TurnFacts DEF AnswerLimited
<1>2. CASE CanMove(turn[t])
  BY <1>1, <1>2, MovesOnStep DEF AnswerLimited
<1>3. CASE ~CanMove(turn[t]) /\ turn[t].attempt < MaxAttempts
  BY <1>1, <1>3, BacksOffStep, AnswersStep DEF AnswerLimited
<1>4. CASE ~CanMove(turn[t]) /\ ~(turn[t].attempt < MaxAttempts)
  <2> DEFINE s == [New EXCEPT !.pc = "hold", !.lane = turn[t].lane]
  <2>1. Becomes(t, s) /\ FreesSlot(t) /\ Guards(t, None)
    BY <1>4 DEF AnswerLimited, Parks
  <2>2. s \in TurnState
    BY <1>1, TurnFacts DEF TurnState, Stages
  <2>3. TurnOK(s) /\ s.guard = None /\ s.slot = None
    BY <1>1 DEF TurnOK, New, Unsent
  <2>4. None \notin maint
    BY LanesAssumption DEF IInv, TypeOK
  <2> HIDE DEF s
  <2> QED BY <1>1, <2>1, <2>2, <2>3, <2>4, TurnStep DEF FreesSlot
<1> QED BY <1>2, <1>3, <1>4

(* 5xx: backed off, answered, or paused with nothing and a round counted.  *)
LEMMA AnswerOverloadedKeeps ==
  ASSUME IInv, NEW t \in Turns, AnswerOverloaded(t)
  PROVE  IInv'
<1> DEFINE s == [turn[t] EXCEPT !.pc = "overload", !.guard = None, !.slot = None,
                                !.overload = @ + 1]
<1>1. turn[t] \in TurnState /\ TurnOK(turn[t]) /\ turn[t].pc = "send" /\ LanesKept
  BY TurnFacts DEF AnswerOverloaded
<1>2. CASE turn[t].attempt < MaxAttempts
  BY <1>1, <1>2, BacksOffStep DEF AnswerOverloaded
<1>3. CASE Answers(t)
  BY <1>1, <1>3, AnswersStep
<1>4. CASE PauseLeft(turn[t].overload, OverloadRounds) /\ Parks(t, s)
  <2>1. turn[t].overload + 1 \in 0 .. OverloadRounds /\ turn[t].overload + 1 > 0
    BY <1>1, <1>4, RoundsAssumption DEF PauseLeft, TurnState
  <2>2. s \in TurnState
    BY <1>1, <2>1 DEF TurnState, Stages, LaneOrNone
  <2>3. TurnOK(s) /\ s.guard = None /\ s.slot = None
    BY <1>1, <2>1 DEF TurnOK, TurnState, Unsent
  <2>4. None \notin maint
    BY LanesAssumption DEF IInv, TypeOK
  <2>5. Becomes(t, s) /\ FreesSlot(t) /\ Guards(t, None)
    BY <1>4 DEF Parks
  <2> HIDE DEF s
  <2> QED BY <1>1, <2>2, <2>3, <2>4, <2>5, TurnStep DEF FreesSlot
<1> QED BY <1>2, <1>3, <1>4 DEF AnswerOverloaded

(* A failed connect: moved, backed off, over, or paused without the guard. *)
LEMMA ConnectFailsKeeps ==
  ASSUME IInv, NEW t \in Turns, ConnectFails(t)
  PROVE  IInv'
<1> DEFINE s == [turn[t] EXCEPT !.pc = "transport", !.guard = None, !.transport = @ + 1]
<1>1. turn[t] \in TurnState /\ TurnOK(turn[t]) /\ turn[t].pc = "send" /\ LanesKept
  BY TurnFacts DEF ConnectFails
<1>2. CASE CanMove(turn[t])
  BY <1>1, <1>2, MovesOnStep DEF ConnectFails
<1>3. CASE ~CanMove(turn[t]) /\ turn[t].attempt < MaxAttempts
  BY <1>1, <1>3, BacksOffStep DEF ConnectFails
<1>4. CASE Ends(t)
  BY <1>1, <1>4, EndsStep
<1>5. CASE /\ PauseLeft(turn[t].transport, TransportRounds) /\ Becomes(t, s)
           /\ Guards(t, None) /\ UNCHANGED slots
  <2>1. turn[t].transport + 1 \in 0 .. TransportRounds /\ turn[t].transport + 1 > 0
    BY <1>1, <1>5, RoundsAssumption DEF PauseLeft, TurnState
  <2>2. s \in TurnState
    BY <1>1, <2>1 DEF TurnState, Stages, LaneOrNone
  <2>3. TurnOK(s) /\ s.guard = None /\ s.slot = turn[t].slot
    BY <1>1, <2>1 DEF TurnOK, TurnState, Unsent
  <2>4. None \notin maint
    BY LanesAssumption DEF IInv, TypeOK
  <2>5. slots' = Recount(slots, turn[t].slot, turn[t].slot)
    BY <1>5, RecountSame DEF IInv, TypeOK
  <2> HIDE DEF s
  <2> QED BY <1>1, <1>5, <2>2, <2>3, <2>4, <2>5, TurnStep
<1> QED BY <1>2, <1>3, <1>4, <1>5 DEF ConnectFails

(* Any other failed send moves, backs off or ends the turn.                *)
LEMMA SendFailsKeeps ==
  ASSUME IInv, NEW t \in Turns, SendFails(t)
  PROVE  IInv'
BY MovesOnStep, BacksOffStep, EndsStep DEF SendFails

(* A lane taken again after a pause is the turn's own and open, or none.   *)
LEMMA ReacquiredLane ==
  ASSUME IInv, NEW l \in Lanes
  PROVE  Reacquired(l) \in {None, l} /\ Reacquired(l) \notin maint
<1>1. None \notin maint
  BY LanesAssumption DEF IInv, TypeOK
<1>2. Acquirable({l}) # {} => l \notin maint
  BY OpenLanes
<1> QED BY <1>1, <1>2 DEF Reacquired

(* After an overload pause a turn sends with or without the guard.         *)
LEMMA OverloadOverKeeps ==
  ASSUME IInv, NEW t \in Turns, OverloadOver(t)
  PROVE  IInv'
<1> DEFINE g == Reacquired(turn[t].lane)
           r == [turn[t] EXCEPT !.attempt = 0, !.guard = g]
           s == Sending(r)
<1>1. /\ turn[t] \in TurnState /\ TurnOK(turn[t]) /\ turn[t].pc = "overload"
      /\ turn[t].lane \in Lanes /\ UNCHANGED slots /\ LanesKept
  BY TurnFacts DEF OverloadOver, TurnOK
<1>2. g \in {None, turn[t].lane} /\ g \notin maint
  BY <1>1, ReacquiredLane
<1>3. Becomes(t, s) /\ Guards(t, r.guard)
  BY DEF OverloadOver
<1> HIDE DEF g
<1>4. 0 \in 0 .. MaxAttempts /\ 0 + 1 \in 0 .. MaxAttempts
  BY RetryAssumption
<1>5. /\ r \in TurnState /\ r.attempt = 0 /\ r.guard = g /\ r.slot = turn[t].slot
      /\ r.lane = turn[t].lane /\ r.overload = turn[t].overload /\ r.transport = turn[t].transport
  BY <1>1, <1>2, <1>4 DEF TurnState, LaneOrNone
<1> HIDE DEF r
<1>6. s \in TurnState
  BY <1>4, <1>5 DEF Sending, TurnState, Stages, Live
<1>7. TurnOK(s) /\ s.guard = g /\ s.slot = turn[t].slot
  BY <1>1, <1>2, <1>5, RoundsAssumption DEF Sending, TurnOK, TurnState, Unsent
<1>8. slots' = Recount(slots, turn[t].slot, turn[t].slot)
  BY <1>1, RecountSame DEF IInv, TypeOK
<1> HIDE DEF s
<1> QED BY <1>1, <1>2, <1>3, <1>5, <1>6, <1>7, <1>8, TurnStep

(* After a transport pause a turn moves, or stays on its lane and sends    *)
(* with or without the guard.                                              *)
LEMMA TransportOverKeeps ==
  ASSUME IInv, NEW t \in Turns, TransportOver(t)
  PROVE  IInv'
<1> DEFINE g == Reacquired(turn[t].lane)
           r == [turn[t] EXCEPT !.attempt = 1, !.tried = {turn[t].lane}, !.moves = 0]
           s == [r EXCEPT !.pc = "send", !.guard = g]
<1>1. 1 \in 0 .. MaxAttempts /\ 0 \in 0 .. MaxFailovers
  BY RetryAssumption
<1>2. turn[t] \in TurnState /\ TurnOK(turn[t])
  BY TurnFacts
<1>3. /\ r.pc = turn[t].pc /\ r.lane = turn[t].lane /\ r.slot = turn[t].slot
      /\ r.overload = turn[t].overload /\ r.transport = turn[t].transport
  BY <1>2 DEF TurnState
<1>4. turn[t].pc = "transport" /\ UNCHANGED slots /\ LanesKept
  BY <1>3 DEF TransportOver
<1>5. turn[t].lane \in Lanes /\ turn[t].transport > 0
  BY <1>2, <1>4 DEF TurnOK
<1>6. r \in TurnState
  BY <1>1, <1>2, <1>5 DEF TurnState
<1>7. slots' = Recount(slots, turn[t].slot, turn[t].slot)
  BY <1>4, RecountSame DEF IInv, TypeOK
<1>8. CASE CanMove(r)
  <2>1. PICK m \in Failover(r.tried) : Becomes(t, Moved(r, m)) /\ Guards(t, m)
    BY <1>8 DEF TransportOver
  <2> HIDE DEF r
  <2>2. m \in Lanes /\ m \notin maint
    BY <2>1, OpenLanes DEF Failover
  <2>3. /\ Moved(r, m) \in TurnState /\ TurnOK(Moved(r, m))
        /\ Moved(r, m).guard = m /\ Moved(r, m).slot = turn[t].slot
    BY <1>3, <1>6, <1>8, <2>2, MovedType DEF CanMove
  <2> QED BY <1>4, <1>7, <2>1, <2>2, <2>3, TurnStep
<1>9. CASE ~CanMove(r)
  <2>1. Becomes(t, s) /\ Guards(t, g)
    BY <1>3, <1>9 DEF TransportOver
  <2>2. g \in {None, turn[t].lane} /\ g \notin maint
    BY <1>5, ReacquiredLane
  <2> HIDE DEF r, g
  <2>3. s \in TurnState
    BY <1>5, <1>6, <2>2 DEF TurnState, Stages, Live, LaneOrNone
  <2>4. TurnOK(s) /\ s.guard = g /\ s.slot = turn[t].slot
    BY <1>3, <1>5, <1>6, <2>2, RoundsAssumption DEF TurnOK, TurnState, Unsent
  <2> HIDE DEF s
  <2> QED BY <1>4, <1>7, <2>1, <2>2, <2>3, <2>4, TurnStep
<1> QED BY <1>8, <1>9

(* A turn in the hold that takes the guard of its lane to send.            *)
LEMMA LeavesHold ==
  ASSUME IInv, NEW t \in Turns, NEW stage \in {"probe", "resend"},
         turn[t].pc = "hold", Acquirable({turn[t].lane}) # {},
         Becomes(t, [turn[t] EXCEPT !.pc = stage, !.guard = turn[t].lane]),
         Guards(t, turn[t].lane), UNCHANGED slots, LanesKept
  PROVE  IInv'
<1> DEFINE s == [turn[t] EXCEPT !.pc = stage, !.guard = turn[t].lane]
<1>1. turn[t] \in TurnState /\ TurnOK(turn[t]) /\ turn[t].lane \in Lanes /\ turn[t].slot = None
  BY TurnFacts DEF TurnOK
<1>2. turn[t].lane \notin maint
  BY <1>1, OpenLanes
<1>3. s \in TurnState
  BY <1>1 DEF TurnState, Stages, Live, LaneOrNone
<1>4. TurnOK(s) /\ s.guard = turn[t].lane /\ s.slot = turn[t].slot
  BY <1>1, LanesAssumption DEF TurnOK, TurnState, Unsent
<1>5. slots' = Recount(slots, turn[t].slot, turn[t].slot)
  BY RecountSame DEF IInv, TypeOK
<1>6. Becomes(t, s)
  OBVIOUS
<1> HIDE DEF s
<1> QED BY <1>2, <1>3, <1>4, <1>5, <1>6, TurnStep

(* A failed probe gives its guard back; the hold had no slot to give.      *)
LEMMA ProbeFailsKeeps ==
  ASSUME IInv, NEW t \in Turns, ProbeFails(t)
  PROVE  IInv'
<1> DEFINE s == [turn[t] EXCEPT !.pc = "hold", !.guard = None]
<1>1. turn[t] \in TurnState /\ TurnOK(turn[t]) /\ turn[t].lane \in Lanes /\ turn[t].slot = None
  BY TurnFacts DEF ProbeFails, TurnOK
<1>2. s \in TurnState
  BY <1>1 DEF TurnState, Stages, LaneOrNone
<1>3. TurnOK(s) /\ s.guard = None /\ s.slot = None
  BY <1>1 DEF TurnOK, TurnState, Unsent
<1>4. None \notin maint
  BY LanesAssumption DEF IInv, TypeOK
<1>5. Becomes(t, s) /\ FreesSlot(t) /\ Guards(t, None) /\ LanesKept
  BY DEF ProbeFails, Parks
<1> HIDE DEF s
<1> QED BY <1>2, <1>3, <1>4, <1>5, TurnStep DEF FreesSlot

(* Any step of a turn.                                                     *)
LEMMA TurnKeeps ==
  ASSUME IInv, NEW t \in Turns, Start(t) \/ Proceed(t) \/ HoldSpent(t) \/ Disconnect(t)
  PROVE  IInv'
<1>1. CASE Start(t)  BY <1>1, StartKeeps
<1>2. CASE LoadSlots(t)  BY <1>2, LoadSlotsKeeps
<1>3. CASE ForgoSlot(t)  BY <1>3, ForgoSlotKeeps
<1>4. CASE TakeSlot(t)  BY <1>4, TakeSlotKeeps
<1>5. CASE SendAgain(t)  BY <1>5, SendAgainKeeps
<1>6. CASE AnswerKept(t)  BY <1>6, AnswersStep DEF AnswerKept
<1>7. CASE AnswerTooLarge(t)  BY <1>7, AnswerTooLargeKeeps
<1>8. CASE AnswerLimited(t)  BY <1>8, AnswerLimitedKeeps
<1>9. CASE AnswerOverloaded(t)  BY <1>9, AnswerOverloadedKeeps
<1>10. CASE ConnectFails(t)  BY <1>10, ConnectFailsKeeps
<1>11. CASE SendFails(t)  BY <1>11, SendFailsKeeps
<1>12. CASE OverloadOver(t)  BY <1>12, OverloadOverKeeps
<1>13. CASE TransportOver(t)  BY <1>13, TransportOverKeeps
<1>14. CASE Probe(t)  BY <1>14, LeavesHold DEF Probe
<1>15. CASE ProbeRecovers(t)  BY <1>15, AnswersStep DEF ProbeRecovers
<1>16. CASE ProbeFails(t)  BY <1>16, ProbeFailsKeeps
<1>17. CASE StreamEnds(t)  BY <1>17, EndsStep DEF StreamEnds
<1>18. CASE HoldSpent(t)  BY <1>18, EndsStep, LeavesHold DEF HoldSpent
<1>19. CASE Disconnect(t)  BY <1>19, EndsStep DEF Disconnect
<1> QED
  BY <1>1, <1>2, <1>3, <1>4, <1>5, <1>6, <1>7, <1>8, <1>9, <1>10, <1>11, <1>12, <1>13,
     <1>14, <1>15, <1>16, <1>17, <1>18, <1>19 DEF Proceed

-----------------------------------------------------------------------------
(* The provider and the relay.                                             *)

(* What they do touches no turn and no count.                              *)
LEMMA CountsKept ==
  ASSUME IInv, UNCHANGED <<turn, inFlight, slots>>, TypeOK', RotationGated'
  PROVE  IInv'
BY DEF IInv, CountsExact, TurnsOK

(* A lane is gated before it drains, is empty when it is cut, and opens    *)
(* only with the rotation over; a lost call leaves the relay idle.         *)
LEMMA RelayKeeps ==
  ASSUME IInv,
         \/ \E l \in Lanes : Limit(l) \/ Gate(l) \/ GateLost(l)
         \/ Drained \/ DrainTimesOut \/ Cut \/ Lift \/ LiftLost
  PROVE  IInv'
<1> USE DEF IInv
<1>1. ASSUME NEW l \in Lanes, Limit(l) \/ Gate(l) \/ GateLost(l)
      PROVE  IInv'
  <2>1. UNCHANGED <<turn, inFlight, slots>>
    BY <1>1 DEF Limit, Gate, GateLost, TurnsKept
  <2>2. TypeOK'
    BY <1>1, BoundAssumption DEF TypeOK, Limit, Gate, GateLost, TurnsKept, LaneOrNone
  <2>3. RotationGated'
    BY <1>1 DEF TypeOK, RotationGated, Limit, Gate, GateLost, TurnsKept
  <2> QED BY <2>1, <2>2, <2>3, CountsKept
<1>2. ASSUME Drained \/ DrainTimesOut \/ Cut \/ Lift \/ LiftLost
      PROVE  IInv'
  <2>1. UNCHANGED <<turn, inFlight, slots>>
    BY <1>2 DEF Drained, DrainTimesOut, Cut, Lift, LiftLost, TurnsKept
  <2>2. TypeOK'
    BY <1>2, BoundAssumption
    DEF TypeOK, Drained, DrainTimesOut, Cut, Lift, LiftLost, TurnsKept, Lifted, Resting, LaneOrNone
  <2>3. RotationGated'
    BY <1>2
    DEF TypeOK, RotationGated, Drained, DrainTimesOut, Cut, Lift, LiftLost, TurnsKept, Resting
  <2> QED BY <2>1, <2>2, <2>3, CountsKept
<1> QED BY <1>1, <1>2

-----------------------------------------------------------------------------
(* The invariant and what follows from it.                                 *)

(* At the start nobody has anything.                                       *)
LEMMA InitOK ==
  ASSUME Init
  PROVE  IInv
<1>1. TypeOK
  <2>1. New \in TurnState
    BY RetryAssumption, RoundsAssumption DEF New, TurnState, Stages, Live, LaneOrNone
  <2>2. Cardinality(Turns) \in Nat
    BY FS_CardinalityType, TurnsAssumption
  <2> QED BY <2>1, <2>2, RetryAssumption, BoundAssumption DEF Init, TypeOK, Resting, LaneOrNone
<1>2. CountsExact
  <2> SUFFICES ASSUME NEW l \in Lanes
               PROVE  /\ inFlight[l] = Cardinality({t \in Turns : turn[t].guard = l})
                      /\ slots[l] = Cardinality({t \in Turns : turn[t].slot = l})
                      /\ slots[l] <= MaxInflight
    BY DEF CountsExact
  <2>1. {t \in Turns : turn[t].guard = l} = {} /\ {t \in Turns : turn[t].slot = l} = {}
    BY LanesAssumption DEF Init, New
  <2>2. Cardinality({}) = 0
    BY FS_EmptySet
  <2>3. inFlight[l] = 0 /\ slots[l] = 0
    BY DEF Init
  <2>4. 0 <= MaxInflight
    BY RetryAssumption
  <2> QED BY <2>1, <2>2, <2>3, <2>4, Zenon
<1>3. TurnsOK
  BY DEF Init, TurnsOK, TurnOK, New, Unsent
<1>4. RotationGated
  BY DEF Init, RotationGated, Resting
<1> QED BY <1>1, <1>2, <1>3, <1>4 DEF IInv

(* Every step keeps the invariant.                                         *)
LEMMA StepOK ==
  ASSUME IInv, [Next]_vars
  PROVE  IInv'
<1>1. CASE Next
  BY <1>1, TurnKeeps, RelayKeeps DEF Next
<1>2. CASE UNCHANGED vars
  BY <1>2 DEF vars, IInv, TypeOK, CountsExact, TurnsOK, RotationGated
<1> QED BY <1>1, <1>2

(* So it holds in every reachable state.                                   *)
LEMMA Invariance == Spec => []IInv
BY InitOK, StepOK, PTL DEF Spec

(***************************************************************************)
(* The counters stay in their ranges: no guard or slot is given back       *)
(* twice, and no turn sends, moves or pauses more often than it may.       *)
(***************************************************************************)
THEOREM TypeCorrect == Spec => []TypeOK
<1>1. IInv => TypeOK
  BY DEF IInv
<1> QED BY <1>1, Invariance, PTL

(***************************************************************************)
(* Every guard and slot is given back once, on the lane it was taken on:   *)
(* the drain reads the number of turns that hold a guard, and the slots    *)
(* never go over the cap (EgressInflightGuard, ZenSlot, move_on).          *)
(***************************************************************************)
THEOREM CountsAreExact == Spec => []CountsExact
<1>1. IInv => CountsExact
  BY DEF IInv
<1> QED BY <1>1, Invariance, PTL

(***************************************************************************)
(* A cut can only hit a request of a turn that came back from a pause      *)
(* while its lane was gated: nothing is counted on a drained lane, no      *)
(* guard is taken on a gated one, and a turn sends uncounted in no other   *)
(* case (gate_and_drain, acquire, hold_for_overload, recover_zen_send).    *)
(***************************************************************************)
THEOREM OnlyResumedAreCut == Spec => []OnlyResumedTurnsAreCut
<1>1. ASSUME IInv
      PROVE  OnlyResumedTurnsAreCut
  <2> SUFFICES ASSUME NEW t \in Turns, OnCutLane(t)
               PROVE  /\ turn[t].guard = None
                      /\ turn[t].pc # "stream" => turn[t].overload + turn[t].transport > 0
    BY DEF OnlyResumedTurnsAreCut
  <2>1. TurnOK(turn[t]) /\ turn[t].pc \in Live /\ turn[t].lane = rot.lane /\ rot.phase = "cut"
    BY <1>1, TurnFacts DEF OnCutLane
  <2>2. rot.lane \in Lanes /\ inFlight[rot.lane] = 0
    BY <1>1, <2>1 DEF IInv, TypeOK, RotationGated
  <2>3. turn[t].guard # rot.lane
    <3> DEFINE S == {u \in Turns : turn[u].guard = rot.lane}
    <3>1. Cardinality(S) = 0
      BY <1>1, <2>2 DEF IInv, CountsExact
    <3>2. IsFiniteSet(S)
      BY FS_Subset, TurnsAssumption
    <3>3. S = {}
      <4> HIDE DEF S
      <4> QED BY <3>1, <3>2, FS_EmptySet
    <3> QED BY <3>3
  <2>4. turn[t].guard = None
    BY <2>1, <2>3 DEF TurnOK
  <2> QED BY <2>1, <2>4 DEF TurnOK, Live, Unsent
<1> QED BY <1>1, Invariance, PTL

=============================================================================
