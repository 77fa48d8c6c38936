--------------------------- MODULE WrapProxyProofs ---------------------------
(***************************************************************************)
(* TLAPS proofs about wrap sessions and their proxies, for every number of *)
(* sessions, ports, routings and features, every grace period and any      *)
(* number of killed sessions.                                              *)
(*                                                                         *)
(* The start lock is one per port: it keeps two starts apart only when     *)
(* they ask for the same port, and only until the session that spawned a   *)
(* proxy is gone.  Both are hypotheses of the two theorems about starts.   *)
(***************************************************************************)
EXTENDS WrapProxy, WellFoundedInduction, TLAPS

\* Every session asks for the same port: the default one.
OneAskPort == \A s, t \in Sessions : AskPort[s] = AskPort[t]

\* The stages of _ensure_proxy after the look, in which a session starts a proxy.
Starts == {"killing", "spawning", "starting"}

\* A session that starts a proxy has its port's start lock.
LockHeld == \A s \in Sessions : pc[s] \in Starts => lock[AskPort[s]] = s

\* A session has the port it asked for until it spawns.
PortAsAsked ==
  \A s \in Sessions : pc[s] \in {"new", "waiting", "killing", "spawning"} => port[s] = AskPort[s]

\* A session's marker is on the port it asks for until it runs, and then on
\* the port it uses.
MarkersKept ==
  \A s \in Sessions :
    /\ pc[s] \in Starts \cup {"waiting", "ready"} => s \in markers[AskPort[s]]
    /\ pc[s] = "running" => s \in markers[port[s]]

\* A proxy that loads is the one of the session that waits for it, and its
\* port is free.
BootsOwn ==
  \A b \in booting :
    LET s == b.proxy.by
    IN  /\ pc[s] = "starting"
        /\ b = [port |-> port[s],
                proxy |-> [by |-> s, routing |-> Want[s], features |-> Need[s] \cup extra[s]]]
        /\ proxy[b.port] = None

\* A session that is ready or runs has a proxy with its routing, and so has one
\* that finds its port bound.
RoutedAsAsked ==
  \A s \in Sessions :
    /\ pc[s] \in {"ready", "running"} => proxy[port[s]] # None
    /\ pc[s] \in {"starting", "ready", "running"} /\ proxy[port[s]] # None
         => proxy[port[s]].routing = Want[s]

\* A proxy that is about to be replaced serves nobody.
KillsUnused ==
  \A s, t \in Sessions :
    pc[s] = "killing" /\ pc[t] \in {"ready", "running"} => port[t] # AskPort[s]

\* A proxy that has been asked to stop serves nobody, and nobody waits for it.
StopsUnused ==
  \A p \in stopping :
    /\ proxy[p] # None
    /\ \A s \in Sessions : pc[s] \in {"starting", "ready", "running"} => port[s] # p

\* The inductive invariant of starts.
StartInv == TypeOK /\ LockHeld /\ BootsOwn

\* The inductive invariant of serving.
IInv ==
  /\ StartInv /\ PortAsAsked /\ MarkersKept
  /\ RoutedAsAsked /\ KillsUnused /\ StopsUnused

-----------------------------------------------------------------------------
(* Types.                                                                  *)

(* A start lock is given back to nobody.                                   *)
LEMMA ReleasedType ==
  ASSUME TypeOK, NEW s \in Sessions
  PROVE  Released(s) \in [Ports -> Sessions \cup {None}]
BY DEF TypeOK, Released

(* The port a session asks for.                                            *)
LEMMA AskPortType ==
  ASSUME NEW s \in Sessions
  PROVE  AskPort[s] \in Ports /\ Want[s] \in Routings /\ Need[s] \in SUBSET Features
BY PortAssumption, WantAssumption

(* The first free port is a port, and it is free.                          *)
LEMMA FirstFree ==
  ASSUME NEW s \in Sessions, NEW free, free = {q \in AskPort[s] .. MaxPort : Bindable(q)}, free # {}
  PROVE  LET p == CHOOSE p \in free : \A q \in free : p <= q
         IN  p \in Ports /\ Bindable(p)
<1>1. free \subseteq Nat /\ free \subseteq Ports
  BY PortAssumption DEF Ports
<1> DEFINE R == {ss \in Nat \X Nat : ss[1] < ss[2]}
<1>2. IsWellFoundedOn(R, Nat)
  BY NatLessThanWellFounded, Zenon DEF OpToRel
<1>3. PICK p \in free : \A q \in free : ~(<<q, p>> \in R)
  <2> HIDE DEF R
  <2> QED BY <1>1, <1>2, WFMin
<1>4. ASSUME NEW q \in free
      PROVE  p <= q
  <2>1. p \in Nat /\ q \in Nat
    BY <1>1
  <2>2. q < p => <<q, p>> \in R
    BY <2>1
  <2> QED BY <1>3, <2>1, <2>2
<1> QED BY <1>1, <1>4

(* Whatever listens on a port was spawned by a session.                    *)
LEMMA LookType ==
  ASSUME TypeOK, NEW s \in Sessions, Look(s)
  PROVE  TypeOK'
<1> DEFINE p == AskPort[s]
           next == IF proxy[p] = None THEN "spawning" ELSE Decision(s, LiveClients(p) \ {s})
<1>1. p \in Ports
  BY AskPortType
<1>2. next \in Starts \cup {"ready"} /\ (next = "killing" => proxy[p] # None)
  BY DEF Decision, Starts
<1>3. proxy[p] # None => proxy[p].by \in Sessions /\ proxy[p].features \in SUBSET Features
  BY <1>1 DEF TypeOK, Proxy
<1>4. LiveClients(p) \subseteq Sessions
  BY <1>1 DEF TypeOK, LiveClients
<1>5. /\ pc' = [pc EXCEPT ![s] = next]
      /\ lock' = [lock EXCEPT ![p] = IF next = "ready" THEN None ELSE s]
      /\ seen' = [seen EXCEPT ![s] = IF next = "killing" THEN proxy[p].by ELSE None]
      /\ \/ extra' = [extra EXCEPT ![s] = {}]
         \/ next = "killing" /\ extra' = [extra EXCEPT ![s] = proxy[p].features]
      /\ markers' \in {markers, [markers EXCEPT ![p] = LiveClients(p)]}
      /\ UNCHANGED <<port, booting, proxy, idle, stopping, deaths>>
  BY DEF Look
<1> HIDE DEF p, next
<1>6. pc' \in [Sessions -> {"new", "waiting", "killing", "spawning", "starting", "ready", "running"} \cup Gone]
  BY <1>2, <1>5 DEF TypeOK, Starts
<1>7. extra' \in [Sessions -> SUBSET Features]
  BY <1>2, <1>3, <1>5 DEF TypeOK
<1>8. seen' \in [Sessions -> Sessions \cup {None}]
  BY <1>2, <1>3, <1>5 DEF TypeOK
<1>9. lock' \in [Ports -> Sessions \cup {None}] /\ markers' \in [Ports -> SUBSET Sessions]
  BY <1>1, <1>4, <1>5 DEF TypeOK
<1> QED BY <1>5, <1>6, <1>7, <1>8, <1>9 DEF TypeOK

(* A killed proxy leaves its port and its watchdog's clock.                *)
LEMMA KillType ==
  ASSUME TypeOK, NEW s \in Sessions, Kill(s)
  PROVE  TypeOK'
<1>1. AskPort[s] \in Ports /\ Released(s) \in [Ports -> Sessions \cup {None}]
  BY AskPortType, ReleasedType
<1>2. -1 \in -1 .. Grace - 1
  BY BoundAssumption
<1>3. /\ proxy' \in {proxy, [proxy EXCEPT ![AskPort[s]] = None]}
      /\ idle' \in {idle, [idle EXCEPT ![AskPort[s]] = -1]}
      /\ stopping' \subseteq stopping
      /\ \/ pc' = [pc EXCEPT ![s] = "spawning"]
         \/ pc' = [pc EXCEPT ![s] = "failed"]
      /\ seen' = [seen EXCEPT ![s] = None]
      /\ lock' \in {lock, Released(s)}
      /\ markers' \in {markers, [markers EXCEPT ![AskPort[s]] = @ \ {s}]}
      /\ UNCHANGED <<port, extra, booting, deaths>>
  BY DEF Kill
<1>4. pc' \in [Sessions -> {"new", "waiting", "killing", "spawning", "starting", "ready", "running"} \cup Gone]
  BY <1>3 DEF TypeOK, Gone
<1>5. proxy' \in [Ports -> Proxy \cup {None}] /\ idle' \in [Ports -> -1 .. Grace - 1]
  BY <1>1, <1>2, <1>3 DEF TypeOK
<1>6. markers' \in [Ports -> SUBSET Sessions] /\ seen' \in [Sessions -> Sessions \cup {None}]
  BY <1>1, <1>3 DEF TypeOK
<1> QED BY <1>1, <1>3, <1>4, <1>5, <1>6 DEF TypeOK

\* The proxy a session spawns.
Spawned(s, p) ==
  [port |-> p, proxy |-> [by |-> s, routing |-> Want[s], features |-> Need[s] \cup extra[s]]]

(* A spawn takes the lock's port or a free one after it.                   *)
LEMMA SpawnEffect ==
  ASSUME TypeOK, NEW s \in Sessions, Spawn(s)
  PROVE  \/ /\ pc' = [pc EXCEPT ![s] = "failed"]
            /\ lock' = Released(s)
            /\ markers' = [markers EXCEPT ![AskPort[s]] = @ \ {s}]
            /\ UNCHANGED <<port, booting>>
         \/ \E p \in Ports :
              /\ Bindable(p)
              /\ pc' = [pc EXCEPT ![s] = "starting"]
              /\ port' = [port EXCEPT ![s] = p]
              /\ booting' = booting \cup {Spawned(s, p)}
              /\ UNCHANGED <<lock, markers>>
<1> DEFINE free == {q \in AskPort[s] .. MaxPort : Bindable(q)}
           p == CHOOSE p \in free : \A q \in free : p <= q
<1>1. CASE free = {}
  BY <1>1 DEF Spawn
<1>2. CASE free # {}
  <2>1. p \in Ports /\ Bindable(p)
    BY <1>2, FirstFree
  <2>2. /\ pc' = [pc EXCEPT ![s] = "starting"]
        /\ port' = [port EXCEPT ![s] = p]
        /\ booting' = booting \cup {Spawned(s, p)}
        /\ UNCHANGED <<lock, markers>>
    BY <1>2 DEF Spawn, Spawned
  <2> HIDE DEF p
  <2> QED BY <2>1, <2>2
<1> QED BY <1>1, <1>2

(* What a spawn adds is a proxy that loads.                                *)
LEMMA SpawnType ==
  ASSUME TypeOK, NEW s \in Sessions, Spawn(s)
  PROVE  TypeOK'
<1>1. AskPort[s] \in Ports /\ Released(s) \in [Ports -> Sessions \cup {None}]
  BY AskPortType, ReleasedType
<1>2. UNCHANGED <<extra, seen, proxy, idle, stopping, deaths>>
  BY DEF Spawn
<1>3. CASE /\ pc' = [pc EXCEPT ![s] = "failed"]
           /\ lock' = Released(s)
           /\ markers' = [markers EXCEPT ![AskPort[s]] = @ \ {s}]
           /\ UNCHANGED <<port, booting>>
  BY <1>1, <1>2, <1>3 DEF TypeOK, Gone
<1>4. ASSUME NEW p \in Ports,
             pc' = [pc EXCEPT ![s] = "starting"], port' = [port EXCEPT ![s] = p],
             booting' = booting \cup {Spawned(s, p)}, UNCHANGED <<lock, markers>>
      PROVE  TypeOK'
  <2>1. Spawned(s, p) \in [port : Ports, proxy : Proxy]
    BY AskPortType DEF TypeOK, Spawned, Proxy
  <2> QED BY <1>2, <1>4, <2>1 DEF TypeOK
<1> QED BY <1>3, <1>4, SpawnEffect

(* A watchdog's clock stops before the grace period does.                  *)
LEMMA PollType ==
  ASSUME TypeOK, NEW p \in Ports, Poll(p)
  PROVE  TypeOK'
<1>1. idle[p] \in -1 .. Grace - 1 /\ Grace \in Nat \ {0}
  BY BoundAssumption DEF TypeOK
<1>2. -1 \in -1 .. Grace - 1 /\ (~GraceOver(p) => idle[p] + 1 \in -1 .. Grace - 1)
  BY <1>1 DEF GraceOver
<1>3. ClientPids(p) \in SUBSET Sessions
  BY DEF TypeOK, ClientPids, LiveClients
<1>4. /\ stopping' \subseteq stopping \cup {p}
      /\ markers' = [markers EXCEPT ![p] = ClientPids(p)]
      /\ UNCHANGED <<pc, port, extra, seen, lock, booting, proxy, deaths>>
      /\ \/ idle' = [idle EXCEPT ![p] = -1]
         \/ ~GraceOver(p) /\ idle' = [idle EXCEPT ![p] = idle[p] + 1]
  BY DEF Poll
<1>5. stopping' \subseteq Ports /\ markers' \in [Ports -> SUBSET Sessions]
  BY <1>3, <1>4 DEF TypeOK
<1>6. idle' \in [Ports -> -1 .. Grace - 1]
  BY <1>2, <1>4 DEF TypeOK
<1> QED BY <1>4, <1>5, <1>6 DEF TypeOK

(* Every step keeps the types.                                             *)
LEMMA TypeStep ==
  ASSUME TypeOK, [Next]_vars
  PROVE  TypeOK'
<1>1. ASSUME NEW s \in Sessions, Proceed(s) \/ Exit(s) \/ Die(s)
      PROVE  TypeOK'
  <2>0. AskPort[s] \in Ports /\ Released(s) \in [Ports -> Sessions \cup {None}] /\ port[s] \in Ports
    BY AskPortType, ReleasedType DEF TypeOK
  <2>1. CASE Register(s)  BY <2>0, <2>1 DEF TypeOK, Register
  <2>2. CASE Look(s)  BY <2>2, LookType
  <2>3. CASE Kill(s)  BY <2>3, KillType
  <2>4. CASE Spawn(s)  BY <2>4, SpawnType
  <2>5. CASE Ready(s)  BY <2>0, <2>5 DEF TypeOK, Ready
  <2>6. CASE StartFails(s)  BY <2>0, <2>6 DEF TypeOK, StartFails, Gone
  <2>7. CASE Launch(s)  BY <2>0, <2>7 DEF TypeOK, Launch
  <2>8. CASE Exit(s)
    <3>1. (IF pc[s] = "running" THEN port[s] ELSE AskPort[s]) \in Ports
      BY <2>0
    <3> QED BY <2>0, <2>8, <3>1 DEF TypeOK, Exit, Gone
  <2>9. CASE Die(s)  BY <2>0, <2>9, BoundAssumption DEF TypeOK, Die, Gone
  <2> QED BY <1>1, <2>1, <2>2, <2>3, <2>4, <2>5, <2>6, <2>7, <2>8, <2>9 DEF Proceed
<1>2. ASSUME NEW b \in booting, Bind(b)
      PROVE  TypeOK'
  BY <1>2 DEF TypeOK, Bind
<1>3. ASSUME NEW p \in Ports, Poll(p) \/ Stop(p)
      PROVE  TypeOK'
  BY <1>3, PollType DEF TypeOK, Stop
<1>4. CASE UNCHANGED vars
  BY <1>4 DEF vars, TypeOK
<1> QED BY <1>1, <1>2, <1>3, <1>4 DEF Next

-----------------------------------------------------------------------------
(* What the actions do to the parts of the invariant.                      *)

(* What a look decides: a proxy is replaced only with no other live client *)
(* on the port, and shared only if it routes as the session asks.          *)
LEMMA LookEffect ==
  ASSUME NEW s \in Sessions, Look(s)
  PROVE  /\ pc[s] = "waiting" /\ lock[AskPort[s]] = None
         /\ \E next \in {"killing", "spawning", "ready"} :
              /\ pc' = [pc EXCEPT ![s] = next]
              /\ lock' = [lock EXCEPT ![AskPort[s]] = IF next = "ready" THEN None ELSE s]
              /\ next = "killing" => LiveClients(AskPort[s]) \subseteq {s}
              /\ next = "ready" => /\ proxy[AskPort[s]] # None
                                   /\ proxy[AskPort[s]].routing = Want[s]
         /\ \E features : extra' = [extra EXCEPT ![s] = features]
         /\ markers' \in {markers, [markers EXCEPT ![AskPort[s]] = LiveClients(AskPort[s])]}
         /\ UNCHANGED <<port, booting, proxy, idle, stopping, deaths>>
<1> DEFINE p == AskPort[s]
           others == LiveClients(p) \ {s}
           next == IF proxy[p] = None THEN "spawning" ELSE Decision(s, others)
<1>1. /\ next \in {"killing", "spawning", "ready"}
      /\ next = "killing" => others = {}
      /\ next = "ready" => proxy[p] # None /\ proxy[p].routing = Want[s]
  BY DEF Decision
<1>2. /\ pc[s] = "waiting" /\ lock[p] = None
      /\ pc' = [pc EXCEPT ![s] = next]
      /\ lock' = [lock EXCEPT ![p] = IF next = "ready" THEN None ELSE s]
      /\ \E features : extra' = [extra EXCEPT ![s] = features]
      /\ markers' \in {markers, [markers EXCEPT ![p] = LiveClients(p)]}
      /\ UNCHANGED <<port, booting, proxy, idle, stopping, deaths>>
  BY DEF Look
<1>3. others = {} => LiveClients(p) \subseteq {s}
  OBVIOUS
<1> HIDE DEF next, others
<1> QED BY <1>1, <1>2, <1>3

(* A kill frees the port or fails the session.                             *)
LEMMA KillEffect ==
  ASSUME NEW s \in Sessions, Kill(s)
  PROVE  /\ pc[s] = "killing"
         /\ proxy' \in {proxy, [proxy EXCEPT ![AskPort[s]] = None]}
         /\ \/ pc' = [pc EXCEPT ![s] = "spawning"] /\ lock' = lock /\ markers' = markers
            \/ /\ pc' = [pc EXCEPT ![s] = "failed"] /\ lock' = Released(s)
               /\ markers' = [markers EXCEPT ![AskPort[s]] = @ \ {s}]
         /\ UNCHANGED <<port, extra, booting, deaths>>
BY DEF Kill

(* Giving back one's locks takes nobody else's.                            *)
LEMMA ReleasedOthers ==
  ASSUME TypeOK, NEW s \in Sessions, NEW t \in Sessions, s # t, NEW p \in Ports, lock[p] = t
  PROVE  Released(s)[p] = t
BY DEF TypeOK, Released

(* A session that starts a proxy has the lock until it is done or gone.    *)
LEMMA LockStep ==
  ASSUME TypeOK, LockHeld, [Next]_vars
  PROVE  LockHeld'
<1> SUFFICES ASSUME NEW t \in Sessions, pc'[t] \in Starts
             PROVE  lock'[AskPort[t]] = t
  BY DEF LockHeld
<1>0. AskPort[t] \in Ports /\ t # None /\ None \notin Sessions
  BY AskPortType, NoneAssumption
<1>1. ASSUME NEW s \in Sessions, Proceed(s) \/ Exit(s) \/ Die(s)
      PROVE  lock'[AskPort[t]] = t
  <2>0. \A u \in Sessions : pc[u] \in Starts => lock[AskPort[u]] = u
    BY DEF LockHeld
  <2>1. CASE Register(s)  BY <2>0, <2>1 DEF TypeOK, Register, Starts
  <2>2. CASE Look(s)
    BY <1>0, <2>0, <2>2, LookEffect, AskPortType DEF TypeOK, Starts
  <2>3. CASE Kill(s)
    BY <1>0, <2>0, <2>3, KillEffect, ReleasedOthers DEF TypeOK, Starts
  <2>4. CASE Spawn(s)
    <3>1. pc[s] = "spawning"
      BY <2>4 DEF Spawn
    <3> QED BY <1>0, <2>0, <2>4, <3>1, SpawnEffect, ReleasedOthers DEF TypeOK, Starts
  <2>5. CASE Ready(s)  BY <1>0, <2>0, <2>5, ReleasedOthers DEF TypeOK, Ready, Starts
  <2>6. CASE StartFails(s)  BY <1>0, <2>0, <2>6, ReleasedOthers DEF TypeOK, StartFails, Starts
  <2>7. CASE Launch(s)  BY <2>0, <2>7 DEF TypeOK, Launch, Starts
  <2>8. CASE Exit(s)  BY <1>0, <2>0, <2>8, ReleasedOthers DEF TypeOK, Exit, Starts
  <2>9. CASE Die(s)  BY <1>0, <2>0, <2>9, ReleasedOthers DEF TypeOK, Die, Starts
  <2> QED BY <1>1, <2>1, <2>2, <2>3, <2>4, <2>5, <2>6, <2>7, <2>8, <2>9 DEF Proceed
<1>2. CASE UNCHANGED <<pc, lock>>
  BY <1>2 DEF LockHeld
<1>3. (\E b \in booting : Bind(b)) \/ (\E p \in Ports : Poll(p) \/ Stop(p)) \/ UNCHANGED vars => UNCHANGED <<pc, lock>>
  BY DEF Bind, Poll, Stop, vars
<1> QED BY <1>1, <1>2, <1>3 DEF Next

(* Only a spawn changes the port a session uses.                           *)
LEMMA PortStep ==
  ASSUME TypeOK, PortAsAsked, [Next]_vars
  PROVE  PortAsAsked'
<1> USE DEF PortAsAsked
<1>1. ASSUME NEW s \in Sessions, Proceed(s) \/ Exit(s) \/ Die(s)
      PROVE  PortAsAsked'
  <2>1. CASE Register(s)  BY <2>1 DEF TypeOK, Register
  <2>2. CASE Look(s)  BY <2>2, LookEffect DEF TypeOK
  <2>3. CASE Kill(s)  BY <2>3, KillEffect DEF TypeOK
  <2>4. CASE Spawn(s)  BY <2>4, SpawnEffect DEF TypeOK
  <2>5. CASE Ready(s)  BY <2>5 DEF TypeOK, Ready
  <2>6. CASE StartFails(s)  BY <2>6 DEF TypeOK, StartFails
  <2>7. CASE Launch(s)  BY <2>7 DEF TypeOK, Launch
  <2>8. CASE Exit(s)  BY <2>8 DEF TypeOK, Exit
  <2>9. CASE Die(s)  BY <2>9 DEF TypeOK, Die
  <2> QED BY <1>1, <2>1, <2>2, <2>3, <2>4, <2>5, <2>6, <2>7, <2>8, <2>9 DEF Proceed
<1>2. (\E b \in booting : Bind(b)) \/ (\E p \in Ports : Poll(p) \/ Stop(p)) \/ UNCHANGED vars => UNCHANGED <<pc, port>>
  BY DEF Bind, Poll, Stop, vars
<1> QED BY <1>1, <1>2 DEF Next

(* A live session's marker goes only where the session takes it: others    *)
(* remove their own and prune those of the dead.                           *)
LEMMA MarkersStep ==
  ASSUME TypeOK, MarkersKept, [Next]_vars
  PROVE  MarkersKept'
<1> DEFINE M(t) == /\ pc[t] \in Starts \cup {"waiting", "ready"} => t \in markers[AskPort[t]]
                   /\ pc[t] = "running" => t \in markers[port[t]]
<1> SUFFICES ASSUME NEW t \in Sessions
             PROVE  M(t)'
  BY DEF MarkersKept
<1>0. /\ M(t) /\ AskPort[t] \in Ports /\ port[t] \in Ports
      /\ \A p \in Ports : t \in markers[p] /\ pc[t] \in Starts \cup {"waiting", "ready", "running"}
                            => t \in LiveClients(p)
  BY AskPortType DEF MarkersKept, TypeOK, LiveClients, Alive, Gone, Starts
<1>1. ASSUME NEW s \in Sessions, Proceed(s) \/ Exit(s) \/ Die(s)
      PROVE  M(t)'
  <2>0. AskPort[s] \in Ports /\ port[s] \in Ports
    BY AskPortType DEF TypeOK
  <2>1. CASE Register(s)  BY <1>0, <2>0, <2>1 DEF TypeOK, Register, Starts
  <2>2. CASE Look(s)  BY <1>0, <2>0, <2>2, LookEffect DEF TypeOK, Starts
  <2>3. CASE Kill(s)  BY <1>0, <2>0, <2>3, KillEffect DEF TypeOK, Starts
  <2>4. CASE Spawn(s)
    <3>1. pc[s] = "spawning"
      BY <2>4 DEF Spawn
    <3> QED BY <1>0, <2>0, <2>4, <3>1, SpawnEffect DEF TypeOK, Starts
  <2>5. CASE Ready(s)  BY <1>0, <2>0, <2>5 DEF TypeOK, Ready, Starts
  <2>6. CASE StartFails(s)  BY <1>0, <2>0, <2>6 DEF TypeOK, StartFails, Starts
  <2>7. CASE Launch(s)  BY <1>0, <2>0, <2>7 DEF TypeOK, Launch, Starts
  <2>8. CASE Exit(s)  BY <1>0, <2>0, <2>8 DEF TypeOK, Exit, Starts
  <2>9. CASE Die(s)  BY <1>0, <2>0, <2>9 DEF TypeOK, Die, Starts
  <2> QED BY <1>1, <2>1, <2>2, <2>3, <2>4, <2>5, <2>6, <2>7, <2>8, <2>9 DEF Proceed
<1>2. ASSUME NEW p \in Ports, Poll(p)
      PROVE  M(t)'
  BY <1>0, <1>2 DEF TypeOK, Poll, ClientPids, Starts
<1>3. (\E b \in booting : Bind(b)) \/ (\E p \in Ports : Stop(p)) \/ UNCHANGED vars => UNCHANGED <<pc, port, markers>>
  BY DEF Bind, Stop, vars
<1> QED BY <1>0, <1>1, <1>2, <1>3 DEF Next

(* With one port to ask for, the start lock lets one session start.        *)
LEMMA OneStarts ==
  ASSUME OneAskPort, LockHeld, NEW s \in Sessions, NEW t \in Sessions,
         pc[s] \in Starts, pc[t] \in Starts
  PROVE  s = t
BY DEF OneAskPort, LockHeld

(* The proxies that load are those of one session at most.                 *)
LEMMA BootsStep ==
  ASSUME OneAskPort, ~DiesInBoot, TypeOK, LockHeld, BootsOwn, [Next]_vars
  PROVE  BootsOwn'
<1> DEFINE B(b) == /\ pc[b.proxy.by] = "starting"
                   /\ b = Spawned(b.proxy.by, port[b.proxy.by])
                   /\ proxy[b.port] = None
<1> SUFFICES ASSUME NEW c \in booting'
             PROVE  B(c)'
  BY DEF BootsOwn, Spawned
<1>0. c \in booting => B(c) /\ c.proxy.by \in Sessions /\ c.port \in Ports
  BY DEF BootsOwn, Spawned, TypeOK, Proxy
<1>1. ASSUME NEW s \in Sessions, Proceed(s) \/ Exit(s) \/ Die(s)
      PROVE  B(c)'
  <2>0. AskPort[s] \in Ports
    BY AskPortType
  <2>1. CASE Register(s)  BY <1>0, <2>1 DEF TypeOK, Register, Spawned
  <2>2. CASE Look(s)  BY <1>0, <2>2, LookEffect DEF TypeOK, Spawned
  <2>3. CASE Kill(s)  BY <1>0, <2>0, <2>3, KillEffect DEF TypeOK, Spawned
  <2>4. CASE Spawn(s)
    <3>1. pc[s] = "spawning" /\ UNCHANGED <<extra, proxy>>
      BY <2>4 DEF Spawn
    <3>2. c \notin booting
      BY <1>0, <3>1, OneStarts DEF Starts
    <3>3. PICK p \in Ports : /\ Bindable(p)
                             /\ pc' = [pc EXCEPT ![s] = "starting"]
                             /\ port' = [port EXCEPT ![s] = p]
                             /\ booting' = booting \cup {Spawned(s, p)}
      BY <2>4, <3>2, SpawnEffect
    <3>4. c = Spawned(s, p)
      BY <3>2, <3>3
    <3>5. c.proxy.by = s /\ c.port = p
      BY <3>4 DEF Spawned
    <3> QED BY <3>1, <3>3, <3>4, <3>5 DEF TypeOK, Spawned, Bindable
  <2>5. CASE Ready(s)  BY <1>0, <2>5 DEF TypeOK, Ready, Spawned
  <2>6. CASE StartFails(s)  BY <1>0, <2>6 DEF TypeOK, StartFails, Boots, Spawned
  <2>7. CASE Launch(s)  BY <1>0, <2>7 DEF TypeOK, Launch, Spawned
  <2>8. CASE Exit(s)  BY <1>0, <2>8 DEF TypeOK, Exit, Spawned
  <2>9. CASE Die(s)  BY <1>0, <2>9 DEF TypeOK, Die, Spawned
  <2> QED BY <1>1, <2>1, <2>2, <2>3, <2>4, <2>5, <2>6, <2>7, <2>8, <2>9 DEF Proceed
<1>2. ASSUME NEW b \in booting, Bind(b)
      PROVE  B(c)'
  <2>1. c \in booting /\ c # b /\ UNCHANGED <<pc, port, extra>>
    BY <1>2 DEF Bind
  <2>2. B(b) /\ b.proxy.by \in Sessions
    BY DEF BootsOwn, Spawned, TypeOK, Proxy
  <2>3. b.proxy.by = c.proxy.by
    BY <1>0, <2>1, <2>2, OneStarts DEF Starts
  <2> QED BY <1>0, <2>1, <2>2, <2>3
<1>3. ASSUME NEW p \in Ports, Poll(p) \/ Stop(p)
      PROVE  B(c)'
  BY <1>0, <1>3 DEF TypeOK, Poll, Stop, Spawned
<1>4. CASE UNCHANGED vars
  BY <1>0, <1>4 DEF vars, Spawned
<1> QED BY <1>1, <1>2, <1>3, <1>4 DEF Next

(* While a session replaces a proxy nobody comes to share it.              *)
LEMMA KillsStep ==
  ASSUME OneAskPort, IInv, [Next]_vars
  PROVE  KillsUnused'
<1> USE DEF IInv, StartInv
<1> SUFFICES ASSUME NEW u \in Sessions, NEW t \in Sessions,
                    pc'[u] = "killing", pc'[t] \in {"ready", "running"}
             PROVE  port'[t] # AskPort[u]
  BY DEF KillsUnused
<1>0. pc[u] = "killing" /\ pc[t] \in {"ready", "running"} => port[t] # AskPort[u]
  BY DEF KillsUnused
<1>1. ASSUME NEW s \in Sessions, Proceed(s) \/ Exit(s) \/ Die(s)
      PROVE  port'[t] # AskPort[u]
  <2>1. CASE Register(s)  BY <1>0, <2>1 DEF TypeOK, Register
  <2>2. CASE Look(s)
    <3>1. PICK next \in {"killing", "spawning", "ready"} :
            /\ pc' = [pc EXCEPT ![s] = next]
            /\ next = "killing" => LiveClients(AskPort[s]) \subseteq {s}
      BY <2>2, LookEffect
    <3>2. UNCHANGED port /\ lock[AskPort[s]] = None /\ None \notin Sessions
      BY <2>2, LookEffect, NoneAssumption
    <3>3. CASE u = s
      <4>1. next = "killing" /\ t # s /\ pc[t] \in {"ready", "running"}
        BY <3>1, <3>3 DEF TypeOK
      <4>2. t \notin LiveClients(AskPort[s])
        BY <3>1, <4>1
      <4>3. t \notin markers[AskPort[s]]
        BY <4>1, <4>2 DEF LiveClients, Alive, Gone
      <4>4. pc[t] = "running"
        BY <4>1, <4>3 DEF MarkersKept, OneAskPort, Starts
      <4> QED BY <3>2, <3>3, <4>3, <4>4 DEF MarkersKept
    <3>4. CASE u # s
      BY <3>1, <3>2, <3>4 DEF TypeOK, LockHeld, OneAskPort, Starts
    <3> QED BY <3>3, <3>4
  <2>3. CASE Kill(s)  BY <1>0, <2>3, KillEffect DEF TypeOK
  <2>4. CASE Spawn(s)  BY <1>0, <2>4, SpawnEffect DEF TypeOK
  <2>5. CASE Ready(s)
    <3>1. pc[s] = "starting" /\ UNCHANGED port /\ pc' = [pc EXCEPT ![s] = "ready"]
      BY <2>5 DEF Ready
    <3>2. pc[u] # "killing"
      BY <3>1, OneStarts DEF Starts
    <3> QED BY <3>1, <3>2 DEF TypeOK
  <2>6. CASE StartFails(s)  BY <1>0, <2>6 DEF TypeOK, StartFails
  <2>7. CASE Launch(s)  BY <1>0, <2>7 DEF TypeOK, Launch
  <2>8. CASE Exit(s)  BY <1>0, <2>8 DEF TypeOK, Exit
  <2>9. CASE Die(s)  BY <1>0, <2>9 DEF TypeOK, Die
  <2> QED BY <1>1, <2>1, <2>2, <2>3, <2>4, <2>5, <2>6, <2>7, <2>8, <2>9 DEF Proceed
<1>2. (\E b \in booting : Bind(b)) \/ (\E p \in Ports : Poll(p) \/ Stop(p)) \/ UNCHANGED vars => UNCHANGED <<pc, port>>
  BY DEF Bind, Poll, Stop, vars
<1> QED BY <1>0, <1>1, <1>2 DEF Next

(* A proxy in use is not replaced and does not stop.                       *)
LEMMA RoutedStep ==
  ASSUME OneAskPort, ~DiesInBoot, IInv, [Next]_vars
  PROVE  RoutedAsAsked'
<1> USE DEF IInv, StartInv
<1> DEFINE R(t) == /\ pc[t] \in {"ready", "running"} => proxy[port[t]] # None
                   /\ pc[t] \in {"starting", "ready", "running"} /\ proxy[port[t]] # None
                        => proxy[port[t]].routing = Want[t]
<1> SUFFICES ASSUME NEW t \in Sessions
             PROVE  R(t)'
  BY DEF RoutedAsAsked
<1>0. R(t) /\ port[t] \in Ports
  BY DEF RoutedAsAsked, TypeOK
<1>1. ASSUME NEW s \in Sessions, Proceed(s) \/ Exit(s) \/ Die(s)
      PROVE  R(t)'
  <2>0. AskPort[s] \in Ports
    BY AskPortType
  <2>1. CASE Register(s)  BY <1>0, <2>1 DEF TypeOK, Register
  <2>2. CASE Look(s)
    <3>1. pc[s] = "waiting" /\ UNCHANGED <<port, proxy>> /\ port[s] = AskPort[s]
      BY <2>2, LookEffect DEF PortAsAsked
    <3> QED BY <1>0, <2>2, <3>1, LookEffect DEF TypeOK
  <2>3. CASE Kill(s)
    <3>1. /\ pc[s] = "killing" /\ UNCHANGED port
          /\ proxy' \in {proxy, [proxy EXCEPT ![AskPort[s]] = None]}
          /\ pc'[t] \in {"starting", "ready", "running"} => pc[t] = pc'[t]
      BY <2>3, KillEffect DEF TypeOK
    <3>2. pc[t] \in {"ready", "running"} => port[t] # AskPort[s]
      BY <3>1 DEF KillsUnused
    <3> QED BY <1>0, <2>0, <3>1, <3>2 DEF TypeOK
  <2>4. CASE Spawn(s)
    <3>1. UNCHANGED proxy
      BY <2>4 DEF Spawn
    <3> QED BY <1>0, <2>4, <3>1, SpawnEffect DEF TypeOK, Bindable
  <2>5. CASE Ready(s)  BY <1>0, <2>5 DEF TypeOK, Ready
  <2>6. CASE StartFails(s)  BY <1>0, <2>6 DEF TypeOK, StartFails
  <2>7. CASE Launch(s)  BY <1>0, <2>7 DEF TypeOK, Launch
  <2>8. CASE Exit(s)  BY <1>0, <2>8 DEF TypeOK, Exit
  <2>9. CASE Die(s)  BY <1>0, <2>9 DEF TypeOK, Die
  <2> QED BY <1>1, <2>1, <2>2, <2>3, <2>4, <2>5, <2>6, <2>7, <2>8, <2>9 DEF Proceed
<1>2. ASSUME NEW b \in booting, Bind(b)
      PROVE  R(t)'
  <2>1. /\ UNCHANGED <<pc, port>>
        /\ proxy' = IF Bindable(b.port) THEN [proxy EXCEPT ![b.port] = b.proxy] ELSE proxy
    BY <1>2 DEF Bind
  <2>2. /\ pc[b.proxy.by] = "starting" /\ b.proxy.by \in Sessions /\ b.port \in Ports
        /\ b = Spawned(b.proxy.by, port[b.proxy.by]) /\ proxy[b.port] = None
    BY DEF BootsOwn, Spawned, TypeOK, Proxy
  <2>3. b.proxy.routing = Want[b.proxy.by]
    BY <2>2 DEF Spawned
  <2>4. CASE port[t] # b.port
    BY <1>0, <2>1, <2>2, <2>4 DEF TypeOK
  <2>5. CASE port[t] = b.port /\ pc[t] = "starting"
    <3>1. t = b.proxy.by
      BY <2>2, <2>5, OneStarts DEF Starts
    <3> QED BY <1>0, <2>1, <2>2, <2>3, <2>5, <3>1 DEF TypeOK
  <2>6. CASE port[t] = b.port /\ pc[t] # "starting"
    BY <1>0, <2>1, <2>2, <2>6
  <2> QED BY <2>4, <2>5, <2>6
<1>3. ASSUME NEW p \in Ports, Stop(p)
      PROVE  R(t)'
  <2>1. UNCHANGED <<pc, port>> /\ proxy' = [proxy EXCEPT ![p] = None] /\ p \in stopping
    BY <1>3 DEF Stop
  <2>2. pc[t] \in {"ready", "running"} => port[t] # p
    BY <2>1 DEF StopsUnused
  <2> QED BY <1>0, <2>1, <2>2 DEF TypeOK
<1>4. (\E p \in Ports : Poll(p)) \/ UNCHANGED vars => UNCHANGED <<pc, port, proxy>>
  BY DEF Poll, vars
<1> QED BY <1>0, <1>1, <1>2, <1>3, <1>4 DEF Next

(* A proxy asked to stop serves nobody: it had no client and no arrival at *)
(* that moment, and who comes later waits until it has gone.               *)
LEMMA StopsStep ==
  ASSUME ~LooksInStop, IInv, [Next]_vars
  PROVE  StopsUnused'
<1> USE DEF IInv, StartInv
<1> DEFINE Served == {"starting", "ready", "running"}
<1> SUFFICES ASSUME NEW q \in stopping'
             PROVE  /\ proxy'[q] # None
                    /\ \A t \in Sessions : pc'[t] \in Served => port'[t] # q
  BY DEF StopsUnused
<1>0. /\ q \in stopping => /\ q \in Ports /\ proxy[q] # None
                          /\ \A t \in Sessions : pc[t] \in Served => port[t] # q
      /\ \A t \in Sessions : port[t] \in Ports
  BY DEF StopsUnused, TypeOK
<1>1. ASSUME NEW s \in Sessions, Proceed(s) \/ Exit(s) \/ Die(s)
      PROVE  /\ proxy'[q] # None
             /\ \A t \in Sessions : pc'[t] \in Served => port'[t] # q
  <2>0. AskPort[s] \in Ports
    BY AskPortType
  <2>1. CASE Register(s)  BY <1>0, <2>1 DEF TypeOK, Register
  <2>2. CASE Look(s)
    <3>1. pc[s] = "waiting" /\ port[s] = AskPort[s] /\ UNCHANGED <<port, proxy, stopping>>
      BY <2>2, LookEffect DEF PortAsAsked
    <3>2. q # AskPort[s]
      BY <2>2, <3>1 DEF Look
    <3>3. \A t \in Sessions : t # s => pc'[t] = pc[t]
      BY <2>2, LookEffect DEF TypeOK
    <3> QED BY <1>0, <3>1, <3>2, <3>3
  <2>3. CASE Kill(s)
    <3>1. \/ proxy' = [proxy EXCEPT ![AskPort[s]] = None] /\ stopping' = stopping \ {AskPort[s]}
          \/ UNCHANGED <<proxy, stopping>>
      BY <2>3 DEF Kill
    <3>2. q \in stopping /\ proxy'[q] = proxy[q]
      BY <1>0, <2>0, <3>1 DEF TypeOK
    <3>3. UNCHANGED port /\ \A t \in Sessions : pc'[t] \in Served => pc'[t] = pc[t]
      BY <2>3, KillEffect DEF TypeOK
    <3> QED BY <1>0, <3>2, <3>3
  <2>4. CASE Spawn(s)
    <3>1. UNCHANGED <<proxy, stopping>> /\ pc[s] = "spawning"
      BY <2>4 DEF Spawn
    <3>2. \A t \in Sessions : pc'[t] \in Served =>
            (pc[t] \in Served /\ port'[t] = port[t]) \/ Bindable(port'[t])
      BY <2>4, <3>1, SpawnEffect DEF TypeOK
    <3> QED BY <1>0, <3>1, <3>2 DEF Bindable
  <2>5. CASE Ready(s)  BY <1>0, <2>5 DEF TypeOK, Ready
  <2>6. CASE StartFails(s)  BY <1>0, <2>6 DEF TypeOK, StartFails
  <2>7. CASE Launch(s)  BY <1>0, <2>7 DEF TypeOK, Launch
  <2>8. CASE Exit(s)  BY <1>0, <2>8 DEF TypeOK, Exit
  <2>9. CASE Die(s)  BY <1>0, <2>9 DEF TypeOK, Die
  <2> QED BY <1>1, <2>1, <2>2, <2>3, <2>4, <2>5, <2>6, <2>7, <2>8, <2>9 DEF Proceed
<1>2. ASSUME NEW b \in booting, Bind(b)
      PROVE  /\ proxy'[q] # None
             /\ \A t \in Sessions : pc'[t] \in Served => port'[t] # q
  BY <1>0, <1>2 DEF Bind, Bindable, TypeOK
<1>3. ASSUME NEW p \in Ports, Poll(p)
      PROVE  /\ proxy'[q] # None
             /\ \A t \in Sessions : pc'[t] \in Served => port'[t] # q
  <2>1. UNCHANGED <<pc, port, proxy>>
    BY <1>3 DEF Poll
  <2>2. CASE q \in stopping
    BY <1>0, <2>1, <2>2
  <2>3. CASE q \notin stopping
    <3>1. q = p /\ proxy[p] # None /\ LiveClients(p) = {} /\ ~Arriving(p)
      BY <1>3, <2>3 DEF Poll, ClientPids
    <3>2. ASSUME NEW t \in Sessions, pc[t] = "running"
          PROVE  port[t] # p
      BY <3>1, <3>2 DEF MarkersKept, LiveClients, Alive, Gone
    <3>3. \A t \in Sessions : pc[t] \in {"starting", "ready"} => port[t] # p
      BY <3>1 DEF Arriving
    <3> QED BY <2>1, <3>1, <3>2, <3>3
  <2> QED BY <2>2, <2>3
<1>4. ASSUME NEW p \in Ports, Stop(p)
      PROVE  /\ proxy'[q] # None
             /\ \A t \in Sessions : pc'[t] \in Served => port'[t] # q
  <2>1. q \in stopping /\ q # p /\ UNCHANGED <<pc, port>> /\ proxy'[q] = proxy[q]
    BY <1>0, <1>4 DEF Stop, TypeOK
  <2> QED BY <1>0, <2>1
<1>5. CASE UNCHANGED vars
  BY <1>0, <1>5 DEF vars
<1> QED BY <1>1, <1>2, <1>3, <1>4, <1>5 DEF Next

-----------------------------------------------------------------------------
(* The theorems.                                                           *)

(* No session has started.                                                 *)
LEMMA InitOK ==
  ASSUME Init
  PROVE  IInv
<1>1. TypeOK
  BY PortAssumption, BoundAssumption DEF Init, TypeOK, Gone
<1>2. LockHeld /\ PortAsAsked /\ MarkersKept /\ BootsOwn /\ RoutedAsAsked /\ KillsUnused /\ StopsUnused
  BY DEF Init, LockHeld, PortAsAsked, MarkersKept, BootsOwn, RoutedAsAsked, KillsUnused, StopsUnused, Starts
<1> QED BY <1>1, <1>2 DEF IInv, StartInv

(* The invariant of starts on one port by sessions that see them through.  *)
LEMMA StartInvariance ==
  ASSUME OneAskPort, ~DiesInBoot
  PROVE  Spec => []StartInv
<1>1. Init => StartInv
  BY InitOK DEF IInv
<1>2. StartInv /\ [Next]_vars => StartInv'
  BY TypeStep, LockStep, BootsStep DEF StartInv
<1> QED BY <1>1, <1>2, PTL DEF Spec

(* The invariant of serving, when nobody looks at a proxy that stops.      *)
LEMMA Invariance ==
  ASSUME OneAskPort, ~DiesInBoot, ~LooksInStop
  PROVE  Spec => []IInv
<1>1. Init => IInv
  BY InitOK
<1>2. IInv /\ [Next]_vars => IInv'
  <2> SUFFICES ASSUME IInv, [Next]_vars
               PROVE  IInv'
    OBVIOUS
  <2>1. StartInv' /\ PortAsAsked' /\ MarkersKept'
    BY TypeStep, LockStep, BootsStep, PortStep, MarkersStep DEF IInv, StartInv
  <2>2. RoutedAsAsked' /\ KillsUnused' /\ StopsUnused'
    BY RoutedStep, KillsStep, StopsStep
  <2> QED BY <2>1, <2>2 DEF IInv
<1> QED BY <1>1, <1>2, PTL DEF Spec

(***************************************************************************)
(* Types, for any ports asked for and sessions that end at any time: the   *)
(* idle clock of a proxy never passes its grace period, a session waits to *)
(* kill only what a session spawned, and locks are held by sessions        *)
(* (_ensure_proxy, orphan_watchdog_loop).                                  *)
(***************************************************************************)
THEOREM TypeCorrect == Spec => []TypeOK
<1>1. Init => TypeOK
  BY InitOK DEF IInv, StartInv
<1> QED BY <1>1, TypeStep, PTL DEF Spec

(***************************************************************************)
(* "The lock is deliberately held through the health/configuration checks  *)
(* and startup": with one port to ask for and sessions that wait for the   *)
(* proxy they spawn, no two proxies that load will bind the same port      *)
(* (_proxy_start_lock, _find_available_port).                              *)
(***************************************************************************)
THEOREM NoTwoProxiesRace ==
  ASSUME OneAskPort, ~DiesInBoot
  PROVE  Spec => []NoSpawnRace
<1>1. StartInv => NoSpawnRace
  <2> SUFFICES ASSUME StartInv, NEW b \in booting, NEW c \in booting
               PROVE  b = c
    BY DEF NoSpawnRace
  <2> DEFINE B(d) == pc[d.proxy.by] = "starting" /\ d = Spawned(d.proxy.by, port[d.proxy.by])
  <2>1. B(b) /\ B(c) /\ b.proxy.by \in Sessions /\ c.proxy.by \in Sessions
    BY DEF StartInv, BootsOwn, Spawned, TypeOK, Proxy
  <2>2. b.proxy.by = c.proxy.by
    BY <2>1, OneStarts DEF StartInv, Starts
  <2> QED BY <2>1, <2>2
<1> QED BY <1>1, StartInvariance, PTL

(***************************************************************************)
(* If, besides, no session looks at a proxy while it stops, a running      *)
(* session is served by a proxy that routes as it asked: a proxy it shares *)
(* is neither replaced by a session that needs another one nor stopped by  *)
(* its watchdog                                                            *)
(* (_ensure_proxy_unlocked, _launch_tool, orphan_watchdog_loop).           *)
(***************************************************************************)
THEOREM RunningIsServed ==
  ASSUME OneAskPort, ~DiesInBoot, ~LooksInStop
  PROVE  Spec => []ServedAsAsked
<1>1. IInv => ServedAsAsked
  BY DEF IInv, RoutedAsAsked, ServedAsAsked
<1> QED BY <1>1, Invariance, PTL

=============================================================================
