------------------------------ MODULE WrapProxy ------------------------------
(***************************************************************************)
(* How `headroom wrap` sessions find, start, share and replace their       *)
(* proxies, and how an orphaned proxy stops (upstream-python/headroom,     *)
(* cli/wrap.py and proxy/orphan_watchdog.py).                              *)
(*                                                                         *)
(* A session leaves a marker for the port it asks for, takes that port's   *)
(* start lock and looks at what listens there.  A proxy with its routing   *)
(* is shared; one with another routing is replaced when nobody else uses   *)
(* it and avoided, on the next free port, when somebody does.  A spawned   *)
(* proxy is detached: it binds its port up to half a minute later, whether *)
(* its session still lives or not, and stops itself once no live session   *)
(* has a marker on its port for a grace period.                            *)
(*                                                                         *)
(* Every proxy is wrap-owned, of one version, and reports its config and   *)
(* its pid.  A pid is the session that spawned it: a session spawns once.  *)
(***************************************************************************)
EXTENDS Integers, FiniteSets

CONSTANTS
  Sessions,     \* wrap sessions, each run once
  Routings,     \* backend and upstream URLs
  Features,     \* --memory, --learn, --code-graph
  MaxPort,      \* the ports are 1 .. MaxPort
  AskPort,      \* session -> its --port
  Want,         \* session -> the routing it needs
  Need,         \* session -> the features it asks for
  Grace,        \* polls without a client until a proxy stops
  MaxDeaths,    \* bound: sessions that die without their finally block
  DiesInBoot,   \* may a session end while the proxy it spawned still loads
  LooksInStop,  \* may a session look at a proxy that has been asked to stop
  None

Ports == 1 .. MaxPort

ASSUME PortAssumption == MaxPort \in Nat \ {0} /\ AskPort \in [Sessions -> Ports]
ASSUME WantAssumption == Want \in [Sessions -> Routings] /\ Need \in [Sessions -> SUBSET Features]
ASSUME BoundAssumption == Grace \in Nat \ {0} /\ MaxDeaths \in Nat /\ {DiesInBoot, LooksInStop} \subseteq BOOLEAN
ASSUME NoneAssumption == None \notin Sessions

Proxy == [by : Sessions, routing : Routings, features : SUBSET Features]

VARIABLES
  pc,           \* where each session is
  port,         \* the port a session uses, or tries to
  extra,        \* features a restart keeps from the proxy it replaces
  seen,         \* the proxy (its spawner) a session is about to kill
  markers,      \* port -> sessions with a client marker there
  lock,         \* port -> the session in _ensure_proxy, or None
  booting,      \* spawned proxies that have not bound yet: [port, proxy]
  proxy,        \* port -> the proxy that listens there, or None
  idle,         \* port -> idle_since, in polls; -1 is no idle clock
  stopping,     \* ports whose proxy is asked to stop and still listens
  deaths        \* sessions killed so far

vars == <<pc, port, extra, seen, markers, lock, booting, proxy, idle, stopping, deaths>>

Gone == {"ended", "failed", "killed"}
Alive(s) == pc[s] \notin Gone \cup {"new"}

TypeOK ==
  /\ pc \in [Sessions -> {"new", "waiting", "killing", "spawning", "starting", "ready", "running"} \cup Gone]
  /\ port \in [Sessions -> Ports]
  /\ extra \in [Sessions -> SUBSET Features]
  /\ seen \in [Sessions -> Sessions \cup {None}]
  /\ markers \in [Ports -> SUBSET Sessions]
  /\ lock \in [Ports -> Sessions \cup {None}]
  /\ booting \subseteq [port : Ports, proxy : Proxy]
  /\ proxy \in [Ports -> Proxy \cup {None}]
  /\ idle \in [Ports -> -1 .. Grace - 1]
  /\ stopping \subseteq Ports
  /\ deaths \in 0 .. MaxDeaths

Init ==
  /\ pc = [s \in Sessions |-> "new"]
  /\ port = AskPort
  /\ extra = [s \in Sessions |-> {}]
  /\ seen = [s \in Sessions |-> None]
  /\ markers = [p \in Ports |-> {}]
  /\ lock = [p \in Ports |-> None]
  /\ booting = {}
  /\ proxy = [p \in Ports |-> None]
  /\ idle = [p \in Ports |-> -1]
  /\ stopping = {}
  /\ deaths = 0

-----------------------------------------------------------------------------
(* A session: register, lock, look, and act on what it saw.                *)

LiveClients(p) == {s \in markers[p] : Alive(s)}

\* The port is free to bind: _find_available_port takes the first such port.
Bindable(p) == proxy[p] = None

Released(s) == [p \in Ports |-> IF lock[p] = s THEN None ELSE lock[p]]

\* _register_proxy_client
Register(s) ==
  /\ pc[s] = "new"
  /\ pc' = [pc EXCEPT ![s] = "waiting"]
  /\ markers' = [markers EXCEPT ![AskPort[s]] = @ \cup {s}]
  /\ UNCHANGED <<port, extra, seen, lock, booting, proxy, idle, stopping, deaths>>

\* Mutant: a proxy that forwards elsewhere is replaced under its clients.
ReplacesAlways(s, others) == "killing"

\* What becomes of a running proxy (_ensure_proxy_unlocked).
Decision(s, others) ==
  LET running == proxy[AskPort[s]]
  IN  IF running.routing # Want[s]
      THEN IF others = {} THEN "killing" ELSE "spawning"
      ELSE IF Need[s] \subseteq running.features \/ others # {} THEN "ready" ELSE "killing"

\* _ensure_proxy takes the port's start lock and checks what listens there.
Look(s) ==
  LET p == AskPort[s]
      others == LiveClients(p) \ {s}
      next == IF proxy[p] = None THEN "spawning" ELSE Decision(s, others)
      suits == proxy[p].routing = Want[s] /\ Need[s] \subseteq proxy[p].features
  IN  /\ pc[s] = "waiting"
      /\ lock[p] = None
      /\ p \in stopping => LooksInStop
      /\ pc' = [pc EXCEPT ![s] = next]
      /\ lock' = [lock EXCEPT ![p] = IF next = "ready" THEN None ELSE s]
      /\ seen' = [seen EXCEPT ![s] = IF next = "killing" THEN proxy[p].by ELSE None]
      /\ extra' = [extra EXCEPT ![s] =
                     IF next = "killing" /\ proxy[p].routing = Want[s] THEN proxy[p].features ELSE {}]
      /\ markers' = IF proxy[p] = None \/ suits THEN markers ELSE [markers EXCEPT ![p] = LiveClients(p)]
      /\ UNCHANGED <<port, booting, proxy, idle, stopping, deaths>>

\* _kill_proxy_by_pid; a port that stays bound by another proxy fails the wrap.
Kill(s) ==
  LET p == AskPort[s]
      hit == proxy[p] # None /\ proxy[p].by = seen[s]
      free == proxy[p] = None \/ hit
  IN  /\ pc[s] = "killing"
      /\ proxy' = IF hit THEN [proxy EXCEPT ![p] = None] ELSE proxy
      /\ idle' = IF hit THEN [idle EXCEPT ![p] = -1] ELSE idle
      /\ stopping' = IF hit THEN stopping \ {p} ELSE stopping
      /\ pc' = [pc EXCEPT ![s] = IF free THEN "spawning" ELSE "failed"]
      /\ seen' = [seen EXCEPT ![s] = None]
      /\ lock' = IF free THEN lock ELSE Released(s)
      /\ markers' = IF free THEN markers ELSE [markers EXCEPT ![p] = @ \ {s}]
      /\ UNCHANGED <<port, extra, booting, deaths>>

\* Mutant: the start lock is given back before the proxy listens.
SpawnUnlocks(s) ==
  LET free == {p \in AskPort[s] .. MaxPort : Bindable(p)}
      p == CHOOSE p \in free : \A q \in free : p <= q
  IN  /\ pc[s] = "spawning"
      /\ free # {}
      /\ pc' = [pc EXCEPT ![s] = "starting"]
      /\ port' = [port EXCEPT ![s] = p]
      /\ booting' = booting \cup
           {[port |-> p, proxy |-> [by |-> s, routing |-> Want[s], features |-> Need[s] \cup extra[s]]]}
      /\ lock' = Released(s)
      /\ UNCHANGED <<markers, extra, seen, proxy, idle, stopping, deaths>>

\* _find_available_port, then _start_proxy up to the spawn.
Spawn(s) ==
  LET free == {p \in AskPort[s] .. MaxPort : Bindable(p)}
  IN  /\ pc[s] = "spawning"
      /\ IF free = {}
         THEN /\ pc' = [pc EXCEPT ![s] = "failed"]
              /\ lock' = Released(s)
              /\ markers' = [markers EXCEPT ![AskPort[s]] = @ \ {s}]
              /\ UNCHANGED <<port, booting>>
         ELSE LET p == CHOOSE p \in free : \A q \in free : p <= q
              IN  /\ pc' = [pc EXCEPT ![s] = "starting"]
                  /\ port' = [port EXCEPT ![s] = p]
                  /\ booting' = booting \cup
                       {[port |-> p,
                         proxy |-> [by |-> s, routing |-> Want[s], features |-> Need[s] \cup extra[s]]]}
                  /\ UNCHANGED <<lock, markers>>
      /\ UNCHANGED <<extra, seen, proxy, idle, stopping, deaths>>

Boots(s) == {b \in booting : b.proxy.by = s}

\* _start_proxy sees something listen on the port: "Proxy ready".
Ready(s) ==
  /\ pc[s] = "starting"
  /\ proxy[port[s]] # None
  /\ pc' = [pc EXCEPT ![s] = "ready"]
  /\ lock' = Released(s)
  /\ UNCHANGED <<port, extra, seen, markers, booting, proxy, idle, stopping, deaths>>

\* Mutant: a start that fails keeps the start lock.
StartFailsLocked(s) ==
  /\ pc[s] = "starting"
  /\ proxy[port[s]] = None
  /\ pc' = [pc EXCEPT ![s] = "failed"]
  /\ booting' = booting \ Boots(s)
  /\ markers' = [markers EXCEPT ![AskPort[s]] = @ \ {s}]
  /\ UNCHANGED <<port, extra, seen, lock, proxy, idle, stopping, deaths>>

\* _start_proxy gives up: the proxy it spawned has exited, or takes too long.
StartFails(s) ==
  /\ pc[s] = "starting"
  /\ proxy[port[s]] = None
  /\ pc' = [pc EXCEPT ![s] = "failed"]
  /\ booting' = booting \ Boots(s)
  /\ lock' = Released(s)
  /\ markers' = [markers EXCEPT ![AskPort[s]] = @ \ {s}]
  /\ UNCHANGED <<port, extra, seen, proxy, idle, stopping, deaths>>

\* _launch_tool moves the marker to the port it got and starts the tool.
Launch(s) ==
  /\ pc[s] = "ready"
  /\ pc' = [pc EXCEPT ![s] = "running"]
  /\ markers' = [p \in Ports |-> IF p = port[s] THEN markers[p] \cup {s} ELSE markers[p] \ {s}]
  /\ UNCHANGED <<port, extra, seen, lock, booting, proxy, idle, stopping, deaths>>

\* The tool has ended, or a signal unwinds the session: _make_cleanup runs.
Exit(s) ==
  /\ Alive(s)
  /\ pc[s] = "starting" => DiesInBoot
  /\ pc' = [pc EXCEPT ![s] = "ended"]
  /\ lock' = Released(s)
  /\ markers' = [markers EXCEPT ![IF pc[s] = "running" THEN port[s] ELSE AskPort[s]] = @ \ {s}]
  /\ UNCHANGED <<port, extra, seen, booting, proxy, idle, stopping, deaths>>

\* SIGKILL: the marker stays; the operating system gives the lock back.
Die(s) ==
  /\ Alive(s)
  /\ pc[s] = "starting" => DiesInBoot
  /\ deaths < MaxDeaths
  /\ deaths' = deaths + 1
  /\ pc' = [pc EXCEPT ![s] = "killed"]
  /\ lock' = Released(s)
  /\ UNCHANGED <<port, extra, seen, markers, booting, proxy, idle, stopping>>

-----------------------------------------------------------------------------
(* A proxy: load, bind, watch.                                             *)

\* A loaded proxy binds its port; one that finds the port taken exits.
Bind(b) ==
  /\ b \in booting
  /\ booting' = booting \ {b}
  /\ proxy' = IF Bindable(b.port) THEN [proxy EXCEPT ![b.port] = b.proxy] ELSE proxy
  /\ UNCHANGED <<pc, port, extra, seen, markers, lock, idle, stopping, deaths>>

\* Mutant: a marker whose session died counts as a client.
DeadCount(p) == markers[p]

\* live_client_pids, which prunes the markers of dead sessions.
ClientPids(p) == LiveClients(p)

(***************************************************************************)
(* When orphan_watchdog_loop gives up.  Between the proxy's bind and the   *)
(* session's marker on a port it did not ask for lie milliseconds, and the *)
(* grace period is at least a minute (MIN_GRACE_SECONDS): the last poll of *)
(* a grace period does not fall into that window.                          *)
(***************************************************************************)
Arriving(p) == \E s \in Sessions : pc[s] \in {"starting", "ready"} /\ port[s] = p

\* Mutant: the grace period is a poll too long.
GraceOverLate(p) == idle[p] >= Grace

GraceOver(p) == idle[p] >= 0 /\ idle[p] + 1 >= Grace

\* One turn of the loop; the last one asks the server to stop (_default_stop).
Poll(p) ==
  LET clients == ClientPids(p)
      expired == clients = {} /\ GraceOver(p)
  IN  /\ proxy[p] # None /\ p \notin stopping
      /\ expired => ~Arriving(p)
      /\ idle' = [idle EXCEPT ![p] = IF clients # {} \/ expired THEN -1 ELSE @ + 1]
      /\ stopping' = IF expired THEN stopping \cup {p} ELSE stopping
      /\ markers' = [markers EXCEPT ![p] = clients]
      /\ UNCHANGED <<pc, port, extra, seen, lock, booting, proxy, deaths>>

\* The server has seen the signal: it closes its listener, whoever came since.
Stop(p) ==
  /\ p \in stopping
  /\ stopping' = stopping \ {p}
  /\ proxy' = [proxy EXCEPT ![p] = None]
  /\ UNCHANGED <<pc, port, extra, seen, markers, lock, booting, idle, deaths>>

Proceed(s) ==
  Register(s) \/ Look(s) \/ Kill(s) \/ Spawn(s) \/ Ready(s) \/ StartFails(s) \/ Launch(s)

Next ==
  \/ \E s \in Sessions : Proceed(s) \/ Exit(s) \/ Die(s)
  \/ \E b \in booting : Bind(b)
  \/ \E p \in Ports : Poll(p) \/ Stop(p)

(***************************************************************************)
(* Processes run: a session that has started goes on, a spawned proxy ends *)
(* loading, a watchdog keeps polling, a proxy asked to stop does.  Nobody  *)
(* has to start or to exit.                                                *)
(***************************************************************************)
Fairness ==
  /\ \A s \in Sessions : WF_vars(pc[s] # "new" /\ Proceed(s))
  /\ WF_vars(\E b \in booting : Bind(b))
  /\ \A p \in Ports : WF_vars(Poll(p)) /\ WF_vars(Stop(p))

Spec == Init /\ [][Next]_vars /\ Fairness

-----------------------------------------------------------------------------
(* Properties.                                                             *)

\* "Reusing a proxy that forwards to a backend/upstream the caller did not
\* request is broken, not degraded": a running session is served, by a proxy
\* that routes as it asked, whoever started, replaced or left that proxy
\* (_ensure_proxy_unlocked, _launch_tool, orphan_watchdog_loop).
ServedAsAsked ==
  \A s \in Sessions : pc[s] = "running" => proxy[port[s]] # None /\ proxy[port[s]].routing = Want[s]

\* "The lock is deliberately held through the health/configuration checks and
\* startup": no two sessions wait for proxies that will fight for one port
\* (_proxy_start_lock, _find_available_port).
NoSpawnRace ==
  \A b, c \in booting : b.port = c.port => b = c

\* Startup ends: no session waits for a lock or a proxy for ever, in whatever
\* order the sessions before it fail or die (_ensure_proxy, _start_proxy).
EveryStartEnds ==
  \A s \in Sessions : pc[s] = "waiting" ~> pc[s] \in {"running"} \cup Gone

\* No leak: once every session has gone, killed ones included, every proxy they
\* left stops (orphan_watchdog_loop).
OrphansStop ==
  (\A s \in Sessions : pc[s] \in Gone) ~> (booting = {} /\ \A p \in Ports : proxy[p] = None)

=============================================================================
