---------------------------- MODULE WrapSettings ----------------------------
(***************************************************************************)
(* How `headroom wrap claude` sessions share one project's                 *)
(* .claude/settings.local.json (upstream-python/headroom/cli/wrap.py).     *)
(*                                                                         *)
(* Each session puts the URL of its proxy into one env key of that file    *)
(* and takes it out again when it ends.  Two sidecar files make that safe  *)
(* between sessions: an owner record (who holds the key, and the value     *)
(* from before the first of them) and a one-slot marker (the last writer,  *)
(* its port and the value it found), which the next wrap, a SessionStart   *)
(* hook or `unwrap` uses to clean up after a session that died.            *)
(*                                                                         *)
(* What runs under _wrap_settings_lock is one action.  What does not is    *)
(* apart: the stale check and the write of a starting session, the read    *)
(* and the write that install the hook, the probe and the restore of a     *)
(* self-heal.  A proxy URL is the port it names.  A pid is the session:    *)
(* pids are not reused, and no other program takes a proxy's port.         *)
(***************************************************************************)
EXTENDS Integers, FiniteSets

CONSTANTS
  Sessions,     \* wrap sessions, each run once
  Ports,        \* proxy ports, and so the proxy URLs
  PortOf,       \* session -> the port _ensure_proxy gave it
  Healers,      \* bare `claude` starts: their SessionStart hook runs `wrap selfheal`
  Unwraps,      \* runs of `headroom unwrap claude`
  UserUrls,     \* values the user may have had under the key
  NoUrl,        \* the key is not in the file
  None,         \* no marker, no record, no job
  HookAtStart,  \* is the self-heal hook installed already
  OtherEnv,     \* does the file's env hold other keys
  IdleUnwrap,   \* may an unwrap meet a value under the key and no marker
  MaxLive,      \* bound: sessions alive at once
  MaxCrashes,   \* bound: sessions that die without their finally block
  MaxKills,     \* bound: proxies that die under their sessions
  QuietStart    \* nobody dies, heals or unwraps in the windows of a starting session

ASSUME DistinctAssumption ==
  /\ Ports \cap UserUrls = {} /\ NoUrl \notin Ports \cup UserUrls
  /\ Healers \cap Unwraps = {} /\ Sessions \cap (Healers \cup Unwraps) = {}
ASSUME PortAssumption == PortOf \in [Sessions -> Ports]
ASSUME SessionsAssumption == IsFiniteSet(Sessions)
ASSUME FlagAssumption == {HookAtStart, OtherEnv, IdleUnwrap, QuietStart} \subseteq BOOLEAN
ASSUME BoundAssumption == MaxLive \in Nat /\ MaxCrashes \in Nat /\ MaxKills \in Nat

Values == Ports \cup UserUrls \cup {NoUrl}
Tools == Healers \cup Unwraps

VARIABLES
  original,     \* the user's value (never changes)
  url,          \* the key in settings.local.json
  hook,         \* the SessionStart hook is in settings.local.json
  owners,       \* .headroom_wrap_owners.json: [original, holders] or None
  marker,       \* .headroom_wrap_marker.json: [pid, previous] or None
  pc,           \* where each session is
  saved,        \* _saved_base_url of each session
  snapshot,     \* the url a hook installation read before it writes the file back
  job,          \* what a tool read before it restores: [port, previous] or None
  done,         \* tools that have run
  up,           \* ports whose proxy accepts connections
  crashes,      \* sessions killed so far
  kills         \* proxies killed so far

files == <<url, hook, owners, marker>>
vars == <<original, files, pc, saved, snapshot, job, done, up, crashes, kills>>

Alive(s) == pc[s] \in {"started", "checked", "written", "hooking", "running"}
\* The session has written its URL and has not taken it out.
Routed(s) == pc[s] \in {"written", "hooking", "running"}

(***************************************************************************)
(* A starting session acts twice on something it read outside the lock:    *)
(* it writes after its stale check, and writes the hook into the file it   *)
(* read.  Both windows are milliseconds; QuietStart says that nobody else  *)
(* (than x) dies, heals or unwraps inside one.                             *)
(***************************************************************************)
Quiet(x) == QuietStart => \A r \in Sessions \ {x} : pc[r] \notin {"checked", "hooking"}

\* A holder's place in the record's list is a number that grows with every claim.
Holder == [pid : Sessions, inherited : BOOLEAN, place : Nat]
Record == [original : Values, holders : SUBSET Holder]
Marker == [pid : Sessions, previous : Values]
Job == [port : Ports \cup {None}, previous : Values]

ASSUME NoneAssumption == None \notin Record \cup Marker \cup Job

TypeOK ==
  /\ original \in UserUrls \cup {NoUrl}
  /\ url \in Values
  /\ hook \in BOOLEAN
  /\ owners \in Record \cup {None}
  /\ marker \in Marker \cup {None}
  /\ pc \in [Sessions -> {"new", "started", "checked", "written", "hooking", "running", "ended", "crashed"}]
  /\ saved \in [Sessions -> Values]
  /\ snapshot \in [Sessions -> Values]
  /\ job \in [Tools -> Job \cup {None}]
  /\ done \subseteq Tools
  /\ up \subseteq Ports
  /\ crashes \in 0 .. MaxCrashes /\ kills \in 0 .. MaxKills

Init ==
  /\ original \in UserUrls \cup {NoUrl}
  /\ url = original
  /\ hook = HookAtStart
  /\ owners = None
  /\ marker = None
  /\ pc = [s \in Sessions |-> "new"]
  /\ saved = [s \in Sessions |-> NoUrl]
  /\ snapshot = [s \in Sessions |-> NoUrl]
  /\ job = [t \in Tools |-> None]
  /\ done = {}
  /\ up = {}
  /\ crashes = 0
  /\ kills = 0

-----------------------------------------------------------------------------
(* The files.                                                              *)

FileExists == url # NoUrl \/ hook \/ OtherEnv
EnvExists == url # NoUrl \/ OtherEnv

\* Holders whose process lives and whose proxy the caller has not proven dead.
LiveHolders(dead) ==
  IF owners = None THEN {}
  ELSE {h \in owners.holders : Alive(h.pid) /\ PortOf[h.pid] \notin dead}

Without(holders, p) == {h \in holders : h.pid # p}

\* The front of the list, and the place behind everybody who has claimed.
First(holders) == CHOOSE h \in holders : \A g \in holders : h.place <= g.place
LastPlace == Cardinality({r \in Sessions : pc[r] \notin {"new", "started", "checked"}})

\* Mutant: every owner records the value it found.
ClaimedAnew(s) ==
  [original |-> url,
   holders  |-> Without(LiveHolders({}), s)
                  \cup {[pid |-> s, inherited |-> FALSE, place |-> LastPlace]}]

\* _claim_wrap_key: the first live owner records the value it found.
Claimed(s) ==
  LET live == LiveHolders({})
      inherited == live # {}
  IN  [original |-> IF inherited THEN owners.original ELSE url,
       holders  |-> Without(live, s)
                      \cup {[pid |-> s, inherited |-> inherited, place |-> LastPlace]}]

\* Mutant: the marker is handed to a holder without an identity.
RehomedToNobody(p, remaining) ==
  IF marker # None /\ marker.pid = p
  THEN [pid |-> None, previous |-> owners.original]
  ELSE marker

\* The marker a session leaves to the first holder that still runs.
Rehomed(p, remaining) ==
  IF marker # None /\ marker.pid = p
  THEN [pid |-> First(remaining).pid, previous |-> owners.original]
  ELSE marker

\* A caller that founded the record, or finds none, trusts the value it remembers.
TrustCaller(p) ==
  \/ owners = None
  \/ \E h \in owners.holders : h.pid = p /\ ~h.inherited

\* Mutant: a session that ends puts the old value back under the others.
RestoreUnderneath(p, previous, force, dead) ==
  LET value == IF TrustCaller(p) THEN previous ELSE owners.original
  IN  /\ owners' = IF owners = None THEN None
                   ELSE [owners EXCEPT !.holders = Without(LiveHolders(dead), p)]
      /\ url' = IF EnvExists THEN value ELSE url
      /\ marker' = IF EnvExists \/ ~FileExists THEN None ELSE marker
      /\ hook' = hook

(***************************************************************************)
(* _restore_claude_wrap_base_url, with _release_wrap_key inside it: drop   *)
(* the caller's claim and, unless somebody else still holds the key, put   *)
(* the old value back.  A file that has no env is left as it is, marker    *)
(* included; no file at all only clears the marker.                        *)
(***************************************************************************)
Restore(p, previous, force, dead) ==
  LET remaining == Without(LiveHolders(dead), p)
      value == IF TrustCaller(p) THEN previous ELSE owners.original
  IN  /\ IF remaining # {} /\ ~force
         THEN /\ owners' = [owners EXCEPT !.holders = remaining]
              /\ marker' = Rehomed(p, remaining)
              /\ url' = url
         ELSE /\ owners' = None
              /\ url' = IF EnvExists THEN value ELSE url
              /\ marker' = IF EnvExists \/ ~FileExists THEN None ELSE marker
      /\ hook' = hook

-----------------------------------------------------------------------------
(* A wrap session.                                                         *)

\* _ensure_proxy has returned: the proxy answers on the session's port.
StartProxy(s) ==
  /\ pc[s] = "new"
  /\ Cardinality({r \in Sessions : Alive(r)}) < MaxLive
  /\ pc' = [pc EXCEPT ![s] = "started"]
  /\ up' = up \cup {PortOf[s]}
  /\ UNCHANGED <<original, files, saved, snapshot, job, done, crashes, kills>>

\* Mutant: the marker of a dead session is dropped and its URL left in the file.
CheckStaleKeepsUrl(s) ==
  /\ pc[s] = "started"
  /\ marker' = IF marker # None /\ ~Alive(marker.pid) THEN None ELSE marker
  /\ pc' = [pc EXCEPT ![s] = "checked"]
  /\ UNCHANGED <<original, url, hook, owners, saved, snapshot, job, done, up, crashes, kills>>

\* _check_and_clear_stale_wrap_marker: what a session that died left behind.
CheckStale(s) ==
  /\ pc[s] = "started"
  /\ IF marker # None /\ ~Alive(marker.pid) /\ FileExists
     THEN IF url = PortOf[marker.pid]
          THEN Restore(s, marker.previous, FALSE, {})
          ELSE marker' = None /\ UNCHANGED <<url, hook, owners>>
     ELSE UNCHANGED files
  /\ pc' = [pc EXCEPT ![s] = "checked"]
  /\ UNCHANGED <<original, saved, snapshot, job, done, up, crashes, kills>>

\* _write_claude_wrap_base_url: claim, write, mark.
WriteUrl(s) ==
  /\ pc[s] = "checked"
  /\ owners' = Claimed(s)
  /\ url' = PortOf[s]
  /\ marker' = [pid |-> s, previous |-> url]
  /\ saved' = [saved EXCEPT ![s] = url]
  /\ pc' = [pc EXCEPT ![s] = "written"]
  /\ UNCHANGED <<original, hook, snapshot, job, done, up, crashes, kills>>

\* _ensure_claude_wrap_selfheal_hook reads the file, outside the lock ...
HookRead(s) ==
  /\ pc[s] = "written"
  /\ IF hook
     THEN pc' = [pc EXCEPT ![s] = "running"] /\ UNCHANGED snapshot
     ELSE pc' = [pc EXCEPT ![s] = "hooking"] /\ snapshot' = [snapshot EXCEPT ![s] = url]
  /\ UNCHANGED <<original, files, saved, job, done, up, crashes, kills>>

\* ... and writes back all of what it read.
HookWrite(s) ==
  /\ pc[s] = "hooking"
  /\ hook' = TRUE
  /\ url' = snapshot[s]
  /\ snapshot' = [snapshot EXCEPT ![s] = NoUrl]
  /\ pc' = [pc EXCEPT ![s] = "running"]
  /\ UNCHANGED <<original, owners, marker, saved, job, done, up, crashes, kills>>

\* The finally block; a session that ends before its write restores nothing.
Exit(s) ==
  /\ Alive(s)
  /\ IF Routed(s) THEN Restore(s, saved[s], FALSE, {}) ELSE UNCHANGED files
  /\ pc' = [pc EXCEPT ![s] = "ended"]
  /\ saved' = [saved EXCEPT ![s] = NoUrl]
  /\ snapshot' = [snapshot EXCEPT ![s] = NoUrl]
  /\ UNCHANGED <<original, job, done, up, crashes, kills>>

\* SIGKILL or a power cut: nothing of the session runs any more.
Crash(s) ==
  /\ Alive(s)
  /\ crashes < MaxCrashes
  /\ Quiet(s)
  /\ crashes' = crashes + 1
  /\ pc' = [pc EXCEPT ![s] = "crashed"]
  /\ saved' = [saved EXCEPT ![s] = NoUrl]
  /\ snapshot' = [snapshot EXCEPT ![s] = NoUrl]
  /\ UNCHANGED <<original, files, job, done, up, kills>>

-----------------------------------------------------------------------------
(* Self-heal and unwrap.                                                   *)

\* _check_and_clear_dead_wrap_marker reads the marker and probes its port ...
HealProbe(t) ==
  /\ t \in Healers \ done
  /\ hook
  /\ job[t] = None
  /\ marker # None
  /\ PortOf[marker.pid] \notin up
  /\ job' = [job EXCEPT ![t] = [port |-> PortOf[marker.pid], previous |-> marker.previous]]
  /\ UNCHANGED <<original, files, pc, saved, snapshot, done, up, crashes, kills>>

\* ... and restores what it read, counting nobody on that port as alive.
HealRestore(t) ==
  /\ t \in Healers
  /\ Quiet(t)
  /\ job[t] # None
  /\ Restore(t, job[t].previous, FALSE, {job[t].port})
  /\ job' = [job EXCEPT ![t] = None]
  /\ done' = done \cup {t}
  /\ UNCHANGED <<original, pc, saved, snapshot, up, crashes, kills>>

\* unwrap_claude removes the hook and reads the marker ...
UnwrapRead(t) ==
  /\ t \in Unwraps \ done
  /\ Quiet(t)
  /\ job[t] = None
  /\ marker = None /\ url # NoUrl => IdleUnwrap
  /\ hook' = FALSE
  /\ job' = [job EXCEPT ![t] =
               [port |-> None, previous |-> IF marker = None THEN NoUrl ELSE marker.previous]]
  /\ UNCHANGED <<original, url, owners, marker, pc, saved, snapshot, done, up, crashes, kills>>

\* ... and takes the key back from every session.
UnwrapRestore(t) ==
  /\ t \in Unwraps
  /\ Quiet(t)
  /\ job[t] # None
  /\ Restore(t, job[t].previous, TRUE, {})
  /\ job' = [job EXCEPT ![t] = None]
  /\ done' = done \cup {t}
  /\ UNCHANGED <<original, pc, saved, snapshot, up, crashes, kills>>

-----------------------------------------------------------------------------
(* Proxies.                                                                *)

\* The proxy's watchdog stops it once none of its sessions lives.
WatchdogStop(p) ==
  /\ p \in up
  /\ \A s \in Sessions : Alive(s) => PortOf[s] # p
  /\ up' = up \ {p}
  /\ UNCHANGED <<original, files, pc, saved, snapshot, job, done, crashes, kills>>

\* The proxy dies on its own, or an unwrap stops it.
KillProxy(p) ==
  /\ p \in up
  /\ kills < MaxKills
  /\ kills' = kills + 1
  /\ up' = up \ {p}
  /\ UNCHANGED <<original, files, pc, saved, snapshot, job, done, crashes>>

SessionStep(s) ==
  StartProxy(s) \/ CheckStale(s) \/ WriteUrl(s) \/ HookRead(s) \/ HookWrite(s) \/ Exit(s) \/ Crash(s)

ToolStep(t) == HealProbe(t) \/ HealRestore(t) \/ UnwrapRead(t) \/ UnwrapRestore(t)

Next ==
  \/ \E s \in Sessions : SessionStep(s)
  \/ \E t \in Tools : ToolStep(t)
  \/ \E p \in Ports : WatchdogStop(p) \/ KillProxy(p)

Spec == Init /\ [][Next]_vars

-----------------------------------------------------------------------------
(* Properties.                                                             *)

\* The user's value comes back: once no session lives and no leftover of a dead
\* one waits to be cleaned up, the file says what it said before the first wrap,
\* in whatever order sessions overlapped, ended and died
\* (_restore_claude_wrap_base_url, #951, #1768, #3205).
UserValueRestored ==
  (/\ \A s \in Sessions : ~Alive(s)
   /\ \A t \in Tools : job[t] = None
   /\ marker = None) => url = original

\* "Restoring underneath a running session silently unroutes it": while sessions
\* run, the key names the proxy of one of them (#3205).
LiveSessionStaysRouted ==
  \A s \in Sessions : Routed(s) => \E r \in Sessions : Routed(r) /\ url = PortOf[r]

=============================================================================
