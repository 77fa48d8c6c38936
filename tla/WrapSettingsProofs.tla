------------------------- MODULE WrapSettingsProofs -------------------------
(***************************************************************************)
(* TLAPS proofs about the settings file that wrap sessions share, for      *)
(* every number of sessions and tools, any user value, and any number of   *)
(* sessions and proxies that die.                                          *)
(*                                                                         *)
(* The owner record protects sessions that use one proxy, and from each    *)
(* other only: a self-heal or an unwrap takes the key from a running       *)
(* session.  So the theorems about overlapping sessions have a hypothesis  *)
(* on the ports and exclude the tools, and the theorem about the tools has *)
(* sessions one after the other.                                           *)
(***************************************************************************)
EXTENDS WrapSettings, FiniteSetTheorems, WellFoundedInduction, TLAPS

\* Every session uses the same proxy: the one on the default port.
OnePort == \A s, t \in Sessions : PortOf[s] = PortOf[t]

\* Nobody heals or unwraps.
NoTools == Tools = {}

\* Sessions run one after the other.
OneAtATime == MaxLive <= 1

Stages == {"new", "started", "checked", "written", "hooking", "running", "ended", "crashed"}

\* Stages of a session that has claimed nothing.
Unclaimed == {"new", "started", "checked"}

\* Whoever is named by the owner record or the marker has been through its write.
NamedHaveWritten ==
  /\ owners # None => \A h \in owners.holders : pc[h.pid] \notin Unclaimed
  /\ marker # None => pc[marker.pid] \notin Unclaimed

\* A routed session has its claim, the key names its proxy, and a hook
\* installation writes that name back.
RoutedHold ==
  \A s \in Sessions :
    /\ Routed(s) => /\ owners # None
                    /\ \E h \in owners.holders : h.pid = s
                    /\ url = PortOf[s]
    /\ pc[s] = "hooking" => snapshot[s] = PortOf[s]

\* The inductive invariant of routing.
RoutingInv == TypeOK /\ NamedHaveWritten /\ RoutedHold

\* The record has the user's value whenever it exists, and a marker points to
\* what is to be cleaned up; without a record the file is as the user left it.
RecordTrue ==
  /\ owners = None => url = original /\ marker = None
  /\ owners # None => /\ owners.original = original
                      /\ marker # None
                      /\ url = PortOf[marker.pid]

\* The founder of the record remembers the user's value.
FoundersTrue ==
  owners # None =>
    \A h \in owners.holders : Alive(h.pid) /\ ~h.inherited => saved[h.pid] = original

\* A session about to write finds a routed session or a clean file.
CheckedClean ==
  (\E s \in Sessions : pc[s] = "checked") => owners = None \/ \E r \in Sessions : Routed(r)

\* The inductive invariant of overlapping sessions.
SharedInv == RoutingInv /\ RecordTrue /\ FoundersTrue /\ CheckedClean

\* The inductive invariant of sessions one after the other: every value that
\* anybody remembers is the user's, and a proxy's URL in the file has a marker.
AlonePlain ==
  /\ owners # None => owners.original = original
  /\ marker # None => marker.previous = original
  /\ \A s \in Sessions : Routed(s) => saved[s] = original
  /\ \A t \in Tools : job[t] # None => job[t].previous = original

AloneClean ==
  /\ \A s, t \in Sessions : Alive(s) /\ Alive(t) => s = t
  /\ url # original => marker # None /\ url = PortOf[marker.pid]
  /\ \A s \in Sessions : /\ pc[s] = "checked" => url = original
                         /\ pc[s] = "hooking" => snapshot[s] = url

AloneInv == TypeOK /\ NamedHaveWritten /\ AlonePlain /\ AloneClean

-----------------------------------------------------------------------------
(* Holders and the restore.                                                *)

(* A set of naturals has a least member.                                   *)
LEMMA LeastNatural ==
  ASSUME NEW T \in SUBSET Nat, T # {}
  PROVE  \E m \in T : \A n \in T : m <= n
<1> DEFINE R == {ss \in Nat \X Nat : ss[1] < ss[2]}
<1>1. IsWellFoundedOn(R, Nat)
  BY NatLessThanWellFounded, Zenon DEF OpToRel
<1>2. PICK m \in T : \A n \in T : ~(<<n, m>> \in R)
  <2> HIDE DEF R
  <2> QED BY <1>1, WFMin
<1>3. ASSUME NEW n \in T
      PROVE  m <= n
  <2>1. n < m => <<n, m>> \in R
    OBVIOUS
  <2> QED BY <1>2, <2>1
<1> QED BY <1>3

(* A list of holders that is not empty has a front.                        *)
LEMMA FrontExists ==
  ASSUME NEW hs \in SUBSET Holder, hs # {}
  PROVE  First(hs) \in hs
<1> DEFINE places == {h.place : h \in hs}
<1>1. places \in SUBSET Nat /\ places # {}
  BY DEF Holder
<1>2. PICK m \in places : \A n \in places : m <= n
  <2> HIDE DEF places
  <2> QED BY <1>1, LeastNatural
<1>3. \E h \in hs : \A g \in hs : h.place <= g.place
  BY <1>2
<1> QED BY <1>3 DEF First

(* The place behind the list is a number.                                  *)
LEMMA LastPlaceType == LastPlace \in Nat
<1>1. IsFiniteSet({r \in Sessions : pc[r] \notin {"new", "started", "checked"}})
  BY SessionsAssumption, FS_Subset
<1> QED BY <1>1, FS_CardinalityType DEF LastPlace

(* Who counts as a live holder.                                            *)
LEMMA LiveHoldersAre ==
  ASSUME TypeOK, NEW dead
  PROVE  /\ LiveHolders(dead) \in SUBSET Holder
         /\ \A h \in LiveHolders(dead) : owners # None /\ h \in owners.holders /\ Alive(h.pid)
         /\ \A h : /\ owners # None /\ h \in owners.holders
                   /\ Alive(h.pid) /\ PortOf[h.pid] \notin dead
                   => h \in LiveHolders(dead)
BY DEF TypeOK, LiveHolders, Record

\* A restore that leaves the key to other holders takes the caller's claim out
\* and hands on its marker.
LeavesKey(p, dead) ==
  LET remaining == Without(LiveHolders(dead), p)
  IN  /\ remaining # {} /\ remaining \in SUBSET Holder
      /\ owners # None
      /\ owners' = [original |-> owners.original, holders |-> remaining]
      /\ url' = url
      /\ \/ marker' = marker
         \/ /\ marker # None /\ marker.pid = p
            /\ \E h \in remaining : marker' = [pid |-> h.pid, previous |-> owners.original]

\* One that does not drops the record and puts the old value back, unless the
\* file has no env to put it in.
PutsBack(p, previous) ==
  /\ owners' = None
  /\ \/ /\ url' = IF TrustCaller(p) THEN previous ELSE owners.original
        /\ marker' = None
     \/ url = NoUrl /\ ~OtherEnv /\ url' = NoUrl /\ marker' \in {marker, None}

(* A restore does one or the other.                                        *)
LEMMA RestoreEffect ==
  ASSUME TypeOK, NEW p, NEW previous \in Values, NEW force \in BOOLEAN, NEW dead,
         Restore(p, previous, force, dead)
  PROVE  /\ hook' = hook
         /\ \/ LeavesKey(p, dead) /\ ~force
            \/ PutsBack(p, previous) /\ (force \/ Without(LiveHolders(dead), p) = {})
<1> DEFINE remaining == Without(LiveHolders(dead), p)
<1>1. remaining \in SUBSET Holder
  BY LiveHoldersAre DEF Without
<1>2. CASE remaining # {} /\ ~force
  <2>1. owners # None
    BY <1>2, LiveHoldersAre DEF Without
  <2>2. owners' = [owners EXCEPT !.holders = remaining] /\ marker' = Rehomed(p, remaining)
        /\ url' = url /\ hook' = hook
    BY <1>2 DEF Restore
  <2>3. owners' = [original |-> owners.original, holders |-> remaining]
    <3>1. owners \in Record
      BY <2>1 DEF TypeOK
    <3> HIDE DEF remaining
    <3> QED BY <2>2, <3>1 DEF Record
  <2>4. First(remaining) \in remaining
    <3> HIDE DEF remaining
    <3> QED BY <1>1, <1>2, FrontExists
  <2> HIDE DEF remaining
  <2>5. \/ marker' = marker
        \/ /\ marker # None /\ marker.pid = p
           /\ \E h \in remaining : marker' = [pid |-> h.pid, previous |-> owners.original]
    BY <2>2, <2>4 DEF Rehomed
  <2>6. LeavesKey(p, dead)
    BY <1>1, <1>2, <2>1, <2>2, <2>3, <2>5 DEF remaining, LeavesKey
  <2> QED BY <1>2, <2>2, <2>6
<1>3. CASE ~(remaining # {} /\ ~force)
  <2>1. /\ owners' = None /\ hook' = hook
        /\ url' = IF EnvExists THEN (IF TrustCaller(p) THEN previous ELSE owners.original) ELSE url
        /\ marker' = IF EnvExists \/ ~FileExists THEN None ELSE marker
    BY <1>3 DEF Restore
  <2>2. ~EnvExists => url = NoUrl /\ ~OtherEnv
    BY DEF EnvExists
  <2>3. PutsBack(p, previous)
    BY <2>1, <2>2 DEF PutsBack
  <2> QED BY <1>3, <2>1, <2>3
<1> QED BY <1>2, <1>3

(* A restore keeps the types of the files.                                 *)
LEMMA RestoreType ==
  ASSUME TypeOK, NEW p, NEW previous \in Values, NEW force \in BOOLEAN, NEW dead,
         Restore(p, previous, force, dead)
  PROVE  /\ url' \in Values /\ hook' \in BOOLEAN
         /\ owners' \in Record \cup {None} /\ marker' \in Marker \cup {None}
<1>1. /\ url \in Values /\ hook \in BOOLEAN /\ marker \in Marker \cup {None}
      /\ owners # None => owners.original \in Values
      /\ NoUrl \in Values
  BY DEF TypeOK, Record, Values
<1>2. hook' \in BOOLEAN
  BY <1>1, RestoreEffect
<1>3. CASE LeavesKey(p, dead)
  <2> DEFINE remaining == Without(LiveHolders(dead), p)
  <2>1. /\ remaining \in SUBSET Holder /\ owners # None /\ url' = url
        /\ owners' = [original |-> owners.original, holders |-> remaining]
        /\ \/ marker' = marker
           \/ \E h \in remaining : marker' = [pid |-> h.pid, previous |-> owners.original]
    BY <1>3 DEF LeavesKey
  <2> HIDE DEF remaining
  <2>2. marker' \in Marker \cup {None}
    BY <1>1, <2>1 DEF Marker, Holder
  <2> QED BY <1>1, <1>2, <2>1, <2>2 DEF Record
<1>4. CASE PutsBack(p, previous)
  <2>1. ~TrustCaller(p) => owners # None
    BY DEF TrustCaller
  <2> QED BY <1>1, <1>2, <1>4, <2>1 DEF PutsBack
<1> QED BY <1>3, <1>4, RestoreEffect

-----------------------------------------------------------------------------
(* Types.                                                                  *)

(* What a session claims is a record.                                      *)
LEMMA ClaimType ==
  ASSUME TypeOK, NEW s \in Sessions
  PROVE  /\ Claimed(s) \in Record
         /\ Claimed(s) # None
         /\ Claimed(s).original = IF LiveHolders({}) # {} THEN owners.original ELSE url
         /\ \E me \in Holder :
              /\ me.pid = s /\ me.inherited = (LiveHolders({}) # {})
              /\ Claimed(s).holders = Without(LiveHolders({}), s) \cup {me}
<1> DEFINE me == [pid |-> s, inherited |-> LiveHolders({}) # {}, place |-> LastPlace]
<1>1. me \in Holder /\ me.pid = s /\ me.inherited = (LiveHolders({}) # {})
  BY LastPlaceType DEF Holder
<1>2. Without(LiveHolders({}), s) \in SUBSET Holder
  BY LiveHoldersAre DEF Without
<1>3. (IF LiveHolders({}) # {} THEN owners.original ELSE url) \in Values
  BY LiveHoldersAre DEF TypeOK, Record
<1>4. Claimed(s) = [original |-> IF LiveHolders({}) # {} THEN owners.original ELSE url,
                    holders |-> Without(LiveHolders({}), s) \cup {me}]
  BY DEF Claimed
<1> HIDE DEF me
<1>5. Claimed(s) \in Record
  BY <1>1, <1>2, <1>3, <1>4 DEF Record
<1> QED BY <1>1, <1>4, <1>5, NoneAssumption

(* The steps of a session keep the types.                                  *)
LEMMA SessionType ==
  ASSUME TypeOK, NEW s \in Sessions, SessionStep(s)
  PROVE  TypeOK'
<1> USE DEF TypeOK
<1>0. /\ PortOf[s] \in Values /\ PortOf[s] \in Ports /\ NoUrl \in Values
      /\ \A x \in Stages : [pc EXCEPT ![s] = x] \in [Sessions -> Stages]
      /\ \A x \in Values : [saved EXCEPT ![s] = x] \in [Sessions -> Values]
      /\ \A x \in Values : [snapshot EXCEPT ![s] = x] \in [Sessions -> Values]
  BY PortAssumption DEF Values, Stages
<1>1. CASE StartProxy(s)
  BY <1>0, <1>1 DEF StartProxy, files, Stages
<1>2. CASE CheckStale(s)
  <2>1. /\ url' \in Values /\ hook' \in BOOLEAN
        /\ owners' \in Record \cup {None} /\ marker' \in Marker \cup {None}
    <3>1. CASE Restore(s, marker.previous, FALSE, {}) /\ marker # None
      <4>1. marker.previous \in Values
        BY <3>1 DEF Marker
      <4> QED BY <3>1, <4>1, RestoreType
    <3> QED BY <1>2, <3>1 DEF CheckStale, files
  <2> QED BY <1>0, <1>2, <2>1 DEF CheckStale, Stages
<1>3. CASE WriteUrl(s)
  <2>1. [pid |-> s, previous |-> url] \in Marker
    BY DEF Marker
  <2> QED BY <1>0, <1>3, <2>1, ClaimType DEF WriteUrl, Stages
<1>4. CASE HookRead(s)
  BY <1>0, <1>4 DEF HookRead, files, Stages
<1>5. CASE HookWrite(s)
  BY <1>0, <1>5 DEF HookWrite, Stages
<1>6. CASE Exit(s)
  <2>1. /\ url' \in Values /\ hook' \in BOOLEAN
        /\ owners' \in Record \cup {None} /\ marker' \in Marker \cup {None}
    <3>1. CASE Restore(s, saved[s], FALSE, {})
      BY <3>1, RestoreType
    <3> QED BY <1>6, <3>1 DEF Exit, files
  <2> QED BY <1>0, <1>6, <2>1 DEF Exit, Stages
<1>7. CASE Crash(s)
  BY <1>0, <1>7, BoundAssumption DEF Crash, files, Stages
<1> QED BY <1>1, <1>2, <1>3, <1>4, <1>5, <1>6, <1>7 DEF SessionStep

(* So do those of the tools.                                               *)
LEMMA ToolType ==
  ASSUME TypeOK, NEW t \in Tools, ToolStep(t)
  PROVE  TypeOK'
<1> USE DEF TypeOK
<1>0. \A x \in Job \cup {None} : [job EXCEPT ![t] = x] \in [Tools -> Job \cup {None}]
  OBVIOUS
<1>1. CASE HealProbe(t)
  <2>1. [port |-> PortOf[marker.pid], previous |-> marker.previous] \in Job
    BY <1>1, PortAssumption DEF HealProbe, Marker, Job
  <2> QED BY <1>0, <1>1, <2>1 DEF HealProbe, files
<1>2. CASE HealRestore(t)
  <2>1. job[t].previous \in Values
    BY <1>2 DEF HealRestore, Job
  <2>2. /\ url' \in Values /\ hook' \in BOOLEAN
        /\ owners' \in Record \cup {None} /\ marker' \in Marker \cup {None}
    BY <1>2, <2>1, RestoreType DEF HealRestore
  <2> QED BY <1>0, <1>2, <2>2 DEF HealRestore
<1>3. CASE UnwrapRead(t)
  <2>1. [port |-> None, previous |-> IF marker = None THEN NoUrl ELSE marker.previous] \in Job
    BY DEF Marker, Job, Values
  <2> QED BY <1>0, <1>3, <2>1 DEF UnwrapRead
<1>4. CASE UnwrapRestore(t)
  <2>1. job[t].previous \in Values
    BY <1>4 DEF UnwrapRestore, Job
  <2>2. /\ url' \in Values /\ hook' \in BOOLEAN
        /\ owners' \in Record \cup {None} /\ marker' \in Marker \cup {None}
    BY <1>4, <2>1, RestoreType DEF UnwrapRestore
  <2> QED BY <1>0, <1>4, <2>2 DEF UnwrapRestore
<1> QED BY <1>1, <1>2, <1>3, <1>4 DEF ToolStep

(* And every step.                                                         *)
LEMMA TypeStep == TypeOK /\ [Next]_vars => TypeOK'
<1> SUFFICES ASSUME TypeOK, [Next]_vars
             PROVE  TypeOK'
  OBVIOUS
<1>1. ASSUME NEW p \in Ports, WatchdogStop(p)
      PROVE  TypeOK'
  BY <1>1 DEF WatchdogStop, files, TypeOK
<1>2. ASSUME NEW p \in Ports, KillProxy(p)
      PROVE  TypeOK'
  BY <1>2, BoundAssumption DEF KillProxy, files, TypeOK
<1>3. CASE UNCHANGED vars
  BY <1>3 DEF vars, files, TypeOK
<1> QED BY <1>1, <1>2, <1>3, SessionType, ToolType DEF Next

(* The first states are typed.                                             *)
LEMMA TypeInit == Init => TypeOK
BY BoundAssumption, FlagAssumption DEF Init, TypeOK, Values

-----------------------------------------------------------------------------
(* Who the files name.                                                     *)

(* A restore names nobody new.                                             *)
LEMMA RestoreNames ==
  ASSUME TypeOK, NamedHaveWritten,
         NEW p, NEW previous \in Values, NEW force \in BOOLEAN, NEW dead,
         Restore(p, previous, force, dead)
  PROVE  /\ owners' # None => \A h \in owners'.holders : pc[h.pid] \notin Unclaimed
         /\ marker' # None => pc[marker'.pid] \notin Unclaimed
<1>1. CASE LeavesKey(p, dead)
  <2> DEFINE remaining == Without(LiveHolders(dead), p)
  <2>1. \A h \in remaining : pc[h.pid] \notin Unclaimed
    BY LiveHoldersAre DEF Without, NamedHaveWritten
  <2>2. /\ owners' = [original |-> owners.original, holders |-> remaining]
        /\ \/ marker' = marker
           \/ \E h \in remaining : marker' = [pid |-> h.pid, previous |-> owners.original]
    BY <1>1 DEF LeavesKey
  <2> HIDE DEF remaining
  <2> QED BY <2>1, <2>2 DEF NamedHaveWritten
<1>2. CASE PutsBack(p, previous)
  BY <1>2 DEF PutsBack, NamedHaveWritten
<1> QED BY <1>1, <1>2, RestoreEffect

(* A session never comes back from its write.                              *)
LEMMA PcForward ==
  ASSUME TypeOK, [Next]_vars
  PROVE  \A r \in Sessions : pc[r] \notin Unclaimed => pc'[r] \notin Unclaimed
<1>1. ASSUME NEW s \in Sessions, SessionStep(s)
      PROVE  \A r \in Sessions : pc[r] \notin Unclaimed => pc'[r] \notin Unclaimed
  BY <1>1 DEF SessionStep, StartProxy, CheckStale, WriteUrl, HookRead, HookWrite, Exit, Crash,
              Alive, TypeOK, Unclaimed
<1>2. ASSUME NEW t \in Tools, ToolStep(t)
      PROVE  pc' = pc
  BY <1>2 DEF ToolStep, HealProbe, HealRestore, UnwrapRead, UnwrapRestore
<1>3. ASSUME NEW p \in Ports, WatchdogStop(p) \/ KillProxy(p)
      PROVE  pc' = pc
  BY <1>3 DEF WatchdogStop, KillProxy
<1>4. CASE UNCHANGED vars
  BY <1>4 DEF vars
<1> QED BY <1>1, <1>2, <1>3, <1>4 DEF Next

(* If the files name the people they named, those have still written.      *)
LEMMA NamesKept ==
  ASSUME TypeOK', [Next]_vars, TypeOK,
         owners' # None => \A h \in owners'.holders : pc[h.pid] \notin Unclaimed,
         marker' # None => pc[marker'.pid] \notin Unclaimed
  PROVE  NamedHaveWritten'
<1>1. owners' # None => \A h \in owners'.holders : h.pid \in Sessions
  BY DEF TypeOK, Record, Holder
<1>2. marker' # None => marker'.pid \in Sessions
  BY DEF TypeOK, Marker
<1> QED BY <1>1, <1>2, PcForward DEF NamedHaveWritten

(* Every step names only sessions that have written.                       *)
LEMMA NamedStep ==
  ASSUME TypeOK, NamedHaveWritten, [Next]_vars
  PROVE  NamedHaveWritten'
<1>0. TypeOK'
  BY TypeStep
<1>a. CASE UNCHANGED <<owners, marker>>
  BY <1>0, <1>a, NamesKept DEF NamedHaveWritten
<1>b. ASSUME NEW p, NEW previous \in Values, NEW force \in BOOLEAN, NEW dead,
             Restore(p, previous, force, dead)
      PROVE  NamedHaveWritten'
  BY <1>0, <1>b, RestoreNames, NamesKept
<1>1. ASSUME NEW s \in Sessions, CheckStale(s)
      PROVE  NamedHaveWritten'
  <2>1. CASE Restore(s, marker.previous, FALSE, {}) /\ marker # None
    <3>1. marker.previous \in Values
      BY <2>1 DEF TypeOK, Marker
    <3> QED BY <1>b, <2>1, <3>1
  <2>2. CASE marker' = None /\ UNCHANGED <<url, hook, owners>>
    BY <1>0, <2>2, NamesKept DEF NamedHaveWritten
  <2> QED BY <1>1, <1>a, <2>1, <2>2 DEF CheckStale, files
<1>2. ASSUME NEW s \in Sessions, WriteUrl(s)
      PROVE  NamedHaveWritten'
  <2>1. \A h \in owners'.holders : h.pid # s => pc[h.pid] \notin Unclaimed
    BY <1>2, LiveHoldersAre DEF WriteUrl, Claimed, Without, NamedHaveWritten
  <2>2. marker'.pid = s /\ pc'[s] \notin Unclaimed
    BY <1>2 DEF WriteUrl, TypeOK, Unclaimed
  <2>3. \A h \in owners'.holders : h.pid \in Sessions
    BY <1>0, <1>2, ClaimType DEF WriteUrl, Record, Holder
  <2> QED BY <2>1, <2>2, <2>3, PcForward DEF NamedHaveWritten
<1>3. ASSUME NEW s \in Sessions, Exit(s)
      PROVE  NamedHaveWritten'
  <2>1. CASE Restore(s, saved[s], FALSE, {})
    BY <1>b, <2>1 DEF TypeOK
  <2> QED BY <1>3, <1>a, <2>1 DEF Exit, files
<1>4. ASSUME NEW t \in Tools, HealRestore(t)
      PROVE  NamedHaveWritten'
  <2>1. job[t].previous \in Values
    BY <1>4 DEF HealRestore, TypeOK, Job
  <2> QED BY <1>4, <1>b, <2>1 DEF HealRestore
<1>5. ASSUME NEW t \in Tools, UnwrapRestore(t)
      PROVE  NamedHaveWritten'
  <2>1. job[t].previous \in Values
    BY <1>5 DEF UnwrapRestore, TypeOK, Job
  <2> QED BY <1>5, <1>b, <2>1 DEF UnwrapRestore
<1>6. ASSUME NEW s \in Sessions, StartProxy(s) \/ HookRead(s) \/ HookWrite(s) \/ Crash(s)
      PROVE  UNCHANGED <<owners, marker>>
  BY <1>6 DEF StartProxy, HookRead, HookWrite, Crash, files
<1>7. ASSUME NEW t \in Tools, HealProbe(t) \/ UnwrapRead(t)
      PROVE  UNCHANGED <<owners, marker>>
  BY <1>7 DEF HealProbe, UnwrapRead, files
<1>8. ASSUME NEW p \in Ports, WatchdogStop(p) \/ KillProxy(p)
      PROVE  UNCHANGED <<owners, marker>>
  BY <1>8 DEF WatchdogStop, KillProxy, files
<1>9. CASE UNCHANGED vars
  BY <1>9, <1>a DEF vars, files
<1> QED BY <1>a, <1>1, <1>2, <1>3, <1>4, <1>5, <1>6, <1>7, <1>8, <1>9
        DEF Next, SessionStep, ToolStep

-----------------------------------------------------------------------------
(* Running sessions stay routed.                                           *)

(* A record that is left to others is a record.                            *)
LEMMA LeftRecord ==
  ASSUME TypeOK, NEW p, NEW dead, LeavesKey(p, dead)
  PROVE  /\ owners' # None
         /\ owners'.original = owners.original
         /\ owners'.holders = Without(LiveHolders(dead), p)
<1> DEFINE remaining == Without(LiveHolders(dead), p)
<1>1. /\ owners # None /\ remaining \in SUBSET Holder
      /\ owners' = [original |-> owners.original, holders |-> remaining]
  BY DEF LeavesKey
<1>2. owners.original \in Values
  BY <1>1 DEF TypeOK, Record
<1>3. owners' \in Record
  <2> HIDE DEF remaining
  <2> QED BY <1>1, <1>2 DEF Record
<1> QED BY <1>1, <1>3, NoneAssumption

(* A session that restores leaves the key to every other routed session.   *)
LEMMA RestoreKeepsRouted ==
  ASSUME TypeOK, RoutedHold, NEW s \in Sessions, NEW previous \in Values,
         Restore(s, previous, FALSE, {}), NEW r \in Sessions, r # s, Routed(r)
  PROVE  owners' # None /\ (\E h \in owners'.holders : h.pid = r) /\ url' = url
<1>1. PICK h \in owners.holders : owners # None /\ h.pid = r
  BY DEF RoutedHold
<1>2. Alive(h.pid)
  BY <1>1 DEF Routed, Alive
<1>3. h \in Without(LiveHolders({}), s)
  BY <1>1, <1>2, LiveHoldersAre DEF Without
<1>4. LeavesKey(s, {})
  BY <1>3, RestoreEffect
<1> QED BY <1>1, <1>3, <1>4, LeftRecord DEF LeavesKey

(* Every step of sessions that use one proxy keeps the routed ones' claims *)
(* and the key.                                                            *)
LEMMA RoutedStep ==
  ASSUME OnePort, NoTools, TypeOK, RoutedHold, [Next]_vars
  PROVE  RoutedHold'
<1>a. ASSUME NEW s \in Sessions, NEW x, pc' = [pc EXCEPT ![s] = x], x \in Stages,
             \A r \in Sessions \ {s} : Routed(r) =>
                /\ owners' # None /\ (\E h \in owners'.holders : h.pid = r)
                /\ url' = PortOf[r],
             x \in {"written", "hooking", "running"} =>
                /\ owners' # None /\ (\E h \in owners'.holders : h.pid = s)
                /\ url' = PortOf[s],
             x = "hooking" => snapshot'[s] = PortOf[s],
             \A r \in Sessions \ {s} : snapshot'[r] = snapshot[r]
      PROVE  RoutedHold'
  <2> SUFFICES ASSUME NEW r \in Sessions
               PROVE  /\ Routed(r)' => /\ owners' # None
                                       /\ \E h \in owners'.holders : h.pid = r
                                       /\ url' = PortOf[r]
                      /\ pc'[r] = "hooking" => snapshot'[r] = PortOf[r]
    BY DEF RoutedHold
  <2>1. CASE r = s
    BY <1>a, <2>1 DEF Routed, TypeOK
  <2>2. CASE r # s
    <3>1. pc'[r] = pc[r] /\ (Routed(r)' <=> Routed(r))
      BY <1>a, <2>2 DEF Routed, TypeOK
    <3> QED BY <1>a, <2>2, <3>1 DEF RoutedHold
  <2> QED BY <2>1, <2>2
<1>b. ASSUME NEW s \in Sessions, UNCHANGED <<owners, url>>
      PROVE  \A r \in Sessions : Routed(r) =>
                /\ owners' # None /\ (\E h \in owners'.holders : h.pid = r)
                /\ url' = PortOf[r]
  BY <1>b DEF RoutedHold
<1>c. ASSUME NEW s \in Sessions, NEW previous \in Values, Restore(s, previous, FALSE, {})
      PROVE  \A r \in Sessions \ {s} : Routed(r) =>
                /\ owners' # None /\ (\E h \in owners'.holders : h.pid = r)
                /\ url' = PortOf[r]
  BY <1>c, RestoreKeepsRouted DEF RoutedHold
<1>1. ASSUME NEW s \in Sessions, StartProxy(s)
      PROVE  RoutedHold'
  BY <1>1, <1>a, <1>b DEF StartProxy, files, Stages
<1>2. ASSUME NEW s \in Sessions, CheckStale(s)
      PROVE  RoutedHold'
  <2>1. pc' = [pc EXCEPT ![s] = "checked"] /\ snapshot' = snapshot
    BY <1>2 DEF CheckStale
  <2>2. CASE UNCHANGED <<owners, url>>
    BY <1>a, <1>b, <2>1, <2>2 DEF Stages
  <2>3. CASE Restore(s, marker.previous, FALSE, {}) /\ marker # None
    <3>1. marker.previous \in Values
      BY <2>3 DEF TypeOK, Marker
    <3> QED BY <1>a, <1>c, <2>1, <2>3, <3>1 DEF Stages
  <2> QED BY <1>2, <2>2, <2>3 DEF CheckStale, files
<1>3. ASSUME NEW s \in Sessions, WriteUrl(s)
      PROVE  RoutedHold'
  <2>1. owners' # None /\ url' = PortOf[s] /\ \E h \in owners'.holders : h.pid = s
    BY <1>3, ClaimType DEF WriteUrl
  <2>2. ASSUME NEW r \in Sessions \ {s}, Routed(r)
        PROVE  (\E h \in owners'.holders : h.pid = r) /\ url' = PortOf[r]
    <3>1. PICK h \in owners.holders : owners # None /\ h.pid = r
      BY <2>2 DEF RoutedHold
    <3>2. Alive(h.pid)
      BY <2>2, <3>1 DEF Routed, Alive
    <3>3. h \in Without(LiveHolders({}), s)
      BY <2>2, <3>1, <3>2, LiveHoldersAre DEF Without
    <3>4. h \in owners'.holders
      BY <1>3, <3>3, ClaimType DEF WriteUrl
    <3> QED BY <2>1, <3>1, <3>4 DEF OnePort
  <2> QED BY <1>3, <1>a, <2>1, <2>2 DEF WriteUrl, Stages
<1>4. ASSUME NEW s \in Sessions, HookRead(s)
      PROVE  RoutedHold'
  <2>1. Routed(s)
    BY <1>4 DEF HookRead, Routed
  <2>2. CASE hook
    BY <1>4, <1>a, <1>b, <2>1, <2>2 DEF HookRead, files, Stages
  <2>3. CASE ~hook
    <3>1. snapshot'[s] = PortOf[s] /\ \A r \in Sessions \ {s} : snapshot'[r] = snapshot[r]
      BY <1>4, <2>1, <2>3 DEF HookRead, RoutedHold, TypeOK
    <3> QED BY <1>4, <1>a, <1>b, <2>1, <2>3, <3>1 DEF HookRead, files, Stages
  <2> QED BY <2>2, <2>3
<1>5. ASSUME NEW s \in Sessions, HookWrite(s)
      PROVE  RoutedHold'
  <2>1. url' = PortOf[s] /\ owners' = owners /\ Routed(s)
    BY <1>5 DEF HookWrite, Routed, RoutedHold
  <2>2. \A r \in Sessions : Routed(r) =>
                /\ owners' # None /\ (\E h \in owners'.holders : h.pid = r)
                /\ url' = PortOf[r]
    BY <2>1 DEF RoutedHold, OnePort
  <2>3. \A r \in Sessions \ {s} : snapshot'[r] = snapshot[r]
    BY <1>5 DEF HookWrite, TypeOK
  <2> QED BY <1>5, <1>a, <2>1, <2>2, <2>3 DEF HookWrite, Stages
<1>6. ASSUME NEW s \in Sessions, Exit(s)
      PROVE  RoutedHold'
  <2>1. \A r \in Sessions \ {s} : snapshot'[r] = snapshot[r]
    BY <1>6 DEF Exit, TypeOK
  <2>2. CASE UNCHANGED files
    BY <1>6, <1>a, <1>b, <2>1, <2>2 DEF Exit, files, Stages
  <2>3. CASE Restore(s, saved[s], FALSE, {})
    BY <1>6, <1>a, <1>c, <2>1, <2>3 DEF Exit, Stages, TypeOK
  <2> QED BY <1>6, <2>2, <2>3 DEF Exit
<1>7. ASSUME NEW s \in Sessions, Crash(s)
      PROVE  RoutedHold'
  <2>1. \A r \in Sessions \ {s} : snapshot'[r] = snapshot[r]
    BY <1>7 DEF Crash, TypeOK
  <2> QED BY <1>7, <1>a, <1>b, <2>1 DEF Crash, files, Stages
<1>8. CASE UNCHANGED <<owners, url, pc, snapshot>>
  BY <1>8 DEF RoutedHold, Routed
<1>9. ASSUME NEW p \in Ports, WatchdogStop(p) \/ KillProxy(p)
      PROVE  UNCHANGED <<owners, url, pc, snapshot>>
  BY <1>9 DEF WatchdogStop, KillProxy, files
<1>10. CASE UNCHANGED vars
  BY <1>8, <1>10 DEF vars, files
<1> QED BY <1>1, <1>2, <1>3, <1>4, <1>5, <1>6, <1>7, <1>8, <1>9, <1>10
        DEF Next, SessionStep, NoTools

(* So they hold in every reachable state.                                  *)
LEMMA RoutingInvariance ==
  ASSUME OnePort, NoTools
  PROVE  Spec => []RoutingInv
<1>1. Init => RoutingInv
  <2> SUFFICES ASSUME Init
               PROVE  RoutingInv
    OBVIOUS
  <2>1. NamedHaveWritten
    BY DEF Init, NamedHaveWritten
  <2>2. RoutedHold
    BY DEF Init, RoutedHold, Routed
  <2> QED BY <2>1, <2>2, TypeInit DEF RoutingInv
<1>2. RoutingInv /\ [Next]_vars => RoutingInv'
  BY TypeStep, NamedStep, RoutedStep DEF RoutingInv
<1> QED BY <1>1, <1>2, PTL DEF Spec

-----------------------------------------------------------------------------
(* The user's value under overlapping sessions.                            *)

(* A restore by a session leaves a true record, or the user's value.       *)
LEMMA RestoreTrue ==
  ASSUME OnePort, TypeOK, RecordTrue, original' = original, owners # None,
         NEW s \in Sessions, NEW previous \in Values, Restore(s, previous, FALSE, {}),
         TrustCaller(s) => previous = original
  PROVE  /\ RecordTrue'
         /\ owners' = None \/ \E h \in LiveHolders({}) : h.pid # s
         /\ owners' # None => owners'.holders \subseteq owners.holders
<1>1. /\ marker # None /\ marker \in Marker /\ marker.pid \in Sessions
      /\ url = PortOf[marker.pid] /\ url # NoUrl
  BY PortAssumption, DistinctAssumption DEF RecordTrue, TypeOK, Marker
<1>2. CASE LeavesKey(s, {})
  <2> DEFINE remaining == Without(LiveHolders({}), s)
  <2>1. /\ owners' # None /\ owners'.original = original
        /\ owners'.holders = remaining /\ url' = url
        /\ remaining # {} /\ remaining \in SUBSET Holder
        /\ \/ marker' = marker
           \/ \E h \in remaining : marker' = [pid |-> h.pid, previous |-> owners.original]
    BY <1>2, LeftRecord DEF LeavesKey, RecordTrue
  <2>2. /\ remaining \subseteq owners.holders
        /\ \E h \in LiveHolders({}) : h.pid # s
    BY <2>1, LiveHoldersAre DEF Without
  <2> HIDE DEF remaining
  <2>3. marker' # None /\ marker'.pid \in Sessions
    <3>1. CASE marker' = marker
      BY <1>1, <3>1
    <3>2. ASSUME NEW h \in remaining, marker' = [pid |-> h.pid, previous |-> owners.original]
          PROVE  marker' \in Marker
      BY <2>1, <3>2 DEF TypeOK, Record, Marker, Holder
    <3>3. marker' \in Marker => marker' # None /\ marker'.pid \in Sessions
      BY NoneAssumption DEF Marker
    <3> QED BY <2>1, <3>1, <3>2, <3>3
  <2>4. url' = PortOf[marker'.pid]
    BY <1>1, <2>1, <2>3 DEF OnePort
  <2> QED BY <2>1, <2>2, <2>3, <2>4 DEF RecordTrue
<1>3. CASE PutsBack(s, previous)
  BY <1>1, <1>3 DEF PutsBack, RecordTrue
<1> QED BY <1>2, <1>3, RestoreEffect

(* Nobody who has claimed nothing is the founder.                          *)
LEMMA StartersInherit ==
  ASSUME NamedHaveWritten, owners # None, NEW s, pc[s] \in Unclaimed
  PROVE  ~TrustCaller(s)
BY DEF NamedHaveWritten, TrustCaller

(* A live holder is routed, and a routed session holds.                    *)
LEMMA LiveHoldersRouted ==
  ASSUME TypeOK, NamedHaveWritten, NEW h \in LiveHolders({})
  PROVE  h.pid \in Sessions /\ Routed(h.pid)
<1>1. owners # None /\ h \in owners.holders /\ Alive(h.pid)
  BY LiveHoldersAre
<1>2. h.pid \in Sessions /\ pc[h.pid] \notin Unclaimed
  BY <1>1 DEF TypeOK, Record, Holder, NamedHaveWritten
<1> QED BY <1>1, <1>2 DEF Alive, Routed, Unclaimed

(* The parts of SharedInv under a step of a session.                       *)
LEMMA SharedStep ==
  ASSUME OnePort, QuietStart, SharedInv, NEW s \in Sessions, SessionStep(s)
  PROVE  RecordTrue' /\ FoundersTrue' /\ CheckedClean'
<1> USE DEF SharedInv, RoutingInv
<1>0. original' = original
  BY DEF SessionStep, StartProxy, CheckStale, WriteUrl, HookRead, HookWrite, Exit, Crash
<1>a. ASSUME NEW x \in Stages, pc' = [pc EXCEPT ![s] = x]
      PROVE  /\ \A r \in Sessions \ {s} : pc'[r] = pc[r] /\ (Routed(r)' <=> Routed(r))
                                          /\ (Alive(r)' <=> Alive(r))
             /\ pc'[s] = x
  BY <1>a DEF TypeOK, Routed, Alive
<1>b. owners # None => \A h \in owners.holders : h.pid \in Sessions
  BY DEF TypeOK, Record, Holder
<1>1. CASE StartProxy(s)
  <2>1. /\ pc[s] = "new" /\ pc' = [pc EXCEPT ![s] = "started"]
        /\ UNCHANGED <<url, owners, marker, saved>>
    BY <1>1 DEF StartProxy, files
  <2>2. FoundersTrue'
    BY <1>0, <1>a, <1>b, <2>1 DEF FoundersTrue, NamedHaveWritten, Unclaimed, Stages
  <2>3. CheckedClean'
    BY <1>a, <2>1 DEF CheckedClean, Stages, Routed
  <2> QED BY <1>0, <2>1, <2>2, <2>3 DEF RecordTrue
<1>2. CASE CheckStale(s)
  <2>1. pc[s] = "started" /\ pc' = [pc EXCEPT ![s] = "checked"] /\ saved' = saved
    BY <1>2 DEF CheckStale
  <2>2. CASE owners = None
    <3>1. UNCHANGED <<url, owners, marker>>
      BY <1>2, <2>2 DEF CheckStale, RecordTrue, files
    <3> QED BY <1>0, <2>2, <3>1 DEF RecordTrue, FoundersTrue, CheckedClean
  <2>3. CASE owners # None /\ Alive(marker.pid)
    <3>1. UNCHANGED <<url, owners, marker>>
      BY <1>2, <2>3 DEF CheckStale, files
    <3>2. PICK r \in Sessions : Routed(r)
      BY <2>3 DEF RecordTrue, NamedHaveWritten, Unclaimed, Alive, Routed, TypeOK, Marker
    <3>3. Routed(r)'
      BY <1>a, <2>1, <3>2 DEF Routed, Stages
    <3>4. FoundersTrue'
      BY <1>0, <1>a, <1>b, <2>1, <3>1 DEF FoundersTrue, NamedHaveWritten, Unclaimed, Stages
    <3> QED BY <1>0, <3>1, <3>2, <3>3, <3>4 DEF RecordTrue, CheckedClean
  <2>4. CASE owners # None /\ ~Alive(marker.pid)
    <3>1. marker # None /\ marker.previous \in Values /\ url = PortOf[marker.pid] /\ url # NoUrl
      BY <2>4, PortAssumption, DistinctAssumption DEF RecordTrue, TypeOK, Marker
    <3>2. Restore(s, marker.previous, FALSE, {})
      BY <1>2, <2>4, <3>1 DEF CheckStale, FileExists
    <3>3. ~TrustCaller(s)
      BY <2>1, <2>4, StartersInherit DEF Unclaimed
    <3>4. /\ RecordTrue'
          /\ owners' = None \/ \E h \in LiveHolders({}) : h.pid # s
          /\ owners' # None => owners'.holders \subseteq owners.holders
      BY <1>0, <2>4, <3>1, <3>2, <3>3, RestoreTrue
    <3>5. owners' = None \/ \E r \in Sessions : Routed(r)'
      BY <1>a, <2>1, <3>4, LiveHoldersRouted DEF Stages
    <3>6. FoundersTrue'
      BY <1>0, <1>a, <1>b, <2>1, <2>4, <3>4 DEF FoundersTrue, NamedHaveWritten, Unclaimed, Stages
    <3> QED BY <3>4, <3>5, <3>6 DEF CheckedClean
  <2> QED BY <2>2, <2>3, <2>4
<1>3. CASE WriteUrl(s)
  <2> DEFINE live == LiveHolders({})
  <2>1. /\ pc[s] = "checked" /\ pc' = [pc EXCEPT ![s] = "written"]
        /\ saved' = [saved EXCEPT ![s] = url]
        /\ url' = PortOf[s] /\ marker' = [pid |-> s, previous |-> url] /\ owners' = Claimed(s)
    BY <1>3 DEF WriteUrl
  <2>2. live = {} => url = original
    <3>1. ASSUME live = {}, NEW r \in Sessions, Routed(r)
          PROVE  FALSE
      BY <3>1, LiveHoldersAre DEF RoutedHold, Routed, Alive
    <3> QED BY <2>1, <3>1 DEF CheckedClean, RecordTrue
  <2>3. live # {} => owners # None /\ owners.original = original
    BY LiveHoldersAre DEF RecordTrue
  <2>4. owners' # None /\ owners'.original = original
    BY <2>1, <2>2, <2>3, ClaimType
  <2>5. PICK me \in Holder : /\ me.pid = s /\ me.inherited = (live # {})
                             /\ owners'.holders = Without(live, s) \cup {me}
    BY <2>1, ClaimType
  <2>6. marker' # None /\ marker'.pid = s
    <3>1. marker' \in Marker
      BY <2>1 DEF TypeOK, Marker
    <3> QED BY <2>1, <3>1, NoneAssumption
  <2>7. FoundersTrue'
    <3> SUFFICES ASSUME NEW h \in owners'.holders, Alive(h.pid)', ~h.inherited
                 PROVE  saved'[h.pid] = original
      BY <1>0 DEF FoundersTrue
    <3>1. CASE h = me
      BY <2>1, <2>2, <2>5, <3>1 DEF TypeOK
    <3>2. CASE h \in Without(live, s)
      <4>1. owners # None /\ h \in owners.holders /\ Alive(h.pid) /\ h.pid # s
        BY <3>2, LiveHoldersAre DEF Without
      <4>2. saved'[h.pid] = saved[h.pid]
        BY <1>b, <2>1, <4>1 DEF TypeOK
      <4> QED BY <4>1, <4>2 DEF FoundersTrue
    <3> QED BY <2>5, <3>1, <3>2
  <2>8. CheckedClean'
    BY <1>a, <2>1 DEF CheckedClean, Routed, Stages
  <2> QED BY <1>0, <2>1, <2>4, <2>6, <2>7, <2>8 DEF RecordTrue
<1>4. CASE HookRead(s) \/ HookWrite(s)
  <2>1. /\ Routed(s) /\ UNCHANGED <<owners, marker, saved>>
        /\ url' = url
        /\ \E x \in {"hooking", "running"} : pc' = [pc EXCEPT ![s] = x]
    BY <1>4 DEF HookRead, HookWrite, files, Routed, RoutedHold
  <2>2. Routed(s)' /\ \A r \in Sessions : Alive(r)' <=> Alive(r)
    BY <1>a, <2>1 DEF Routed, Alive, Stages
  <2>3. FoundersTrue'
    BY <1>0, <1>b, <2>1, <2>2 DEF FoundersTrue
  <2> QED BY <1>0, <2>1, <2>2, <2>3 DEF RecordTrue, CheckedClean
<1>5. CASE Exit(s) /\ ~Routed(s)
  <2>1. /\ UNCHANGED <<owners, marker, url>> /\ pc' = [pc EXCEPT ![s] = "ended"]
        /\ \A r \in Sessions \ {s} : saved'[r] = saved[r]
    BY <1>5 DEF Exit, files, TypeOK
  <2>2. FoundersTrue'
    BY <1>0, <1>a, <1>b, <2>1 DEF FoundersTrue, Alive, Stages
  <2>3. CheckedClean'
    BY <1>5, <1>a, <2>1 DEF CheckedClean, Stages
  <2> QED BY <1>0, <2>1, <2>2, <2>3 DEF RecordTrue
<1>6. CASE Exit(s) /\ Routed(s)
  <2>1. /\ Restore(s, saved[s], FALSE, {}) /\ pc' = [pc EXCEPT ![s] = "ended"]
        /\ \A r \in Sessions \ {s} : saved'[r] = saved[r]
    BY <1>6 DEF Exit, TypeOK
  <2>2. owners # None /\ saved[s] \in Values
    BY <1>6 DEF RoutedHold, TypeOK
  <2>3. TrustCaller(s) => saved[s] = original
    BY <1>6, <2>2 DEF TrustCaller, FoundersTrue, Routed, Alive
  <2>4. /\ RecordTrue'
        /\ owners' = None \/ \E h \in LiveHolders({}) : h.pid # s
        /\ owners' # None => owners'.holders \subseteq owners.holders
    BY <1>0, <2>1, <2>2, <2>3, RestoreTrue
  <2>5. owners' = None \/ \E r \in Sessions : Routed(r)'
    BY <1>a, <2>1, <2>4, LiveHoldersRouted DEF Stages
  <2>6. FoundersTrue'
    BY <1>0, <1>a, <1>b, <2>1, <2>2, <2>4 DEF FoundersTrue, Alive, Stages
  <2> QED BY <2>4, <2>5, <2>6 DEF CheckedClean
<1>7. CASE Crash(s)
  <2>1. /\ UNCHANGED <<owners, marker, url>> /\ pc' = [pc EXCEPT ![s] = "crashed"]
        /\ \A r \in Sessions \ {s} : saved'[r] = saved[r]
    BY <1>7 DEF Crash, files, TypeOK
  <2>2. FoundersTrue'
    BY <1>0, <1>a, <1>b, <2>1 DEF FoundersTrue, Alive, Stages
  <2>3. \A r \in Sessions : pc'[r] # "checked"
    BY <1>7, <1>a, <2>1 DEF Crash, Quiet, Stages
  <2> QED BY <1>0, <2>1, <2>2, <2>3 DEF RecordTrue, CheckedClean
<1> QED BY <1>1, <1>2, <1>3, <1>4, <1>5, <1>6, <1>7 DEF SessionStep

(* Overlapping sessions keep the record true.                              *)
LEMMA SharedInvariance ==
  ASSUME OnePort, NoTools, QuietStart
  PROVE  Spec => []SharedInv
<1>1. Init => SharedInv
  <2> SUFFICES ASSUME Init
               PROVE  SharedInv
    OBVIOUS
  <2>1. NamedHaveWritten /\ RoutedHold
    BY DEF Init, NamedHaveWritten, RoutedHold, Routed
  <2>2. RecordTrue /\ FoundersTrue /\ CheckedClean
    BY DEF Init, RecordTrue, FoundersTrue, CheckedClean
  <2> QED BY <2>1, <2>2, TypeInit DEF SharedInv, RoutingInv
<1>2. SharedInv /\ [Next]_vars => SharedInv'
  <2> SUFFICES ASSUME SharedInv, [Next]_vars
               PROVE  SharedInv'
    OBVIOUS
  <2>1. RoutingInv'
    BY TypeStep, NamedStep, RoutedStep DEF SharedInv, RoutingInv
  <2>2. CASE UNCHANGED <<original, url, owners, marker, pc, saved>>
    BY <2>1, <2>2 DEF SharedInv, RecordTrue, FoundersTrue, CheckedClean, Alive, Routed
  <2>3. ASSUME NEW p \in Ports, WatchdogStop(p) \/ KillProxy(p)
        PROVE  UNCHANGED <<original, url, owners, marker, pc, saved>>
    BY <2>3 DEF WatchdogStop, KillProxy, files
  <2>4. CASE UNCHANGED vars
    BY <2>2, <2>4 DEF vars, files
  <2> QED BY <2>1, <2>2, <2>3, <2>4, SharedStep DEF Next, NoTools, SharedInv
<1> QED BY <1>1, <1>2, PTL DEF Spec

-----------------------------------------------------------------------------
(* The user's value under sessions one after the other, and the tools.     *)

(* A key that is not in the file was not there before the first wrap.      *)
LEMMA AloneNoUrl ==
  ASSUME AloneInv, url = NoUrl
  PROVE  original = NoUrl
<1>1. NoUrl \notin Ports /\ PortOf \in [Sessions -> Ports]
  BY DistinctAssumption, PortAssumption
<1> QED BY <1>1 DEF AloneInv, AloneClean, TypeOK, Marker

(* Whoever restores puts back the user's value, and moves no marker.       *)
LEMMA AloneRestore ==
  ASSUME AloneInv, NEW p, p \notin Sessions \/ (p \in Sessions /\ Alive(p)),
         NEW force \in BOOLEAN, NEW dead, Restore(p, original, force, dead)
  PROVE  /\ owners' # None => owners'.original = original
         /\ marker' \in {marker, None}
         /\ url' = original \/ (url' = url /\ marker' = marker)
         /\ p \in Sessions => url' = original
<1> USE DEF AloneInv
<1>0. original \in Values
  BY DEF TypeOK, Values
<1>1. CASE LeavesKey(p, dead)
  <2>1. PICK h \in Without(LiveHolders(dead), p) : TRUE
    BY <1>1 DEF LeavesKey
  <2>2. h.pid \in Sessions /\ Alive(h.pid) /\ h.pid # p
    BY <2>1, LiveHoldersAre DEF Without, Holder
  <2>3. p \notin Sessions
    BY <2>2 DEF AloneClean
  <2>4. marker # None => marker.pid # p
    BY <2>3 DEF TypeOK, Marker
  <2>5. owners # None /\ owners'.original = owners.original
    BY <1>1, LeftRecord DEF LeavesKey
  <2> QED BY <1>1, <2>3, <2>4, <2>5 DEF LeavesKey, AlonePlain
<1>2. CASE PutsBack(p, original)
  <2>1. TrustCaller(p) \/ owners # None
    BY DEF TrustCaller
  <2> QED BY <1>2, <2>1, AloneNoUrl DEF PutsBack, AlonePlain
<1> QED BY <1>0, <1>1, <1>2, RestoreEffect

(* A proxy's URL in the file is the marker's.                              *)
LEMMA AloneSession ==
  ASSUME QuietStart, OneAtATime, AloneInv, NEW s \in Sessions, SessionStep(s)
  PROVE  AlonePlain' /\ AloneClean'
<1> USE DEF AloneInv
<1>0. UNCHANGED <<original, job>>
  BY DEF SessionStep, StartProxy, CheckStale, WriteUrl, HookRead, HookWrite, Exit, Crash
<1>1. \A r \in Sessions : PortOf[r] # original
  BY PortAssumption, DistinctAssumption DEF TypeOK
<1>a. ASSUME NEW x \in Stages, pc' = [pc EXCEPT ![s] = x],
             \A r \in Sessions \ {s} : ~Alive(r),
             url' # original => marker' # None /\ url' = PortOf[marker'.pid],
             x = "checked" => url' = original,
             x = "hooking" => snapshot'[s] = url'
      PROVE  AloneClean'
  <2>1. \A r \in Sessions \ {s} : pc'[r] = pc[r] /\ ~Alive(r)'
    BY <1>a DEF TypeOK, Alive
  <2>2. pc'[s] = x
    BY <1>a DEF TypeOK
  <2>3. \A r \in Sessions : pc'[r] \in {"checked", "hooking"} => r = s
    BY <1>a, <2>1 DEF Alive
  <2> QED BY <1>0, <1>a, <2>1, <2>2, <2>3 DEF AloneClean
<1>b. Alive(s) => \A r \in Sessions \ {s} : ~Alive(r)
  BY DEF AloneClean
<1>c. ASSUME owners' # None => owners'.original = original,
             marker' # None => marker'.previous = original,
             \A r \in Sessions : Routed(r)' => saved'[r] = original
      PROVE  AlonePlain'
  BY <1>0, <1>c DEF AlonePlain
<1>d. ASSUME NEW x \in Stages, pc' = [pc EXCEPT ![s] = x],
             \A r \in Sessions \ {s} : ~Alive(r),
             x \in {"written", "hooking", "running"} => saved'[s] = original
      PROVE  \A r \in Sessions : Routed(r)' => saved'[r] = original
  BY <1>d DEF TypeOK, Alive, Routed
<1>2. CASE StartProxy(s)
  <2>1. ASSUME NEW r \in Sessions, Alive(r)
        PROVE  FALSE
    <3> DEFINE S == {q \in Sessions : Alive(q)}
    <3>1. IsFiniteSet(S) /\ Cardinality(S) \in Nat
      BY SessionsAssumption, FS_Subset, FS_CardinalityType
    <3>2. Cardinality(S) < MaxLive
      BY <1>2 DEF StartProxy
    <3>3. Cardinality(S) = 0
      BY <3>1, <3>2, BoundAssumption DEF OneAtATime
    <3>4. S = {}
      BY <3>1, <3>3, FS_EmptySet
    <3> QED BY <2>1, <3>4
  <2>2. AloneClean'
    BY <1>2, <1>a, <2>1 DEF StartProxy, files, Stages, AloneClean
  <2>3. AlonePlain'
    BY <1>2, <1>c, <1>d, <2>1 DEF StartProxy, files, Stages, AlonePlain
  <2> QED BY <2>2, <2>3
<1>3. CASE CheckStale(s)
  <2>1. /\ pc[s] = "started" /\ Alive(s) /\ pc' = [pc EXCEPT ![s] = "checked"]
        /\ saved' = saved
    BY <1>3 DEF CheckStale, Alive
  <2>2. marker # None => ~Alive(marker.pid) /\ marker.pid \in Sessions
    BY <2>1 DEF NamedHaveWritten, AloneClean, Unclaimed, TypeOK, Marker
  <2>3. /\ owners' # None => owners'.original = original
        /\ marker' \in {marker, None}
        /\ url' = original
    <3>1. CASE marker = None \/ ~FileExists
      <4>1. url = original
        BY <3>1, AloneNoUrl DEF AloneClean, FileExists
      <4> QED BY <1>3, <3>1, <4>1 DEF CheckStale, files, AlonePlain
    <3>2. CASE marker # None /\ FileExists /\ url = PortOf[marker.pid]
      <4>1. Restore(s, original, FALSE, {})
        BY <1>3, <2>2, <3>2 DEF CheckStale, AlonePlain
      <4> QED BY <2>1, <4>1, AloneRestore
    <3>3. CASE marker # None /\ FileExists /\ url # PortOf[marker.pid]
      BY <1>3, <2>2, <3>3 DEF CheckStale, AlonePlain, AloneClean
    <3> QED BY <3>1, <3>2, <3>3
  <2>4. AloneClean'
    BY <1>a, <1>b, <2>1, <2>3 DEF Stages
  <2>5. AlonePlain'
    BY <1>b, <1>c, <1>d, <2>1, <2>3 DEF AlonePlain, Stages
  <2> QED BY <2>4, <2>5
<1>4. CASE WriteUrl(s)
  <2>1. /\ pc[s] = "checked" /\ Alive(s) /\ url = original
        /\ pc' = [pc EXCEPT ![s] = "written"]
        /\ saved' = [saved EXCEPT ![s] = url] /\ url' = PortOf[s]
        /\ marker' = [pid |-> s, previous |-> url] /\ owners' = Claimed(s)
    BY <1>4 DEF WriteUrl, Alive, AloneClean
  <2>2. marker' # None /\ marker'.pid = s /\ marker'.previous = original
    <3>1. marker' \in Marker
      BY <2>1 DEF TypeOK, Marker
    <3> QED BY <2>1, <3>1, NoneAssumption
  <2>3. owners'.original = original
    BY <2>1, ClaimType, LiveHoldersAre DEF AlonePlain
  <2>4. AloneClean'
    BY <1>a, <1>b, <2>1, <2>2 DEF Stages
  <2>5. \A r \in Sessions : Routed(r)' => saved'[r] = original
    BY <1>b, <1>d, <2>1 DEF TypeOK, Stages
  <2> QED BY <1>c, <2>2, <2>3, <2>4, <2>5
<1>5. CASE HookRead(s) \/ HookWrite(s)
  <2>1. /\ Routed(s) /\ Alive(s) /\ UNCHANGED <<owners, marker, saved>> /\ url' = url
        /\ \E x \in {"hooking", "running"} :
             pc' = [pc EXCEPT ![s] = x] /\ (x = "hooking" => snapshot'[s] = url')
    <3>1. CASE HookRead(s) /\ hook
      BY <3>1 DEF HookRead, files, Alive, Routed
    <3>2. CASE HookRead(s) /\ ~hook
      BY <3>2 DEF HookRead, files, Alive, Routed, TypeOK
    <3>3. CASE HookWrite(s)
      BY <3>3 DEF HookWrite, Alive, Routed, AloneClean
    <3> QED BY <1>5, <3>1, <3>2, <3>3
  <2>2. AloneClean'
    BY <1>a, <1>b, <2>1 DEF Stages, AloneClean
  <2>3. AlonePlain'
    BY <1>b, <1>c, <1>d, <2>1 DEF AlonePlain, Stages
  <2> QED BY <2>2, <2>3
<1>6. CASE Exit(s)
  <2>1. Alive(s) /\ pc' = [pc EXCEPT ![s] = "ended"]
    BY <1>6 DEF Exit
  <2>2. /\ owners' # None => owners'.original = original
        /\ marker' \in {marker, None}
        /\ url' = original \/ (url' = url /\ marker' = marker)
    <3>1. CASE Routed(s)
      <4>1. Restore(s, original, FALSE, {})
        BY <1>6, <3>1 DEF Exit, AlonePlain
      <4> QED BY <2>1, <4>1, AloneRestore
    <3>2. CASE ~Routed(s)
      BY <1>6, <3>2 DEF Exit, files, AlonePlain
    <3> QED BY <3>1, <3>2
  <2>3. AloneClean'
    BY <1>a, <1>b, <2>1, <2>2 DEF Stages, AloneClean
  <2>4. AlonePlain'
    BY <1>b, <1>c, <1>d, <2>1, <2>2 DEF AlonePlain, Stages
  <2> QED BY <2>3, <2>4
<1>7. CASE Crash(s)
  <2>1. Alive(s) /\ pc' = [pc EXCEPT ![s] = "crashed"] /\ UNCHANGED <<owners, marker, url>>
    BY <1>7 DEF Crash, files
  <2>2. AloneClean'
    BY <1>a, <1>b, <2>1 DEF Stages, AloneClean
  <2>3. AlonePlain'
    BY <1>b, <1>c, <1>d, <2>1 DEF AlonePlain, Stages
  <2> QED BY <2>2, <2>3
<1> QED BY <1>2, <1>3, <1>4, <1>5, <1>6, <1>7 DEF SessionStep

(* The tools restore between the windows of a starting session.            *)
LEMMA AloneTool ==
  ASSUME QuietStart, ~IdleUnwrap, AloneInv, NEW t \in Tools, ToolStep(t)
  PROVE  AlonePlain' /\ AloneClean'
<1> USE DEF AloneInv
<1>0. t \notin Sessions
  BY DistinctAssumption DEF Tools
<1>1. UNCHANGED <<original, pc, saved, snapshot>>
  BY DEF ToolStep, HealProbe, HealRestore, UnwrapRead, UnwrapRestore, files
<1>a. ASSUME NEW x, job' = [job EXCEPT ![t] = x], x # None => x.previous = original
      PROVE  \A u \in Tools : job'[u] # None => job'[u].previous = original
  BY <1>a DEF TypeOK, AlonePlain
<1>2. CASE HealProbe(t) \/ UnwrapRead(t)
  <2>1. UNCHANGED <<url, owners, marker>>
    BY <1>2 DEF HealProbe, UnwrapRead, files
  <2>2. \A u \in Tools : job'[u] # None => job'[u].previous = original
    <3>1. CASE HealProbe(t)
      BY <1>a, <3>1 DEF HealProbe, AlonePlain
    <3>2. CASE UnwrapRead(t)
      <4> DEFINE x == [port |-> None, previous |-> IF marker = None THEN NoUrl ELSE marker.previous]
      <4>1. job' = [job EXCEPT ![t] = x] /\ (marker = None => url = NoUrl)
        BY <3>2 DEF UnwrapRead
      <4>2. x.previous = original
        BY <4>1, AloneNoUrl DEF AlonePlain
      <4> QED BY <1>a, <4>1, <4>2
    <3> QED BY <1>2, <3>1, <3>2
  <2>3. AlonePlain'
    BY <1>1, <2>1, <2>2 DEF AlonePlain, Routed
  <2>4. AloneClean'
    BY <1>1, <2>1 DEF AloneClean, Alive
  <2> QED BY <2>3, <2>4
<1>3. CASE HealRestore(t) \/ UnwrapRestore(t)
  <2>1. /\ job[t] # None /\ job' = [job EXCEPT ![t] = None]
        /\ \A r \in Sessions : pc[r] \notin {"checked", "hooking"}
    BY <1>0, <1>3 DEF HealRestore, UnwrapRestore, Quiet
  <2>2. \E force \in BOOLEAN, dead \in {{}, {job[t].port}} : Restore(t, original, force, dead)
    BY <1>3 DEF HealRestore, UnwrapRestore, AlonePlain
  <2>3. /\ owners' # None => owners'.original = original
        /\ marker' \in {marker, None}
        /\ url' = original \/ (url' = url /\ marker' = marker)
    BY <1>0, <2>2, AloneRestore
  <2>4. \A u \in Tools : job'[u] # None => job'[u].previous = original
    BY <1>a, <2>1
  <2>5. AlonePlain'
    BY <1>1, <2>3, <2>4 DEF AlonePlain, Routed
  <2>6. AloneClean'
    BY <1>1, <2>1, <2>3 DEF AloneClean, Alive
  <2> QED BY <2>5, <2>6
<1> QED BY <1>2, <1>3 DEF ToolStep

(* Sessions one after the other leave nothing without a marker.            *)
LEMMA AloneInvariance ==
  ASSUME QuietStart, OneAtATime, ~IdleUnwrap
  PROVE  Spec => []AloneInv
<1>1. Init => AloneInv
  <2> SUFFICES ASSUME Init
               PROVE  AloneInv
    OBVIOUS
  <2>1. NamedHaveWritten
    BY DEF Init, NamedHaveWritten
  <2>2. AlonePlain
    BY DEF Init, AlonePlain, Routed
  <2>3. AloneClean
    BY DEF Init, AloneClean, Alive
  <2> QED BY <2>1, <2>2, <2>3, TypeInit DEF AloneInv
<1>2. AloneInv /\ [Next]_vars => AloneInv'
  <2> SUFFICES ASSUME AloneInv, [Next]_vars
               PROVE  AloneInv'
    OBVIOUS
  <2>1. TypeOK' /\ NamedHaveWritten'
    BY TypeStep, NamedStep DEF AloneInv
  <2>2. CASE UNCHANGED <<original, url, owners, marker, pc, saved, snapshot, job>>
    BY <2>1, <2>2 DEF AloneInv, AlonePlain, AloneClean, Alive, Routed
  <2>3. ASSUME NEW p \in Ports, WatchdogStop(p) \/ KillProxy(p)
        PROVE  UNCHANGED <<original, url, owners, marker, pc, saved, snapshot, job>>
    BY <2>3 DEF WatchdogStop, KillProxy, files
  <2>4. CASE UNCHANGED vars
    BY <2>2, <2>4 DEF vars, files
  <2> QED BY <2>1, <2>2, <2>3, <2>4, AloneSession, AloneTool DEF Next, AloneInv
<1> QED BY <1>1, <1>2, PTL DEF Spec

-----------------------------------------------------------------------------
(* What holds of every behaviour.                                          *)

(***************************************************************************)
(* Types, whoever overlaps, dies, heals or unwraps: the record, the marker *)
(* and a tool's job name sessions and values, and a marker is handed on    *)
(* only to somebody (_claim_wrap_key, _rehome_wrap_marker).                *)
(***************************************************************************)
THEOREM TypeCorrect == Spec => []TypeOK
BY TypeInit, TypeStep, PTL DEF Spec

(***************************************************************************)
(* Sessions that share a proxy do not unroute each other, in whatever      *)
(* order they start, end and die, also inside each other's windows, and    *)
(* whatever a hook installation writes back: with no tool at work the key  *)
(* names the proxy of every running session (_release_wrap_key,            *)
(* _restore_claude_wrap_base_url, _ensure_claude_wrap_selfheal_hook).      *)
(***************************************************************************)
THEOREM SharersStayRouted ==
  ASSUME OnePort, NoTools
  PROVE  Spec => []LiveSessionStaysRouted
<1>1. RoutingInv => LiveSessionStaysRouted
  BY DEF RoutingInv, RoutedHold, LiveSessionStaysRouted
<1> QED BY <1>1, RoutingInvariance, PTL

(***************************************************************************)
(* The user's value comes back from overlapping sessions of one proxy: the *)
(* record keeps it past its founder, and the next session cleans up after  *)
(* any that died outside another's start (_claim_wrap_key,                 *)
(* _check_and_clear_stale_wrap_marker, _restore_claude_wrap_base_url).     *)
(***************************************************************************)
THEOREM SharersRestore ==
  ASSUME OnePort, NoTools, QuietStart
  PROVE  Spec => []UserValueRestored
<1>1. SharedInv => UserValueRestored
  BY DEF SharedInv, RecordTrue, UserValueRestored
<1> QED BY <1>1, SharedInvariance, PTL

(***************************************************************************)
(* Sessions one after the other, on any ports, with self-heals, unwraps    *)
(* and proxies that die at any time outside a start, give the user's value *)
(* back, and leave no proxy URL behind without a marker to clean it up by; *)
(* an unwrap that meets a value and no marker is excluded, for it takes    *)
(* the value out (_check_and_clear_dead_wrap_marker, unwrap_claude).       *)
(***************************************************************************)
THEOREM ToolsRestore ==
  ASSUME QuietStart, OneAtATime, ~IdleUnwrap
  PROVE  Spec => []UserValueRestored
<1>1. AloneInv => UserValueRestored
  BY DEF AloneInv, AlonePlain, AloneClean, UserValueRestored
<1> QED BY <1>1, AloneInvariance, PTL

=============================================================================
