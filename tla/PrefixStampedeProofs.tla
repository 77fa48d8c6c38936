------------------------ MODULE PrefixStampedeProofs ------------------------
(***************************************************************************)
(* TLAPS proofs about the stampede gate, for every number of requests and  *)
(* keys, every capacity, wait_cap and warm_ttl.                            *)
(***************************************************************************)
EXTENDS PrefixStampede, TLAPS

\* The inductive invariant.
IInv ==
  /\ TypeOK
  /\ ColdEntryHasLiveLeader
  /\ WarmMeansBegun
  /\ NotifyCreated
  /\ FollowerBudget

-----------------------------------------------------------------------------
(* What the LRU operations and the wake leave behind.                      *)

(* LruCache::get only reorders keys.                                       *)
LEMMA UsedType ==
  ASSUME TypeOK, NEW k \in Keys
  PROVE  Used(k) \subseteq Keys \X Keys
BY DEF TypeOK, Used

(* LruCache::put keeps, replaces or evicts an entry, and stores e at k.    *)
LEMMA PutEffect ==
  ASSUME TypeOK, NEW k \in Keys, NEW e \in Entry, Put(k, e)
  PROVE  /\ newer' \subseteq Keys \X Keys
         /\ entries' \in [Keys -> Entry \cup {NONE}]
         /\ entries'[k] = e
         /\ \A x \in Keys \ {k} : entries'[x] = entries[x] \/ entries'[x] = NONE
<1>1. newer' \subseteq Keys \X Keys
  BY UsedType DEF Put
<1>2. entries' \in [Keys -> Entry \cup {NONE}]
  <2> DEFINE E(x) == IF x = k THEN e ELSE IF x \in Evicted(k) THEN NONE ELSE entries[x]
  <2>1. entries' = [x \in Keys |-> E(x)]
    BY DEF Put
  <2>2. \A x \in Keys : E(x) \in Entry \cup {NONE}
    BY DEF TypeOK
  <2> HIDE DEF E
  <2> QED BY <2>1, <2>2
<1> QED BY <1>1, <1>2 DEF Put

(* LruCache::pop removes one entry and leaves the others.                  *)
LEMMA PopEffect ==
  ASSUME TypeOK, NEW k \in Keys, Pop(k)
  PROVE  /\ newer' \subseteq Keys \X Keys
         /\ entries' \in [Keys -> Entry \cup {NONE}]
         /\ entries'[k] = NONE
         /\ \A x \in Keys \ {k} : entries'[x] = entries[x]
BY DEF TypeOK, Pop

(* Setting warm_at touches no other field and no other entry.              *)
LEMMA WarmEffect ==
  ASSUME TypeOK, NEW k \in Keys, Held(k), entries' = [entries EXCEPT ![k].warm_age = 0]
  PROVE  /\ entries' \in [Keys -> Entry \cup {NONE}]
         /\ entries'[k].warm_age = 0
         /\ entries'[k].notify = entries[k].notify
         /\ \A x \in Keys \ {k} : entries'[x] = entries[x]
<1>1. entries[k] \in Entry
  BY DEF TypeOK, Held
<1>2. 0 \in (0..WarmTtl) \cup {NONE}
  BY TimeAssumption
<1>3. [entries[k] EXCEPT !.warm_age = 0] \in Entry
  BY <1>1, <1>2 DEF Entry
<1> QED BY <1>1, <1>3 DEF TypeOK, Entry

(* Ages stay within the bound they saturate at.                            *)
LEMMA OlderType ==
  ASSUME NEW b \in Nat, NEW a \in 0..b
  PROVE  Older(a, b) \in 0..b
BY DEF Older

(* A tick keeps an entry an entry, its Notify, and whether it is warm.     *)
LEMMA OlderEntryType ==
  ASSUME NEW e \in Entry
  PROVE  /\ OlderEntry(e) \in Entry
         /\ OlderEntry(e).notify = e.notify
         /\ OlderEntry(e).leader_age = Older(e.leader_age, WaitCap)
         /\ e.warm_age = NONE => OlderEntry(e).warm_age = NONE
         /\ e.warm_age # NONE => OlderEntry(e).warm_age = Older(e.warm_age, WarmTtl)
         /\ e.warm_age # NONE => OlderEntry(e).warm_age # NONE
<1>1. Older(e.leader_age, WaitCap) \in 0..WaitCap
  BY OlderType, TimeAssumption DEF Entry
<1>2. e.warm_age # NONE => Older(e.warm_age, WarmTtl) \in 0..WarmTtl
  BY OlderType, TimeAssumption DEF Entry
<1>3. \A n \in Int : n # NONE
  BY NoneAssumption
<1> QED BY <1>1, <1>2, <1>3 DEF OlderEntry, Entry

(* A request that leaves the gate keeps every other request's record.      *)
LEMMA AdmittedType ==
  ASSUME TypeOK, NEW r \in Requests, Admitted(r)
  PROVE  /\ pc' \in [Requests -> Stages] /\ key' \in [Requests -> Keys]
         /\ parked' \in [Requests -> BOOLEAN]
         /\ waited' \in [Requests -> 0..(WaitCap + 1)]
         /\ notify' \in [Requests -> Requests \cup {NONE}]
         /\ budget' \in [Requests -> 0..WaitCap]
         /\ woken' \in [Requests -> BOOLEAN]
         /\ begun' \in [Keys -> (0..WarmTtl) \cup {NONE}]
<1>1. 0 \in 0..WaitCap
  BY TimeAssumption
<1> QED BY <1>1 DEF TypeOK, Admitted, Stages

(* notify_waiters only sets wake flags.                                    *)
LEMMA NotifyType ==
  ASSUME TypeOK, NEW n, NotifyWaiters(n)
  PROVE  woken' \in [Requests -> BOOLEAN]
BY DEF TypeOK, NotifyWaiters

\* A fresh entry of a leader, and one put by touch.
LEMMA FreshEntry ==
  ASSUME NEW r \in Requests
  PROVE  /\ [leader_age |-> 0, warm_age |-> NONE, notify |-> r] \in Entry
         /\ [leader_age |-> 0, warm_age |-> 0, notify |-> r] \in Entry
BY TimeAssumption DEF Entry

(* The three ways step admits a request keep the types.                    *)
LEMMA StepAdmitsType ==
  ASSUME TypeOK, NEW r \in Requests, StepAdmits(r)
  PROVE  TypeOK'
<1>0. key[r] \in Keys
  BY DEF TypeOK
<1>1. CASE StepWarm(r)
  BY <1>0, <1>1, AdmittedType, UsedType DEF TypeOK, StepWarm
<1>2. CASE StepLead(r)
  <2>1. /\ newer' \subseteq Keys \X Keys
        /\ entries' \in [Keys -> Entry \cup {NONE}]
    BY <1>0, <1>2, FreshEntry, PutEffect DEF StepLead
  <2> QED BY <1>2, <2>1, AdmittedType DEF TypeOK, StepLead
<1>3. CASE StepStaleLeader(r)
  BY <1>0, <1>3, AdmittedType, UsedType DEF TypeOK, StepStaleLeader
<1> QED BY <1>1, <1>2, <1>3 DEF StepAdmits

(* A tick keeps the types: every age saturates, and no timeout that is     *)
(* still running is at zero.                                               *)
LEMMA TickType ==
  ASSUME TypeOK, Tick
  PROVE  TypeOK'
<1>1. entries' \in [Keys -> Entry \cup {NONE}]
  <2>1. \A k \in Keys : Held(k) => OlderEntry(entries[k]) \in Entry
    BY OlderEntryType DEF TypeOK, Held
  <2> QED BY <2>1 DEF Tick
<1>2. waited' \in [Requests -> 0..(WaitCap + 1)]
  <2>1. \A r \in Requests : Older(waited[r], WaitCap + 1) \in 0..(WaitCap + 1)
    BY OlderType, TimeAssumption DEF TypeOK
  <2> QED BY <2>1 DEF Tick, TypeOK
<1>3. budget' \in [Requests -> 0..WaitCap]
  <2>0. \A r \in Requests : pc[r] = "sleeping" => budget[r] # 0
    BY Zenon DEF Tick, Busy
  <2>1. \A r \in Requests : pc[r] = "sleeping" => budget[r] - 1 \in 0..WaitCap
    BY <2>0, TimeAssumption DEF TypeOK
  <2> QED BY <2>1 DEF Tick, TypeOK
<1>4. begun' \in [Keys -> (0..WarmTtl) \cup {NONE}]
  <2>1. \A k \in Keys : begun[k] # NONE => Older(begun[k], WarmTtl) \in 0..WarmTtl
    BY OlderType, TimeAssumption DEF TypeOK
  <2> QED BY <2>1 DEF Tick, TypeOK
<1> QED BY <1>1, <1>2, <1>3, <1>4 DEF TypeOK, Tick

(* Every step keeps the types.                                             *)
LEMMA TypeStep == TypeOK /\ [Next]_vars => TypeOK'
<1> SUFFICES ASSUME TypeOK, [Next]_vars PROVE TypeOK'
  OBVIOUS
<1>0. \A r \in Requests : key[r] \in Keys
  BY DEF TypeOK
<1>1. ASSUME NEW r \in Requests, Arrive(r) PROVE TypeOK'
  BY <1>1 DEF TypeOK, Arrive, gateVars, Stages, Waiting
<1>2. ASSUME NEW r \in Requests, FirstStep(r) PROVE TypeOK'
  <2>1. CASE StepAdmits(r)
    BY <2>1, StepAdmitsType
  <2>2. CASE MustWait(key[r]) /\ ~StepAdmits(r)
    <3>1. entries[key[r]] \in Entry
      BY <1>0, <2>2 DEF TypeOK, MustWait, Cold, Held
    <3>2. entries[key[r]].notify \in Requests /\ BudgetFor(key[r]) \in 0..WaitCap
      BY <3>1, TimeAssumption DEF Entry, BudgetFor
    <3>3. /\ newer' = Used(key[r])
          /\ pc' = [pc EXCEPT ![r] = "arming"]
          /\ notify' = [notify EXCEPT ![r] = entries[key[r]].notify]
          /\ budget' = [budget EXCEPT ![r] = BudgetFor(key[r])]
          /\ woken' = [woken EXCEPT ![r] = FALSE]
          /\ UNCHANGED <<entries, key, parked, waited, token, begun>>
      BY <1>2, <2>2 DEF FirstStep
    <3>4. newer' \subseteq Keys \X Keys
      BY <1>0, <3>3, UsedType
    <3> QED BY <3>2, <3>3, <3>4 DEF TypeOK, Stages, Waiting
  <2> QED BY <1>2, <2>1, <2>2 DEF FirstStep
<1>3. ASSUME NEW r \in Requests, Arm(r) PROVE TypeOK'
  BY <1>3 DEF TypeOK, Arm, gateVars, Stages, Waiting
<1>4. ASSUME NEW r \in Requests, SecondStep(r) PROVE TypeOK'
  <2>1. CASE StepAdmits(r)
    BY <2>1, StepAdmitsType
  <2>2. CASE ~StepAdmits(r)
    BY <1>0, <1>4, <2>2, UsedType DEF TypeOK, SecondStep, Stages, Waiting
  <2> QED BY <2>1, <2>2
<1>5. ASSUME NEW r \in Requests, Wake(r) PROVE TypeOK'
  BY <1>5, TimeAssumption DEF TypeOK, Wake, gateVars, Stages, Waiting
<1>6. ASSUME NEW r \in Requests, TimeOut(r) PROVE TypeOK'
  BY <1>6, AdmittedType DEF TypeOK, TimeOut, gateVars
<1>7. ASSUME NEW r \in Requests, Cancel(r) PROVE TypeOK'
  BY <1>7, TimeAssumption DEF TypeOK, Cancel, gateVars, Stages
<1>8. ASSUME NEW r \in Requests, FirstByte(r) PROVE TypeOK'
  <2>1. entries' \in [Keys -> Entry \cup {NONE}] /\ newer' \subseteq Keys \X Keys
        /\ woken' \in [Requests -> BOOLEAN]
    <3>1. CASE Held(key[r])
      BY <1>0, <1>8, <3>1, WarmEffect, UsedType, NotifyType DEF FirstByte
    <3>2. CASE ~Held(key[r])
      BY <1>8, <3>2 DEF FirstByte, gateVars, TypeOK
    <3> QED BY <3>1, <3>2
  <2>2. begun' \in [Keys -> (0..WarmTtl) \cup {NONE}]
    BY <1>0, <1>8, TimeAssumption DEF TypeOK, FirstByte, Begins
  <2> QED BY <1>8, <2>1, <2>2 DEF TypeOK, FirstByte, Stages
<1>9. ASSUME NEW r \in Requests, Touch(r) PROVE TypeOK'
  <2>1. entries' \in [Keys -> Entry \cup {NONE}] /\ newer' \subseteq Keys \X Keys
        /\ woken' \in [Requests -> BOOLEAN]
    <3>1. CASE Held(key[r])
      BY <1>0, <1>9, <3>1, WarmEffect, UsedType, NotifyType DEF Touch
    <3>2. CASE ~Held(key[r])
      BY <1>0, <1>9, <3>2, FreshEntry, PutEffect DEF Touch, TypeOK
    <3> QED BY <3>1, <3>2
  <2>2. begun' \in [Keys -> (0..WarmTtl) \cup {NONE}]
    BY <1>0, <1>9, TimeAssumption DEF TypeOK, Touch, Begins
  <2> QED BY <1>9, <2>1, <2>2 DEF TypeOK, Touch, Stages
<1>10. ASSUME NEW r \in Requests, DropToken(r) PROVE TypeOK'
  <2>1. entries' \in [Keys -> Entry \cup {NONE}] /\ newer' \subseteq Keys \X Keys
        /\ woken' \in [Requests -> BOOLEAN]
    <3>1. CASE Held(key[r])
      BY <1>0, <1>10, <3>1, PopEffect, NotifyType DEF DropToken
    <3>2. CASE ~Held(key[r])
      BY <1>10, <3>2 DEF DropToken, gateVars, TypeOK
    <3> QED BY <3>1, <3>2
  <2> QED BY <1>10, <2>1 DEF TypeOK, DropToken, Stages
<1>11. ASSUME NEW r \in Requests, FailFollower(r) PROVE TypeOK'
  BY <1>11 DEF TypeOK, FailFollower, gateVars, Stages
<1>12. CASE UNCHANGED vars
  BY <1>12 DEF TypeOK, vars, gateVars, reqVars
<1> QED
  BY <1>1, <1>2, <1>3, <1>4, <1>5, <1>6, <1>7, <1>8, <1>9, <1>10, <1>11, <1>12, TickType
  DEF Next, AdmitStep, Settle

-----------------------------------------------------------------------------
(* A cold entry's creator is in flight with its token.                     *)

(* An entry that a step leaves alone keeps a live leader when the step     *)
(* ends no leader's flight.                                                *)
LEMMA ColdKept ==
  ASSUME ColdEntryHasLiveLeader, NEW k \in Keys, Cold(k)', entries'[k] = entries[k],
         \A q \in Requests : pc[q] = "sent" /\ token[q] /\ key[q] = k =>
                               pc'[q] = "sent" /\ token'[q] /\ key'[q] = k,
         entries[k].notify \in Requests
  PROVE  LET r == entries'[k].notify IN pc'[r] = "sent" /\ token'[r] /\ key'[r] = k
BY DEF ColdEntryHasLiveLeader, Cold, Held

LEMMA ColdStep == TypeOK /\ ColdEntryHasLiveLeader /\ [Next]_vars => ColdEntryHasLiveLeader'
<1> SUFFICES ASSUME TypeOK, ColdEntryHasLiveLeader, [Next]_vars, NEW k \in Keys, Cold(k)'
             PROVE  LET r == entries'[k].notify
                    IN  pc'[r] = "sent" /\ token'[r] /\ key'[r] = k
  BY DEF ColdEntryHasLiveLeader
<1> DEFINE Goal == LET r == entries'[k].notify
                   IN  pc'[r] = "sent" /\ token'[r] /\ key'[r] = k
           Live(q) == pc[q] = "sent" /\ token[q] /\ key[q] = k
           StillLive == \A q \in Requests : Live(q) => Live(q)'
<1>0. /\ \A q \in Requests : key[q] \in Keys
      /\ Held(k) => entries[k] \in Entry /\ entries[k].notify \in Requests
      /\ entries'[k] # NONE
  BY DEF TypeOK, Held, Entry, Cold
<1>1. ASSUME entries'[k] = entries[k], StillLive PROVE Goal
  BY <1>0, <1>1, ColdKept DEF Held
<1>2. ASSUME NEW r \in Requests, Arrive(r) PROVE Goal
  <2>1. StillLive /\ entries'[k] = entries[k]
    BY <1>2 DEF Arrive, TypeOK, gateVars
  <2> QED BY <1>1, <2>1
<1>3. ASSUME NEW r \in Requests, pc[r] # "sent", StepAdmits(r) PROVE Goal
  <2>1. StillLive
    BY <1>3 DEF StepAdmits, StepWarm, StepLead, StepStaleLeader, Admitted, TypeOK
  <2>2. CASE StepWarm(r) \/ StepStaleLeader(r)
    BY <1>1, <2>1, <2>2 DEF StepWarm, StepStaleLeader
  <2>3. CASE StepLead(r) /\ key[r] # k
    <3>1. Put(key[r], [leader_age |-> 0, warm_age |-> NONE, notify |-> r]) /\ k \in Keys \ {key[r]}
      BY <2>3 DEF StepLead
    <3>2. entries'[k] = entries[k] \/ entries'[k] = NONE
      BY <1>0, <3>1, FreshEntry, PutEffect
    <3> QED BY <1>0, <1>1, <2>1, <3>2
  <2>4. CASE StepLead(r) /\ key[r] = k
    <3>0. Put(k, [leader_age |-> 0, warm_age |-> NONE, notify |-> r])
      BY <2>4 DEF StepLead
    <3>1. entries'[k] = [leader_age |-> 0, warm_age |-> NONE, notify |-> r]
      BY <3>0, FreshEntry, PutEffect
    <3> QED BY <2>4, <3>1 DEF StepLead, Admitted, TypeOK
  <2> QED BY <1>3, <2>2, <2>3, <2>4 DEF StepAdmits
<1>4. ASSUME NEW r \in Requests, FirstStep(r) PROVE Goal
  <2>1. CASE StepAdmits(r)
    BY <1>3, <1>4, <2>1 DEF FirstStep
  <2>2. CASE ~StepAdmits(r)
    <3>1. StillLive /\ entries'[k] = entries[k]
      BY <1>4, <2>2 DEF FirstStep, TypeOK
    <3> QED BY <1>1, <3>1
  <2> QED BY <2>1, <2>2
<1>5. ASSUME NEW r \in Requests, Arm(r) PROVE Goal
  <2>1. StillLive /\ entries'[k] = entries[k]
    BY <1>5 DEF Arm, TypeOK, gateVars
  <2> QED BY <1>1, <2>1
<1>6. ASSUME NEW r \in Requests, SecondStep(r) PROVE Goal
  <2>1. CASE StepAdmits(r)
    BY <1>3, <1>6, <2>1 DEF SecondStep
  <2>2. CASE ~StepAdmits(r)
    <3>1. StillLive /\ entries'[k] = entries[k]
      BY <1>6, <2>2 DEF SecondStep, TypeOK
    <3> QED BY <1>1, <3>1
  <2> QED BY <2>1, <2>2
<1>7. ASSUME NEW r \in Requests, Wake(r) \/ TimeOut(r) \/ Cancel(r) PROVE Goal
  <2>1. StillLive /\ entries'[k] = entries[k]
    BY <1>7 DEF Wake, TimeOut, Cancel, Admitted, TypeOK, gateVars, Waiting
  <2> QED BY <1>1, <2>1
<1>8. ASSUME NEW r \in Requests, FirstByte(r) PROVE Goal
  <2>1. CASE key[r] = k /\ Held(k)
    <3>1. entries'[k].warm_age = 0
      BY <1>8, <2>1, WarmEffect DEF FirstByte
    <3> QED BY <3>1, NoneAssumption DEF Cold
  <2>2. CASE key[r] # k \/ ~Held(k)
    <3>1. entries'[k] = entries[k]
      BY <1>0, <1>8, <2>2, WarmEffect DEF FirstByte, gateVars
    <3>2. key[r] # k
      BY <1>0, <2>2, <3>1 DEF Held
    <3>3. StillLive
      BY <1>8, <3>2 DEF FirstByte, TypeOK
    <3> QED BY <1>1, <3>1, <3>3
  <2> QED BY <2>1, <2>2
<1>9. ASSUME NEW r \in Requests, Touch(r) PROVE Goal
  <2>1. StillLive
    BY <1>9 DEF Touch, TypeOK
  <2>2. CASE key[r] = k
    <3>1. entries'[k].warm_age = 0
      <4>1. CASE Held(k)
        BY <1>9, <2>2, <4>1, WarmEffect DEF Touch
      <4>2. CASE ~Held(k)
        <5>1. Put(k, [leader_age |-> 0, warm_age |-> 0, notify |-> r])
          BY <1>9, <2>2, <4>2 DEF Touch
        <5>2. entries'[k] = [leader_age |-> 0, warm_age |-> 0, notify |-> r]
          BY <5>1, FreshEntry, PutEffect
        <5> QED BY <5>2
      <4> QED BY <4>1, <4>2
    <3> QED BY <3>1, NoneAssumption DEF Cold
  <2>3. CASE key[r] # k
    <3>1. entries'[k] = entries[k]
      <4>1. CASE Held(key[r])
        BY <1>0, <1>9, <2>3, <4>1, WarmEffect DEF Touch
      <4>2. CASE ~Held(key[r])
        <5>1. Put(key[r], [leader_age |-> 0, warm_age |-> 0, notify |-> r]) /\ k \in Keys \ {key[r]}
          BY <1>9, <2>3, <4>2 DEF Touch
        <5> QED BY <1>0, <5>1, FreshEntry, PutEffect
      <4> QED BY <4>1, <4>2
    <3> QED BY <1>1, <2>1, <3>1
  <2> QED BY <2>2, <2>3
<1>10. ASSUME NEW r \in Requests, DropToken(r) PROVE Goal
  <2>1. key[r] # k
    BY <1>0, <1>10, PopEffect DEF DropToken, gateVars, Held
  <2>2. StillLive
    BY <1>10, <2>1 DEF DropToken, TypeOK
  <2>3. entries'[k] = entries[k]
    BY <1>0, <1>10, <2>1, PopEffect DEF DropToken, gateVars
  <2> QED BY <1>1, <2>2, <2>3
<1>11. ASSUME NEW r \in Requests, FailFollower(r) PROVE Goal
  <2>1. StillLive /\ entries'[k] = entries[k]
    BY <1>11 DEF FailFollower, TypeOK, gateVars
  <2> QED BY <1>1, <2>1
<1>12. CASE Tick
  <2>1. Held(k) /\ entries'[k] = OlderEntry(entries[k])
    BY <1>0, <1>12 DEF Tick, TypeOK
  <2>2. Cold(k) /\ entries'[k].notify = entries[k].notify
    BY <1>0, <2>1, OlderEntryType DEF Cold
  <2> QED BY <1>12, <2>2 DEF Tick, ColdEntryHasLiveLeader
<1>13. CASE UNCHANGED vars
  <2>1. StillLive /\ entries'[k] = entries[k]
    BY <1>13 DEF vars, gateVars, reqVars
  <2> QED BY <1>1, <2>1
<1> QED
  BY <1>2, <1>4, <1>5, <1>6, <1>7, <1>8, <1>9, <1>10, <1>11, <1>12, <1>13
  DEF Next, AdmitStep, Settle

-----------------------------------------------------------------------------
(* The effect of a step on one entry, shared by the proofs below: kept,    *)
(* dropped, made cold by a new leader, made warm, or aged by a tick.       *)

KeptEntry(k) == entries'[k] = entries[k]
NewLeader(k) ==
  \E r \in Requests : /\ pc[r] \in {"polling", "armed"} /\ pc'[r] = "sent"
                      /\ entries'[k] = [leader_age |-> 0, warm_age |-> NONE, notify |-> r]
MadeWarm(k) ==
  /\ begun'[k] = 0
  /\ entries'[k].warm_age = 0
  /\ \/ Held(k) /\ entries'[k].notify = entries[k].notify
     \/ \E r \in Requests : pc'[r] = "done" /\ entries'[k].notify = r

LEMMA EntryEffect ==
  ASSUME TypeOK, [Next]_vars, ~Tick, NEW k \in Keys
  PROVE  \/ begun'[k] = begun[k] /\ KeptEntry(k)
         \/ entries'[k] = NONE
         \/ NewLeader(k)
         \/ MadeWarm(k)
<1> DEFINE Goal == \/ begun'[k] = begun[k] /\ KeptEntry(k)
                   \/ entries'[k] = NONE
                   \/ NewLeader(k)
                   \/ MadeWarm(k)
<1>0. \A q \in Requests : key[q] \in Keys
  BY DEF TypeOK
<1>1. ASSUME entries' = entries, begun' = begun PROVE Goal
  BY <1>1 DEF KeptEntry
<1>2. ASSUME NEW r \in Requests, pc[r] \in {"polling", "armed"}, StepAdmits(r) PROVE Goal
  <2>1. CASE StepWarm(r) \/ StepStaleLeader(r)
    BY <1>1, <2>1 DEF StepWarm, StepStaleLeader, Admitted
  <2>2. CASE StepLead(r)
    <3>1. /\ Put(key[r], [leader_age |-> 0, warm_age |-> NONE, notify |-> r])
          /\ pc' = [pc EXCEPT ![r] = "sent"] /\ begun' = begun
      BY <2>2 DEF StepLead, Admitted
    <3>2. CASE key[r] = k
      <4>1. entries'[k] = [leader_age |-> 0, warm_age |-> NONE, notify |-> r]
        BY <3>1, <3>2, FreshEntry, PutEffect
      <4> QED BY <1>2, <3>1, <4>1 DEF NewLeader, TypeOK
    <3>3. CASE key[r] # k
      BY <1>0, <3>1, <3>3, FreshEntry, PutEffect DEF KeptEntry
    <3> QED BY <3>2, <3>3
  <2> QED BY <1>2, <2>1, <2>2 DEF StepAdmits
<1>3. ASSUME NEW r \in Requests, FirstStep(r) PROVE Goal
  BY <1>1, <1>2, <1>3 DEF FirstStep
<1>4. ASSUME NEW r \in Requests, SecondStep(r) PROVE Goal
  BY <1>1, <1>2, <1>4 DEF SecondStep
<1>5. ASSUME NEW r \in Requests,
             Arrive(r) \/ Arm(r) \/ Wake(r) \/ TimeOut(r) \/ Cancel(r) \/ FailFollower(r)
      PROVE  Goal
  BY <1>1, <1>5 DEF Arrive, Arm, Wake, TimeOut, Cancel, FailFollower, Admitted, gateVars
<1>6. ASSUME NEW r \in Requests, FirstByte(r) PROVE Goal
  <2>1. begun' = [begun EXCEPT ![key[r]] = 0]
    BY <1>6 DEF FirstByte, Begins
  <2>2. CASE Held(key[r])
    <3>1. entries' = [entries EXCEPT ![key[r]].warm_age = 0]
      BY <1>6, <2>2 DEF FirstByte
    <3>2. CASE key[r] = k
      BY <2>1, <2>2, <3>1, <3>2, WarmEffect DEF MadeWarm, TypeOK
    <3>3. CASE key[r] # k
      BY <1>0, <2>1, <2>2, <3>1, <3>3, WarmEffect DEF KeptEntry, TypeOK
    <3> QED BY <3>2, <3>3
  <2>3. CASE ~Held(key[r])
    <3>1. entries' = entries
      BY <1>6, <2>3 DEF FirstByte, gateVars
    <3>2. CASE key[r] = k
      BY <2>3, <3>1, <3>2 DEF Held
    <3>3. CASE key[r] # k
      BY <1>0, <2>1, <3>1, <3>3 DEF KeptEntry, TypeOK
    <3> QED BY <3>2, <3>3
  <2> QED BY <2>2, <2>3
<1>7. ASSUME NEW r \in Requests, Touch(r) PROVE Goal
  <2>1. begun' = [begun EXCEPT ![key[r]] = 0] /\ pc' = [pc EXCEPT ![r] = "done"]
    BY <1>7 DEF Touch, Begins
  <2>2. CASE Held(key[r])
    <3>1. entries' = [entries EXCEPT ![key[r]].warm_age = 0]
      BY <1>7, <2>2 DEF Touch
    <3>2. CASE key[r] = k
      BY <2>1, <2>2, <3>1, <3>2, WarmEffect DEF MadeWarm, TypeOK
    <3>3. CASE key[r] # k
      BY <1>0, <2>1, <2>2, <3>1, <3>3, WarmEffect DEF KeptEntry, TypeOK
    <3> QED BY <3>2, <3>3
  <2>3. CASE ~Held(key[r])
    <3>1. Put(key[r], [leader_age |-> 0, warm_age |-> 0, notify |-> r])
      BY <1>7, <2>3 DEF Touch
    <3>2. CASE key[r] = k
      <4>1. entries'[k] = [leader_age |-> 0, warm_age |-> 0, notify |-> r]
        BY <3>1, <3>2, FreshEntry, PutEffect
      <4> QED BY <2>1, <3>2, <4>1 DEF MadeWarm, TypeOK
    <3>3. CASE key[r] # k
      <4>1. begun'[k] = begun[k]
        BY <1>0, <2>1, <3>3 DEF TypeOK
      <4> QED BY <1>0, <3>1, <3>3, <4>1, FreshEntry, PutEffect DEF KeptEntry
    <3> QED BY <3>2, <3>3
  <2> QED BY <2>2, <2>3
<1>8. ASSUME NEW r \in Requests, DropToken(r) PROVE Goal
  BY <1>0, <1>8, PopEffect DEF DropToken, gateVars, KeptEntry
<1>9. CASE UNCHANGED vars
  BY <1>1, <1>9 DEF vars, gateVars
<1> QED
  BY <1>3, <1>4, <1>5, <1>6, <1>7, <1>8, <1>9 DEF Next, AdmitStep, Settle

LEMMA WarmStep == TypeOK /\ WarmMeansBegun /\ [Next]_vars => WarmMeansBegun'
<1> SUFFICES ASSUME TypeOK, WarmMeansBegun, [Next]_vars, NEW k \in Keys,
                    Held(k)', entries'[k].warm_age # NONE
             PROVE  begun'[k] = entries'[k].warm_age
  BY DEF WarmMeansBegun
<1>1. CASE ~Tick
  <2>1. CASE begun'[k] = begun[k] /\ KeptEntry(k)
    BY <2>1 DEF KeptEntry, WarmMeansBegun, Held
  <2>2. ASSUME NewLeader(k) PROVE FALSE
    <3>1. PICK r \in Requests :
             entries'[k] = [leader_age |-> 0, warm_age |-> NONE, notify |-> r]
      BY <2>2 DEF NewLeader
    <3>2. entries'[k].warm_age = NONE
      BY <3>1
    <3> QED BY <3>2
  <2>3. entries'[k] # NONE
    BY DEF Held
  <2> QED BY <1>1, <2>1, <2>2, <2>3, EntryEffect DEF MadeWarm
<1>2. CASE Tick
  <2>0. entries'[k] = IF Held(k) THEN OlderEntry(entries[k]) ELSE NONE
    BY <1>2 DEF Tick
  <2>1. Held(k) /\ entries'[k] = OlderEntry(entries[k]) /\ entries[k] \in Entry
    BY <2>0 DEF Held, TypeOK
  <2>2. /\ entries[k].warm_age # NONE
        /\ entries'[k].warm_age = Older(entries[k].warm_age, WarmTtl)
    BY <2>1, OlderEntryType
  <2>3. begun[k] = entries[k].warm_age
    BY <2>1, <2>2 DEF WarmMeansBegun
  <2> QED BY <1>2, <2>2, <2>3 DEF Tick
<1> QED BY <1>1, <1>2

-----------------------------------------------------------------------------
(* A Notify belongs to a request that has been sent.                       *)

(* Once sent, a request is never back at the gate.                         *)
LEMMA SentForGood ==
  ASSUME TypeOK, [Next]_vars, NEW q \in Requests, pc[q] \in {"sent", "done"}
  PROVE  pc'[q] \in {"sent", "done"}
<1>1. ASSUME NEW r \in Requests, pc[r] \in {"polling", "armed"}, StepAdmits(r)
      PROVE  pc'[q] \in {"sent", "done"}
  BY <1>1 DEF StepAdmits, StepWarm, StepLead, StepStaleLeader, Admitted, TypeOK
<1>2. ASSUME NEW r \in Requests, FirstStep(r) \/ SecondStep(r)
      PROVE  pc'[q] \in {"sent", "done"}
  BY <1>1, <1>2 DEF FirstStep, SecondStep, TypeOK
<1>3. ASSUME NEW r \in Requests,
             Arrive(r) \/ Arm(r) \/ Wake(r) \/ TimeOut(r) \/ Cancel(r) \/ Settle(r)
      PROVE  pc'[q] \in {"sent", "done"}
  BY <1>3 DEF Arrive, Arm, Wake, TimeOut, Cancel, Settle, FirstByte, Touch, DropToken,
              FailFollower, Admitted, TypeOK
<1>4. CASE Tick \/ UNCHANGED vars
  BY <1>4 DEF Tick, vars, reqVars
<1> QED BY <1>2, <1>3, <1>4 DEF Next, AdmitStep

(* A request's Notify is dropped, kept, or taken from its key's entry.     *)
LEMMA NotifyEffect ==
  ASSUME TypeOK, [Next]_vars, NEW r \in Requests
  PROVE  \/ notify'[r] = NONE
         \/ notify'[r] = notify[r]
         \/ Held(key[r]) /\ notify'[r] = entries[key[r]].notify
<1> DEFINE Goal == \/ notify'[r] = NONE
                   \/ notify'[r] = notify[r]
                   \/ Held(key[r]) /\ notify'[r] = entries[key[r]].notify
<1>1. ASSUME NEW q \in Requests, StepAdmits(q) PROVE Goal
  BY <1>1 DEF StepAdmits, StepWarm, StepLead, StepStaleLeader, Admitted, TypeOK
<1>2. ASSUME NEW q \in Requests, FirstStep(q) \/ SecondStep(q) PROVE Goal
  BY <1>1, <1>2 DEF FirstStep, SecondStep, MustWait, Cold, TypeOK
<1>3. ASSUME NEW q \in Requests,
             Arrive(q) \/ Arm(q) \/ Wake(q) \/ TimeOut(q) \/ Cancel(q) \/ Settle(q)
      PROVE  Goal
  BY <1>3 DEF Arrive, Arm, Wake, TimeOut, Cancel, Settle, FirstByte, Touch, DropToken,
              FailFollower, Admitted, TypeOK
<1>4. CASE Tick \/ UNCHANGED vars
  BY <1>4 DEF Tick, vars, reqVars
<1> QED BY <1>2, <1>3, <1>4 DEF Next, AdmitStep

LEMMA CreatedStep == TypeOK /\ NotifyCreated /\ [Next]_vars => NotifyCreated'
<1> SUFFICES ASSUME TypeOK, NotifyCreated, [Next]_vars PROVE NotifyCreated'
  OBVIOUS
<1>1. ASSUME NEW k \in Keys, Held(k)' PROVE pc'[entries'[k].notify] \in {"sent", "done"}
  <2>0. Held(k) => entries[k].notify \in Requests /\ pc[entries[k].notify] \in {"sent", "done"}
    BY DEF NotifyCreated, TypeOK, Entry, Held
  <2>1. CASE ~Tick
    <3>1. CASE KeptEntry(k)
      BY <1>1, <2>0, <3>1, SentForGood DEF KeptEntry, Held
    <3>2. CASE NewLeader(k)
      BY <3>2 DEF NewLeader
    <3>3. CASE MadeWarm(k)
      BY <2>0, <3>3, SentForGood DEF MadeWarm
    <3>4. entries'[k] # NONE
      BY <1>1 DEF Held
    <3> QED BY <2>1, <3>1, <3>2, <3>3, <3>4, EntryEffect
  <2>2. CASE Tick
    <3>0. entries'[k] = IF Held(k) THEN OlderEntry(entries[k]) ELSE NONE
      BY <2>2 DEF Tick
    <3>1. Held(k) /\ entries'[k] = OlderEntry(entries[k]) /\ entries[k] \in Entry
      BY <1>1, <3>0 DEF Held, TypeOK
    <3>2. entries'[k].notify = entries[k].notify
      BY <3>1, OlderEntryType
    <3> QED BY <2>0, <3>1, <3>2, SentForGood
  <2> QED BY <2>1, <2>2
<1>2. ASSUME NEW r \in Requests, notify'[r] # NONE
      PROVE  pc'[notify'[r]] \in {"sent", "done"}
  <2>1. CASE notify'[r] = notify[r]
    BY <1>2, <2>1, SentForGood DEF NotifyCreated, TypeOK
  <2>2. CASE Held(key[r]) /\ notify'[r] = entries[key[r]].notify
    <3>1. /\ entries[key[r]].notify \in Requests
          /\ pc[entries[key[r]].notify] \in {"sent", "done"}
      BY <2>2 DEF NotifyCreated, TypeOK, Entry, Held
    <3> QED BY <2>2, <3>1, SentForGood
  <2> QED BY <1>2, <2>1, <2>2, NotifyEffect
<1> QED BY <1>1, <1>2 DEF NotifyCreated

-----------------------------------------------------------------------------
(* Budget and leader age add up to wait_cap.                               *)

\* A request that waits and has been handed a Notify.
Parked(r) == pc[r] \in {"arming", "armed", "sleeping"}

(* Outside a tick a parked request keeps its Notify and budget, or has     *)
(* just been given both by its key's entry.                                *)
LEMMA ParkedEffect ==
  ASSUME TypeOK, [Next]_vars, ~Tick, NEW r \in Requests, Parked(r)'
  PROVE  \/ Parked(r) /\ notify'[r] = notify[r] /\ budget'[r] = budget[r]
         \/ /\ entries' = entries /\ MustWait(key[r])
            /\ notify'[r] = entries[key[r]].notify /\ budget'[r] = BudgetFor(key[r])
<1> DEFINE Goal ==
         \/ Parked(r) /\ notify'[r] = notify[r] /\ budget'[r] = budget[r]
         \/ /\ entries' = entries /\ MustWait(key[r])
            /\ notify'[r] = entries[key[r]].notify /\ budget'[r] = BudgetFor(key[r])
<1>1. ASSUME NEW q \in Requests, StepAdmits(q) PROVE Goal
  BY <1>1 DEF StepAdmits, StepWarm, StepLead, StepStaleLeader, Admitted, TypeOK, Parked
<1>2. ASSUME NEW q \in Requests, FirstStep(q) PROVE Goal
  BY <1>1, <1>2 DEF FirstStep, TypeOK, Parked
<1>3. ASSUME NEW q \in Requests, SecondStep(q) PROVE Goal
  BY <1>1, <1>3 DEF SecondStep, TypeOK, Parked
<1>4. ASSUME NEW q \in Requests,
             Arrive(q) \/ Arm(q) \/ Wake(q) \/ TimeOut(q) \/ Cancel(q) \/ Settle(q)
      PROVE  Goal
  BY <1>4 DEF Arrive, Arm, Wake, TimeOut, Cancel, Settle, FirstByte, Touch, DropToken,
              FailFollower, Admitted, TypeOK, Parked
<1>5. CASE UNCHANGED vars
  BY <1>5 DEF vars, reqVars, Parked
<1> QED BY <1>2, <1>3, <1>4, <1>5 DEF Next, AdmitStep

LEMMA KeyStep ==
  ASSUME [Next]_vars
  PROVE  key' = key
BY DEF Next, AdmitStep, Settle, Arrive, FirstStep, SecondStep, StepAdmits, StepWarm, StepLead,
       StepStaleLeader, Admitted, Arm, Wake, TimeOut, Cancel, FirstByte, Touch, DropToken,
       FailFollower, Tick, vars, reqVars

LEMMA BudgetStep ==
  TypeOK /\ NotifyCreated /\ FollowerBudget /\ [Next]_vars => FollowerBudget'
<1> SUFFICES ASSUME TypeOK, NotifyCreated, FollowerBudget, [Next]_vars, NEW r \in Requests,
                    Parked(r)', Cold(key[r])', notify'[r] = entries'[key[r]].notify
             PROVE  budget'[r] + entries'[key[r]].leader_age = WaitCap
  BY KeyStep DEF FollowerBudget, Parked
<1>01. PICK k \in Keys : key[r] = k
  BY DEF TypeOK
<1>0. Held(k) => entries[k] \in Entry
  BY DEF TypeOK, Held
<1>00. Cold(k)'
  BY <1>01, KeyStep DEF Cold, Held
<1>1. ASSUME Parked(r), Cold(k), notify[r] = entries[k].notify
      PROVE  budget[r] + entries[k].leader_age = WaitCap
  BY <1>1, <1>01 DEF FollowerBudget, Parked
<1>2. CASE ~Tick
  <2>0. entries'[k] # NONE /\ entries'[k].warm_age = NONE
    BY <1>00 DEF Cold, Held
  <2>1. CASE /\ entries' = entries /\ MustWait(k)
             /\ notify'[r] = entries[k].notify /\ budget'[r] = BudgetFor(k)
    <3>1. entries[k] \in Entry
      BY <1>0, <2>1 DEF MustWait, Cold
    <3>2. entries[k].leader_age \in Int
      BY <3>1 DEF Entry
    <3> QED BY <1>01, <2>1, <3>2, TimeAssumption DEF BudgetFor
  <2>2. CASE Parked(r) /\ notify'[r] = notify[r] /\ budget'[r] = budget[r]
    <3>1. CASE KeptEntry(k)
      BY <1>00, <1>01, <1>1, <2>2, <3>1 DEF KeptEntry, Cold, Held
    <3>2. ASSUME NewLeader(k) PROVE FALSE
      <4>1. PICK q \in Requests :
              /\ pc[q] \in {"polling", "armed"}
              /\ entries'[k] = [leader_age |-> 0, warm_age |-> NONE, notify |-> q]
        BY <3>2 DEF NewLeader
      <4>2. notify[r] = q
        BY <1>01, <2>2, <4>1
      <4> QED BY <4>1, <4>2, NoneAssumption DEF NotifyCreated
    <3>3. ~MadeWarm(k)
      BY <2>0, NoneAssumption DEF MadeWarm
    <3> QED BY <1>0, <1>2, <2>0, <3>1, <3>2, <3>3, EntryEffect
  <2> QED BY <1>01, <1>2, <2>1, <2>2, ParkedEffect
<1>3. CASE Tick
  <2>0. entries'[k] = IF Held(k) THEN OlderEntry(entries[k]) ELSE NONE
    BY <1>0, <1>3 DEF Tick
  <2>1. Held(k) /\ entries'[k] = OlderEntry(entries[k]) /\ entries[k] \in Entry
    BY <1>0, <1>00, <2>0 DEF Held, Cold
  <2>2. /\ entries'[k].notify = entries[k].notify
        /\ entries'[k].leader_age = Older(entries[k].leader_age, WaitCap)
        /\ Cold(k)
    BY <1>00, <2>1, OlderEntryType DEF Cold
  <2>3. pc[r] = "sleeping" /\ budget[r] # 0
    BY <1>3, Zenon DEF Tick, Busy, Parked
  <2>4. budget'[r] = budget[r] - 1 /\ notify'[r] = notify[r]
    BY <1>3, <2>3 DEF Tick
  <2>5. budget[r] + entries[k].leader_age = WaitCap
    BY <1>01, <1>1, <2>2, <2>3, <2>4 DEF Parked
  <2>6. budget[r] \in 0..WaitCap /\ entries[k].leader_age \in 0..WaitCap
    BY <2>1 DEF TypeOK, Entry
  <2> QED BY <1>01, <2>2, <2>3, <2>4, <2>5, <2>6, TimeAssumption DEF Older
<1> QED BY <1>2, <1>3

-----------------------------------------------------------------------------
(* The theorems.                                                           *)

LEMMA InitIInv == Init => IInv
<1> SUFFICES ASSUME Init PROVE IInv
  OBVIOUS
<1>1. TypeOK
  BY TimeAssumption DEF Init, TypeOK, Stages
<1> QED
  BY <1>1 DEF Init, IInv, ColdEntryHasLiveLeader, WarmMeansBegun, NotifyCreated, FollowerBudget,
              Cold, Held, TypeOK

LEMMA StepIInv == IInv /\ [Next]_vars => IInv'
BY TypeStep, ColdStep, WarmStep, CreatedStep, BudgetStep DEF IInv

LEMMA SpecIInv == Spec => []IInv
BY InitIInv, StepIInv, PTL DEF Spec

(* The variables of the gate keep their types in every behaviour.          *)
THEOREM TypeCorrect == Spec => []TypeOK
BY SpecIInv, PTL DEF IInv

(* For any number of requests, keys and LRU slots, nobody ever parks       *)
(* behind an entry whose leader has gone: LeaderToken::first_byte and Drop *)
(* settle every cold entry the token's owner made.                         *)
THEOREM NoOrphanedEntry == Spec => []ColdEntryHasLiveLeader
BY SpecIInv, PTL DEF IInv

(* The gate calls a head warm only for warm_ttl after a response under it  *)
(* began.                                                                  *)
THEOREM WarmIsHonest == Spec => []WarmMeansBegun
BY SpecIInv, PTL DEF IInv

(* A follower that listens to the live leader of its key never sleeps past *)
(* that leader's wait_cap.                                                 *)
THEOREM BudgetIsLeaders == Spec => []FollowerBudget
BY SpecIInv, PTL DEF IInv

=============================================================================
