-------------------------- MODULE ReplayStoreProofs --------------------------
(***************************************************************************)
(* TLAPS proofs about the replay store, for every number of requests and   *)
(* lanes, every set of turns a client may send, every capacity, threshold  *)
(* and age limit, with and without files, and any number of restarts.      *)
(***************************************************************************)
EXTENDS ReplayStore, SequenceTheorems, WellFoundedInduction, TLAPS

\* The log of what went upstream: originals, body and system of every request
\* that has been sent.
Log ==
  {[o |-> turn[r].msgs, f |-> sent[r].msgs, sys |-> turn[r].sys] :
     r \in {q \in Requests : sent[q] # NONE}}

LogType == SUBSET [o : Seq(Message), f : Seq(Message), sys : Systems]

\* A stored pair repeats the beginning of an entry of the log.
InLog(log, c) == \E b \in log : b.sys = c.sys /\ Leads(c.o, b.o) /\ Leads(c.f, b.f)

\* What is handed from one place to another was sent and has no gap.
SliceOK(log, c) == InLog(log, c) /\ Len(c.f) >= Len(c.o)

\* A prefix in a tracker may be empty.
PrefixOK(log, c) == (c.f # << >> => InLog(log, c)) /\ Len(c.f) >= Len(c.o)

IdsOK(t) ==
  /\ \A c \in HeldPrefixes(t) : c.id < t.next
  /\ \A a \in t.alts : a.id # t.id
  /\ \A a, b \in t.alts : a.id = b.id => a = b

\* The list of alternates has an end.
Ends(alts) == \E m \in Nat : \A a \in alts : a.pos <= m

TrackerOK(log, t) ==
  /\ t \in Tracker
  /\ \A c \in HeldPrefixes(t) : PrefixOK(log, c)
  /\ IdsOK(t)
  /\ Ends(t.alts)

TrackersOK(log, tr) ==
  /\ tr \in [Sessions -> Tracker \cup {NONE}]
  /\ \A s \in Sessions : tr[s] # NONE => TrackerOK(log, tr[s])

FilesOK(log, d) ==
  /\ d \in [Sessions -> File \cup {NONE}]
  /\ \A s \in Sessions : d[s] # NONE => SliceOK(log, d[s])

LoadedOK(log, l) ==
  /\ l \in [Requests -> File \cup {NONE, UNREAD}]
  /\ \A r \in Requests : l[r] \notin {NONE, UNREAD} => SliceOK(log, l[r])

DonorsOK(log, d) ==
  /\ d \in [Requests -> Adopted \cup {NONE, UNREAD}]
  /\ \A r \in Requests : d[r] \notin {NONE, UNREAD} => SliceOK(log, d[r])

PickedOK(log, p) ==
  /\ p \in [Requests -> Prefix \cup {NONE}]
  /\ \A r \in Requests : p[r] # NONE => InLog(log, p[r])

\* Wherever a prefix is kept, it was sent.
HeldOK(log, tr, d, l, dn, p) ==
  /\ TrackersOK(log, tr) /\ FilesOK(log, d)
  /\ LoadedOK(log, l) /\ DonorsOK(log, dn) /\ PickedOK(log, p)

\* A request has a turn once it has come in; its body is fixed when it leaves
\* the store and covers every message of the client.
PathOK ==
  /\ pending \subseteq Requests
  /\ lock \in Requests \cup {NONE}
  /\ pc \in [Requests -> Stages]
  /\ turn \in [Requests -> Turns \cup {NONE}]
  /\ sent \in [Requests -> SentBody \cup {NONE}]
  /\ crashes \in 0..MaxCrashes
  /\ updates \in [Sessions -> Nat]
  /\ \A r \in Requests :
       /\ pc[r] # "idle" => turn[r] \in Turns
       /\ sent[r] # NONE => pc[r] \notin Hydrating \cup {"idle"}
       /\ pc[r] \in {"inflight", "popped", "writing"} => sent[r] # NONE
       /\ sent[r] # NONE => Len(sent[r].msgs) >= Len(turn[r].msgs)

\* Who writes a file has persist_lock and writes the lane's latest turn.
WritersOK ==
  /\ \A r \in Requests :
       pc[r] = "writing" => /\ lock = r
                            /\ loaded[r] \in File
                            /\ loaded[r].stamp = updates[turn[r].session]
  /\ \A s \in Sessions : disk[s] # NONE => disk[s].stamp <= updates[s]

\* The inductive invariant.
IInv == HeldOK(Log, trackers, disk, loaded, donor, picked) /\ PathOK /\ WritersOK

-----------------------------------------------------------------------------
(* Numbers.                                                                *)

LEMMA LeastNatural ==
  ASSUME NEW T \in SUBSET Nat, T # {}
  PROVE  \E m \in T : \A n \in T : m <= n
<1> DEFINE R == {ss \in Nat \X Nat : ss[1] < ss[2]}
<1>1. IsWellFoundedOn(R, Nat)
  BY NatLessThanWellFounded, Zenon DEF OpToRel
<1>2. PICK m \in T : \A n \in T : ~(<<n, m>> \in R)
  <2> HIDE DEF R
  <2> QED BY <1>1, WFMin
<1>3. ASSUME NEW n \in T
      PROVE  m <= n
  <2>1. n < m => <<n, m>> \in R
    OBVIOUS
  <2> QED BY <1>2, <2>1
<1> QED BY <1>3

(* What holds of 0 and of each number when it holds of the one before,     *)
(* holds up to n.                                                          *)
LEMMA UpTo ==
  ASSUME NEW n \in Nat, NEW G, 0 \in G, \A i \in 1..n : i - 1 \in G => i \in G
  PROVE  \A i \in 0..n : i \in G
<1> DEFINE Bad == {i \in 0..n : i \notin G}
<1>1. SUFFICES ASSUME Bad # {} PROVE FALSE
  OBVIOUS
<1>2. PICK k \in Bad : \A j \in Bad : k <= j
  <2>1. Bad \in SUBSET Nat
    OBVIOUS
  <2> HIDE DEF Bad
  <2> QED BY <1>1, <2>1, LeastNatural
<1>3. k \in 0..n /\ k \notin G /\ k # 0
  OBVIOUS
<1>4. k - 1 \in 0..n /\ ~(k <= k - 1) /\ k \in 1..n
  BY <1>3
<1>5. k - 1 \notin Bad
  <2> HIDE DEF Bad
  <2> QED BY <1>2, <1>4
<1>6. k - 1 \in G
  BY <1>4, <1>5
<1> QED BY <1>3, <1>4, <1>6

(* A bounded set of numbers has a largest member.                          *)
LEMMA GreatestNatural ==
  ASSUME NEW T \in SUBSET Nat, T # {}, NEW m \in Nat, \A n \in T : n <= m
  PROVE  \E g \in T : \A n \in T : n <= g
<1> DEFINE D == {m - n : n \in T}
<1>1. D \in SUBSET Nat /\ D # {}
  <2>1. PICK n \in T : TRUE
    OBVIOUS
  <2>2. m - n \in D
    OBVIOUS
  <2>3. ASSUME NEW k \in T
        PROVE  m - k \in Nat
    <3>1. k \in Nat /\ k <= m
      OBVIOUS
    <3> QED BY <3>1
  <2> QED BY <2>2, <2>3
<1>2. PICK d \in D : \A e \in D : d <= e
  <2> HIDE DEF D
  <2> QED BY <1>1, LeastNatural
<1>3. PICK g \in T : d = m - g
  OBVIOUS
<1>4. ASSUME NEW n \in T
      PROVE  n <= g
  <2>1. m - n \in D
    OBVIOUS
  <2>2. d <= m - n
    <3> HIDE DEF D
    <3> QED BY <1>2, <2>1
  <2> QED BY <1>3, <2>2
<1> QED BY <1>4

(* max_by_key finds something: with bounded keys and an end to the list,   *)
(* one member is not beaten.                                               *)
LEMMA LongestExists ==
  ASSUME NEW held \in SUBSET Prefix, held # {}, Ends(held),
         NEW key \in [held -> Nat], NEW m \in Nat, \A c \in held : key[c] <= m
  PROVE  \E c \in held : \A d \in held : key[d] < key[c] \/ (key[d] = key[c] /\ d.pos <= c.pos)
<1> DEFINE K == {key[c] : c \in held}
<1>1. PICK g \in K : \A n \in K : n <= g
  <2>1. K \in SUBSET Nat /\ K # {} /\ \A n \in K : n <= m
    OBVIOUS
  <2> HIDE DEF K
  <2> QED BY <2>1, GreatestNatural
<1>2. \A c \in held : key[c] <= g
  <2> SUFFICES ASSUME NEW c \in held PROVE key[c] <= g
    OBVIOUS
  <2>1. key[c] \in K
    OBVIOUS
  <2> HIDE DEF K
  <2> QED BY <1>1, <2>1
<1> DEFINE top == {c \in held : key[c] = g}
           P == {c.pos : c \in top}
<1>3. top # {}
  BY <1>1
<1>4. PICK p \in P : \A n \in P : n <= p
  <2>1. PICK e \in Nat : \A a \in held : a.pos <= e
    BY DEF Ends
  <2>2. P \in SUBSET Nat /\ P # {} /\ \A n \in P : n <= e
    BY <1>3, <2>1 DEF Prefix
  <2> HIDE DEF P, top
  <2> QED BY <2>2, GreatestNatural
<1>5. PICK c \in top : p = c.pos
  OBVIOUS
<1>6. ASSUME NEW d \in held
      PROVE  key[d] < key[c] \/ (key[d] = key[c] /\ d.pos <= c.pos)
  <2>1. key[c] = g /\ key[d] <= g /\ key[d] \in Nat /\ key[c] \in Nat
    BY <1>2
  <2>2. CASE key[d] = g
    <3>1. d.pos \in P
      BY <2>2
    <3>2. d.pos <= p
      <4> HIDE DEF P
      <4> QED BY <1>4, <3>1
    <3> QED BY <1>5, <2>1, <2>2, <3>2
  <2>3. CASE key[d] # g
    BY <2>1, <2>3
  <2> QED BY <2>2, <2>3
<1>7. c \in held
  OBVIOUS
<1> QED BY <1>6, <1>7

-----------------------------------------------------------------------------
(* Sequences of messages.                                                  *)

LEMMA FrontProperties ==
  ASSUME NEW s \in Seq(Message), NEW k \in 0..Len(s)
  PROVE  /\ Front(s, k) \in Seq(Message)
         /\ Len(Front(s, k)) = k
         /\ \A i \in 1..k : Front(s, k)[i] = s[i]
<1>1. \A i \in 1..k : s[i] \in Message
  BY LenProperties
<1> QED BY <1>1, SubSeqProperties, LenProperties DEF Front

LEMMA RestProperties ==
  ASSUME NEW s \in Seq(Message), NEW k \in 0..Len(s)
  PROVE  Rest(s, k) \in Seq(Message) /\ Len(Rest(s, k)) = Len(s) - k
<1>1. \A i \in (k + 1)..Len(s) : s[i] \in Message
  BY LenProperties
<1> QED BY <1>1, SubSeqProperties, LenProperties DEF Rest

LEMMA LeadsPointwise ==
  ASSUME NEW s \in Seq(Message), NEW t \in Seq(Message)
  PROVE  Leads(s, t) <=> Len(s) <= Len(t) /\ \A i \in 1..Len(s) : s[i] = t[i]
<1>1. CASE Len(s) <= Len(t)
  <2>1. Len(s) \in 0..Len(t)
    BY <1>1, LenProperties
  <2>2. /\ Front(t, Len(s)) \in Seq(Message)
        /\ Len(Front(t, Len(s))) = Len(s)
        /\ \A i \in 1..Len(s) : Front(t, Len(s))[i] = t[i]
    BY <2>1, FrontProperties
  <2>3. (\A i \in 1..Len(s) : s[i] = t[i]) => s = Front(t, Len(s))
    BY <2>2, SeqEqual
  <2> QED BY <1>1, <2>2, <2>3 DEF Leads
<1>2. CASE ~(Len(s) <= Len(t))
  BY <1>2 DEF Leads
<1> QED BY <1>1, <1>2

LEMMA LeadsTransitive ==
  ASSUME NEW s \in Seq(Message), NEW t \in Seq(Message), NEW u \in Seq(Message),
         Leads(s, t), Leads(t, u)
  PROVE  Leads(s, u)
<1>1. Len(s) \in Nat /\ Len(t) \in Nat /\ Len(u) \in Nat
  BY LenProperties
<1>2. Len(s) <= Len(t) /\ \A i \in 1..Len(s) : s[i] = t[i]
  BY LeadsPointwise
<1>3. Len(t) <= Len(u) /\ \A i \in 1..Len(t) : t[i] = u[i]
  BY LeadsPointwise
<1>4. Len(s) <= Len(u) /\ \A i \in 1..Len(s) : s[i] = u[i]
  BY <1>1, <1>2, <1>3
<1> QED BY <1>4, LeadsPointwise

LEMMA FrontLeads ==
  ASSUME NEW s \in Seq(Message), NEW k \in 0..Len(s)
  PROVE  Leads(Front(s, k), s)
<1>1. Len(s) \in Nat
  BY LenProperties
<1> QED BY <1>1, FrontProperties, LeadsPointwise

-----------------------------------------------------------------------------
(* The operators of PrefixOverlay.                                         *)

(* canonical_agreement_len stays within both sequences.                    *)
LEMMA AgreementLenType ==
  ASSUME NEW s \in Seq(Message), NEW cur \in Seq(Message)
  PROVE  /\ AgreementLen(s, cur) \in Nat
         /\ AgreementLen(s, cur) <= Len(s)
         /\ AgreementLen(s, cur) <= Len(cur)
<1> DEFINE agreeing == {k \in 0..Least(Len(s), Len(cur)) :
                          \A i \in 1..k : Canon(s[i]) = Canon(cur[i])}
<1>1. Len(s) \in Nat /\ Len(cur) \in Nat
  BY LenProperties
<1>2. /\ Least(Len(s), Len(cur)) \in Nat
      /\ Least(Len(s), Len(cur)) <= Len(s) /\ Least(Len(s), Len(cur)) <= Len(cur)
  BY <1>1 DEF Least
<1> DEFINE m == Least(Len(s), Len(cur))
<1> HIDE DEF m
<1>3. m \in Nat /\ m <= Len(s) /\ m <= Len(cur)
  BY <1>2 DEF m
<1>4. agreeing \in SUBSET (0..m)
  BY DEF m
<1>5. 0 \in agreeing
  BY <1>3 DEF m
<1>6. AgreementLen(s, cur) = CHOOSE k \in agreeing : \A j \in agreeing : j <= k
  BY DEF AgreementLen
<1> HIDE DEF agreeing
<1>7. \E k \in agreeing : \A j \in agreeing : j <= k
  <2>1. agreeing \in SUBSET Nat /\ agreeing # {} /\ \A n \in agreeing : n <= m
    BY <1>3, <1>4, <1>5
  <2> QED BY <1>3, <2>1, GreatestNatural
<1>8. AgreementLen(s, cur) \in agreeing
  BY <1>6, <1>7
<1>9. AgreementLen(s, cur) \in 0..m
  BY <1>4, <1>8
<1> QED BY <1>1, <1>3, <1>9

(* replayable_stored_prefix_len is a length of a beginning.                *)
LEMMA ReplayableLenType ==
  ASSUME NEW s \in Seq(Message)
  PROVE  ReplayableLen(s) \in 0..Len(s)
<1> DEFINE solid == {i \in 1..Len(s) : ~EmptyCanonical(s[i])} \cup {0}
<1>1. Len(s) \in Nat
  BY LenProperties
<1>2. solid \in SUBSET (0..Len(s)) /\ 0 \in solid
  BY <1>1
<1>3. ReplayableLen(s) = CHOOSE i \in solid : \A j \in solid : j <= i
  BY DEF ReplayableLen
<1> HIDE DEF solid
<1>4. \E i \in solid : \A j \in solid : j <= i
  <2>1. solid \in SUBSET Nat /\ solid # {} /\ \A n \in solid : n <= Len(s)
    BY <1>1, <1>2
  <2> QED BY <1>1, <2>1, GreatestNatural
<1> QED BY <1>2, <1>3, <1>4

\* One step of align_over_withdrawn_scaffolding.
AlignStep(s, cur, c, i) ==
  LET has == c + 1 <= Len(cur)
  IN  IF c = Unaligned THEN Unaligned
      ELSE IF has /\ Canon(cur[c + 1]) = Canon(s[i]) THEN c + 1
      ELSE IF ~Scaffolding(i, s[i]) THEN Unaligned
      ELSE IF has /\ Scaffolding(c + 1, cur[c + 1]) THEN c + 1
      ELSE c

(* The alignment is the end of a walk along the stored prefix.             *)
LEMMA AlignWalk ==
  ASSUME NEW s \in Seq(Message), NEW cur \in Seq(Message)
  PROVE  \E at : /\ AlignOver(s, cur) = at[Len(s)]
                 /\ at[0] = 0
                 /\ \A i \in 1..Len(s) : at[i] = AlignStep(s, cur, at[i - 1], i)
<1> DEFINE n == Len(s)
           Step(c, i) == AlignStep(s, cur, c, i)
           Walk(f, k) == f = [i \in 0..k |-> IF i = 0 THEN 0 ELSE Step(f[i - 1], i)]
           G == {k \in 0..n : \E f : Walk(f, k)}
<1>1. n \in Nat
  BY LenProperties
<1>2. AlignOver(s, cur) = (CHOOSE f : Walk(f, n))[n]
  BY DEF AlignOver, AlignStep
<1> HIDE DEF Step
<1>3. 0 \in G
  <2>1. Walk([i \in 0..0 |-> 0], 0)
    OBVIOUS
  <2> HIDE DEF Walk
  <2> QED BY <1>1, <2>1
<1>4. ASSUME NEW k \in 1..n, k - 1 \in G
      PROVE  k \in G
  <2>1. k \in 0..n /\ k - 1 \in 0..k /\ k # 0 /\ k \in Nat /\ k - 1 # k
    BY <1>1
  <2>2. PICK f : Walk(f, k - 1)
    <3> HIDE DEF Walk
    <3> QED BY <1>4
  <2> DEFINE g == [i \in 0..k |-> IF i = k THEN Step(f[k - 1], k) ELSE f[i]]
  <2>3. ASSUME NEW i \in 0..k
        PROVE  g[i] = IF i = 0 THEN 0 ELSE Step(g[i - 1], i)
    <3>1. CASE i = k
      BY <2>1, <3>1
    <3>2. CASE i # k
      <4>1. i \in 0..(k - 1) /\ (i # 0 => i - 1 \in 0..k /\ i - 1 # k)
        BY <2>1, <3>2
      <4>2. f[i] = IF i = 0 THEN 0 ELSE Step(f[i - 1], i)
        BY <2>2, <4>1
      <4>3. g[i] = f[i] /\ (i # 0 => g[i - 1] = f[i - 1])
        BY <3>2, <4>1
      <4> QED BY <4>2, <4>3
    <3> QED BY <3>1, <3>2
  <2>4. Walk(g, k)
    <3>1. g = [i \in 0..k |-> g[i]]
      OBVIOUS
    <3> HIDE DEF g
    <3> QED BY <2>3, <3>1
  <2> HIDE DEF Walk
  <2> QED BY <2>1, <2>4
<1>5. n \in G
  <2>1. n \in 0..n
    BY <1>1
  <2> HIDE DEF G
  <2> QED BY <1>1, <1>3, <1>4, <2>1, UpTo
<1> DEFINE at == CHOOSE f : Walk(f, n)
<1>6. Walk(at, n)
  <2> HIDE DEF Walk
  <2> QED BY <1>5
<1> HIDE DEF at
<1>7. \A i \in 0..n : at[i] = IF i = 0 THEN 0 ELSE Step(at[i - 1], i)
  BY <1>6
<1>8. at[0] = 0 /\ \A i \in 1..n : at[i] = Step(at[i - 1], i)
  BY <1>1, <1>7
<1> QED BY <1>2, <1>8 DEF at, Step

(* align_over_withdrawn_scaffolding covers no more messages of the turn    *)
(* than the stored prefix has.                                             *)
LEMMA AlignOverBound ==
  ASSUME NEW s \in Seq(Message), NEW cur \in Seq(Message)
  PROVE  AlignOver(s, cur) \in Int /\ AlignOver(s, cur) <= Len(s)
<1>1. PICK at : /\ AlignOver(s, cur) = at[Len(s)]
                /\ at[0] = 0
                /\ \A i \in 1..Len(s) : at[i] = AlignStep(s, cur, at[i - 1], i)
  BY AlignWalk
<1>2. Len(s) \in Nat
  BY LenProperties
<1> DEFINE G == {i \in 0..Len(s) : at[i] \in Int /\ at[i] <= i}
<1>3. 0 \in G
  BY <1>1, <1>2
<1>4. ASSUME NEW i \in 1..Len(s), i - 1 \in G
      PROVE  i \in G
  <2>1. at[i - 1] \in Int /\ at[i - 1] <= i - 1 /\ i \in 0..Len(s)
    BY <1>2, <1>4
  <2>2. AlignStep(s, cur, at[i - 1], i) \in {Unaligned, at[i - 1], at[i - 1] + 1}
    BY DEF AlignStep
  <2>3. at[i] \in {-1, at[i - 1], at[i - 1] + 1}
    BY <1>1, <2>2 DEF Unaligned
  <2> QED BY <2>1, <2>3
<1>5. Len(s) \in G
  <2>1. Len(s) \in 0..Len(s)
    BY <1>2
  <2> HIDE DEF G
  <2> QED BY <1>2, <1>3, <1>4, <2>1, UpTo
<1> QED BY <1>1, <1>5

(* Over a turn that repeats the stored prefix the alignment is one to one. *)
LEMMA AlignExact ==
  ASSUME NEW s \in Seq(Message), NEW cur \in Seq(Message), MatchesPrefix(s, cur)
  PROVE  AlignOver(s, cur) = Len(s)
<1>1. PICK at : /\ AlignOver(s, cur) = at[Len(s)]
                /\ at[0] = 0
                /\ \A i \in 1..Len(s) : at[i] = AlignStep(s, cur, at[i - 1], i)
  BY AlignWalk
<1>2. Len(s) \in Nat /\ Len(cur) \in Nat
  BY LenProperties
<1> DEFINE G == {i \in 0..Len(s) : at[i] = i}
<1>3. 0 \in G
  BY <1>1, <1>2
<1>4. ASSUME NEW i \in 1..Len(s), i - 1 \in G
      PROVE  i \in G
  <2>1. at[i - 1] = i - 1 /\ i \in 0..Len(s) /\ i - 1 # -1 /\ (i - 1) + 1 = i
    BY <1>2, <1>4
  <2>2. i <= Len(cur) /\ Canon(cur[i]) = Canon(s[i])
    BY <1>2 DEF MatchesPrefix
  <2>3. AlignStep(s, cur, i - 1, i) = i
    BY <2>1, <2>2 DEF AlignStep, Unaligned
  <2> QED BY <1>1, <2>1, <2>3
<1>5. Len(s) \in G
  <2>1. Len(s) \in 0..Len(s)
    BY <1>2
  <2> HIDE DEF G
  <2> QED BY <1>2, <1>3, <1>4, <2>1, UpTo
<1> QED BY <1>1, <1>5

\* A body that has every message of the turn's own output, or more.
Covers(b, opt) == b \in SentBody /\ Len(b.msgs) >= Len(opt)

LEMMA DeclineCovers ==
  ASSUME NEW opt \in Seq(Message), NEW reason \in Skips
  PROVE  Covers(Decline(opt, reason), opt)
BY LenProperties DEF Covers, Decline, SentBody

(* split_inflated_replay_at_floor gives up no message: a split body is the *)
(* stored part up to the floor and this turn's output from there.          *)
LEMMA SplitCovers ==
  ASSUME NEW spliced \in Seq(Message), NEW pf \in Seq(Message), NEW opt \in Seq(Message),
         NEW head \in 0..Len(pf), NEW floor \in Nat, NEW shifted \in BOOLEAN,
         Len(spliced) >= Len(opt)
  PROVE  LET x == SplitAtFloor(spliced, pf, opt, head, floor, shifted)
         IN  x.kind # "fresh" => x.msgs \in Seq(Message) /\ Len(x.msgs) >= Len(opt)
<1> DEFINE at == Least(floor, Len(opt))
           x == SplitAtFloor(spliced, pf, opt, head, floor, shifted)
<1>1. Len(opt) \in Nat /\ Len(pf) \in Nat
  BY LenProperties
<1>2. CASE floor < head
  <2>1. at \in 0..Len(opt) /\ at \in 0..Len(pf)
    BY <1>1, <1>2 DEF Least
  <2> HIDE DEF at
  <2>2. Front(pf, at) \in Seq(Message) /\ Len(Front(pf, at)) = at
    BY <2>1, FrontProperties
  <2>3. Rest(opt, at) \in Seq(Message) /\ Len(Rest(opt, at)) = Len(opt) - at
    BY <2>1, RestProperties
  <2> DEFINE both == Front(pf, at) \o Rest(opt, at)
  <2>4. both \in Seq(Message) /\ Len(both) = Len(opt)
    BY <1>1, <2>1, <2>2, <2>3, ConcatProperties
  <2> HIDE DEF both
  <2>5. \/ x = [kind |-> "whole", msgs |-> spliced]
        \/ x.kind = "fresh"
        \/ x = [kind |-> "split", msgs |-> both]
    BY DEF SplitAtFloor, Fresh, both, at
  <2> QED BY <1>1, <2>4, <2>5
<1>3. CASE floor >= head
  BY <1>3 DEF SplitAtFloor
<1> QED BY <1>2, <1>3

LEMMA CheckedCovers ==
  ASSUME NEW split, NEW opt \in Seq(Message), NEW reason \in Skips,
         split.kind # "fresh" => split.msgs \in Seq(Message) /\ Len(split.msgs) >= Len(opt)
  PROVE  Covers(Checked(split, opt, reason), opt)
<1>1. CASE split.kind = "fresh"
  BY <1>1, DeclineCovers DEF Checked, Skips
<1>2. CASE split.kind # "fresh" /\ IllegalSystemPosition(split.msgs)
  BY <1>2, DeclineCovers DEF Checked, Skips
<1>3. CASE split.kind # "fresh" /\ ~IllegalSystemPosition(split.msgs)
  BY <1>3 DEF Checked, Covers, SentBody
<1> QED BY <1>1, <1>2, <1>3

(* Both exits of the overlay send a body no shorter than the turn.         *)
LEMMA OverlayDivergedCovers ==
  ASSUME NEW opt \in Seq(Message), NEW cur \in Seq(Message),
         NEW po \in Seq(Message), NEW pf \in Seq(Message),
         NEW continues \in BOOLEAN, NEW confirmed \in Nat
  PROVE  Covers(OverlayDiverged(opt, cur, po, pf, continues, confirmed), opt)
<1> DEFINE upto == IF continues
                   THEN Least(AgreementLen(po, cur), Least(Len(pf), Len(opt)))
                   ELSE 0
           spliced == Front(pf, upto) \o Rest(opt, upto)
           floor == Least(confirmed, upto)
           split == SplitAtFloor(spliced, pf, opt, upto, floor, Len(pf) > Len(po))
           body == Checked(split, opt, "prefix_content_diverged")
           over == OverlayDiverged(opt, cur, po, pf, continues, confirmed)
<1>1. Len(opt) \in Nat /\ Len(pf) \in Nat
  BY LenProperties
<1>2. AgreementLen(po, cur) \in Nat
  BY AgreementLenType
<1>3. upto \in 0..Len(opt) /\ upto \in 0..Len(pf)
  BY <1>1, <1>2 DEF Least
<1>4. \/ over = Decline(opt, "shorter_than_stored_prefix")
      \/ over = Decline(opt, "optimized_shorter_than_prefix")
      \/ over = Decline(opt, "prefix_content_diverged")
      \/ over = body
  BY DEF OverlayDiverged
<1> HIDE DEF upto
<1>5. spliced \in Seq(Message) /\ Len(spliced) >= Len(opt)
  <2>1. Front(pf, upto) \in Seq(Message) /\ Len(Front(pf, upto)) = upto
    BY <1>3, FrontProperties
  <2>2. Rest(opt, upto) \in Seq(Message) /\ Len(Rest(opt, upto)) = Len(opt) - upto
    BY <1>3, RestProperties
  <2> QED BY <1>1, <1>3, <2>1, <2>2, ConcatProperties
<1>6. floor \in Nat
  BY <1>3 DEF Least
<1>7. (Len(pf) > Len(po)) \in BOOLEAN
  OBVIOUS
<1> HIDE DEF spliced, floor
<1>8. split.kind # "fresh" => split.msgs \in Seq(Message) /\ Len(split.msgs) >= Len(opt)
  BY <1>3, <1>5, <1>6, <1>7, SplitCovers
<1> HIDE DEF split
<1>9. Covers(body, opt)
  BY <1>8, CheckedCovers DEF Skips
<1> HIDE DEF body, over
<1>10. Covers(over, opt)
  BY <1>4, <1>9, DeclineCovers DEF Skips
<1> QED BY <1>10 DEF over

LEMMA OverlayCovers ==
  ASSUME NEW opt \in Seq(Message), NEW cur \in Seq(Message),
         NEW po \in Seq(Message), NEW pf \in Seq(Message),
         NEW continues \in BOOLEAN, NEW confirmed \in Nat
  PROVE  Covers(Overlay(opt, cur, po, pf, continues, confirmed), opt)
<1> DEFINE consumed == AlignOver(po, cur)
           spliced == pf \o Rest(opt, consumed)
           floor == Least(confirmed, Len(pf))
           split == SplitAtFloor(spliced, pf, opt, Len(pf), floor, Len(pf) > Len(po))
           body == Checked(split, opt, "none")
           over == Overlay(opt, cur, po, pf, continues, confirmed)
<1>1. Len(opt) \in Nat /\ Len(pf) \in Nat /\ Len(po) \in Nat
  BY LenProperties
<1>2. \/ over = Decline(opt, "no_previous_turn")
      \/ over = Decline(opt, "forwarded_count_mismatch")
      \/ over = Decline(opt, "optimized_shorter_than_originals")
      \/ over = Decline(opt, "optimized_shorter_than_prefix")
      \/ over = OverlayDiverged(opt, cur, po, pf, continues, confirmed)
      \/ ~(Len(pf) < Len(po)) /\ consumed \in 0..Len(opt) /\ over = body
  BY DEF Overlay
<1>3. CASE ~(Len(pf) < Len(po)) /\ consumed \in 0..Len(opt) /\ over = body
  <2>1. consumed <= Len(po)
    BY AlignOverBound
  <2> HIDE DEF consumed
  <2>2. Rest(opt, consumed) \in Seq(Message) /\ Len(Rest(opt, consumed)) = Len(opt) - consumed
    BY <1>3, RestProperties
  <2>3. spliced \in Seq(Message) /\ Len(spliced) = Len(pf) + (Len(opt) - consumed)
    BY <2>2, ConcatProperties
  <2>4. Len(spliced) >= Len(opt)
    BY <1>1, <1>3, <2>1, <2>3
  <2>5. floor \in Nat /\ Len(pf) \in 0..Len(pf) /\ (Len(pf) > Len(po)) \in BOOLEAN
    BY <1>1 DEF Least
  <2> HIDE DEF spliced, floor
  <2>6. split.kind # "fresh" => split.msgs \in Seq(Message) /\ Len(split.msgs) >= Len(opt)
    BY <2>3, <2>4, <2>5, SplitCovers
  <2> HIDE DEF split
  <2>7. Covers(body, opt)
    BY <2>6, CheckedCovers DEF Skips
  <2> HIDE DEF body, over
  <2>8. Covers(over, opt)
    BY <1>3, <2>7
  <2> QED BY <2>8 DEF over
<1>4. CASE over = OverlayDiverged(opt, cur, po, pf, continues, confirmed)
  <2> HIDE DEF over
  <2>1. Covers(over, opt)
    BY <1>4, OverlayDivergedCovers
  <2> QED BY <2>1 DEF over
<1>5. CASE \E reason \in Skips : over = Decline(opt, reason)
  <2> HIDE DEF over
  <2>1. Covers(over, opt)
    BY <1>5, DeclineCovers
  <2> QED BY <2>1 DEF over
<1> HIDE DEF over, body, consumed
<1> QED BY <1>2, <1>3, <1>4, <1>5 DEF Skips

-----------------------------------------------------------------------------
(* What was sent stays sent.                                               *)

LEMMA InLogGrows ==
  ASSUME NEW log, NEW more, log \subseteq more, NEW c, InLog(log, c)
  PROVE  InLog(more, c)
BY DEF InLog

LEMMA HeldGrows ==
  ASSUME NEW log, NEW more, log \subseteq more,
         NEW tr, NEW d, NEW l, NEW dn, NEW p, HeldOK(log, tr, d, l, dn, p)
  PROVE  HeldOK(more, tr, d, l, dn, p)
<1>1. \A c : InLog(log, c) => InLog(more, c)
  BY InLogGrows
<1>2. \A c : SliceOK(log, c) => SliceOK(more, c)
  BY <1>1 DEF SliceOK
<1>3. \A c : PrefixOK(log, c) => PrefixOK(more, c)
  BY <1>1 DEF PrefixOK
<1>4. \A t : TrackerOK(log, t) => TrackerOK(more, t)
  BY <1>3 DEF TrackerOK
<1>5. TrackersOK(more, tr)
  BY <1>4 DEF HeldOK, TrackersOK
<1>6. FilesOK(more, d)
  BY <1>2 DEF HeldOK, FilesOK
<1>7. LoadedOK(more, l)
  BY <1>2 DEF HeldOK, LoadedOK
<1>8. DonorsOK(more, dn)
  BY <1>2 DEF HeldOK, DonorsOK
<1>9. PickedOK(more, p)
  BY <1>1 DEF HeldOK, PickedOK
<1> QED BY <1>5, <1>6, <1>7, <1>8, <1>9 DEF HeldOK

(* A beginning of a sent pair was sent.                                    *)
LEMMA FrontInLog ==
  ASSUME NEW log \in LogType, NEW c, c.o \in Seq(Message), c.f \in Seq(Message), InLog(log, c),
         NEW n \in 0..Len(c.o), NEW m \in 0..Len(c.f),
         NEW e, e.o = Front(c.o, n), e.f = Front(c.f, m), e.sys = c.sys
  PROVE  InLog(log, e)
<1>1. PICK b \in log : b.sys = c.sys /\ Leads(c.o, b.o) /\ Leads(c.f, b.f)
  BY DEF InLog
<1>2. b.o \in Seq(Message) /\ b.f \in Seq(Message)
  BY DEF LogType
<1>3. Front(c.o, n) \in Seq(Message) /\ Leads(Front(c.o, n), c.o)
  BY FrontProperties, FrontLeads
<1>4. Front(c.f, m) \in Seq(Message) /\ Leads(Front(c.f, m), c.f)
  BY FrontProperties, FrontLeads
<1>5. Leads(e.o, b.o) /\ Leads(e.f, b.f)
  BY <1>1, <1>2, <1>3, <1>4, LeadsTransitive
<1> QED BY <1>1, <1>5 DEF InLog

-----------------------------------------------------------------------------
(* Alternates.                                                             *)

\* What holds of the alternates of a tracker whose next id is n.
AltsOK(log, alts, n) ==
  /\ alts \in SUBSET Prefix
  /\ Ends(alts)
  /\ \A a \in alts : PrefixOK(log, a) /\ a.id < n
  /\ \A a, b \in alts : a.id = b.id => a = b

\* What a tracker brings to the turn that is recorded next; the default tracker
\* has it too.
BaseOK(log, t) ==
  /\ t.id \in Nat /\ t.next \in Nat /\ t.id < t.next
  /\ t.f # << >> => Primary(t) \in Prefix /\ PrefixOK(log, Primary(t))
  /\ AltsOK(log, t.alts, t.next)
  /\ \A a \in t.alts : a.id # t.id

LEMMA TrackerHasBase ==
  ASSUME NEW log, NEW t, TrackerOK(log, t)
  PROVE  BaseOK(log, t) /\ Len(t.f) >= Len(t.o)
<1>1. Primary(t) \in Prefix /\ t.alts \in SUBSET Prefix /\ t.id \in Nat /\ t.next \in Nat
  BY DEF TrackerOK, Tracker, Prefix, Primary
<1>2. Primary(t) \in HeldPrefixes(t) /\ t.alts \subseteq HeldPrefixes(t)
  BY DEF HeldPrefixes
<1>3. Primary(t).id = t.id /\ Primary(t).o = t.o /\ Primary(t).f = t.f
  BY DEF Primary
<1>4. PrefixOK(log, Primary(t)) /\ t.id < t.next
  BY <1>2, <1>3 DEF TrackerOK, IdsOK
<1>5. AltsOK(log, t.alts, t.next)
  BY <1>1, <1>2 DEF AltsOK, TrackerOK, IdsOK
<1>6. \A a \in t.alts : a.id # t.id
  BY DEF TrackerOK, IdsOK
<1> QED BY <1>1, <1>3, <1>4, <1>5, <1>6 DEF BaseOK, PrefixOK

LEMMA TrackerFromBase ==
  ASSUME NEW log, NEW t \in Tracker, BaseOK(log, t), Len(t.f) >= Len(t.o)
  PROVE  TrackerOK(log, t)
<1>1. Primary(t).id = t.id /\ Primary(t).o = t.o /\ Primary(t).f = t.f
  BY DEF Primary
<1>2. PrefixOK(log, Primary(t)) /\ Primary(t).id < t.next
  BY <1>1 DEF BaseOK, PrefixOK
<1>3. \A c \in HeldPrefixes(t) : PrefixOK(log, c) /\ c.id < t.next
  BY <1>2 DEF HeldPrefixes, BaseOK, AltsOK
<1> QED BY <1>3 DEF TrackerOK, IdsOK, BaseOK, AltsOK

LEMMA DefaultHasBase ==
  ASSUME NEW log
  PROVE  BaseOK(log, DefaultTracker)
BY DEF BaseOK, DefaultTracker, AltsOK, Ends

LEMMA FewerAlts ==
  ASSUME NEW log, NEW alts, NEW n, AltsOK(log, alts, n), NEW few \in SUBSET alts
  PROVE  AltsOK(log, few, n)
<1>1. Ends(few)
  BY DEF AltsOK, Ends
<1> QED BY <1>1 DEF AltsOK

LEMMA LaterId ==
  ASSUME NEW log, NEW alts, NEW n \in Nat, AltsOK(log, alts, n)
  PROVE  AltsOK(log, alts, n + 1)
<1>1. \A a \in alts : a.id \in Nat /\ a.id < n
  BY DEF AltsOK, Prefix
<1>2. \A a \in alts : a.id < n + 1
  BY <1>1
<1> QED BY <1>2 DEF AltsOK

(* A new alternate under an id of its own, in front of the others.         *)
LEMMA InsertFirstOK ==
  ASSUME NEW log, NEW alts, NEW n, AltsOK(log, alts, n),
         NEW a \in Prefix, PrefixOK(log, a), a.id < n, \A b \in alts : b.id # a.id
  PROVE  /\ AltsOK(log, InsertFirst(alts, a), n)
         /\ \A e \in InsertFirst(alts, a) : \E b \in alts \cup {a} : e.id = b.id
<1> DEFINE moved(b) == [b EXCEPT !.pos = @ + 1]
           first == [a EXCEPT !.pos = 1]
           new == InsertFirst(alts, a)
<1>1. ASSUME NEW b \in alts
      PROVE  /\ moved(b) \in Prefix
             /\ moved(b).id = b.id /\ moved(b).o = b.o /\ moved(b).f = b.f /\ moved(b).sys = b.sys
             /\ moved(b).pos = b.pos + 1
  <2>1. b \in Prefix
    BY DEF AltsOK
  <2>2. b.pos + 1 \in Nat
    BY <2>1 DEF Prefix
  <2> QED BY <2>1, <2>2 DEF Prefix
<1>2. /\ first \in Prefix
      /\ first.id = a.id /\ first.o = a.o /\ first.f = a.f /\ first.sys = a.sys /\ first.pos = 1
  BY DEF Prefix
<1>3. \A e \in new : e = first \/ \E b \in alts : e = moved(b)
  BY DEF InsertFirst
<1> HIDE DEF moved, first, new
<1>4. new \in SUBSET Prefix
  BY <1>1, <1>2, <1>3
<1>5. Ends(new)
  <2>1. PICK m \in Nat : \A b \in alts : b.pos <= m
    BY DEF AltsOK, Ends
  <2>2. \A b \in alts : b.pos \in Nat
    BY DEF AltsOK, Prefix
  <2>3. m + 1 \in Nat /\ \A e \in new : e.pos <= m + 1
    BY <1>1, <1>2, <1>3, <2>1, <2>2
  <2> QED BY <2>3 DEF Ends
<1>6. ASSUME NEW e \in new
      PROVE  PrefixOK(log, e) /\ e.id < n /\ \E b \in alts \cup {a} : e.id = b.id
  <2>1. PICK b \in alts \cup {a} : e.id = b.id /\ e.o = b.o /\ e.f = b.f /\ e.sys = b.sys
    BY <1>1, <1>2, <1>3
  <2>2. PrefixOK(log, b) /\ b.id < n
    BY DEF AltsOK
  <2> QED BY <2>1, <2>2 DEF PrefixOK, InLog
<1>7. ASSUME NEW e \in new, NEW g \in new, e.id = g.id
      PROVE  e = g
  <2>1. CASE e = first \/ g = first
    BY <1>1, <1>2, <1>3, <1>7, <2>1
  <2>2. CASE e # first /\ g # first
    <3>1. PICK b \in alts, c \in alts : e = moved(b) /\ g = moved(c)
      BY <1>3, <2>2
    <3>2. b.id = c.id
      BY <1>1, <1>7, <3>1
    <3> QED BY <3>1, <3>2 DEF AltsOK
  <2> QED BY <2>1, <2>2
<1>8. AltsOK(log, new, n)
  BY <1>4, <1>5, <1>6, <1>7 DEF AltsOK
<1> QED BY <1>6, <1>8 DEF new

-----------------------------------------------------------------------------
(* Trackers: every way to make one.                                        *)

LEMMA DisplacedOK ==
  ASSUME NEW log, NEW t, BaseOK(log, t), NEW o
  PROVE  /\ AltsOK(log, Displaced(t, o), t.next)
         /\ ~(t.f # << >> /\ ~MatchesPrefix(t.o, o)) => Displaced(t, o) = t.alts
<1>1. CASE t.f # << >> /\ ~MatchesPrefix(t.o, o)
  <2> DEFINE others == {a \in t.alts : a.o # t.o}
             all == InsertFirst(others, Primary(t))
  <2>1. AltsOK(log, others, t.next)
    BY FewerAlts DEF BaseOK
  <2>2. Primary(t) \in Prefix /\ PrefixOK(log, Primary(t)) /\ Primary(t).id = t.id
    BY <1>1 DEF BaseOK, Primary
  <2>3. \A b \in others : b.id # Primary(t).id
    BY <2>2 DEF BaseOK
  <2>4. Primary(t).id < t.next
    BY <2>2 DEF BaseOK
  <2> HIDE DEF others
  <2>5. AltsOK(log, all, t.next)
    BY <2>1, <2>2, <2>3, <2>4, InsertFirstOK
  <2>6. Displaced(t, o) = KeptAlternates(all)
    BY <1>1 DEF Displaced, others
  <2> HIDE DEF all
  <2>7. KeptAlternates(all) \in SUBSET all
    BY DEF KeptAlternates
  <2> QED BY <1>1, <2>5, <2>6, <2>7, FewerAlts
<1>2. CASE ~(t.f # << >> /\ ~MatchesPrefix(t.o, o))
  BY <1>2 DEF Displaced, BaseOK
<1> QED BY <1>1, <1>2

(* The chain of a turn is the primary's, that of an alternate that leads   *)
(* the turn, or a new one.                                                 *)
LEMMA ContinuedChainCases ==
  ASSUME NEW log, NEW t, BaseOK(log, t), NEW o, NEW alts, AltsOK(log, alts, t.next)
  PROVE  \/ ContinuedChain(t, o, alts) = 0
         \/ /\ ContinuedChain(t, o, alts) = t.id
            /\ ~(t.f # << >> /\ ~MatchesPrefix(t.o, o))
         \/ \E a \in alts : MatchesPrefix(a.o, o) /\ ContinuedChain(t, o, alts) = a.id
<1> DEFINE leading == {a \in alts : MatchesPrefix(a.o, o)}
           first == CHOOSE a \in leading : \A b \in leading : a.pos <= b.pos
<1>1. CASE t.id # 0 /\ ~(t.f # << >> /\ ~MatchesPrefix(t.o, o))
  BY <1>1 DEF ContinuedChain
<1>2. CASE ~(t.id # 0 /\ ~(t.f # << >> /\ ~MatchesPrefix(t.o, o))) /\ leading = {}
  BY <1>2 DEF ContinuedChain
<1>3. CASE ~(t.id # 0 /\ ~(t.f # << >> /\ ~MatchesPrefix(t.o, o))) /\ leading # {}
  <2>1. ContinuedChain(t, o, alts) = first.id
    BY <1>3 DEF ContinuedChain
  <2>2. \E a \in leading : \A b \in leading : a.pos <= b.pos
    <3> DEFINE P == {a.pos : a \in leading}
    <3>1. P \in SUBSET Nat /\ P # {}
      BY <1>3 DEF AltsOK, Prefix
    <3>2. PICK p \in P : \A q \in P : p <= q
      <4> HIDE DEF P
      <4> QED BY <3>1, LeastNatural
    <3>3. PICK a \in leading : p = a.pos
      OBVIOUS
    <3>4. ASSUME NEW b \in leading
          PROVE  a.pos <= b.pos
      <4>1. b.pos \in P
        OBVIOUS
      <4> HIDE DEF P
      <4> QED BY <3>2, <3>3, <4>1
    <3> HIDE DEF leading
    <3> QED BY <3>4
  <2>3. first \in leading
    <3> HIDE DEF leading
    <3> QED BY <2>2
  <2> QED BY <2>1, <2>3
<1> QED BY <1>1, <1>2, <1>3

(* update_from_response records a sent turn: the displaced prefix, the     *)
(* chain ids and the other prefixes stay in order.                         *)
LEMMA RecordedOK ==
  ASSUME NEW log, NEW t, BaseOK(log, t),
         NEW o \in Seq(Message), NEW f \in Seq(Message), NEW sys \in Systems, NEW frozen \in Nat,
         Len(f) >= Len(o), InLog(log, [o |-> o, f |-> f, sys |-> sys])
  PROVE  /\ TrackerOK(log, Recorded(t, o, f, sys, frozen))
         /\ Recorded(t, o, f, sys, frozen).o = o
         /\ Recorded(t, o, f, sys, frozen).f = f
         /\ Recorded(t, o, f, sys, frozen).sys = sys
<1> DEFINE alts == Displaced(t, o)
           chain == ContinuedChain(t, o, alts)
           left == {a \in alts : ~MatchesPrefix(a.o, o)}
           id == IF chain = 0 THEN t.next ELSE chain
           next == IF chain = 0 THEN t.next + 1 ELSE t.next
           w == [id |-> id, o |-> o, f |-> f, sys |-> sys, alts |-> left, next |-> next,
                 frozen |-> frozen, age |-> 0]
<1>1. Recorded(t, o, f, sys, frozen) = w
  BY DEF Recorded
<1>2. t.id \in Nat /\ t.next \in Nat /\ t.id < t.next /\ \A a \in t.alts : a.id # t.id
  BY DEF BaseOK
<1>3. /\ AltsOK(log, alts, t.next)
      /\ ~(t.f # << >> /\ ~MatchesPrefix(t.o, o)) => alts = t.alts
  BY DisplacedOK
<1> HIDE DEF alts
<1>4. \/ chain = 0
      \/ chain = t.id /\ alts = t.alts
      \/ \E a \in alts : MatchesPrefix(a.o, o) /\ chain = a.id
  BY <1>3, ContinuedChainCases
<1> HIDE DEF chain
<1>5. AltsOK(log, left, t.next)
  BY <1>3, FewerAlts
<1>6. \A a \in alts : a.id \in Nat /\ a.id < t.next
  BY <1>3 DEF AltsOK, Prefix
<1>7. id \in Nat /\ next \in Nat /\ id < next /\ \A a \in left : a.id # id
  <2>1. CASE chain = 0
    BY <1>2, <1>6, <2>1
  <2>2. CASE chain # 0 /\ chain = t.id /\ alts = t.alts
    BY <1>2, <2>2
  <2>3. CASE chain # 0 /\ \E a \in alts : MatchesPrefix(a.o, o) /\ chain = a.id
    <3>1. PICK a \in alts : MatchesPrefix(a.o, o) /\ chain = a.id
      BY <2>3
    <3>2. \A b \in alts : b.id = a.id => b = a
      BY <1>3 DEF AltsOK
    <3> QED BY <1>2, <1>6, <2>3, <3>1, <3>2
  <2> QED BY <1>4, <2>1, <2>2, <2>3
<1>8. AltsOK(log, left, next)
  BY <1>2, <1>5, LaterId
<1>9. left \in SUBSET Prefix
  BY <1>5 DEF AltsOK
<1> HIDE DEF id, next, left
<1>10. w \in Tracker
  <2>1. 0 \in 0..(Ttl + 1)
    BY BoundAssumption
  <2> QED BY <1>7, <1>9, <2>1 DEF Tracker
<1>11. BaseOK(log, w)
  <2>1. Primary(w) = [id |-> id, o |-> o, f |-> f, sys |-> sys, pos |-> 0]
    BY DEF Primary
  <2>2. Primary(w) \in Prefix
    BY <1>7, <2>1 DEF Prefix
  <2>3. PrefixOK(log, Primary(w))
    BY <2>1 DEF PrefixOK, InLog
  <2>4. w.id = id /\ w.next = next /\ w.alts = left
    OBVIOUS
  <2> HIDE DEF w
  <2> QED BY <1>7, <1>8, <2>2, <2>3, <2>4 DEF BaseOK
<1>12. w.o = o /\ w.f = f /\ w.sys = sys
  OBVIOUS
<1> HIDE DEF w
<1>13. TrackerOK(log, w)
  BY <1>10, <1>11, <1>12, TrackerFromBase
<1> QED BY <1>1, <1>12, <1>13

(* The trailing reminders are cut from both slices alike, so what is       *)
(* recorded is still a beginning of what was sent, without a gap.          *)
LEMMA UpdatedOK ==
  ASSUME NEW log \in LogType, NEW t, BaseOK(log, t),
         NEW o \in Seq(Message), NEW f \in Seq(Message), NEW sys \in Systems, NEW frozen \in Nat,
         Len(f) >= Len(o), [o |-> o, f |-> f, sys |-> sys] \in log
  PROVE  LET w == Updated(t, o, f, sys, frozen)
         IN  TrackerOK(log, w) /\ InLog(log, w)
<1> DEFINE n == ReplayableLen(o)
           dropped == Len(o) - n
           m == IF Len(f) >= dropped THEN Len(f) - dropped ELSE 0
           so == Front(o, n)
           sf == Front(f, m)
           b == [o |-> o, f |-> f, sys |-> sys]
           w == Updated(t, o, f, sys, frozen)
<1>1. Len(o) \in Nat /\ Len(f) \in Nat /\ n \in 0..Len(o)
  BY LenProperties, ReplayableLenType
<1>2. m \in 0..Len(f) /\ m >= n
  BY <1>1
<1>3. w = Recorded(t, so, sf, sys, frozen)
  BY DEF Updated
<1> HIDE DEF m, n
<1>4. so \in Seq(Message) /\ sf \in Seq(Message) /\ Len(sf) >= Len(so)
  BY <1>1, <1>2, FrontProperties
<1>5. Leads(o, o) /\ Leads(f, f)
  BY <1>1, LeadsPointwise
<1>6. InLog(log, b)
  BY <1>5 DEF InLog
<1> DEFINE e == [o |-> so, f |-> sf, sys |-> sys]
<1>7. InLog(log, e)
  <2>1. b.o = o /\ b.f = f /\ b.sys = sys /\ e.o = Front(o, n) /\ e.f = Front(f, m) /\ e.sys = sys
    OBVIOUS
  <2> HIDE DEF b, e
  <2> QED BY <1>1, <1>2, <1>6, <2>1, FrontInLog
<1> HIDE DEF so, sf
<1>8. TrackerOK(log, w) /\ w.o = so /\ w.f = sf /\ w.sys = sys
  BY <1>3, <1>4, <1>7, RecordedOK
<1> HIDE DEF w
<1>9. InLog(log, w)
  BY <1>7, <1>8 DEF InLog
<1> QED BY <1>8, <1>9 DEF w

LEMMA RehydratedOK ==
  ASSUME NEW log, NEW d \in File, SliceOK(log, d)
  PROVE  TrackerOK(log, Rehydrated(d))
<1> DEFINE w == Rehydrated(d)
<1>1. d.id \in Nat /\ d.o \in Seq(Message) /\ d.f \in Seq(Message) /\ d.sys \in Systems
      /\ d.frozen \in Nat
  BY DEF File
<1>2. w = [id |-> d.id, o |-> d.o, f |-> d.f, sys |-> d.sys, alts |-> {}, next |-> d.id + 1,
           frozen |-> d.frozen, age |-> 0]
  BY DEF Rehydrated
<1>3. 0 \in 0..(Ttl + 1)
  BY BoundAssumption
<1>4. w \in Tracker
  BY <1>1, <1>2, <1>3 DEF Tracker
<1>5. Primary(w) = [id |-> d.id, o |-> d.o, f |-> d.f, sys |-> d.sys, pos |-> 0]
  BY <1>2 DEF Primary
<1>6. Primary(w) \in Prefix /\ PrefixOK(log, Primary(w))
  BY <1>1, <1>5 DEF Prefix, PrefixOK, SliceOK, InLog
<1>7. BaseOK(log, w) /\ Len(w.f) >= Len(w.o)
  BY <1>1, <1>2, <1>6 DEF BaseOK, AltsOK, Ends, SliceOK
<1> QED BY <1>4, <1>7, TrackerFromBase

LEMMA FromDonorOK ==
  ASSUME NEW log, NEW d \in Adopted, SliceOK(log, d)
  PROVE  TrackerOK(log, FromDonor(d))
<1> DEFINE w == FromDonor(d)
           frozen == Least(d.frozen, Len(d.f))
<1>1. d.o \in Seq(Message) /\ d.f \in Seq(Message) /\ d.sys \in Systems /\ d.frozen \in Nat
  BY DEF Adopted
<1>2. frozen \in Nat
  BY <1>1, LenProperties DEF Least
<1>3. w = [id |-> 1, o |-> d.o, f |-> d.f, sys |-> d.sys, alts |-> {}, next |-> 2,
           frozen |-> frozen, age |-> 0]
  BY DEF FromDonor
<1> HIDE DEF frozen
<1>4. 0 \in 0..(Ttl + 1)
  BY BoundAssumption
<1>5. w \in Tracker
  BY <1>1, <1>2, <1>3, <1>4 DEF Tracker
<1>6. Primary(w) = [id |-> 1, o |-> d.o, f |-> d.f, sys |-> d.sys, pos |-> 0]
  BY <1>3 DEF Primary
<1>7. Primary(w) \in Prefix /\ PrefixOK(log, Primary(w))
  BY <1>1, <1>6 DEF Prefix, PrefixOK, SliceOK, InLog
<1>8. BaseOK(log, w) /\ Len(w.f) >= Len(w.o)
  BY <1>1, <1>3, <1>7 DEF BaseOK, AltsOK, Ends, SliceOK
<1> QED BY <1>5, <1>8, TrackerFromBase

(* install_adopted into a live lane: the adopted chain has an id no other  *)
(* prefix of the lane has or gets.                                         *)
LEMMA WithAlternateOK ==
  ASSUME NEW log, NEW t, TrackerOK(log, t), NEW d \in Adopted, SliceOK(log, d)
  PROVE  TrackerOK(log, WithAlternate(t, d))
<1> DEFINE a == [id |-> t.next, o |-> d.o, f |-> d.f, sys |-> d.sys, pos |-> 1]
           others == {b \in t.alts : b.o # d.o}
           all == InsertFirst(others, a)
           few == Truncated(all)
           w == WithAlternate(t, d)
<1>1. t \in Tracker /\ BaseOK(log, t) /\ Len(t.f) >= Len(t.o)
  BY TrackerHasBase DEF TrackerOK
<1>2. /\ t.id \in Nat /\ t.next \in Nat /\ t.id < t.next /\ AltsOK(log, t.alts, t.next)
      /\ \A b \in t.alts : b.id # t.id
  BY <1>1 DEF BaseOK
<1>3. a \in Prefix /\ a.id = t.next
  BY <1>2 DEF Adopted, Prefix
<1>4. PrefixOK(log, a)
  BY DEF SliceOK, PrefixOK, InLog
<1>5. AltsOK(log, others, t.next + 1)
  BY <1>2, FewerAlts, LaterId
<1>6. \A b \in others : b.id # a.id
  <2>1. \A b \in t.alts : b.id \in Nat /\ b.id < t.next
    BY <1>2 DEF AltsOK, Prefix
  <2> QED BY <1>2, <1>3, <2>1
<1>7. a.id < t.next + 1
  BY <1>2, <1>3
<1>8. \A b \in others : b.id # t.id
  BY <1>2
<1>9. w = [t EXCEPT !.alts = few, !.next = t.next + 1, !.age = 0]
  BY DEF WithAlternate
<1> HIDE DEF a, others
<1>10. AltsOK(log, all, t.next + 1) /\ \A e \in all : \E b \in others \cup {a} : e.id = b.id
  BY <1>3, <1>4, <1>5, <1>6, <1>7, InsertFirstOK
<1>11. \A e \in all : e.id # t.id
  BY <1>2, <1>3, <1>8, <1>10
<1> HIDE DEF all
<1>12. few \in SUBSET all
  BY DEF Truncated
<1> HIDE DEF few
<1>13. AltsOK(log, few, t.next + 1) /\ \A e \in few : e.id # t.id
  BY <1>10, <1>11, <1>12, FewerAlts
<1>14. w \in Tracker
  <2>1. few \in SUBSET Prefix /\ t.next + 1 \in Nat /\ 0 \in 0..(Ttl + 1)
    BY <1>2, <1>13, BoundAssumption DEF AltsOK
  <2> QED BY <1>1, <1>9, <2>1 DEF Tracker
<1>15. /\ w.id = t.id /\ w.o = t.o /\ w.f = t.f /\ w.sys = t.sys
       /\ w.alts = few /\ w.next = t.next + 1
  BY <1>1, <1>9 DEF Tracker
<1> HIDE DEF w
<1>16. Primary(w) = Primary(t)
  BY <1>15 DEF Primary
<1>17. BaseOK(log, w)
  BY <1>1, <1>2, <1>13, <1>15, <1>16 DEF BaseOK
<1>18. TrackerOK(log, w)
  BY <1>1, <1>14, <1>15, <1>17, TrackerFromBase
<1> QED BY <1>18 DEF w

LEMMA InvalidatedOK ==
  ASSUME NEW log, NEW t, TrackerOK(log, t)
  PROVE  TrackerOK(log, Invalidated(t))
<1> DEFINE w == Invalidated(t)
<1>1. t \in Tracker /\ BaseOK(log, t)
  BY TrackerHasBase DEF TrackerOK
<1>2. t.id \in Nat /\ t.next \in Nat /\ t.id < t.next
  BY <1>1 DEF BaseOK
<1> DEFINE none == << >>
           nobody == {}
<1>3. w = [t EXCEPT !.o = none, !.f = none, !.alts = nobody, !.id = 0, !.frozen = 0]
  BY DEF Invalidated
<1>4. none \in Seq(Message) /\ nobody \in SUBSET Prefix
  OBVIOUS
<1> HIDE DEF none, nobody
<1>5. w = [id |-> 0, o |-> none, f |-> none, sys |-> t.sys, alts |-> nobody, next |-> t.next,
            frozen |-> 0, age |-> t.age]
  BY <1>1, <1>3, Zenon DEF Tracker
<1>6. t.sys \in Systems /\ t.age \in 0..(Ttl + 1)
  BY <1>1 DEF Tracker
<1>7. w \in Tracker
  BY <1>2, <1>4, <1>5, <1>6 DEF Tracker
<1>8. w \in Tracker /\ w.id = 0 /\ w.o = << >> /\ w.f = << >> /\ w.alts = {} /\ w.next = t.next
  BY <1>5, <1>7 DEF none, nobody
<1> HIDE DEF w
<1>9. BaseOK(log, w)
  BY <1>2, <1>8 DEF BaseOK, AltsOK, Ends
<1>10. Len(w.f) >= Len(w.o)
  BY <1>8
<1>11. TrackerOK(log, w)
  BY <1>8, <1>9, <1>10, TrackerFromBase
<1> QED BY <1>11 DEF w

(* Only its age changes.                                                   *)
LEMMA AgedOK ==
  ASSUME NEW log, NEW t, TrackerOK(log, t), t # NONE
  PROVE  TrackerOK(log, Aged(t))
<1> DEFINE w == Aged(t)
           age == Least(t.age + 1, Ttl + 1)
<1>1. t \in Tracker /\ BaseOK(log, t) /\ Len(t.f) >= Len(t.o)
  BY TrackerHasBase DEF TrackerOK
<1>2. w = [t EXCEPT !.age = age]
  BY DEF Aged
<1>3. age \in 0..(Ttl + 1)
  BY <1>1, BoundAssumption DEF Tracker, Least
<1> HIDE DEF age
<1>4. /\ w \in Tracker
      /\ w.id = t.id /\ w.o = t.o /\ w.f = t.f /\ w.sys = t.sys /\ w.alts = t.alts /\ w.next = t.next
  BY <1>1, <1>2, <1>3 DEF Tracker
<1> HIDE DEF w
<1>5. Primary(w) = Primary(t)
  BY <1>4 DEF Primary
<1>6. BaseOK(log, w)
  BY <1>1, <1>4, <1>5 DEF BaseOK
<1>7. TrackerOK(log, w)
  BY <1>1, <1>4, <1>6, TrackerFromBase
<1> QED BY <1>7 DEF w

(* LruCache::push loses at most another lane.                              *)
LEMMA PushOK ==
  ASSUME NEW log, TrackersOK(log, trackers), NEW s \in Sessions, NEW t, TrackerOK(log, t),
         Push(s, t)
  PROVE  TrackersOK(log, trackers')
<1>1. t \in Tracker /\ trackers \in [Sessions -> Tracker \cup {NONE}]
  BY DEF TrackerOK, TrackersOK
<1>2. CASE trackers' = [trackers EXCEPT ![s] = t]
  BY <1>1, <1>2 DEF TrackersOK
<1>3. CASE \E v \in Sessions \ {s} : trackers' = [trackers EXCEPT ![s] = t, ![v] = NONE]
  <2>1. PICK v \in Sessions \ {s} : trackers' = [trackers EXCEPT ![s] = t, ![v] = NONE]
    BY <1>3
  <2>2. trackers' \in [Sessions -> Tracker \cup {NONE}]
    BY <1>1, <2>1
  <2>3. \A x \in Sessions : trackers'[x] \in {t, NONE, trackers[x]}
    BY <1>1, <2>1
  <2> QED BY <2>2, <2>3 DEF TrackersOK
<1>4. \A v \in ({x \in Sessions : Tracked(x)} \cup {s}) \ {s} : v \in Sessions \ {s}
  OBVIOUS
<1> QED BY <1>2, <1>3, <1>4 DEF Push

-----------------------------------------------------------------------------
(* Picking and adopting.                                                   *)

(* The prefixes of a tracker, as candidates.                               *)
LEMMA HeldCandidates ==
  ASSUME NEW log, NEW t, TrackerOK(log, t)
  PROVE  /\ HeldPrefixes(t) \in SUBSET Prefix
         /\ Ends(HeldPrefixes(t))
         /\ \A c \in HeldPrefixes(t) : c.f # << >> => InLog(log, c)
<1>1. Primary(t) \in Prefix /\ Primary(t).pos = 0
  BY DEF TrackerOK, Tracker, Prefix, Primary
<1>2. HeldPrefixes(t) \in SUBSET Prefix
  BY <1>1 DEF HeldPrefixes, TrackerOK, Tracker
<1>3. PICK m \in Nat : \A a \in t.alts : a.pos <= m
  BY DEF TrackerOK, Ends
<1>4. \A c \in HeldPrefixes(t) : c.pos <= m
  BY <1>1, <1>3 DEF HeldPrefixes
<1> QED BY <1>2, <1>3, <1>4 DEF Ends, TrackerOK, PrefixOK

(* pick_replay_candidate returns one of its candidates, never an empty one. *)
LEMMA PickReplayIn ==
  ASSUME NEW held \in SUBSET Prefix, Ends(held), NEW cur \in Seq(Message)
  PROVE  \A c \in PickReplay(held, cur) : c \in held /\ c.f # << >>
<1> DEFINE exact == Leading(held, cur)
           edited == TailEdited(held, cur)
           first == Longest(exact, LAMBDA c : Len(c.o))
           second == Longest(edited, LAMBDA c : AgreementLen(c.o, cur))
<1>1. Len(cur) \in Nat
  BY LenProperties
<1>2. \A c \in held : c.o \in Seq(Message) /\ Len(c.o) \in Nat
  BY LenProperties DEF Prefix
<1>3. exact \in SUBSET held /\ \A c \in exact : c.f # << >> /\ Len(c.o) <= Len(cur)
  BY DEF Leading, MatchesPrefix
<1>4. edited \in SUBSET held /\ \A c \in edited : c.f # << >>
  BY DEF TailEdited
<1> HIDE DEF exact, edited
<1>5. Ends(exact) /\ Ends(edited)
  BY <1>3, <1>4 DEF Ends
<1>6. exact # {} => first \in exact
  <2> SUFFICES ASSUME exact # {} PROVE first \in exact
    OBVIOUS
  <2> DEFINE key == [c \in exact |-> Len(c.o)]
  <2>1. key \in [exact -> Nat] /\ (\A c \in exact : key[c] <= Len(cur)) /\ exact \in SUBSET Prefix
    BY <1>2, <1>3
  <2> HIDE DEF key
  <2>2. PICK c \in exact : \A d \in exact : key[d] < key[c] \/ (key[d] = key[c] /\ d.pos <= c.pos)
    BY <1>1, <1>5, <2>1, LongestExists
  <2>3. \A d \in exact : Len(d.o) < Len(c.o) \/ (Len(d.o) = Len(c.o) /\ d.pos <= c.pos)
    BY <2>2 DEF key
  <2>4. first = CHOOSE c1 \in exact :
                  \A d \in exact : Len(d.o) < Len(c1.o) \/ (Len(d.o) = Len(c1.o) /\ d.pos <= c1.pos)
    BY DEF Longest
  <2> HIDE DEF first
  <2> QED BY <2>3, <2>4
<1>7. edited # {} => second \in edited
  <2> SUFFICES ASSUME edited # {} PROVE second \in edited
    OBVIOUS
  <2> DEFINE key == [c \in edited |-> AgreementLen(c.o, cur)]
  <2>1. key \in [edited -> Nat] /\ (\A c \in edited : key[c] <= Len(cur)) /\ edited \in SUBSET Prefix
    BY <1>2, <1>4, AgreementLenType
  <2> HIDE DEF key
  <2>2. PICK c \in edited : \A d \in edited : key[d] < key[c] \/ (key[d] = key[c] /\ d.pos <= c.pos)
    BY <1>1, <1>5, <2>1, LongestExists
  <2>3. \A d \in edited :
          \/ AgreementLen(d.o, cur) < AgreementLen(c.o, cur)
          \/ AgreementLen(d.o, cur) = AgreementLen(c.o, cur) /\ d.pos <= c.pos
    BY <2>2 DEF key
  <2>4. second = CHOOSE c1 \in edited :
                   \A d \in edited :
                     \/ AgreementLen(d.o, cur) < AgreementLen(c1.o, cur)
                     \/ AgreementLen(d.o, cur) = AgreementLen(c1.o, cur) /\ d.pos <= c1.pos
    BY DEF Longest
  <2> HIDE DEF second
  <2> QED BY <2>3, <2>4
<1>8. PickReplay(held, cur) = IF exact # {} THEN {first}
                              ELSE IF edited # {} THEN {second} ELSE {}
  BY DEF PickReplay, exact, edited
<1> HIDE DEF first, second
<1> QED BY <1>3, <1>4, <1>6, <1>7, <1>8

(* previous_turn_for returns what was sent.                                *)
LEMMA ReturnedOK ==
  ASSUME NEW log, NEW t, TrackerOK(log, t), NEW cur \in Seq(Message), NEW sys
  PROVE  \A c \in ReturnedPrefix(t, cur, sys) : c \in Prefix /\ InLog(log, c)
<1> DEFINE same == {c \in HeldPrefixes(t) : c.sys = sys}
           gated == PickReplay(same, cur)
           fallback == [Primary(t) EXCEPT !.id = 0]
<1>1. /\ HeldPrefixes(t) \in SUBSET Prefix
      /\ Ends(HeldPrefixes(t))
      /\ \A c \in HeldPrefixes(t) : c.f # << >> => InLog(log, c)
  BY HeldCandidates
<1>2. same \in SUBSET HeldPrefixes(t) /\ Ends(same)
  BY <1>1 DEF Ends
<1>3. \A c \in ReturnedPrefix(t, cur, sys) : c \in gated \/ (t.f # << >> /\ c = fallback)
  BY DEF ReturnedPrefix
<1> HIDE DEF same
<1>4. \A c \in gated : c \in same /\ c.f # << >>
  BY <1>1, <1>2, PickReplayIn
<1> HIDE DEF gated
<1>5. \A c \in gated : c \in Prefix /\ InLog(log, c)
  BY <1>1, <1>2, <1>4
<1>6. t.f # << >> => fallback \in Prefix /\ InLog(log, fallback)
  <2>1. Primary(t) \in HeldPrefixes(t) /\ Primary(t).f = t.f
    BY DEF HeldPrefixes, Primary
  <2>2. t.f # << >> => Primary(t) \in Prefix /\ InLog(log, Primary(t))
    BY <1>1, <2>1
  <2>3. Primary(t) \in Prefix => /\ fallback \in Prefix
                                 /\ fallback.o = Primary(t).o /\ fallback.f = Primary(t).f
                                 /\ fallback.sys = Primary(t).sys
    BY DEF Prefix
  <2> QED BY <2>2, <2>3 DEF InLog
<1> HIDE DEF fallback
<1> QED BY <1>3, <1>5, <1>6

(* adoptable_len never reaches past either slice, so what another session  *)
(* hands over is a beginning of what it sent.                              *)
LEMMA SliceAdopted ==
  ASSUME NEW log \in LogType, NEW c, c.o \in Seq(Message), c.f \in Seq(Message), c.sys \in Systems,
         c.f # << >> => InLog(log, c),
         NEW cur \in Seq(Message), AdoptableLen(c, cur) > 0,
         NEW frozen \in Nat, NEW age \in 0..(Ttl + 1)
  PROVE  LET d == Slice(c, AdoptableLen(c, cur), frozen, age)
         IN  d \in Adopted /\ SliceOK(log, d)
<1> DEFINE n == AdoptableLen(c, cur)
           d == Slice(c, n, frozen, age)
<1>1. Len(c.o) \in Nat /\ AgreementLen(c.o, cur) \in Nat /\ AgreementLen(c.o, cur) <= Len(c.o)
  BY LenProperties, AgreementLenType
<1>2. c.f # << >> /\ Len(c.o) = Len(c.f) /\ n = AgreementLen(c.o, cur)
  BY DEF AdoptableLen
<1>3. n \in 0..Len(c.o) /\ n \in 0..Len(c.f)
  BY <1>1, <1>2
<1> HIDE DEF n
<1>4. /\ Front(c.o, n) \in Seq(Message) /\ Len(Front(c.o, n)) = n
      /\ Front(c.f, n) \in Seq(Message) /\ Len(Front(c.f, n)) = n
  BY <1>3, FrontProperties
<1>5. d = [o |-> Front(c.o, n), f |-> Front(c.f, n), sys |-> c.sys, frozen |-> frozen, age |-> age]
  BY DEF Slice
<1> HIDE DEF d
<1>6. d \in Adopted /\ d.o = Front(c.o, n) /\ d.f = Front(c.f, n) /\ d.sys = c.sys
  BY <1>4, <1>5 DEF Adopted
<1>7. InLog(log, d)
  BY <1>2, <1>3, <1>6, FrontInLog
<1>8. Len(d.f) >= Len(d.o)
  BY <1>3, <1>4, <1>6
<1> QED BY <1>6, <1>7, <1>8 DEF SliceOK, d, n

(* What another session hands over is cut from a prefix that it holds.     *)
LEMMA InMemoryDonorSource ==
  ASSUME NEW log, TrackersOK(log, trackers), NEW s \in Sessions, NEW cur \in Seq(Message),
         NEW d \in InMemoryDonors(s, cur)
  PROVE  \E x \in Sessions :
           /\ Tracked(x)
           /\ \E c \in HeldPrefixes(trackers[x]) :
                /\ AdoptableLen(c, cur) > 0
                /\ d = Slice(c, AdoptableLen(c, cur), trackers[x].frozen, trackers[x].age)
<1> DEFINE fit(x) == {c \in HeldPrefixes(trackers[x]) : AdoptableLen(c, cur) > 0}
           best(x) == Longest(fit(x), LAMBDA c : AdoptableLen(c, cur))
<1>1. PICK x \in Sessions :
        /\ Tracked(x) /\ fit(x) # {}
        /\ d = Slice(best(x), AdoptableLen(best(x), cur), trackers[x].frozen, trackers[x].age)
  BY DEF InMemoryDonors
<1>2. TrackerOK(log, trackers[x]) /\ trackers[x] \in Tracker
  BY <1>1 DEF TrackersOK, Tracked, TrackerOK
<1>3. /\ HeldPrefixes(trackers[x]) \in SUBSET Prefix
      /\ Ends(HeldPrefixes(trackers[x]))
      /\ \A c \in HeldPrefixes(trackers[x]) : c.f # << >> => InLog(log, c)
  BY <1>2, HeldCandidates
<1> DEFINE F == fit(x)
<1>4. F \in SUBSET HeldPrefixes(trackers[x]) /\ \A c \in F : AdoptableLen(c, cur) > 0
  OBVIOUS
<1> DEFINE b == best(x)
<1>5. b = CHOOSE c \in F :
            \A e \in F : \/ AdoptableLen(e, cur) < AdoptableLen(c, cur)
                         \/ AdoptableLen(e, cur) = AdoptableLen(c, cur) /\ e.pos <= c.pos
  BY DEF Longest
<1>6. F # {} /\ d = Slice(b, AdoptableLen(b, cur), trackers[x].frozen, trackers[x].age)
  BY <1>1
<1> HIDE DEF b, F
<1>7. F \in SUBSET Prefix /\ Ends(F)
  BY <1>3, <1>4 DEF Ends
<1>8. b \in F
  <2> DEFINE key == [c \in F |-> AdoptableLen(c, cur)]
  <2>1. \A c \in F : AdoptableLen(c, cur) \in Nat /\ AdoptableLen(c, cur) <= Len(cur)
    <3> SUFFICES ASSUME NEW c \in F
                 PROVE  AdoptableLen(c, cur) \in Nat /\ AdoptableLen(c, cur) <= Len(cur)
      OBVIOUS
    <3>1. c.o \in Seq(Message)
      BY <1>7 DEF Prefix
    <3>2. AgreementLen(c.o, cur) \in Nat /\ AgreementLen(c.o, cur) <= Len(cur)
      BY <3>1, AgreementLenType
    <3>3. AdoptableLen(c, cur) = AgreementLen(c.o, cur)
      BY <1>4 DEF AdoptableLen
    <3> QED BY <3>2, <3>3
  <2>2. Len(cur) \in Nat /\ key \in [F -> Nat] /\ \A c \in F : key[c] <= Len(cur)
    BY <2>1, LenProperties
  <2> HIDE DEF key
  <2>3. PICK c \in F : \A e \in F : key[e] < key[c] \/ (key[e] = key[c] /\ e.pos <= c.pos)
    BY <1>6, <1>7, <2>2, LongestExists
  <2>4. \A e \in F : \/ AdoptableLen(e, cur) < AdoptableLen(c, cur)
                     \/ AdoptableLen(e, cur) = AdoptableLen(c, cur) /\ e.pos <= c.pos
    BY <2>3 DEF key
  <2> QED BY <1>5, <2>4
<1> QED BY <1>1, <1>4, <1>6, <1>8

LEMMA InMemoryDonorsOK ==
  ASSUME NEW log \in LogType, TrackersOK(log, trackers), NEW s \in Sessions,
         NEW cur \in Seq(Message)
  PROVE  \A d \in InMemoryDonors(s, cur) : d \in Adopted /\ SliceOK(log, d)
<1> SUFFICES ASSUME NEW d \in InMemoryDonors(s, cur)
             PROVE  d \in Adopted /\ SliceOK(log, d)
  OBVIOUS
<1>1. PICK x \in Sessions :
        /\ Tracked(x)
        /\ \E c \in HeldPrefixes(trackers[x]) :
             /\ AdoptableLen(c, cur) > 0
             /\ d = Slice(c, AdoptableLen(c, cur), trackers[x].frozen, trackers[x].age)
  BY InMemoryDonorSource
<1>2. PICK b \in HeldPrefixes(trackers[x]) :
        /\ AdoptableLen(b, cur) > 0
        /\ d = Slice(b, AdoptableLen(b, cur), trackers[x].frozen, trackers[x].age)
  BY <1>1
<1>3. TrackerOK(log, trackers[x]) /\ trackers[x] \in Tracker
  BY <1>1 DEF TrackersOK, Tracked, TrackerOK
<1>4. b \in Prefix /\ (b.f # << >> => InLog(log, b))
  BY <1>3, HeldCandidates
<1>5. b.o \in Seq(Message) /\ b.f \in Seq(Message) /\ b.sys \in Systems
  BY <1>4 DEF Prefix
<1>6. trackers[x].frozen \in Nat /\ trackers[x].age \in 0..(Ttl + 1)
  BY <1>3 DEF Tracker
<1> QED BY <1>2, <1>4, <1>5, <1>6, SliceAdopted

LEMMA OnDiskDonorsOK ==
  ASSUME NEW log \in LogType, FilesOK(log, disk), NEW s \in Sessions, NEW cur \in Seq(Message)
  PROVE  \A d \in OnDiskDonors(s, cur) : d \in Adopted /\ SliceOK(log, d)
<1> SUFFICES ASSUME NEW d \in OnDiskDonors(s, cur)
             PROVE  d \in Adopted /\ SliceOK(log, d)
  OBVIOUS
<1>1. PICK x \in Sessions :
        /\ Readable(x) /\ AdoptableLen(disk[x], cur) > 0
        /\ d = Slice(disk[x], AdoptableLen(disk[x], cur), disk[x].frozen, disk[x].age)
  BY DEF OnDiskDonors
<1>2. disk[x] \in File /\ SliceOK(log, disk[x])
  BY <1>1 DEF Readable, FilesOK
<1>3. /\ disk[x].o \in Seq(Message) /\ disk[x].f \in Seq(Message) /\ disk[x].sys \in Systems
      /\ disk[x].frozen \in Nat /\ disk[x].age \in 0..(Ttl + 1)
  BY <1>2 DEF File
<1>4. InLog(log, disk[x])
  BY <1>2 DEF SliceOK
<1> QED BY <1>1, <1>3, <1>4, SliceAdopted

LEMMA DonorIsSlice ==
  ASSUME NEW log \in LogType, TrackersOK(log, trackers), FilesOK(log, disk),
         NEW s \in Sessions, NEW cur \in Seq(Message)
  PROVE  \A d \in Donors(s, cur) : d \in Adopted /\ SliceOK(log, d)
<1>1. \A d \in Donors(s, cur) : d \in InMemoryDonors(s, cur) \cup OnDiskDonors(s, cur)
  BY DEF Donors
<1> QED BY <1>1, InMemoryDonorsOK, OnDiskDonorsOK

-----------------------------------------------------------------------------
(* The log.                                                                *)

LEMMA TurnFields ==
  ASSUME NEW t \in Turns
  PROVE  /\ t.session \in Sessions /\ t.msgs \in Seq(Message) /\ t.sys \in Systems
         /\ t.level \in Nat /\ t.boundary \in BOOLEAN
BY BoundAssumption

LEMMA SentInLog ==
  ASSUME NEW r \in Requests, sent[r] # NONE
  PROVE  [o |-> turn[r].msgs, f |-> sent[r].msgs, sys |-> turn[r].sys] \in Log
BY DEF Log

LEMMA LogIsTyped ==
  ASSUME PathOK
  PROVE  Log \in LogType
<1> SUFFICES ASSUME NEW b \in Log
             PROVE  b \in [o : Seq(Message), f : Seq(Message), sys : Systems]
  BY DEF LogType
<1>1. PICK r \in Requests :
        sent[r] # NONE /\ b = [o |-> turn[r].msgs, f |-> sent[r].msgs, sys |-> turn[r].sys]
  BY DEF Log
<1>2. turn[r] \in Turns
  BY <1>1 DEF PathOK
<1>3. sent[r] \in SentBody
  BY <1>1 DEF PathOK
<1>4. sent[r].msgs \in Seq(Message)
  BY <1>3 DEF SentBody
<1> QED BY <1>1, <1>2, <1>4, TurnFields

(* The property's words and the log's are the same.                        *)
LEMMA WasSentIsInLog ==
  ASSUME NEW c, InLog(Log, c)
  PROVE  WasSent(c.o, c.f, c.sys)
<1>1. PICK b \in Log : b.sys = c.sys /\ Leads(c.o, b.o) /\ Leads(c.f, b.f)
  BY DEF InLog
<1>2. PICK r \in Requests :
        sent[r] # NONE /\ b = [o |-> turn[r].msgs, f |-> sent[r].msgs, sys |-> turn[r].sys]
  BY DEF Log
<1> QED BY <1>1, <1>2 DEF WasSent

(* No request's turn or body changes once it is sent.                      *)
LEMMA LogGrows ==
  ASSUME \A r \in Requests : sent[r] # NONE => sent'[r] = sent[r] /\ turn'[r] = turn[r]
  PROVE  Log \subseteq Log'
<1> SUFFICES ASSUME NEW b \in Log
             PROVE  b \in Log'
  OBVIOUS
<1>1. PICK r \in Requests :
        sent[r] # NONE /\ b = [o |-> turn[r].msgs, f |-> sent[r].msgs, sys |-> turn[r].sys]
  BY DEF Log
<1>2. sent'[r] # NONE /\ b = [o |-> turn'[r].msgs, f |-> sent'[r].msgs, sys |-> turn'[r].sys]
  BY <1>1
<1> QED BY <1>2 DEF Log

-----------------------------------------------------------------------------
(* Steps, seen by what is kept.                                            *)

LEMMA TrackerSet ==
  ASSUME NEW log, NEW tr, TrackersOK(log, tr), NEW s \in Sessions,
         NEW t, t = NONE \/ TrackerOK(log, t)
  PROVE  TrackersOK(log, [tr EXCEPT ![s] = t])
BY DEF TrackersOK, TrackerOK

LEMMA LoadedSet ==
  ASSUME NEW log, NEW l, LoadedOK(log, l), NEW r \in Requests,
         NEW d, d \in {NONE, UNREAD} \/ (d \in File /\ SliceOK(log, d))
  PROVE  LoadedOK(log, [l EXCEPT ![r] = d])
BY DEF LoadedOK

LEMMA DonorSet ==
  ASSUME NEW log, NEW l, DonorsOK(log, l), NEW r \in Requests,
         NEW d, d \in {NONE, UNREAD} \/ (d \in Adopted /\ SliceOK(log, d))
  PROVE  DonorsOK(log, [l EXCEPT ![r] = d])
BY DEF DonorsOK

LEMMA PickedSet ==
  ASSUME NEW log, NEW p, PickedOK(log, p), NEW r \in Requests,
         NEW c, c = NONE \/ (c \in Prefix /\ InLog(log, c))
  PROVE  PickedOK(log, [p EXCEPT ![r] = c])
BY DEF PickedOK

LEMMA EnterOK ==
  ASSUME NEW log, LoadedOK(log, loaded), DonorsOK(log, donor), NEW r \in Requests, NEW stage,
         Enter(r, stage)
  PROVE  LoadedOK(log, loaded') /\ DonorsOK(log, donor')
<1> DEFINE x == IF PersistDir THEN UNREAD ELSE NONE
           y == IF stage \in {"probe", "select"} THEN UNREAD ELSE NONE
<1>1. x \in {NONE, UNREAD} /\ y \in {NONE, UNREAD}
  OBVIOUS
<1>2. loaded' = [loaded EXCEPT ![r] = x] /\ donor' = [donor EXCEPT ![r] = y]
  BY DEF Enter
<1> HIDE DEF x, y
<1> QED BY <1>1, <1>2, LoadedSet, DonorSet

LEMMA FinishedOK ==
  ASSUME NEW log, LoadedOK(log, loaded), PickedOK(log, picked), NEW r \in Requests, Finished(r)
  PROVE  LoadedOK(log, loaded') /\ PickedOK(log, picked')
BY LoadedSet, PickedSet DEF Finished

\* What is kept after a step was sent before it.
HeldNext == HeldOK(Log, trackers', disk', loaded', donor', picked')

LEMMA RequestFields ==
  ASSUME PathOK, NEW r \in Requests, pc[r] # "idle"
  PROVE  /\ turn[r] \in Turns
         /\ Session(r) \in Sessions /\ Msgs(r) \in Seq(Message) /\ turn[r].sys \in Systems
         /\ turn[r].session = Session(r) /\ turn[r].msgs = Msgs(r)
BY TurnFields DEF PathOK, Session, Msgs

LEMMA ArriveHeld ==
  ASSUME IInv, NEW r \in Requests, NEW t \in Turns, Arrive(r, t)
  PROVE  HeldNext
<1>1. UNCHANGED <<trackers, disk, picked>>
  BY DEF Arrive, storeVars
<1>2. LoadedOK(Log, loaded') /\ DonorsOK(Log, donor')
  BY EnterOK DEF IInv, HeldOK, Arrive
<1> QED BY <1>1, <1>2 DEF IInv, HeldOK, HeldNext

LEMMA HydrateReadHeld ==
  ASSUME IInv, NEW r \in Requests, HydrateRead(r)
  PROVE  HeldNext
<1>1. UNCHANGED <<trackers, disk, donor, picked>>
  BY DEF HydrateRead, storeVars
<1>2. Session(r) \in Sessions
  BY RequestFields DEF IInv, HydrateRead, Hydrating
<1> DEFINE d == IF ~Tracked(Session(r)) /\ Readable(Session(r)) THEN disk[Session(r)] ELSE NONE
<1>3. d \in {NONE, UNREAD} \/ (d \in File /\ SliceOK(Log, d))
  BY <1>2 DEF IInv, HeldOK, FilesOK, Readable
<1>4. loaded' = [loaded EXCEPT ![r] = d]
  BY DEF HydrateRead
<1> HIDE DEF d
<1>5. LoadedOK(Log, loaded')
  BY <1>3, <1>4, LoadedSet DEF IInv, HeldOK
<1> QED BY <1>1, <1>5 DEF IInv, HeldOK, HeldNext

LEMMA HydrateInstallHeld ==
  ASSUME IInv, NEW r \in Requests, HydrateInstall(r)
  PROVE  HeldNext
<1>1. UNCHANGED <<disk, donor, picked>>
  BY DEF HydrateInstall
<1>2. Session(r) \in Sessions
  BY RequestFields DEF IInv, HydrateInstall, Hydrating
<1>3. loaded[r] \in File /\ SliceOK(Log, loaded[r])
  BY DEF IInv, HeldOK, LoadedOK, HydrateInstall
<1>4. TrackerOK(Log, Rehydrated(loaded[r]))
  BY <1>3, RehydratedOK
<1>5. TrackersOK(Log, trackers')
  <2>1. CASE Tracked(Session(r))
    BY <2>1 DEF HydrateInstall, IInv, HeldOK
  <2>2. CASE ~Tracked(Session(r))
    <3>1. Push(Session(r), Rehydrated(loaded[r]))
      BY <2>2 DEF HydrateInstall
    <3>2. TrackersOK(Log, trackers)
      BY DEF IInv, HeldOK
    <3> QED BY <1>2, <1>4, <3>1, <3>2, PushOK
  <2> QED BY <2>1, <2>2
<1>6. LoadedOK(Log, loaded')
  BY LoadedSet DEF IInv, HeldOK, HydrateInstall
<1> QED BY <1>1, <1>5, <1>6 DEF IInv, HeldOK, HeldNext

LEMMA AdoptScanHeld ==
  ASSUME IInv, NEW r \in Requests, AdoptScan(r)
  PROVE  HeldNext
<1>1. UNCHANGED <<trackers, disk, loaded, picked>>
  BY DEF AdoptScan, storeVars
<1>2. Session(r) \in Sessions /\ Msgs(r) \in Seq(Message)
  BY RequestFields DEF IInv, AdoptScan
<1>3. \A d \in Donors(Session(r), Msgs(r)) : d \in Adopted /\ SliceOK(Log, d)
  BY <1>2, DonorIsSlice, LogIsTyped DEF IInv, HeldOK
<1>4. \/ donor' = [donor EXCEPT ![r] = NONE]
      \/ \E d \in Donors(Session(r), Msgs(r)) : donor' = [donor EXCEPT ![r] = d]
  BY DEF AdoptScan
<1>5. DonorsOK(Log, donor')
  BY <1>3, <1>4, DonorSet DEF IInv, HeldOK
<1> QED BY <1>1, <1>5 DEF IInv, HeldOK, HeldNext

LEMMA AdoptInstallHeld ==
  ASSUME IInv, NEW r \in Requests, AdoptInstall(r)
  PROVE  HeldNext
<1>1. UNCHANGED <<disk, loaded, picked>>
  BY DEF AdoptInstall
<1>2. Session(r) \in Sessions
  BY RequestFields DEF IInv, AdoptInstall
<1>3. donor[r] \in Adopted /\ SliceOK(Log, donor[r])
  BY DEF IInv, HeldOK, DonorsOK, AdoptInstall
<1>4. DonorsOK(Log, donor')
  BY DonorSet DEF IInv, HeldOK, AdoptInstall
<1> DEFINE s == Session(r)
           live == Tracked(s) /\ ~Idle(trackers[s]) /\ trackers[s].f # << >>
<1>5. TrackersOK(Log, trackers)
  BY DEF IInv, HeldOK
<1>6. TrackersOK(Log, trackers')
  <2>1. CASE live
    <3>1. TrackerOK(Log, trackers[s])
      BY <1>2, <1>5, <2>1 DEF TrackersOK, Tracked
    <3>2. TrackerOK(Log, WithAlternate(trackers[s], donor[r]))
      BY <1>3, <3>1, WithAlternateOK
    <3>3. trackers' = [trackers EXCEPT ![s] = WithAlternate(trackers[s], donor[r])]
      BY <1>2, <1>5, <2>1 DEF AdoptInstall, TrackersOK
    <3> QED BY <1>2, <1>5, <3>2, <3>3, TrackerSet
  <2>2. CASE ~live
    <3>1. TrackerOK(Log, FromDonor(donor[r]))
      BY <1>3, FromDonorOK
    <3>2. Push(s, FromDonor(donor[r]))
      BY <2>2 DEF AdoptInstall
    <3> QED BY <1>2, <1>5, <3>1, <3>2, PushOK
  <2> QED BY <2>1, <2>2
<1> QED BY <1>1, <1>4, <1>6 DEF IInv, HeldOK, HeldNext

LEMMA BoundaryHeld ==
  ASSUME IInv, NEW r \in Requests, Boundary(r)
  PROVE  HeldNext
<1>1. UNCHANGED <<disk, picked>>
  BY DEF Boundary
<1>2. Session(r) \in Sessions
  BY RequestFields DEF IInv, Boundary
<1>3. LoadedOK(Log, loaded') /\ DonorsOK(Log, donor')
  BY EnterOK DEF IInv, HeldOK, Boundary
<1>4. TrackersOK(Log, trackers)
  BY DEF IInv, HeldOK
<1> DEFINE old == trackers[Session(r)]
           t == IF old = NONE THEN NONE ELSE Invalidated(old)
<1>5. t = NONE \/ TrackerOK(Log, t)
  BY <1>2, <1>4, InvalidatedOK DEF TrackersOK
<1>6. trackers' = [trackers EXCEPT ![Session(r)] = t]
  BY <1>2, <1>4 DEF Boundary, TrackersOK
<1> HIDE DEF t
<1>7. TrackersOK(Log, trackers')
  BY <1>2, <1>4, <1>5, <1>6, TrackerSet
<1> QED BY <1>1, <1>3, <1>7 DEF IInv, HeldOK, HeldNext

LEMMA ProbeEndHeld ==
  ASSUME IInv, NEW r \in Requests, ProbeEnd(r)
  PROVE  HeldNext
<1>1. UNCHANGED <<trackers, disk, picked>>
  BY DEF ProbeEnd, storeVars
<1>2. LoadedOK(Log, loaded') /\ DonorsOK(Log, donor')
  BY EnterOK DEF IInv, HeldOK, ProbeEnd
<1> QED BY <1>1, <1>2 DEF IInv, HeldOK, HeldNext

LEMMA SelectHeld ==
  ASSUME IInv, NEW r \in Requests, Select(r)
  PROVE  HeldNext
<1> DEFINE s == Session(r)
           t == trackers[s]
           found == IF Tracked(s) /\ ~Idle(t) THEN ReturnedPrefix(t, Msgs(r), turn[r].sys) ELSE {}
           kept == IF Tracked(s) /\ Idle(t) THEN NONE ELSE t
           pick == IF found = {} THEN NONE ELSE CHOOSE c \in found : TRUE
<1>1. UNCHANGED disk
  BY DEF Select
<1>2. s \in Sessions /\ Msgs(r) \in Seq(Message)
  BY RequestFields DEF IInv, Select
<1>3. LoadedOK(Log, loaded') /\ DonorsOK(Log, donor')
  BY EnterOK DEF IInv, HeldOK, Select
<1>4. TrackersOK(Log, trackers)
  BY DEF IInv, HeldOK
<1>5. Tracked(s) => TrackerOK(Log, t)
  BY <1>2, <1>4 DEF TrackersOK, Tracked
<1>6. trackers' = [trackers EXCEPT ![s] = kept]
  BY <1>2, <1>4 DEF Select, TrackersOK
<1>7. kept = NONE \/ TrackerOK(Log, kept)
  BY <1>5 DEF Tracked
<1>8. picked' = [picked EXCEPT ![r] = pick]
  BY DEF Select
<1>9. \A c \in found : c \in Prefix /\ InLog(Log, c)
  BY <1>2, <1>5, ReturnedOK
<1> HIDE DEF found, kept
<1>10. pick = NONE \/ (pick \in Prefix /\ InLog(Log, pick))
  BY <1>9
<1> HIDE DEF pick
<1>11. TrackersOK(Log, trackers')
  BY <1>2, <1>4, <1>6, <1>7, TrackerSet
<1>12. PickedOK(Log, picked')
  BY <1>8, <1>10, PickedSet DEF IInv, HeldOK
<1> QED BY <1>1, <1>3, <1>11, <1>12 DEF IInv, HeldOK, HeldNext

LEMMA SendHeld ==
  ASSUME IInv, NEW r \in Requests, Send(r)
  PROVE  HeldNext
<1>1. UNCHANGED <<trackers, disk, loaded, donor, picked>>
  BY DEF Send, storeVars
<1> QED BY <1>1 DEF IInv, HeldOK, HeldNext

LEMMA PopPendingHeld ==
  ASSUME IInv, NEW r \in Requests, PopPending(r)
  PROVE  HeldNext
<1>1. UNCHANGED <<trackers, disk, donor>>
  BY DEF PopPending, storeVars
<1>2. LoadedOK(Log, loaded') /\ PickedOK(Log, picked')
  <2>1. CASE UNCHANGED <<picked, loaded>>
    BY <2>1 DEF IInv, HeldOK
  <2>2. CASE Finished(r)
    BY <2>2, FinishedOK DEF IInv, HeldOK
  <2> QED BY <2>1, <2>2 DEF PopPending
<1> QED BY <1>1, <1>2 DEF IInv, HeldOK, HeldNext

LEMMA FailHeld ==
  ASSUME IInv, NEW r \in Requests, Fail(r)
  PROVE  HeldNext
<1>1. UNCHANGED <<trackers, disk, donor>>
  BY DEF Fail, storeVars
<1>2. LoadedOK(Log, loaded') /\ PickedOK(Log, picked')
  BY FinishedOK DEF IInv, HeldOK, Fail
<1> QED BY <1>1, <1>2 DEF IInv, HeldOK, HeldNext

(* The tracker that a completed turn leaves.                               *)
LEMMA UpdatedTrackerOK ==
  ASSUME IInv, NEW r \in Requests, pc[r] = "popped", NEW n \in Nat
  PROVE  LET s == Session(r)
             w == Updated(IF Tracked(s) THEN trackers[s] ELSE DefaultTracker,
                          Msgs(r), sent[r].msgs, turn[r].sys, n)
         IN  TrackerOK(Log, w) /\ InLog(Log, w)
<1> DEFINE s == Session(r)
           old == IF Tracked(s) THEN trackers[s] ELSE DefaultTracker
<1>1. /\ s \in Sessions /\ Msgs(r) \in Seq(Message) /\ turn[r].sys \in Systems
      /\ turn[r].msgs = Msgs(r)
  BY RequestFields DEF IInv
<1>2. sent[r] # NONE /\ sent[r] \in SentBody /\ Len(sent[r].msgs) >= Len(Msgs(r))
  BY <1>1 DEF IInv, PathOK
<1>3. sent[r].msgs \in Seq(Message)
  BY <1>2 DEF SentBody
<1>4. [o |-> Msgs(r), f |-> sent[r].msgs, sys |-> turn[r].sys] \in Log
  BY <1>1, <1>2, SentInLog
<1>5. BaseOK(Log, old)
  BY <1>1, TrackerHasBase, DefaultHasBase DEF IInv, HeldOK, TrackersOK, Tracked
<1>6. Log \in LogType
  BY LogIsTyped DEF IInv
<1> HIDE DEF old, s
<1>7. LET w == Updated(old, Msgs(r), sent[r].msgs, turn[r].sys, n)
      IN  TrackerOK(Log, w) /\ InLog(Log, w)
  BY <1>1, <1>2, <1>3, <1>4, <1>5, <1>6, UpdatedOK
<1> QED BY <1>7 DEF old, s

LEMMA SnapshotOK ==
  ASSUME NEW log, NEW t, TrackerOK(log, t), InLog(log, t), NEW n \in Nat
  PROVE  Snapshot(t, n) \in File /\ SliceOK(log, Snapshot(t, n)) /\ Snapshot(t, n).stamp = n
<1>1. t \in Tracker /\ Len(t.f) >= Len(t.o)
  BY TrackerHasBase DEF TrackerOK
<1>2. 0 \in 0..(Ttl + 1)
  BY BoundAssumption
<1>3. Snapshot(t, n) \in File
  BY <1>1, <1>2 DEF Snapshot, File, Tracker
<1> QED BY <1>1, <1>3 DEF Snapshot, SliceOK, InLog

LEMMA UpdateHeld ==
  ASSUME IInv, NEW r \in Requests, NEW n \in FrozenCounts, Update(r, n)
  PROVE  HeldNext
<1> DEFINE s == Session(r)
           w == Updated(IF Tracked(s) THEN trackers[s] ELSE DefaultTracker,
                        Msgs(r), sent[r].msgs, turn[r].sys, n)
<1>1. UNCHANGED <<disk, donor>>
  BY DEF Update
<1>2. n \in Nat
  BY BoundAssumption
<1>3. s \in Sessions
  BY RequestFields DEF IInv, Update
<1>4. TrackerOK(Log, w) /\ InLog(Log, w)
  BY <1>2, UpdatedTrackerOK DEF Update
<1>5. IF Tracked(s) THEN trackers' = [trackers EXCEPT ![s] = w] ELSE Push(s, w)
  BY DEF Update
<1>6. IF PersistDir /\ w.f # << >>
      THEN loaded' = [loaded EXCEPT ![r] = Snapshot(w, updates[s] + 1)] /\ UNCHANGED picked
      ELSE Finished(r)
  BY DEF Update
<1> HIDE DEF w
<1>7. TrackersOK(Log, trackers')
  <2>1. TrackersOK(Log, trackers)
    BY DEF IInv, HeldOK
  <2> QED BY <1>3, <1>4, <1>5, <2>1, TrackerSet, PushOK
<1>8. LoadedOK(Log, loaded') /\ PickedOK(Log, picked')
  <2>1. LoadedOK(Log, loaded) /\ PickedOK(Log, picked)
    BY DEF IInv, HeldOK
  <2>2. CASE PersistDir /\ w.f # << >>
    <3> DEFINE d == Snapshot(w, updates[s] + 1)
    <3>1. updates[s] + 1 \in Nat
      BY <1>3 DEF IInv, PathOK
    <3>2. d \in File /\ SliceOK(Log, d)
      BY <1>4, <3>1, SnapshotOK
    <3>3. loaded' = [loaded EXCEPT ![r] = d] /\ UNCHANGED picked
      BY <1>6, <2>2
    <3> HIDE DEF d
    <3> QED BY <2>1, <3>2, <3>3, LoadedSet
  <2>3. CASE ~(PersistDir /\ w.f # << >>)
    <3>1. Finished(r)
      BY <1>6, <2>3
    <3> QED BY <2>1, <3>1, FinishedOK
  <2> QED BY <2>2, <2>3
<1> QED BY <1>1, <1>7, <1>8 DEF IInv, HeldOK, HeldNext

LEMMA WriteHeld ==
  ASSUME IInv, NEW r \in Requests, Write(r)
  PROVE  HeldNext
<1>1. UNCHANGED <<trackers, donor>>
  BY DEF Write
<1>2. LoadedOK(Log, loaded') /\ PickedOK(Log, picked')
  BY FinishedOK DEF IInv, HeldOK, Write
<1>3. Session(r) \in Sessions
  BY RequestFields DEF IInv, Write
<1>4. loaded[r] \in File /\ SliceOK(Log, loaded[r])
  <2>1. loaded[r] \in File
    BY DEF IInv, WritersOK, Write
  <2> QED BY <2>1, SentinelAssumption DEF IInv, HeldOK, LoadedOK
<1>5. FilesOK(Log, disk')
  <2>1. FilesOK(Log, disk)
    BY DEF IInv, HeldOK
  <2>2. disk' = disk \/ disk' = [disk EXCEPT ![Session(r)] = loaded[r]]
    BY DEF Write
  <2> QED BY <1>3, <1>4, <2>1, <2>2 DEF FilesOK
<1> QED BY <1>1, <1>2, <1>5 DEF IInv, HeldOK, HeldNext

LEMMA CrashHeld ==
  ASSUME IInv, Crash
  PROVE  HeldNext
<1>1. TrackersOK(Log, trackers')
  BY DEF Crash, TrackersOK
<1>2. FilesOK(Log, disk')
  BY DEF Crash, IInv, HeldOK, FilesOK
<1>3. LoadedOK(Log, loaded') /\ DonorsOK(Log, donor') /\ PickedOK(Log, picked')
  BY DEF Crash, LoadedOK, DonorsOK, PickedOK
<1> QED BY <1>1, <1>2, <1>3 DEF HeldOK, HeldNext

(* A file's age changes and nothing else of it.                            *)
LEMMA AgedFile ==
  ASSUME NEW d \in File
  PROVE  /\ Aged(d) \in File
         /\ Aged(d).o = d.o /\ Aged(d).f = d.f /\ Aged(d).sys = d.sys /\ Aged(d).stamp = d.stamp
<1> DEFINE age == Least(d.age + 1, Ttl + 1)
<1>1. age \in 0..(Ttl + 1)
  BY BoundAssumption DEF File, Least
<1>2. d # NONE
  BY SentinelAssumption
<1>3. Aged(d) = [d EXCEPT !.age = age]
  BY <1>2 DEF Aged
<1> HIDE DEF age
<1> QED BY <1>1, <1>3 DEF File

LEMMA TickHeld ==
  ASSUME IInv, Tick
  PROVE  HeldNext
<1>1. UNCHANGED <<loaded, donor, picked>>
  BY DEF Tick, localVars
<1>2. TrackersOK(Log, trackers')
  <2>1. TrackersOK(Log, trackers)
    BY DEF IInv, HeldOK
  <2>2. trackers' = [s \in Sessions |-> Aged(trackers[s])]
    BY DEF Tick
  <2>3. ASSUME NEW s \in Sessions
        PROVE  Aged(trackers[s]) = NONE \/ TrackerOK(Log, Aged(trackers[s]))
    BY <2>1, AgedOK DEF TrackersOK, Aged
  <2> QED BY <2>2, <2>3 DEF TrackersOK, TrackerOK
<1>3. FilesOK(Log, disk')
  <2>1. FilesOK(Log, disk)
    BY DEF IInv, HeldOK
  <2>2. disk' = [s \in Sessions |-> Aged(disk[s])]
    BY DEF Tick
  <2>3. ASSUME NEW s \in Sessions
        PROVE  Aged(disk[s]) = NONE \/ (Aged(disk[s]) \in File /\ SliceOK(Log, Aged(disk[s])))
    <3>1. CASE disk[s] = NONE
      BY <3>1 DEF Aged
    <3>2. CASE disk[s] # NONE
      <4>1. disk[s] \in File /\ SliceOK(Log, disk[s])
        BY <2>1, <3>2 DEF FilesOK
      <4> QED BY <4>1, AgedFile DEF SliceOK, InLog
    <3> QED BY <3>1, <3>2
  <2> QED BY <2>2, <2>3 DEF FilesOK
<1> QED BY <1>1, <1>2, <1>3 DEF IInv, HeldOK, HeldNext

-----------------------------------------------------------------------------
(* Steps, seen by the request's path.                                      *)

\* The stages of the other requests, the turns and the bodies stay.
Moves(r, stages) ==
  /\ pc' \in [Requests -> Stages]
  /\ pc'[r] \in stages
  /\ \A q \in Requests \ {r} : pc'[q] = pc[q]

LEMMA SetMoves ==
  ASSUME PathOK, NEW r \in Requests, NEW stage \in Stages, pc' = [pc EXCEPT ![r] = stage]
  PROVE  Moves(r, {stage})
BY DEF PathOK, Moves

(* A request that moves on after it came in, with its turn and its body.   *)
LEMMA MoveKeepsPath ==
  ASSUME PathOK, NEW r \in Requests, pc[r] # "idle", NEW stages, Moves(r, stages),
         UNCHANGED <<turn, sent, crashes>>,
         pending' \subseteq Requests, lock' \in Requests \cup {NONE},
         updates' \in [Sessions -> Nat],
         "idle" \notin stages,
         sent[r] # NONE => stages \cap Hydrating = {},
         sent[r] = NONE => stages \cap {"inflight", "popped", "writing"} = {}
  PROVE  PathOK'
<1>1. ASSUME NEW q \in Requests
      PROVE  /\ pc'[q] # "idle" => turn[q] \in Turns
             /\ sent[q] # NONE => pc'[q] \notin Hydrating \cup {"idle"}
             /\ pc'[q] \in {"inflight", "popped", "writing"} => sent[q] # NONE
             /\ sent[q] # NONE => Len(sent[q].msgs) >= Len(turn[q].msgs)
  <2>1. CASE q = r
    BY <2>1 DEF PathOK, Moves
  <2>2. CASE q # r
    BY <2>2 DEF PathOK, Moves
  <2> QED BY <2>1, <2>2
<1> QED BY <1>1 DEF PathOK, Moves

LEMMA OptimizedType ==
  ASSUME NEW t \in Turns
  PROVE  Optimized(t) \in Seq(Message) /\ Len(Optimized(t)) = Len(t.msgs)
<1>1. t.msgs \in Seq(Message) /\ t.level \in Nat
  BY TurnFields
<1>2. Len(t.msgs) \in Nat /\ \A i \in 1..Len(t.msgs) : t.msgs[i] \in Message
  BY <1>1, LenProperties
<1>3. \A i \in 1..Len(t.msgs) : [t.msgs[i] EXCEPT !.form = t.level] \in Message
  BY <1>1, <1>2 DEF Message
<1>4. Optimized(t) \in [1..Len(t.msgs) -> Message]
  BY <1>3 DEF Optimized
<1>5. Optimized(t) \in Seq(Message)
  BY <1>2, <1>4, SeqDef
<1>6. DOMAIN Optimized(t) = 1..Len(t.msgs)
  BY DEF Optimized
<1>7. Len(Optimized(t)) \in Nat /\ DOMAIN Optimized(t) = 1..Len(Optimized(t))
  BY <1>5, LenProperties
<1> QED BY <1>2, <1>5, <1>6, <1>7

(* replay_prefix sends a body with room for every message of the client.   *)
LEMMA BodyCovers ==
  ASSUME IInv, NEW r \in Requests, pc[r] = "floor"
  PROVE  Body(r) \in SentBody /\ Len(Body(r).msgs) >= Len(turn[r].msgs)
<1> DEFINE opt == Optimized(turn[r])
<1>1. turn[r] \in Turns /\ Msgs(r) \in Seq(Message) /\ Session(r) \in Sessions
  BY RequestFields DEF IInv
<1>2. opt \in Seq(Message) /\ Len(opt) = Len(turn[r].msgs)
  BY <1>1, OptimizedType
<1>3. ConfirmedCount(Session(r)) \in Nat
  BY <1>1 DEF ConfirmedCount, Tracked, IInv, HeldOK, TrackersOK, Tracker
<1> HIDE DEF opt
<1>4. Covers(Body(r), opt)
  <2>1. CASE picked[r] = NONE
    <3>1. << >> \in Seq(Message)
      OBVIOUS
    <3>2. Body(r) = Overlay(opt, Msgs(r), << >>, << >>, FALSE, 0)
      BY <2>1 DEF Body, opt
    <3> QED BY <1>1, <1>2, <3>1, <3>2, OverlayCovers
  <2>2. CASE picked[r] # NONE
    <3>1. picked[r] \in Prefix
      BY <2>2 DEF IInv, HeldOK, PickedOK
    <3>2. picked[r].o \in Seq(Message) /\ picked[r].f \in Seq(Message)
      BY <3>1 DEF Prefix
    <3>3. (picked[r].id # 0) \in BOOLEAN
      OBVIOUS
    <3>4. Body(r) = Overlay(opt, Msgs(r), picked[r].o, picked[r].f, picked[r].id # 0,
                            ConfirmedCount(Session(r)))
      BY <2>2 DEF Body, opt
    <3> QED BY <1>1, <1>2, <1>3, <3>2, <3>3, <3>4, OverlayCovers
  <2> QED BY <2>1, <2>2
<1> QED BY <1>2, <1>4 DEF Covers

\* No step changes the turn or the body of a request that was sent.
SentKept == \A r \in Requests : sent[r] # NONE => sent'[r] = sent[r] /\ turn'[r] = turn[r]

LEMMA ArrivePath ==
  ASSUME IInv, NEW r \in Requests, NEW t \in Turns, Arrive(r, t)
  PROVE  PathOK' /\ SentKept
<1>1. PathOK /\ pc[r] = "idle" /\ sent[r] = NONE
  BY DEF IInv, PathOK, Arrive
<1>2. PICK stage \in Hydrating : pc' = [pc EXCEPT ![r] = stage]
  BY DEF Arrive, Enter, Hydrating
<1>3. stage \in Stages /\ stage \notin {"idle", "inflight", "popped", "writing"}
  BY DEF Hydrating, Stages, Open
<1>4. /\ turn' = [turn EXCEPT ![r] = t]
      /\ UNCHANGED <<pending, lock, sent, crashes, updates>>
  BY DEF Arrive
<1>5. pc' \in [Requests -> Stages] /\ turn' \in [Requests -> Turns \cup {NONE}]
  BY <1>1, <1>2, <1>3, <1>4 DEF PathOK
<1>6. ASSUME NEW q \in Requests
      PROVE  /\ pc'[q] # "idle" => turn'[q] \in Turns
             /\ sent[q] # NONE => pc'[q] \notin Hydrating \cup {"idle"}
             /\ pc'[q] \in {"inflight", "popped", "writing"} => sent[q] # NONE
             /\ sent[q] # NONE => Len(sent[q].msgs) >= Len(turn'[q].msgs)
             /\ sent[q] # NONE => turn'[q] = turn[q]
  <2>1. CASE q = r
    BY <1>1, <1>2, <1>3, <1>4, <2>1 DEF PathOK
  <2>2. CASE q # r
    BY <1>1, <1>2, <1>4, <2>2 DEF PathOK
  <2> QED BY <2>1, <2>2
<1> QED BY <1>1, <1>4, <1>5, <1>6 DEF PathOK, SentKept

LEMMA LookupPath ==
  ASSUME IInv, NEW r \in Requests, Lookup(r)
  PROVE  PathOK' /\ SentKept
<1>1. UNCHANGED <<pending, lock, pc, turn, sent, crashes, updates>>
  BY DEF Lookup, HydrateRead, HydrateInstall, AdoptScan, AdoptInstall
<1> QED BY <1>1 DEF IInv, PathOK, SentKept

LEMMA SendPath ==
  ASSUME IInv, NEW r \in Requests, Send(r)
  PROVE  PathOK' /\ SentKept
<1>1. PathOK /\ pc[r] = "floor" /\ sent[r] = NONE
  BY DEF IInv, PathOK, Send, Hydrating
<1>2. Body(r) \in SentBody /\ Len(Body(r).msgs) >= Len(turn[r].msgs)
  BY <1>1, BodyCovers
<1>3. /\ sent' = [sent EXCEPT ![r] = Body(r)] /\ pc' = [pc EXCEPT ![r] = "inflight"]
      /\ UNCHANGED <<lock, turn, crashes, updates>>
  BY DEF Send
<1>4. pending' \subseteq Requests
  BY <1>1 DEF Send, Park, PathOK
<1>5. sent' \in [Requests -> SentBody \cup {NONE}] /\ pc' \in [Requests -> Stages]
  BY <1>1, <1>2, <1>3 DEF PathOK, Stages, Open
<1>6. Body(r) # NONE
  BY <1>2, SentinelAssumption
<1>7. ASSUME NEW q \in Requests
      PROVE  /\ pc'[q] # "idle" => turn[q] \in Turns
             /\ sent'[q] # NONE => pc'[q] \notin Hydrating \cup {"idle"}
             /\ pc'[q] \in {"inflight", "popped", "writing"} => sent'[q] # NONE
             /\ sent'[q] # NONE => Len(sent'[q].msgs) >= Len(turn[q].msgs)
             /\ sent[q] # NONE => sent'[q] = sent[q]
  <2>1. CASE q = r
    BY <1>1, <1>2, <1>3, <1>6, <2>1 DEF PathOK, Hydrating
  <2>2. CASE q # r
    BY <1>1, <1>3, <2>2 DEF PathOK
  <2> QED BY <2>1, <2>2
<1> QED BY <1>1, <1>3, <1>4, <1>5, <1>7 DEF PathOK, SentKept

LEMMA EnterPath ==
  ASSUME IInv, NEW r \in Requests, Boundary(r) \/ ProbeEnd(r) \/ Select(r)
  PROVE  PathOK' /\ SentKept
<1>1. PathOK /\ pc[r] \in Hydrating /\ pc[r] # "idle" /\ sent[r] = NONE
  BY DEF IInv, PathOK, Boundary, ProbeEnd, Select, Hydrating
<1>2. PICK stage \in {"select", "floor"} : pc' = [pc EXCEPT ![r] = stage]
  BY DEF Boundary, ProbeEnd, Select, Enter
<1>3. UNCHANGED <<pending, lock, turn, sent, crashes, updates>>
  BY DEF Boundary, ProbeEnd, Select
<1>4. stage \in Stages /\ stage \notin {"idle", "inflight", "popped", "writing"}
  BY DEF Stages, Open, Hydrating
<1>5. Moves(r, {stage})
  BY <1>1, <1>2, <1>4, SetMoves
<1>6. /\ pending' \subseteq Requests /\ lock' \in Requests \cup {NONE}
      /\ updates' \in [Sessions -> Nat]
  BY <1>1, <1>3 DEF PathOK
<1>7. PathOK'
  BY <1>1, <1>3, <1>4, <1>5, <1>6, MoveKeepsPath
<1> QED BY <1>3, <1>7 DEF SentKept

LEMMA ResponsePath ==
  ASSUME IInv, NEW r \in Requests, Response(r)
  PROVE  PathOK' /\ SentKept
<1>1. /\ PathOK /\ pc[r] \in {"inflight", "popped", "writing"}
      /\ pc[r] # "idle" /\ sent[r] # NONE
  BY DEF IInv, PathOK, Response, PopPending, Fail, Update, Write
<1>2. UNCHANGED <<turn, sent, crashes>>
  BY DEF Response, PopPending, Fail, Update, Write
<1>3. PICK stage \in {"popped", "writing", "done"} : pc' = [pc EXCEPT ![r] = stage]
  BY DEF Response, PopPending, Fail, Update, Write, Finished
<1>4. stage \in Stages /\ stage \notin Hydrating \cup {"idle"}
  BY DEF Stages, Open, Hydrating
<1>5. Moves(r, {stage})
  BY <1>1, <1>3, <1>4, SetMoves
<1>6. pending' \subseteq Requests /\ lock' \in Requests \cup {NONE}
  BY <1>1 DEF Response, PopPending, Fail, Update, Write, PathOK
<1>7. updates' \in [Sessions -> Nat]
  <2>1. Session(r) \in Sessions /\ updates \in [Sessions -> Nat]
    BY <1>1, RequestFields DEF PathOK
  <2>2. UNCHANGED updates \/ updates' = [updates EXCEPT ![Session(r)] = @ + 1]
    BY DEF Response, PopPending, Fail, Update, Write
  <2> QED BY <2>1, <2>2
<1>8. PathOK'
  BY <1>1, <1>2, <1>4, <1>5, <1>6, <1>7, MoveKeepsPath
<1> QED BY <1>2, <1>8 DEF SentKept

LEMMA CrashPath ==
  ASSUME IInv, Crash
  PROVE  PathOK' /\ SentKept
<1>1. PathOK
  BY DEF IInv
<1>2. /\ pending' = {} /\ lock' = NONE /\ crashes' = crashes + 1 /\ crashes < MaxCrashes
      /\ UNCHANGED <<turn, sent, updates>>
      /\ pc' = [r \in Requests |-> IF pc[r] \in Open THEN "done" ELSE pc[r]]
  BY DEF Crash
<1>3. crashes' \in 0..MaxCrashes
  BY <1>1, <1>2, BoundAssumption DEF PathOK
<1>4. pc' \in [Requests -> Stages]
  BY <1>1, <1>2 DEF PathOK, Stages
<1>5. ASSUME NEW q \in Requests
      PROVE  /\ pc'[q] # "idle" => turn[q] \in Turns
             /\ sent[q] # NONE => pc'[q] \notin Hydrating \cup {"idle"}
             /\ pc'[q] \in {"inflight", "popped", "writing"} => sent[q] # NONE
  <2>1. CASE pc[q] \in Open
    <3>1. pc'[q] = "done" /\ pc[q] # "idle"
      BY <1>2, <2>1 DEF Open, Hydrating
    <3>2. pc'[q] \notin Hydrating \cup {"idle", "inflight", "popped", "writing"}
      BY <3>1 DEF Hydrating
    <3> QED BY <1>1, <3>1, <3>2 DEF PathOK
  <2>2. CASE pc[q] \notin Open
    BY <1>1, <1>2, <2>2 DEF PathOK
  <2> QED BY <2>1, <2>2
<1> QED BY <1>1, <1>2, <1>3, <1>4, <1>5 DEF PathOK, SentKept

LEMMA TickPath ==
  ASSUME IInv, Tick
  PROVE  PathOK' /\ SentKept
BY DEF IInv, PathOK, SentKept, Tick, localVars

-----------------------------------------------------------------------------
(* Steps, seen by the writers of files.                                    *)

(* Nobody starts or ends writing.                                          *)
LEMMA WritersUndisturbed ==
  ASSUME IInv, SentKept, UNCHANGED <<lock, updates, disk>>,
         \A q \in Requests : pc'[q] = "writing" => pc[q] = "writing" /\ loaded'[q] = loaded[q]
  PROVE  WritersOK'
<1>1. ASSUME NEW q \in Requests, pc'[q] = "writing"
      PROVE  lock' = q /\ loaded'[q] \in File /\ loaded'[q].stamp = updates'[turn'[q].session]
  <2>1. pc[q] = "writing" /\ loaded'[q] = loaded[q]
    BY <1>1
  <2>2. turn'[q] = turn[q]
    BY <2>1 DEF IInv, PathOK, SentKept
  <2> QED BY <2>1, <2>2 DEF IInv, WritersOK
<1> QED BY <1>1 DEF IInv, WritersOK

(* The only writer has the lock.                                           *)
LEMMA LockIsOfWriter ==
  ASSUME IInv, NEW r \in Requests, lock \in {NONE, r}
  PROVE  \A q \in Requests \ {r} : pc[q] # "writing"
BY BoundAssumption DEF IInv, WritersOK

LEMMA UpdateWriters ==
  ASSUME IInv, NEW r \in Requests, NEW n \in FrozenCounts, Update(r, n), PathOK'
  PROVE  WritersOK'
<1> DEFINE s == Session(r)
           w == Updated(IF Tracked(s) THEN trackers[s] ELSE DefaultTracker,
                        Msgs(r), sent[r].msgs, turn[r].sys, n)
           d == Snapshot(w, updates[s] + 1)
<1>1. s \in Sessions /\ turn[r].session = s /\ updates \in [Sessions -> Nat]
  BY RequestFields DEF IInv, Update, PathOK
<1>2. n \in Nat /\ pc[r] = "popped"
  BY BoundAssumption DEF Update
<1>3. TrackerOK(Log, w) /\ InLog(Log, w)
  BY <1>2, UpdatedTrackerOK
<1>4. /\ updates' = [updates EXCEPT ![s] = @ + 1]
      /\ UNCHANGED <<disk, turn>>
      /\ IF PersistDir /\ w.f # << >>
         THEN /\ lock' = r /\ pc' = [pc EXCEPT ![r] = "writing"]
              /\ loaded' = [loaded EXCEPT ![r] = d]
         ELSE pc' = [pc EXCEPT ![r] = "done"]
  BY DEF Update, Finished
<1> HIDE DEF w
<1>5. d \in File /\ d.stamp = updates[s] + 1
  <2>1. updates[s] + 1 \in Nat
    BY <1>1
  <2> QED BY <1>3, <2>1, SnapshotOK
<1> HIDE DEF d
<1>6. pc \in [Requests -> Stages] /\ loaded \in [Requests -> File \cup {NONE, UNREAD}]
  BY DEF IInv, PathOK, HeldOK, LoadedOK
<1>7. \A q \in Requests \ {r} : pc'[q] # "writing"
  <2>1. \A q \in Requests \ {r} : pc[q] # "writing"
    BY LockIsOfWriter DEF Update, LockFree
  <2> QED BY <1>4, <1>6, <2>1
<1>8. updates'[s] = updates[s] + 1
  BY <1>1, <1>4
<1>9. ASSUME NEW q \in Requests, pc'[q] = "writing"
      PROVE  lock' = q /\ loaded'[q] \in File /\ loaded'[q].stamp = updates'[turn'[q].session]
  <2>1. q = r
    BY <1>7, <1>9
  <2>2. PersistDir /\ w.f # << >>
    BY <1>4, <1>6, <1>9, <2>1
  <2>3. lock' = r /\ loaded'[r] = d
    BY <1>4, <1>6, <2>2
  <2> QED BY <1>1, <1>4, <1>5, <1>8, <2>1, <2>3
<1>10. ASSUME NEW x \in Sessions, disk'[x] # NONE
       PROVE  disk'[x].stamp <= updates'[x]
  <2>1. disk[x] \in File /\ disk[x].stamp <= updates[x]
    BY <1>4, <1>10 DEF IInv, WritersOK, HeldOK, FilesOK
  <2>2. disk[x].stamp \in Nat /\ updates[x] \in Nat /\ updates'[x] \in {updates[x], updates[x] + 1}
    BY <1>1, <1>4, <2>1 DEF File
  <2> QED BY <1>4, <2>1, <2>2
<1> QED BY <1>9, <1>10 DEF WritersOK

LEMMA WriteWriters ==
  ASSUME IInv, NEW r \in Requests, Write(r)
  PROVE  WritersOK'
<1>1. /\ pc[r] = "writing" /\ lock = r /\ loaded[r] \in File
      /\ loaded[r].stamp = updates[turn[r].session]
  BY DEF IInv, WritersOK, Write
<1>2. Session(r) \in Sessions /\ turn[r].session = Session(r)
  BY <1>1, RequestFields DEF IInv
<1>3. /\ pc' = [pc EXCEPT ![r] = "done"] /\ UNCHANGED updates
      /\ disk' = disk \/ disk' = [disk EXCEPT ![Session(r)] = loaded[r]]
  BY DEF Write, Finished
<1>4. /\ pc \in [Requests -> Stages] /\ updates \in [Sessions -> Nat]
      /\ disk \in [Sessions -> File \cup {NONE}]
  BY DEF IInv, PathOK, HeldOK, FilesOK
<1>5. \A q \in Requests : pc'[q] # "writing"
  <2>1. \A q \in Requests \ {r} : pc[q] # "writing"
    BY <1>1, LockIsOfWriter
  <2> QED BY <1>3, <1>4, <2>1
<1>6. ASSUME NEW x \in Sessions, disk'[x] # NONE
      PROVE  disk'[x].stamp <= updates'[x]
  <2>1. CASE disk'[x] = disk[x]
    BY <1>3, <1>6, <2>1 DEF IInv, WritersOK
  <2>2. CASE disk'[x] # disk[x]
    <3>1. x = Session(r) /\ disk'[x] = loaded[r]
      BY <1>3, <1>4, <2>2
    <3> QED BY <1>1, <1>2, <1>3, <1>4, <3>1
  <2> QED BY <2>1, <2>2
<1> QED BY <1>5, <1>6 DEF WritersOK

LEMMA CrashWriters ==
  ASSUME IInv, Crash
  PROVE  WritersOK'
<1>1. \A q \in Requests : pc'[q] # "writing"
  BY DEF Crash, Open
<1>2. \A s \in Sessions : disk'[s] # NONE => disk'[s] = disk[s]
  BY DEF Crash
<1> QED BY <1>1, <1>2 DEF IInv, WritersOK, Crash

LEMMA TickWriters ==
  ASSUME IInv, Tick
  PROVE  WritersOK'
<1>1. UNCHANGED <<pc, lock, turn, loaded, updates>>
  BY DEF Tick, localVars
<1>2. ASSUME NEW s \in Sessions, disk'[s] # NONE
      PROVE  disk'[s].stamp <= updates'[s]
  <2>1. disk'[s] = Aged(disk[s])
    BY DEF Tick
  <2>2. disk[s] # NONE
    BY <1>2, <2>1 DEF Aged
  <2>3. disk[s] \in File
    BY <2>2 DEF IInv, HeldOK, FilesOK
  <2> QED BY <1>1, <2>1, <2>2, <2>3, AgedFile DEF IInv, WritersOK
<1> QED BY <1>1, <1>2 DEF IInv, WritersOK

(* Every other step leaves the writers alone.                              *)
LEMMA OtherWriters ==
  ASSUME IInv, SentKept, NEW r \in Requests,
         \/ \E t \in Turns : Arrive(r, t)
         \/ Lookup(r) \/ Path(r) \/ PopPending(r) \/ Fail(r)
  PROVE  WritersOK'
<1>1. UNCHANGED <<lock, updates, disk>>
  BY DEF Arrive, Lookup, HydrateRead, HydrateInstall, AdoptScan, AdoptInstall,
         Path, Boundary, ProbeEnd, Select, Send, PopPending, Fail, storeVars
<1>2. pc[r] # "writing"
  BY DEF Arrive, Lookup, HydrateRead, HydrateInstall, AdoptScan, AdoptInstall,
         Path, Boundary, ProbeEnd, Select, Send, PopPending, Fail, Hydrating
<1>3. pc' = pc \/ \E x \in Stages \ {"writing"} : pc' = [pc EXCEPT ![r] = x]
  BY DEF Arrive, Lookup, HydrateRead, HydrateInstall, AdoptScan, AdoptInstall, Path, Boundary,
         ProbeEnd, Select, Send, PopPending, Fail, Enter, Finished, Stages, Open, Hydrating
<1>4. loaded' = loaded \/ \E x : loaded' = [loaded EXCEPT ![r] = x]
  BY DEF Arrive, Lookup, HydrateRead, HydrateInstall, AdoptScan, AdoptInstall,
         Path, Boundary, ProbeEnd, Select, Send, PopPending, Fail, Enter, Finished
<1>5. pc \in [Requests -> Stages] /\ loaded \in [Requests -> File \cup {NONE, UNREAD}]
  BY DEF IInv, PathOK, HeldOK, LoadedOK
<1>6. \A q \in Requests : pc'[q] = "writing" => pc[q] = "writing" /\ loaded'[q] = loaded[q]
  BY <1>2, <1>3, <1>4, <1>5
<1> QED BY <1>1, <1>6, WritersUndisturbed

-----------------------------------------------------------------------------
(* The inductive invariant.                                                *)

LEMMA InitInv == Init => IInv
<1> SUFFICES ASSUME Init PROVE IInv
  OBVIOUS
<1>1. HeldOK(Log, trackers, disk, loaded, donor, picked)
  BY DEF Init, HeldOK, TrackersOK, FilesOK, LoadedOK, DonorsOK, PickedOK
<1>2. PathOK
  BY BoundAssumption DEF Init, PathOK, Stages, Hydrating
<1>3. WritersOK
  BY DEF Init, WritersOK
<1> QED BY <1>1, <1>2, <1>3 DEF IInv

LEMMA NextInv == IInv /\ [Next]_vars => IInv'
<1> SUFFICES ASSUME IInv, [Next]_vars PROVE IInv'
  OBVIOUS
<1> USE DEF HeldNext
<1>1. ASSUME HeldNext, PathOK', SentKept, WritersOK'
      PROVE  IInv'
  <2>1. Log \subseteq Log'
    BY <1>1, LogGrows DEF SentKept
  <2>2. HeldOK(Log', trackers', disk', loaded', donor', picked')
    BY <1>1, <2>1, HeldGrows
  <2> QED BY <1>1, <2>2 DEF IInv
<1> HIDE DEF HeldNext
<1>2. ASSUME NEW r \in Requests, NEW t \in Turns, Arrive(r, t)
      PROVE  IInv'
  BY <1>1, <1>2, ArriveHeld, ArrivePath, OtherWriters
<1>3. ASSUME NEW r \in Requests, Lookup(r)
      PROVE  IInv'
  <2>1. HeldNext
    BY <1>3, HydrateReadHeld, HydrateInstallHeld, AdoptScanHeld, AdoptInstallHeld DEF Lookup
  <2> QED BY <1>1, <1>3, <2>1, LookupPath, OtherWriters
<1>4. ASSUME NEW r \in Requests, Path(r)
      PROVE  IInv'
  <2>1. HeldNext
    BY <1>4, BoundaryHeld, ProbeEndHeld, SelectHeld, SendHeld DEF Path
  <2>2. PathOK' /\ SentKept
    BY <1>4, EnterPath, SendPath DEF Path
  <2> QED BY <1>1, <1>4, <2>1, <2>2, OtherWriters
<1>5. ASSUME NEW r \in Requests, Response(r)
      PROVE  IInv'
  <2>1. HeldNext
    BY <1>5, PopPendingHeld, FailHeld, UpdateHeld, WriteHeld DEF Response
  <2>2. PathOK' /\ SentKept
    BY <1>5, ResponsePath
  <2>3. WritersOK'
    BY <1>5, <2>2, OtherWriters, UpdateWriters, WriteWriters DEF Response
  <2> QED BY <1>1, <2>1, <2>2, <2>3
<1>6. CASE Crash
  BY <1>1, <1>6, CrashHeld, CrashPath, CrashWriters
<1>7. CASE Tick
  BY <1>1, <1>7, TickHeld, TickPath, TickWriters
<1>8. CASE UNCHANGED vars
  <2>1. /\ UNCHANGED <<trackers, disk, loaded, donor, picked>>
        /\ UNCHANGED <<pending, lock, pc, turn, sent, crashes, updates>>
    BY <1>8 DEF vars, storeVars, localVars
  <2>2. HeldNext
    BY <2>1 DEF IInv, HeldNext
  <2>3. PathOK' /\ SentKept /\ WritersOK'
    BY <2>1 DEF IInv, PathOK, SentKept, WritersOK
  <2> QED BY <1>1, <2>2, <2>3
<1> QED BY <1>2, <1>3, <1>4, <1>5, <1>6, <1>7, <1>8 DEF Next

LEMMA InvHolds == Spec => []IInv
BY InitInv, NextInv, PTL DEF Spec

-----------------------------------------------------------------------------
(* What holds of every behaviour.                                          *)

(* Types: wherever a tracker, a file or a donor comes from, its slices are *)
(* sequences of messages and its ages and counts stay in their ranges.     *)
THEOREM TypeCorrect == Spec => []TypeOK
<1>1. IInv => TypeOK
  BY DEF IInv, HeldOK, TrackersOK, FilesOK, LoadedOK, DonorsOK, PickedOK, PathOK, TypeOK
<1> QED BY <1>1, InvHolds, PTL

(* Replay repeats only what went upstream: every prefix in a tracker, a    *)
(* file, a donor slice or a selection is a beginning of one request's      *)
(* originals and body under that request's system, whatever completed out  *)
(* of order, was displaced, adopted, cut or brought back after a restart   *)
(* (update_from_response, hydrate, install_adopted, previous_turn_for).    *)
THEOREM StoredWasSent == Spec => []StoredPairWasSent
<1>1. ASSUME IInv
      PROVE  StoredPairWasSent
  <2>1. ASSUME NEW s \in Sessions, Tracked(s), NEW c \in HeldPrefixes(trackers[s]), c.f # << >>
        PROVE  WasSent(c.o, c.f, c.sys)
    <3>1. TrackerOK(Log, trackers[s])
      BY <1>1, <2>1 DEF IInv, HeldOK, TrackersOK, Tracked
    <3> QED BY <2>1, <3>1, WasSentIsInLog DEF TrackerOK, PrefixOK
  <2>2. ASSUME NEW s \in Sessions, disk[s] # NONE
        PROVE  WasSent(disk[s].o, disk[s].f, disk[s].sys)
    BY <1>1, <2>2, WasSentIsInLog DEF IInv, HeldOK, FilesOK, SliceOK
  <2>3. ASSUME NEW r \in Requests
        PROVE  /\ loaded[r] \notin {NONE, UNREAD} => WasSent(loaded[r].o, loaded[r].f, loaded[r].sys)
               /\ donor[r] \notin {NONE, UNREAD} => WasSent(donor[r].o, donor[r].f, donor[r].sys)
               /\ picked[r] # NONE => WasSent(picked[r].o, picked[r].f, picked[r].sys)
    BY <1>1, WasSentIsInLog DEF IInv, HeldOK, LoadedOK, DonorsOK, PickedOK, SliceOK
  <2> QED BY <2>1, <2>2, <2>3 DEF StoredPairWasSent
<1> QED BY <1>1, InvHolds, PTL

(* A chain id names one stream of a lane: displacement, two adoptions at   *)
(* once, invalidation and hydration never give out an id that is in use    *)
(* (update_from_response, install_adopted, hydrate).                       *)
THEOREM ChainIdsStayDistinct == Spec => []ChainIdsDistinct
<1>1. ASSUME IInv
      PROVE  ChainIdsDistinct
  BY <1>1 DEF IInv, HeldOK, TrackersOK, TrackerOK, IdsOK, ChainIdsDistinct, Tracked
<1> QED BY <1>1, InvHolds, PTL

(* ReplaySkip::ForwardedCountMismatch is a net that never catches: a       *)
(* forwarded slice covers at least its originals, because the alignment    *)
(* covers no more messages than the stored prefix has and both slices lose *)
(* the same trailing reminders (overlay_cached_prefix_shaped,              *)
(* update_from_response, adoptable_len).                                   *)
THEOREM ForwardedCovers == Spec => []ForwardedCoversOriginals
<1>1. ASSUME IInv
      PROVE  ForwardedCoversOriginals
  BY <1>1 DEF IInv, HeldOK, TrackersOK, TrackerOK, PrefixOK, FilesOK, SliceOK,
              ForwardedCoversOriginals, Tracked
<1> QED BY <1>1, InvHolds, PTL

(* A lane's file is never replaced by that of an older turn: whoever       *)
(* writes has held persist_lock since the update it writes (complete,      *)
(* persist).                                                               *)
THEOREM FilesMoveForward == Spec => DiskMovesForward
<1> DEFINE A == \A s \in Sessions :
                  disk[s] # NONE /\ disk'[s] # NONE => disk'[s].stamp >= disk[s].stamp
<1>1. ASSUME IInv, [Next]_vars
      PROVE  A
  <2> SUFFICES ASSUME NEW s \in Sessions, disk[s] # NONE, disk'[s] # NONE
               PROVE  disk'[s].stamp >= disk[s].stamp
    OBVIOUS
  <2>1. /\ disk \in [Sessions -> File \cup {NONE}] /\ disk[s] \in File
        /\ disk[s].stamp <= updates[s] /\ updates \in [Sessions -> Nat]
    BY <1>1 DEF IInv, HeldOK, FilesOK, PathOK, WritersOK
  <2>2. disk[s].stamp \in Nat
    BY <2>1 DEF File
  <2>3. CASE disk'[s] = disk[s]
    BY <2>2, <2>3
  <2>4. ASSUME NEW r \in Requests, Write(r)
        PROVE  disk'[s].stamp >= disk[s].stamp
    <3>1. /\ loaded[r] \in File /\ loaded[r].stamp = updates[Session(r)]
          /\ Session(r) \in Sessions
      BY <1>1, <2>4, RequestFields DEF IInv, WritersOK, Write, Session
    <3>2. disk'[s] = disk[s] \/ (s = Session(r) /\ disk'[s] = loaded[r])
      BY <2>1, <2>4, <3>1 DEF Write
    <3> QED BY <2>1, <2>2, <3>1, <3>2
  <2>5. CASE Tick
    <3>1. disk'[s] = Aged(disk[s])
      BY <2>5 DEF Tick
    <3> QED BY <2>1, <2>2, <3>1, AgedFile
  <2>6. CASE Crash
    BY <2>2, <2>6 DEF Crash
  <2>7. ASSUME NEW r \in Requests,
               (\E t \in Turns : Arrive(r, t)) \/ Lookup(r) \/ Path(r) \/ Response(r), ~Write(r)
        PROVE  disk' = disk
    BY <2>7 DEF Arrive, Lookup, HydrateRead, HydrateInstall, AdoptScan, AdoptInstall, Path, Boundary,
                ProbeEnd, Select, Send, Response, PopPending, Fail, Update, storeVars
  <2>8. CASE UNCHANGED vars
    BY <2>2, <2>8 DEF vars, storeVars
  <2> QED BY <1>1, <2>3, <2>4, <2>5, <2>6, <2>7, <2>8 DEF Next
<1>2. IInv /\ [Next]_vars => [A]_vars
  BY <1>1
<1> HIDE DEF A
<1>3. Spec => [][A]_vars
  BY <1>2, InvHolds, PTL DEF Spec
<1> QED BY <1>3 DEF A, DiskMovesForward

=============================================================================
