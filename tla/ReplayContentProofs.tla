------------------------- MODULE ReplayContentProofs -------------------------
(***************************************************************************)
(* TLAPS proofs about what a replayed body says, and about the budget of   *)
(* the alternates.  Where a theorem has a hypothesis about the sessions or *)
(* the turns a client may send, an instance of MCReplayStore shows that it *)
(* is needed.                                                              *)
(***************************************************************************)
EXTENDS ReplayStoreProofs, FiniteSetTheorems

\* No turn lacks, or has replaced, scaffolding that another turn has in its
\* place: a recorded prefix that aligns with a turn repeats its beginning.
\* Scaffolding in the same place in every turn is allowed, and so are trailing
\* reminders that come and go.
NothingWithdrawn ==
  \A t, u \in Turns : \A n \in 1..ReplayableLen(t.msgs) :
    AlignOver(Front(t.msgs, n), u.msgs) # Unaligned => MatchesPrefix(Front(t.msgs, n), u.msgs)

\* The client itself puts no system message where the provider rejects it.
LegalTurns == \A t \in Turns : ~IllegalSystemPosition(t.msgs)

-----------------------------------------------------------------------------
(* Two message lists that say the same, byte for byte or not.              *)

Same(a, b) == Len(a) = Len(b) /\ \A i \in 1..Len(b) : Canon(a[i]) = Canon(b[i])

LEMMA SameRoleAndText ==
  ASSUME NEW a, NEW b, Canon(a) = Canon(b)
  PROVE  a.role = b.role /\ a.text = b.text
<1>1. Canon(a).role = Canon(b).role /\ Canon(a).text = Canon(b).text
  OBVIOUS
<1> QED BY <1>1 DEF Canon

(* The conversation is what is said, wherever the bytes come from.         *)
LEMMA SameConversation ==
  ASSUME NEW a \in Seq(Message), NEW b \in Seq(Message), Same(a, b)
  PROVE  Conversation(a) = Conversation(b)
<1> DEFINE A == {i \in 1..Len(a) : a[i].role # "system" /\ a[i].text # Reminder}
           B == {i \in 1..Len(b) : b[i].role # "system" /\ b[i].text # Reminder}
           rank(i) == Cardinality({j \in A : j <= i})
<1>1. Len(a) = Len(b) /\ \A i \in 1..Len(b) : Canon(a[i]) = Canon(b[i])
  BY DEF Same
<1>2. \A i \in 1..Len(b) : a[i].role = b[i].role /\ a[i].text = b[i].text
  BY <1>1, SameRoleAndText
<1>3. A = B
  BY <1>1, <1>2
<1>4. \A i \in A : Canon(a[i]) = Canon(b[i])
  BY <1>1
<1>5. Conversation(a) = {<<Cardinality({j \in A : j <= i}), Canon(a[i])>> : i \in A}
  BY DEF Conversation
<1>6. Conversation(b) = {<<Cardinality({j \in B : j <= i}), Canon(b[i])>> : i \in B}
  BY DEF Conversation
<1> HIDE DEF A, B
<1> DEFINE place == [i \in A |-> rank(i)]
<1>7. Conversation(a) = {<<place[i], Canon(a[i])>> : i \in A}
  BY <1>5, Zenon
<1>8. Conversation(b) = {<<place[i], Canon(b[i])>> : i \in A}
  BY <1>3, <1>6, Zenon
<1> HIDE DEF place
<1> QED BY <1>4, <1>7, <1>8

(* first_illegal_system_position reads roles and texts only.               *)
LEMMA SameLegality ==
  ASSUME NEW a \in Seq(Message), NEW b \in Seq(Message), Same(a, b), IllegalSystemPosition(a)
  PROVE  IllegalSystemPosition(b)
<1>1. Len(a) = Len(b) /\ Len(b) \in Nat /\ \A i \in 1..Len(b) : Canon(a[i]) = Canon(b[i])
  BY LenProperties DEF Same
<1>2. \A i \in 1..Len(b) : a[i].role = b[i].role /\ a[i].text = b[i].text
  BY <1>1, SameRoleAndText
<1>3. PICK i \in 1..Len(a) :
        /\ a[i].role = "system" /\ ~EmptyCanonical(a[i])
        /\ \/ i = 1
           \/ a[i - 1].role = "system"
           \/ a[i - 1].role = "assistant" /\ a[i - 1].text \notin ServerToolTexts
  BY DEF IllegalSystemPosition
<1>4. i \in 1..Len(b) /\ (i # 1 => i - 1 \in 1..Len(b))
  BY <1>1
<1>5. b[i].role = "system" /\ ~EmptyCanonical(b[i])
  BY <1>2, <1>3, <1>4 DEF EmptyCanonical
<1>6. \/ i = 1
      \/ b[i - 1].role = "system"
      \/ b[i - 1].role = "assistant" /\ b[i - 1].text \notin ServerToolTexts
  BY <1>2, <1>3, <1>4
<1> QED BY <1>4, <1>5, <1>6 DEF IllegalSystemPosition

-----------------------------------------------------------------------------
(* The splice says what the turn says.                                     *)

(* canonical_agreement_len: everything up to there agrees.                 *)
LEMMA AgreementLenAgrees ==
  ASSUME NEW s \in Seq(Message), NEW cur \in Seq(Message)
  PROVE  \A i \in 1..AgreementLen(s, cur) : Canon(s[i]) = Canon(cur[i])
<1> DEFINE agreeing == {k \in 0..Least(Len(s), Len(cur)) :
                          \A i \in 1..k : Canon(s[i]) = Canon(cur[i])}
<1>1. Len(s) \in Nat /\ Len(cur) \in Nat
  BY LenProperties
<1>2. Least(Len(s), Len(cur)) \in Nat
  BY <1>1 DEF Least
<1> DEFINE m == Least(Len(s), Len(cur))
<1> HIDE DEF m
<1>3. agreeing \in SUBSET (0..m) /\ m \in Nat
  BY <1>2 DEF m
<1>4. 0 \in agreeing
  BY <1>2
<1>5. AgreementLen(s, cur) = CHOOSE k \in agreeing : \A j \in agreeing : j <= k
  BY DEF AgreementLen
<1>6. \A k \in agreeing : \A i \in 1..k : Canon(s[i]) = Canon(cur[i])
  OBVIOUS
<1> HIDE DEF agreeing
<1>7. \E k \in agreeing : \A j \in agreeing : j <= k
  <2>1. agreeing \in SUBSET Nat /\ agreeing # {} /\ \A n \in agreeing : n <= m
    BY <1>3, <1>4
  <2> QED BY <1>3, <2>1, GreatestNatural
<1> QED BY <1>5, <1>6, <1>7

LEMMA RestAt ==
  ASSUME NEW s \in Seq(Message), NEW k \in 0..Len(s)
  PROVE  \A i \in 1..(Len(s) - k) : Rest(s, k)[i] = s[k + i]
<1>1. \A i \in (k + 1)..Len(s) : s[i] \in Message
  BY LenProperties
<1>2. Len(s) \in Nat
  BY LenProperties
<1> QED BY <1>1, <1>2, SubSeqProperties DEF Rest

(* The stored messages up to a place where they agree with the turn, and   *)
(* the turn's own output from there.                                       *)
LEMMA SpliceSame ==
  ASSUME NEW pf \in Seq(Message), NEW opt \in Seq(Message), NEW cur \in Seq(Message),
         Same(opt, cur), NEW k \in 0..Len(pf), k <= Len(opt),
         \A i \in 1..k : Canon(pf[i]) = Canon(cur[i])
  PROVE  /\ Front(pf, k) \o Rest(opt, k) \in Seq(Message)
         /\ Same(Front(pf, k) \o Rest(opt, k), cur)
<1> DEFINE front == Front(pf, k)
           rest == Rest(opt, k)
           both == front \o rest
<1>1. Len(opt) \in Nat /\ Len(pf) \in Nat /\ Len(cur) = Len(opt) /\ k \in 0..Len(opt)
  BY LenProperties DEF Same
<1>2. front \in Seq(Message) /\ Len(front) = k /\ \A i \in 1..k : front[i] = pf[i]
  BY FrontProperties
<1>3. /\ rest \in Seq(Message) /\ Len(rest) = Len(opt) - k
      /\ \A i \in 1..(Len(opt) - k) : rest[i] = opt[k + i]
  BY <1>1, RestProperties, RestAt
<1> HIDE DEF front, rest
<1>4. /\ both \in Seq(Message) /\ Len(both) = Len(opt)
      /\ \A i \in 1..Len(opt) : both[i] = IF i <= k THEN front[i] ELSE rest[i - k]
  BY <1>1, <1>2, <1>3, ConcatProperties
<1> HIDE DEF both
<1>5. ASSUME NEW i \in 1..Len(cur)
      PROVE  Canon(both[i]) = Canon(cur[i])
  <2>1. CASE i <= k
    <3>1. i \in 1..k /\ both[i] = pf[i]
      BY <1>1, <1>2, <1>4, <2>1
    <3> QED BY <3>1
  <2>2. CASE ~(i <= k)
    <3>1. i - k \in 1..(Len(opt) - k) /\ k + (i - k) = i
      BY <1>1, <2>2
    <3>2. both[i] = opt[i]
      BY <1>1, <1>3, <1>4, <2>2, <3>1
    <3>3. Canon(opt[i]) = Canon(cur[i])
      BY DEF Same
    <3> QED BY <3>2, <3>3
  <2> QED BY <2>1, <2>2
<1> QED BY <1>1, <1>4, <1>5 DEF both, Same, front, rest

\* A body that says what the turn says, and that the net let through if the
\* turn itself is legal.
Faithful(b, cur) ==
  /\ b \in SentBody
  /\ Same(b.msgs, cur)
  /\ ~IllegalSystemPosition(cur) => b.skip # "system_adjacency_broken"

LEMMA DeclineFaithful ==
  ASSUME NEW opt \in Seq(Message), NEW cur, Same(opt, cur),
         NEW reason \in Skips \ {"system_adjacency_broken"}
  PROVE  Faithful(Decline(opt, reason), cur)
BY DEF Faithful, Decline, SentBody

(* split_inflated_replay_at_floor cuts at a place where both agree.        *)
LEMMA SplitSame ==
  ASSUME NEW spliced \in Seq(Message), NEW pf \in Seq(Message), NEW opt \in Seq(Message),
         NEW cur \in Seq(Message), Same(opt, cur), Same(spliced, cur),
         NEW head \in 0..Len(pf), \A i \in 1..head : Canon(pf[i]) = Canon(cur[i]),
         NEW floor \in Nat, NEW shifted \in BOOLEAN
  PROVE  LET x == SplitAtFloor(spliced, pf, opt, head, floor, shifted)
         IN  x.kind # "fresh" => x.msgs \in Seq(Message) /\ Same(x.msgs, cur)
<1> DEFINE at == Least(floor, Len(opt))
           x == SplitAtFloor(spliced, pf, opt, head, floor, shifted)
<1>1. Len(opt) \in Nat /\ Len(pf) \in Nat
  BY LenProperties
<1>2. CASE floor < head
  <2>1. at \in 0..Len(pf) /\ at <= Len(opt) /\ at \in 0..head
    BY <1>1, <1>2 DEF Least
  <2> HIDE DEF at
  <2>2. \A i \in 1..at : Canon(pf[i]) = Canon(cur[i])
    BY <1>1, <2>1
  <2> DEFINE both == Front(pf, at) \o Rest(opt, at)
  <2>3. both \in Seq(Message) /\ Same(both, cur)
    BY <2>1, <2>2, SpliceSame
  <2> HIDE DEF both
  <2>4. \/ x = [kind |-> "whole", msgs |-> spliced]
        \/ x.kind = "fresh"
        \/ x = [kind |-> "split", msgs |-> both]
    BY DEF SplitAtFloor, Fresh, both, at
  <2> QED BY <2>3, <2>4
<1>3. CASE floor >= head
  BY <1>3 DEF SplitAtFloor
<1> QED BY <1>2, <1>3

LEMMA CheckedFaithful ==
  ASSUME NEW split, NEW opt \in Seq(Message), NEW cur \in Seq(Message), Same(opt, cur),
         NEW reason \in Skips \ {"system_adjacency_broken"},
         split.kind # "fresh" => split.msgs \in Seq(Message) /\ Same(split.msgs, cur)
  PROVE  Faithful(Checked(split, opt, reason), cur)
<1>1. CASE split.kind = "fresh"
  BY <1>1, DeclineFaithful DEF Checked, Skips
<1>2. CASE split.kind # "fresh" /\ IllegalSystemPosition(split.msgs)
  <2>1. IllegalSystemPosition(cur)
    BY <1>2, SameLegality
  <2> QED BY <1>2, <2>1 DEF Checked, Decline, Faithful, SentBody, Skips
<1>3. CASE split.kind # "fresh" /\ ~IllegalSystemPosition(split.msgs)
  BY <1>3 DEF Checked, Faithful, SentBody
<1> QED BY <1>1, <1>2, <1>3

(* The agreeing run of a prefix the turn diverges from.                    *)
LEMMA OverlayDivergedFaithful ==
  ASSUME NEW opt \in Seq(Message), NEW cur \in Seq(Message), Same(opt, cur),
         NEW po \in Seq(Message), NEW pf \in Seq(Message), Same(pf, po),
         NEW continues \in BOOLEAN, NEW confirmed \in Nat
  PROVE  Faithful(OverlayDiverged(opt, cur, po, pf, continues, confirmed), cur)
<1> DEFINE upto == IF continues
                   THEN Least(AgreementLen(po, cur), Least(Len(pf), Len(opt)))
                   ELSE 0
           spliced == Front(pf, upto) \o Rest(opt, upto)
           floor == Least(confirmed, upto)
           split == SplitAtFloor(spliced, pf, opt, upto, floor, Len(pf) > Len(po))
           body == Checked(split, opt, "prefix_content_diverged")
           over == OverlayDiverged(opt, cur, po, pf, continues, confirmed)
<1>1. Len(opt) \in Nat /\ Len(pf) \in Nat /\ Len(po) = Len(pf)
  BY LenProperties DEF Same
<1>2. AgreementLen(po, cur) \in Nat
  BY AgreementLenType
<1>3. /\ upto \in 0..Len(pf) /\ upto <= Len(opt)
      /\ upto = 0 \/ upto <= AgreementLen(po, cur)
  BY <1>1, <1>2 DEF Least
<1>4. \/ over = Decline(opt, "shorter_than_stored_prefix")
      \/ over = Decline(opt, "optimized_shorter_than_prefix")
      \/ over = Decline(opt, "prefix_content_diverged")
      \/ over = body
  BY DEF OverlayDiverged
<1> HIDE DEF upto
<1>5. ASSUME NEW i \in 1..upto
      PROVE  Canon(pf[i]) = Canon(cur[i])
  <2>1. i \in 1..AgreementLen(po, cur) /\ i \in 1..Len(po)
    BY <1>1, <1>2, <1>3
  <2>2. Canon(po[i]) = Canon(cur[i])
    BY <2>1, AgreementLenAgrees
  <2> QED BY <2>1, <2>2 DEF Same
<1>6. spliced \in Seq(Message) /\ Same(spliced, cur)
  BY <1>3, <1>5, SpliceSame
<1>7. floor \in Nat /\ (Len(pf) > Len(po)) \in BOOLEAN
  BY <1>3 DEF Least
<1> HIDE DEF spliced, floor
<1>8. split.kind # "fresh" => split.msgs \in Seq(Message) /\ Same(split.msgs, cur)
  BY <1>3, <1>5, <1>6, <1>7, SplitSame
<1> HIDE DEF split
<1>9. Faithful(body, cur)
  BY <1>8, CheckedFaithful DEF Skips
<1> HIDE DEF body, over
<1>10. Faithful(over, cur)
  BY <1>4, <1>9, DeclineFaithful DEF Skips
<1> QED BY <1>10 DEF over

(* A stored pair that says twice the same, laid over a turn it aligns with *)
(* only if it repeats its beginning: the body says what the turn says.     *)
LEMMA OverlayFaithful ==
  ASSUME NEW opt \in Seq(Message), NEW cur \in Seq(Message), Same(opt, cur),
         NEW po \in Seq(Message), NEW pf \in Seq(Message),
         po # << >> /\ pf # << >> =>
           /\ Same(pf, po)
           /\ AlignOver(po, cur) # Unaligned => MatchesPrefix(po, cur),
         NEW continues \in BOOLEAN, NEW confirmed \in Nat
  PROVE  Faithful(Overlay(opt, cur, po, pf, continues, confirmed), cur)
<1> DEFINE consumed == AlignOver(po, cur)
           spliced == pf \o Rest(opt, consumed)
           floor == Least(confirmed, Len(pf))
           split == SplitAtFloor(spliced, pf, opt, Len(pf), floor, Len(pf) > Len(po))
           body == Checked(split, opt, "none")
           over == Overlay(opt, cur, po, pf, continues, confirmed)
<1>1. Len(opt) \in Nat /\ Len(pf) \in Nat /\ Len(po) \in Nat
  BY LenProperties
<1>2. \/ over = Decline(opt, "no_previous_turn")
      \/ over = Decline(opt, "forwarded_count_mismatch")
      \/ over = Decline(opt, "optimized_shorter_than_originals")
      \/ over = Decline(opt, "optimized_shorter_than_prefix")
      \/ /\ po # << >> /\ pf # << >>
         /\ over = OverlayDiverged(opt, cur, po, pf, continues, confirmed)
      \/ /\ po # << >> /\ pf # << >> /\ consumed # Unaligned
         /\ consumed \in 0..Len(opt) /\ over = body
  BY DEF Overlay
<1>3. CASE /\ po # << >> /\ pf # << >> /\ consumed # Unaligned
           /\ consumed \in 0..Len(opt) /\ over = body
  <2>1. Same(pf, po) /\ MatchesPrefix(po, cur)
    BY <1>3
  <2>2. consumed = Len(pf) /\ Len(pf) = Len(po)
    BY <2>1, AlignExact DEF Same
  <2>3. \A i \in 1..Len(pf) : Canon(pf[i]) = Canon(cur[i])
    BY <2>1, <2>2 DEF Same, MatchesPrefix
  <2>4. Len(pf) \in 0..Len(pf) /\ Len(pf) <= Len(opt) /\ Front(pf, Len(pf)) = pf
    <3>1. Leads(pf, pf)
      BY <1>1, LeadsPointwise
    <3> QED BY <1>1, <1>3, <2>2, <3>1 DEF Leads
  <2>5. spliced \in Seq(Message) /\ Same(spliced, cur)
    BY <2>2, <2>3, <2>4, SpliceSame
  <2>6. floor \in Nat /\ (Len(pf) > Len(po)) \in BOOLEAN
    BY <1>1 DEF Least
  <2> HIDE DEF spliced, floor, consumed
  <2>7. split.kind # "fresh" => split.msgs \in Seq(Message) /\ Same(split.msgs, cur)
    BY <2>3, <2>4, <2>5, <2>6, SplitSame
  <2> HIDE DEF split
  <2>8. Faithful(body, cur)
    BY <2>7, CheckedFaithful DEF Skips
  <2> HIDE DEF body, over
  <2>9. Faithful(over, cur)
    BY <1>3, <2>8
  <2> QED BY <2>9 DEF over
<1>4. CASE /\ po # << >> /\ pf # << >>
           /\ over = OverlayDiverged(opt, cur, po, pf, continues, confirmed)
  <2> HIDE DEF over
  <2>1. Faithful(over, cur)
    BY <1>4, OverlayDivergedFaithful
  <2> QED BY <2>1 DEF over
<1>5. CASE \E reason \in Skips \ {"system_adjacency_broken"} : over = Decline(opt, reason)
  <2> HIDE DEF over
  <2>1. Faithful(over, cur)
    BY <1>5, DeclineFaithful
  <2> QED BY <2>1 DEF over
<1> HIDE DEF over, body, consumed
<1> QED BY <1>2, <1>3, <1>4, <1>5 DEF Skips

(* A prefix the turn does not continue, and does not repeat, is not        *)
(* replayed at all.                                                        *)
LEMMA OverlayOfOtherChain ==
  ASSUME NEW opt \in Seq(Message), NEW cur \in Seq(Message),
         NEW po \in Seq(Message), NEW pf \in Seq(Message), NEW confirmed \in Nat,
         NEW continues \in BOOLEAN, ~continues,
         po = << >> \/ pf = << >> \/ AlignOver(po, cur) = Unaligned
  PROVE  Overlay(opt, cur, po, pf, continues, confirmed).msgs = opt
<1> DEFINE d == OverlayDiverged(opt, cur, po, pf, continues, confirmed)
           over == Overlay(opt, cur, po, pf, continues, confirmed)
<1>1. \E reason \in Skips : d = Decline(opt, reason)
  BY DEF OverlayDiverged, Skips
<1>2. over = d \/ \E reason \in Skips : over = Decline(opt, reason)
  BY DEF Overlay, Skips
<1> HIDE DEF d, over
<1>3. over.msgs = opt
  BY <1>1, <1>2 DEF Decline
<1> QED BY <1>3 DEF over

-----------------------------------------------------------------------------
(* What is kept under NothingWithdrawn: a prefix has one forwarded message *)
(* per original, and its originals lead what some turn has recorded.       *)

RecordedPart(t) == Front(t.msgs, ReplayableLen(t.msgs))

Even(c) ==
  c.f # << >> => Len(c.f) = Len(c.o) /\ \E t \in Turns : Leads(c.o, RecordedPart(t))

EvenTracker(t) == \A c \in HeldPrefixes(t) : Even(c)

TrackersEven(tr) == \A s \in Sessions : tr[s] # NONE => EvenTracker(tr[s])
FilesEven(d) == \A s \in Sessions : d[s] # NONE => Even(d[s])
LoadedEven(l) == \A r \in Requests : l[r] \notin {NONE, UNREAD} => Even(l[r])
DonorsEven(d) == \A r \in Requests : d[r] \notin {NONE, UNREAD} => Even(d[r])
PickedEven(p) == \A r \in Requests : p[r] # NONE => Even(p[r])

EvenHeld(tr, d, l, dn, p) ==
  /\ TrackersEven(tr) /\ FilesEven(d) /\ LoadedEven(l) /\ DonorsEven(dn) /\ PickedEven(p)

LEMMA EvenCopy ==
  ASSUME NEW c, Even(c), NEW e, e.o = c.o, e.f = c.f
  PROVE  Even(e)
BY DEF Even

LEMMA RecordedPartType ==
  ASSUME NEW t \in Turns
  PROVE  /\ t.msgs \in Seq(Message) /\ ReplayableLen(t.msgs) \in 0..Len(t.msgs)
         /\ RecordedPart(t) \in Seq(Message) /\ Len(RecordedPart(t)) = ReplayableLen(t.msgs)
         /\ \A i \in 1..ReplayableLen(t.msgs) : RecordedPart(t)[i] = t.msgs[i]
BY TurnFields, ReplayableLenType, FrontProperties DEF RecordedPart

LEMMA EvenFront ==
  ASSUME NEW c, Even(c), c.f # << >>, c.o \in Seq(Message), c.f \in Seq(Message),
         NEW n \in 0..Len(c.o), NEW e, e.o = Front(c.o, n), e.f = Front(c.f, n)
  PROVE  Even(e)
<1>1. PICK t \in Turns : Leads(c.o, RecordedPart(t))
  BY DEF Even
<1>2. n \in 0..Len(c.f)
  BY DEF Even
<1>3. Len(e.o) = n /\ Len(e.f) = n /\ e.o \in Seq(Message)
  BY <1>2, FrontProperties
<1>4. Leads(e.o, c.o)
  BY FrontLeads
<1>5. Leads(e.o, RecordedPart(t))
  BY <1>1, <1>3, <1>4, RecordedPartType, LeadsTransitive
<1> QED BY <1>3, <1>5 DEF Even

(* Vec::insert(0, ..) moves prefixes and changes none.                     *)
LEMMA InsertFirstEven ==
  ASSUME NEW alts \in SUBSET Prefix, \A b \in alts : Even(b), NEW a \in Prefix, Even(a)
  PROVE  \A e \in InsertFirst(alts, a) : Even(e)
<1> DEFINE moved(b) == [b EXCEPT !.pos = @ + 1]
           first == [a EXCEPT !.pos = 1]
<1>1. \A b \in alts : moved(b).o = b.o /\ moved(b).f = b.f
  BY DEF Prefix
<1>2. first.o = a.o /\ first.f = a.f
  BY DEF Prefix
<1>3. \A e \in InsertFirst(alts, a) : e = first \/ \E b \in alts : e = moved(b)
  BY DEF InsertFirst
<1> HIDE DEF moved, first
<1> QED BY <1>1, <1>2, <1>3, EvenCopy

LEMMA PrimaryIsEven ==
  ASSUME NEW t, t.f # << >> => Len(t.f) = Len(t.o) /\ \E u \in Turns : Leads(t.o, RecordedPart(u)),
         \A a \in t.alts : Even(a)
  PROVE  EvenTracker(t)
<1>1. Primary(t).o = t.o /\ Primary(t).f = t.f
  BY DEF Primary
<1>2. Even(Primary(t))
  BY <1>1 DEF Even
<1> QED BY <1>2 DEF EvenTracker, HeldPrefixes

LEMMA EvenPrimary ==
  ASSUME NEW t, EvenTracker(t)
  PROVE  /\ Even(Primary(t)) /\ Even(t) /\ \A a \in t.alts : Even(a)
<1>1. Primary(t).o = t.o /\ Primary(t).f = t.f
  BY DEF Primary
<1>2. Even(Primary(t)) /\ \A a \in t.alts : Even(a)
  BY DEF EvenTracker, HeldPrefixes
<1> QED BY <1>1, <1>2, EvenCopy

LEMMA DisplacedEven ==
  ASSUME NEW log, NEW t, BaseOK(log, t), EvenTracker(t), NEW o
  PROVE  \A a \in Displaced(t, o) : Even(a)
<1>1. CASE t.f # << >> /\ ~MatchesPrefix(t.o, o)
  <2> DEFINE others == {a \in t.alts : a.o # t.o}
             all == InsertFirst(others, Primary(t))
  <2>1. others \in SUBSET Prefix /\ Primary(t) \in Prefix
    BY <1>1 DEF BaseOK, AltsOK
  <2>2. (\A b \in others : Even(b)) /\ Even(Primary(t))
    BY EvenPrimary
  <2>3. Displaced(t, o) = KeptAlternates(all)
    BY <1>1 DEF Displaced
  <2> HIDE DEF others
  <2>4. \A e \in all : Even(e)
    BY <2>1, <2>2, InsertFirstEven
  <2> HIDE DEF all
  <2>5. KeptAlternates(all) \in SUBSET all
    BY DEF KeptAlternates
  <2> QED BY <2>3, <2>4, <2>5
<1>2. CASE ~(t.f # << >> /\ ~MatchesPrefix(t.o, o))
  BY <1>2, EvenPrimary DEF Displaced
<1> QED BY <1>1, <1>2

(* update_from_response of a body that says what its turn says.            *)
LEMMA UpdatedEven ==
  ASSUME NEW log, NEW t, BaseOK(log, t), EvenTracker(t), NEW u \in Turns,
         NEW f \in Seq(Message), Len(f) = Len(u.msgs), NEW sys, NEW frozen
  PROVE  EvenTracker(Updated(t, u.msgs, f, sys, frozen))
<1> DEFINE o == u.msgs
           n == ReplayableLen(o)
           dropped == Len(o) - n
           m == IF Len(f) >= dropped THEN Len(f) - dropped ELSE 0
           so == Front(o, n)
           sf == Front(f, m)
           w == Updated(t, o, f, sys, frozen)
<1>1. o \in Seq(Message) /\ Len(o) \in Nat /\ n \in 0..Len(o)
  BY RecordedPartType, LenProperties
<1>2. m = n /\ m \in 0..Len(f)
  BY <1>1
<1>3. w = Recorded(t, so, sf, sys, frozen)
  BY DEF Updated
<1>4. w.o = so /\ w.f = sf /\ w.alts \subseteq Displaced(t, so)
  BY <1>3 DEF Recorded
<1> HIDE DEF m, w
<1>5. Len(w.f) = Len(w.o)
  BY <1>1, <1>2, <1>4, FrontProperties
<1>6. w.o = RecordedPart(u)
  BY <1>4 DEF RecordedPart
<1>7. Leads(w.o, RecordedPart(u))
  <2>1. RecordedPart(u) \in Seq(Message) /\ Len(RecordedPart(u)) \in Nat
    BY RecordedPartType, LenProperties
  <2> QED BY <1>6, <2>1, LeadsPointwise
<1>8. \A a \in w.alts : Even(a)
  BY <1>4, DisplacedEven
<1>9. EvenTracker(w)
  BY <1>5, <1>7, <1>8, PrimaryIsEven
<1> QED BY <1>9 DEF w

LEMMA RehydratedEven ==
  ASSUME NEW d, Even(d)
  PROVE  EvenTracker(Rehydrated(d))
<1>1. Rehydrated(d).o = d.o /\ Rehydrated(d).f = d.f /\ Rehydrated(d).alts = {}
  BY DEF Rehydrated
<1> QED BY <1>1, PrimaryIsEven DEF Even

LEMMA FromDonorEven ==
  ASSUME NEW d, Even(d)
  PROVE  EvenTracker(FromDonor(d))
<1>1. FromDonor(d).o = d.o /\ FromDonor(d).f = d.f /\ FromDonor(d).alts = {}
  BY DEF FromDonor
<1> QED BY <1>1, PrimaryIsEven DEF Even

LEMMA WithAlternateEven ==
  ASSUME NEW log, NEW t, TrackerOK(log, t), EvenTracker(t), NEW d \in Adopted, Even(d)
  PROVE  EvenTracker(WithAlternate(t, d))
<1> DEFINE a == [id |-> t.next, o |-> d.o, f |-> d.f, sys |-> d.sys, pos |-> 1]
           others == {b \in t.alts : b.o # d.o}
           all == InsertFirst(others, a)
           few == Truncated(all)
           w == WithAlternate(t, d)
<1>1. t \in Tracker /\ t.next \in Nat /\ others \in SUBSET Prefix
  BY DEF TrackerOK, Tracker
<1>2. a \in Prefix /\ a.o = d.o /\ a.f = d.f
  BY <1>1 DEF Adopted, Prefix
<1>3. Even(a) /\ \A b \in others : Even(b)
  BY <1>2, EvenCopy, EvenPrimary
<1>4. w = [t EXCEPT !.alts = few, !.next = t.next + 1, !.age = 0]
  BY DEF WithAlternate
<1> HIDE DEF a, others
<1>5. \A e \in all : Even(e)
  BY <1>1, <1>2, <1>3, InsertFirstEven
<1> HIDE DEF all
<1>6. few \in SUBSET all
  BY DEF Truncated
<1> HIDE DEF few
<1>7. w.o = t.o /\ w.f = t.f /\ w.alts = few
  BY <1>1, <1>4 DEF Tracker
<1> HIDE DEF w
<1>8. EvenTracker(w)
  BY <1>5, <1>6, <1>7, EvenPrimary, PrimaryIsEven DEF Even
<1> QED BY <1>8 DEF w

LEMMA InvalidatedEven ==
  ASSUME NEW t \in Tracker
  PROVE  EvenTracker(Invalidated(t))
<1>1. Invalidated(t).f = << >> /\ Invalidated(t).alts = {}
  BY DEF Invalidated, Tracker
<1> QED BY <1>1, PrimaryIsEven

LEMMA AgedTrackerEven ==
  ASSUME NEW t \in Tracker, EvenTracker(t)
  PROVE  EvenTracker(Aged(t))
<1>1. t # NONE
  BY SentinelAssumption
<1>2. Aged(t).o = t.o /\ Aged(t).f = t.f /\ Aged(t).alts = t.alts
  BY <1>1 DEF Aged, Tracker
<1> QED BY <1>2, EvenPrimary, PrimaryIsEven DEF Even

LEMMA PushEven ==
  ASSUME NEW log, TrackersOK(log, trackers), TrackersEven(trackers), NEW s \in Sessions,
         NEW t, EvenTracker(t), Push(s, t)
  PROVE  TrackersEven(trackers')
<1>1. trackers \in [Sessions -> Tracker \cup {NONE}]
  BY DEF TrackersOK
<1>2. \A x \in Sessions : trackers'[x] \in {t, NONE, trackers[x]}
  BY <1>1 DEF Push
<1> QED BY <1>2 DEF TrackersEven

-----------------------------------------------------------------------------
(* Picking and adopting.                                                   *)

\* previous_turn_for gates by system, except for the primary it falls back to:
\* that one has chain 0 and does not lead the turn.
Gated(c, cur, sys) == c.sys = sys \/ (c.id = 0 /\ ~MatchesPrefix(c.o, cur))

LEMMA ReturnedEven ==
  ASSUME NEW log, NEW t, TrackerOK(log, t), EvenTracker(t), NEW cur \in Seq(Message), NEW sys
  PROVE  \A c \in ReturnedPrefix(t, cur, sys) : Even(c) /\ Gated(c, cur, sys)
<1> DEFINE same == {c \in HeldPrefixes(t) : c.sys = sys}
           gated == PickReplay(same, cur)
           fallback == [Primary(t) EXCEPT !.id = 0]
<1>1. /\ HeldPrefixes(t) \in SUBSET Prefix
      /\ Ends(HeldPrefixes(t))
  BY HeldCandidates
<1>2. same \in SUBSET Prefix /\ Ends(same)
  BY <1>1 DEF Ends
<1>3. \A c \in ReturnedPrefix(t, cur, sys) :
        \/ c \in gated
        \/ t.f # << >> /\ PickReplay(HeldPrefixes(t), cur) = {} /\ c = fallback
  BY DEF ReturnedPrefix
<1>4. \A c \in same : Even(c) /\ c.sys = sys
  BY DEF EvenTracker
<1> HIDE DEF same
<1>5. \A c \in gated : c \in same
  BY <1>2, PickReplayIn
<1> HIDE DEF gated
<1>6. ASSUME t.f # << >>, PickReplay(HeldPrefixes(t), cur) = {}
      PROVE  Even(fallback) /\ Gated(fallback, cur, sys)
  <2>1. Primary(t) \in HeldPrefixes(t) /\ Primary(t).f = t.f
    BY DEF HeldPrefixes, Primary
  <2>2. fallback.o = Primary(t).o /\ fallback.f = Primary(t).f /\ fallback.id = 0
    BY DEF Primary
  <2>3. Leading(HeldPrefixes(t), cur) = {}
    BY <1>6 DEF PickReplay
  <2>4. ~MatchesPrefix(Primary(t).o, cur)
    BY <1>6, <2>1, <2>3 DEF Leading
  <2> HIDE DEF fallback
  <2>5. Even(fallback)
    BY <2>2, EvenPrimary, EvenCopy
  <2> QED BY <2>2, <2>4, <2>5 DEF Gated
<1> HIDE DEF fallback
<1> QED BY <1>3, <1>4, <1>5, <1>6 DEF Gated

LEMMA SliceEven ==
  ASSUME NEW c, Even(c), c.o \in Seq(Message), c.f \in Seq(Message),
         NEW cur \in Seq(Message), AdoptableLen(c, cur) > 0, NEW frozen, NEW age
  PROVE  Even(Slice(c, AdoptableLen(c, cur), frozen, age))
<1> DEFINE n == AdoptableLen(c, cur)
           d == Slice(c, n, frozen, age)
<1>1. c.f # << >> /\ n = AgreementLen(c.o, cur)
  BY DEF AdoptableLen
<1>2. n \in 0..Len(c.o)
  BY <1>1, AgreementLenType, LenProperties
<1>3. d.o = Front(c.o, n) /\ d.f = Front(c.f, n)
  BY DEF Slice
<1> HIDE DEF d, n
<1>4. Even(d)
  BY <1>1, <1>2, <1>3, EvenFront
<1> QED BY <1>4 DEF d, n

LEMMA DonorsAreEven ==
  ASSUME NEW log, TrackersOK(log, trackers), FilesOK(log, disk),
         TrackersEven(trackers), FilesEven(disk),
         NEW s \in Sessions, NEW cur \in Seq(Message)
  PROVE  \A d \in Donors(s, cur) : Even(d)
<1>1. ASSUME NEW d \in InMemoryDonors(s, cur)
      PROVE  Even(d)
  <2>1. PICK x \in Sessions :
          /\ Tracked(x)
          /\ \E c \in HeldPrefixes(trackers[x]) :
               /\ AdoptableLen(c, cur) > 0
               /\ d = Slice(c, AdoptableLen(c, cur), trackers[x].frozen, trackers[x].age)
    BY InMemoryDonorSource
  <2>2. PICK c \in HeldPrefixes(trackers[x]) :
          /\ AdoptableLen(c, cur) > 0
          /\ d = Slice(c, AdoptableLen(c, cur), trackers[x].frozen, trackers[x].age)
    BY <2>1
  <2>3. c \in Prefix /\ Even(c)
    BY <2>1, HeldCandidates DEF TrackersOK, TrackersEven, EvenTracker, Tracked
  <2>4. c.o \in Seq(Message) /\ c.f \in Seq(Message)
    BY <2>3 DEF Prefix
  <2> QED BY <2>2, <2>3, <2>4, SliceEven
<1>2. ASSUME NEW d \in OnDiskDonors(s, cur)
      PROVE  Even(d)
  <2>1. PICK x \in Sessions :
          /\ Readable(x) /\ AdoptableLen(disk[x], cur) > 0
          /\ d = Slice(disk[x], AdoptableLen(disk[x], cur), disk[x].frozen, disk[x].age)
    BY DEF OnDiskDonors
  <2>2. disk[x] \in File /\ Even(disk[x])
    BY <2>1 DEF Readable, FilesOK, FilesEven
  <2>3. disk[x].o \in Seq(Message) /\ disk[x].f \in Seq(Message)
    BY <2>2 DEF File
  <2> QED BY <2>1, <2>2, <2>3, SliceEven
<1>3. \A d \in Donors(s, cur) : d \in InMemoryDonors(s, cur) \cup OnDiskDonors(s, cur)
  BY DEF Donors
<1> QED BY <1>1, <1>2, <1>3

-----------------------------------------------------------------------------
(* The invariant, on top of IInv.                                          *)

BodiesFaithful == \A r \in Requests : sent[r] # NONE => Faithful(sent[r], turn[r].msgs)

SystemGated ==
  \A r \in Requests : picked[r] # NONE =>
    /\ pc[r] = "floor" => Gated(picked[r], turn[r].msgs, turn[r].sys)
    /\ pc[r] = "inflight" /\ sent[r].msgs # Optimized(turn[r]) => picked[r].sys = turn[r].sys

CInv == EvenHeld(trackers, disk, loaded, donor, picked) /\ BodiesFaithful /\ SystemGated

(* A prefix that repeats what was sent says twice the same.                *)
LEMMA StoredSame ==
  ASSUME IInv, BodiesFaithful, NEW c, c.o \in Seq(Message), c.f \in Seq(Message),
         InLog(Log, c), Len(c.f) = Len(c.o)
  PROVE  Same(c.f, c.o)
<1>1. PICK b \in Log : Leads(c.o, b.o) /\ Leads(c.f, b.f)
  BY DEF InLog
<1>2. PICK q \in Requests :
        sent[q] # NONE /\ b = [o |-> turn[q].msgs, f |-> sent[q].msgs, sys |-> turn[q].sys]
  BY DEF Log
<1>3. Same(b.f, b.o)
  BY <1>2 DEF BodiesFaithful, Faithful
<1>4. b.o \in Seq(Message) /\ b.f \in Seq(Message)
  BY LogIsTyped DEF IInv, LogType
<1>5. /\ Len(c.o) <= Len(b.o) /\ \A i \in 1..Len(c.o) : c.o[i] = b.o[i]
      /\ Len(c.f) <= Len(b.f) /\ \A i \in 1..Len(c.f) : c.f[i] = b.f[i]
  BY <1>1, <1>4, LeadsPointwise
<1>6. Len(c.o) \in Nat /\ Len(b.o) \in Nat
  BY <1>4, LenProperties
<1>7. ASSUME NEW i \in 1..Len(c.o)
      PROVE  Canon(c.f[i]) = Canon(c.o[i])
  <2>1. i \in 1..Len(b.o)
    BY <1>5, <1>6
  <2>2. Canon(b.f[i]) = Canon(b.o[i])
    BY <1>3, <2>1 DEF Same
  <2> QED BY <1>5, <2>2
<1> QED BY <1>7 DEF Same

(* The hypothesis, for a prefix that is kept.                              *)
LEMMA AlignedRepeats ==
  ASSUME NothingWithdrawn, NEW o \in Seq(Message), o # << >>,
         NEW t \in Turns, Leads(o, RecordedPart(t)),
         NEW u \in Turns, AlignOver(o, u.msgs) # Unaligned
  PROVE  MatchesPrefix(o, u.msgs)
<1> DEFINE n == Len(o)
<1>1. n \in Nat /\ n # 0
  BY LenProperties, EmptySeq
<1>2. /\ t.msgs \in Seq(Message) /\ ReplayableLen(t.msgs) \in 0..Len(t.msgs)
      /\ RecordedPart(t) \in Seq(Message) /\ Len(RecordedPart(t)) = ReplayableLen(t.msgs)
      /\ \A i \in 1..ReplayableLen(t.msgs) : RecordedPart(t)[i] = t.msgs[i]
  BY RecordedPartType
<1>3. n <= ReplayableLen(t.msgs) /\ \A i \in 1..n : o[i] = RecordedPart(t)[i]
  BY <1>2, LeadsPointwise
<1>4. Len(t.msgs) \in Nat
  BY <1>2, LenProperties
<1>5. n \in 1..ReplayableLen(t.msgs) /\ n \in 0..Len(t.msgs)
  BY <1>1, <1>2, <1>3, <1>4
<1>6. \A i \in 1..n : o[i] = t.msgs[i]
  BY <1>2, <1>3, <1>5
<1>7. o = Front(t.msgs, n)
  <2>1. /\ Front(t.msgs, n) \in Seq(Message) /\ Len(Front(t.msgs, n)) = n
        /\ \A i \in 1..n : Front(t.msgs, n)[i] = t.msgs[i]
    BY <1>2, <1>5, FrontProperties
  <2> QED BY <1>6, <2>1, SeqEqual
<1> HIDE DEF n
<1> QED BY <1>5, <1>7 DEF NothingWithdrawn

LEMMA OptimizedSame ==
  ASSUME NEW t \in Turns
  PROVE  Same(Optimized(t), t.msgs)
<1>1. t.msgs \in Seq(Message)
  BY TurnFields
<1>2. Len(Optimized(t)) = Len(t.msgs)
  BY OptimizedType
<1>3. ASSUME NEW i \in 1..Len(t.msgs)
      PROVE  Canon(Optimized(t)[i]) = Canon(t.msgs[i])
  <2>1. t.msgs[i] \in Message
    BY <1>1, LenProperties
  <2>2. Optimized(t)[i] = [t.msgs[i] EXCEPT !.form = t.level]
    BY DEF Optimized
  <2> QED BY <2>1, <2>2 DEF Canon, Message
<1> QED BY <1>2, <1>3 DEF Same

(* replay_prefix: the body says what the turn says, and differs from this  *)
(* turn's own output only under the system the prefix was recorded under.  *)
LEMMA BodyFaithful ==
  ASSUME NothingWithdrawn, IInv, CInv, NEW r \in Requests, pc[r] = "floor"
  PROVE  /\ Faithful(Body(r), turn[r].msgs)
         /\ picked[r] # NONE /\ Body(r).msgs # Optimized(turn[r]) => picked[r].sys = turn[r].sys
<1> DEFINE opt == Optimized(turn[r])
           cur == turn[r].msgs
           c == picked[r]
           n == ConfirmedCount(Session(r))
<1>1. turn[r] \in Turns /\ cur \in Seq(Message) /\ Msgs(r) = cur /\ Session(r) \in Sessions
  BY RequestFields DEF IInv
<1>2. opt \in Seq(Message) /\ Same(opt, cur)
  BY <1>1, OptimizedType, OptimizedSame
<1>3. n \in Nat
  BY <1>1 DEF ConfirmedCount, Tracked, IInv, HeldOK, TrackersOK, Tracker
<1> HIDE DEF opt, cur, n
<1>4. CASE c = NONE
  <2>1. << >> \in Seq(Message)
    OBVIOUS
  <2>2. Body(r) = Overlay(opt, cur, << >>, << >>, FALSE, 0)
    BY <1>1, <1>4 DEF Body, opt
  <2>3. Faithful(Body(r), cur)
    BY <1>1, <1>2, <2>1, <2>2, OverlayFaithful
  <2> QED BY <1>4, <2>3 DEF cur
<1>5. CASE c # NONE
  <2>1. c \in Prefix /\ InLog(Log, c) /\ Even(c)
    BY <1>5 DEF IInv, HeldOK, PickedOK, CInv, EvenHeld, PickedEven
  <2>2. c.o \in Seq(Message) /\ c.f \in Seq(Message) /\ (c.id # 0) \in BOOLEAN
    BY <2>1 DEF Prefix
  <2>3. c.o # << >> /\ c.f # << >> =>
          /\ Same(c.f, c.o)
          /\ AlignOver(c.o, cur) # Unaligned => MatchesPrefix(c.o, cur)
    <3> SUFFICES ASSUME c.o # << >>, c.f # << >>
                 PROVE  /\ Same(c.f, c.o)
                        /\ AlignOver(c.o, cur) # Unaligned => MatchesPrefix(c.o, cur)
      OBVIOUS
    <3>1. Same(c.f, c.o)
      BY <2>1, <2>2, StoredSame DEF Even, CInv
    <3>2. PICK t \in Turns : Leads(c.o, RecordedPart(t))
      BY <2>1 DEF Even
    <3>3. AlignOver(c.o, cur) # Unaligned => MatchesPrefix(c.o, cur)
      BY <1>1, <2>2, <3>2, AlignedRepeats DEF cur
    <3> QED BY <3>1, <3>3
  <2> DEFINE po == c.o
             pf == c.f
             continues == c.id # 0
  <2>4. Body(r) = Overlay(opt, cur, po, pf, continues, n)
    BY <1>1, <1>5 DEF Body, opt, n
  <2>5. /\ po \in Seq(Message) /\ pf \in Seq(Message) /\ continues \in BOOLEAN
        /\ po # << >> /\ pf # << >> =>
             /\ Same(pf, po)
             /\ AlignOver(po, cur) # Unaligned => MatchesPrefix(po, cur)
    BY <2>2, <2>3
  <2>6. ASSUME c.sys # turn[r].sys
        PROVE  ~continues /\ ~MatchesPrefix(po, cur)
    BY <1>5, <2>6 DEF CInv, SystemGated, Gated, cur
  <2> HIDE DEF po, pf, continues
  <2>7. Faithful(Body(r), cur)
    BY <1>1, <1>2, <1>3, <2>4, <2>5, OverlayFaithful
  <2>8. ASSUME c.sys # turn[r].sys
        PROVE  Body(r).msgs = opt
    <3>1. ~continues /\ ~MatchesPrefix(po, cur)
      BY <2>6, <2>8
    <3>2. po = << >> \/ pf = << >> \/ AlignOver(po, cur) = Unaligned
      BY <2>5, <3>1
    <3>3. Overlay(opt, cur, po, pf, continues, n).msgs = opt
      BY <1>1, <1>2, <1>3, <2>5, <3>1, <3>2, OverlayOfOtherChain
    <3> QED BY <2>4, <3>3
  <2> QED BY <2>7, <2>8 DEF cur, opt
<1> QED BY <1>4, <1>5

-----------------------------------------------------------------------------
(* Steps, seen by what is kept.                                            *)

EvenNext == EvenHeld(trackers', disk', loaded', donor', picked')

LEMMA EnterEven ==
  ASSUME IInv, LoadedEven(loaded), DonorsEven(donor), NEW r \in Requests, NEW stage, Enter(r, stage)
  PROVE  LoadedEven(loaded') /\ DonorsEven(donor')
<1>1. loaded \in [Requests -> File \cup {NONE, UNREAD}] /\ donor \in [Requests -> Adopted \cup {NONE, UNREAD}]
  BY DEF IInv, HeldOK, LoadedOK, DonorsOK
<1>2. \A q \in Requests : /\ loaded'[q] \in {NONE, UNREAD, loaded[q]}
                          /\ donor'[q] \in {NONE, UNREAD, donor[q]}
  BY <1>1 DEF Enter
<1> QED BY <1>2 DEF LoadedEven, DonorsEven

LEMMA FinishedEven ==
  ASSUME IInv, LoadedEven(loaded), PickedEven(picked), NEW r \in Requests, Finished(r)
  PROVE  LoadedEven(loaded') /\ PickedEven(picked')
<1>1. loaded \in [Requests -> File \cup {NONE, UNREAD}] /\ picked \in [Requests -> Prefix \cup {NONE}]
  BY DEF IInv, HeldOK, LoadedOK, PickedOK
<1>2. \A q \in Requests : loaded'[q] \in {NONE, loaded[q]} /\ picked'[q] \in {NONE, picked[q]}
  BY <1>1 DEF Finished
<1> QED BY <1>2 DEF LoadedEven, PickedEven

LEMMA ArriveEven ==
  ASSUME IInv, CInv, NEW r \in Requests, NEW t \in Turns, Arrive(r, t)
  PROVE  EvenNext
<1>1. UNCHANGED <<trackers, disk, picked>>
  BY DEF Arrive, storeVars
<1>2. LoadedEven(loaded') /\ DonorsEven(donor')
  BY EnterEven DEF CInv, EvenHeld, Arrive
<1> QED BY <1>1, <1>2 DEF CInv, EvenHeld, EvenNext

LEMMA HydrateReadEven ==
  ASSUME IInv, CInv, NEW r \in Requests, HydrateRead(r)
  PROVE  EvenNext
<1>1. UNCHANGED <<trackers, disk, donor, picked>>
  BY DEF HydrateRead, storeVars
<1>2. Session(r) \in Sessions /\ loaded \in [Requests -> File \cup {NONE, UNREAD}]
  BY RequestFields DEF IInv, HydrateRead, Hydrating, HeldOK, LoadedOK
<1>3. \A q \in Requests : \/ loaded'[q] \in {NONE, loaded[q]}
                          \/ Readable(Session(r)) /\ loaded'[q] = disk[Session(r)]
  BY <1>2 DEF HydrateRead
<1>4. LoadedEven(loaded')
  BY <1>2, <1>3 DEF CInv, EvenHeld, LoadedEven, FilesEven, Readable
<1> QED BY <1>1, <1>4 DEF CInv, EvenHeld, EvenNext

LEMMA HydrateInstallEven ==
  ASSUME IInv, CInv, NEW r \in Requests, HydrateInstall(r)
  PROVE  EvenNext
<1>1. UNCHANGED <<disk, donor, picked>>
  BY DEF HydrateInstall
<1>2. Session(r) \in Sessions /\ loaded \in [Requests -> File \cup {NONE, UNREAD}]
  BY RequestFields DEF IInv, HydrateInstall, Hydrating, HeldOK, LoadedOK
<1>3. EvenTracker(Rehydrated(loaded[r]))
  BY RehydratedEven DEF CInv, EvenHeld, LoadedEven, HydrateInstall
<1>4. TrackersEven(trackers')
  <2>1. CASE Tracked(Session(r))
    BY <2>1 DEF HydrateInstall, CInv, EvenHeld
  <2>2. CASE ~Tracked(Session(r))
    <3>1. Push(Session(r), Rehydrated(loaded[r]))
      BY <2>2 DEF HydrateInstall
    <3>2. TrackersOK(Log, trackers) /\ TrackersEven(trackers)
      BY DEF IInv, HeldOK, CInv, EvenHeld
    <3> QED BY <1>2, <1>3, <3>1, <3>2, PushEven
  <2> QED BY <2>1, <2>2
<1>5. \A q \in Requests : loaded'[q] \in {NONE, loaded[q]}
  BY <1>2 DEF HydrateInstall
<1>6. LoadedEven(loaded')
  BY <1>5 DEF CInv, EvenHeld, LoadedEven
<1> QED BY <1>1, <1>4, <1>6 DEF CInv, EvenHeld, EvenNext

LEMMA AdoptScanEven ==
  ASSUME IInv, CInv, NEW r \in Requests, AdoptScan(r)
  PROVE  EvenNext
<1>1. UNCHANGED <<trackers, disk, loaded, picked>>
  BY DEF AdoptScan, storeVars
<1>2. /\ Session(r) \in Sessions /\ Msgs(r) \in Seq(Message)
      /\ donor \in [Requests -> Adopted \cup {NONE, UNREAD}]
  BY RequestFields DEF IInv, AdoptScan, HeldOK, DonorsOK
<1>3. \A d \in Donors(Session(r), Msgs(r)) : Even(d)
  <2>1. /\ TrackersOK(Log, trackers) /\ FilesOK(Log, disk)
        /\ TrackersEven(trackers) /\ FilesEven(disk)
    BY DEF IInv, HeldOK, CInv, EvenHeld
  <2> QED BY <1>2, <2>1, DonorsAreEven
<1>4. \/ donor' = [donor EXCEPT ![r] = NONE]
      \/ \E d \in Donors(Session(r), Msgs(r)) : donor' = [donor EXCEPT ![r] = d]
  BY DEF AdoptScan
<1>5. \A q \in Requests : donor'[q] \in {NONE, donor[q]} \cup Donors(Session(r), Msgs(r))
  BY <1>2, <1>4
<1>6. DonorsEven(donor')
  BY <1>3, <1>5 DEF CInv, EvenHeld, DonorsEven
<1> QED BY <1>1, <1>6 DEF CInv, EvenHeld, EvenNext

LEMMA AdoptInstallEven ==
  ASSUME IInv, CInv, NEW r \in Requests, AdoptInstall(r)
  PROVE  EvenNext
<1> DEFINE s == Session(r)
           live == Tracked(s) /\ ~Idle(trackers[s]) /\ trackers[s].f # << >>
<1>1. UNCHANGED <<disk, loaded, picked>>
  BY DEF AdoptInstall
<1>2. s \in Sessions /\ donor \in [Requests -> Adopted \cup {NONE, UNREAD}]
  BY RequestFields DEF IInv, AdoptInstall, HeldOK, DonorsOK
<1>3. donor[r] \in Adopted /\ Even(donor[r])
  BY <1>2 DEF CInv, EvenHeld, DonorsEven, AdoptInstall
<1>4. \A q \in Requests : donor'[q] \in {NONE, donor[q]}
  BY <1>2 DEF AdoptInstall
<1>5. DonorsEven(donor')
  BY <1>4 DEF CInv, EvenHeld, DonorsEven
<1>6. TrackersOK(Log, trackers) /\ TrackersEven(trackers)
  BY DEF IInv, HeldOK, CInv, EvenHeld
<1>7. TrackersEven(trackers')
  <2>1. CASE live
    <3>1. TrackerOK(Log, trackers[s]) /\ EvenTracker(trackers[s])
      BY <1>2, <1>6, <2>1 DEF TrackersOK, TrackersEven, Tracked
    <3>2. EvenTracker(WithAlternate(trackers[s], donor[r]))
      BY <1>3, <3>1, WithAlternateEven
    <3>3. \A x \in Sessions : trackers'[x] \in {trackers[x], WithAlternate(trackers[s], donor[r])}
      BY <1>2, <1>6, <2>1 DEF AdoptInstall, TrackersOK
    <3> QED BY <1>6, <3>2, <3>3 DEF TrackersEven
  <2>2. CASE ~live
    <3>1. EvenTracker(FromDonor(donor[r]))
      BY <1>3, FromDonorEven
    <3>2. Push(s, FromDonor(donor[r]))
      BY <2>2 DEF AdoptInstall
    <3> QED BY <1>2, <1>6, <3>1, <3>2, PushEven
  <2> QED BY <2>1, <2>2
<1> QED BY <1>1, <1>5, <1>7 DEF CInv, EvenHeld, EvenNext

LEMMA BoundaryEven ==
  ASSUME IInv, CInv, NEW r \in Requests, Boundary(r)
  PROVE  EvenNext
<1>1. UNCHANGED <<disk, picked>>
  BY DEF Boundary
<1>2. Session(r) \in Sessions /\ trackers \in [Sessions -> Tracker \cup {NONE}]
  BY RequestFields DEF IInv, Boundary, HeldOK, TrackersOK
<1>3. LoadedEven(loaded') /\ DonorsEven(donor')
  BY EnterEven DEF CInv, EvenHeld, Boundary
<1> DEFINE old == trackers[Session(r)]
<1>4. \A x \in Sessions : \/ trackers'[x] \in {trackers[x], NONE}
                          \/ old # NONE /\ trackers'[x] = Invalidated(old)
  BY <1>2 DEF Boundary
<1>5. old # NONE => EvenTracker(Invalidated(old))
  BY <1>2, InvalidatedEven
<1> HIDE DEF old
<1>6. TrackersEven(trackers')
  BY <1>4, <1>5 DEF CInv, EvenHeld, TrackersEven
<1> QED BY <1>1, <1>3, <1>6 DEF CInv, EvenHeld, EvenNext

LEMMA ProbeEndEven ==
  ASSUME IInv, CInv, NEW r \in Requests, ProbeEnd(r)
  PROVE  EvenNext
<1>1. UNCHANGED <<trackers, disk, picked>>
  BY DEF ProbeEnd, storeVars
<1>2. LoadedEven(loaded') /\ DonorsEven(donor')
  BY EnterEven DEF CInv, EvenHeld, ProbeEnd
<1> QED BY <1>1, <1>2 DEF CInv, EvenHeld, EvenNext

(* previous_turn_for returns a prefix of a live tracker, or nothing.       *)
LEMMA SelectPicks ==
  ASSUME IInv, CInv, NEW r \in Requests, Select(r)
  PROVE  /\ \A q \in Requests \ {r} : picked'[q] = picked[q]
         /\ picked'[r] # NONE =>
              Even(picked'[r]) /\ Gated(picked'[r], turn[r].msgs, turn[r].sys)
<1> DEFINE s == Session(r)
           t == trackers[s]
           found == IF Tracked(s) /\ ~Idle(t) THEN ReturnedPrefix(t, Msgs(r), turn[r].sys) ELSE {}
           pick == IF found = {} THEN NONE ELSE CHOOSE c \in found : TRUE
<1>1. /\ s \in Sessions /\ Msgs(r) \in Seq(Message) /\ Msgs(r) = turn[r].msgs
      /\ picked \in [Requests -> Prefix \cup {NONE}]
  BY RequestFields DEF IInv, Select, HeldOK, PickedOK
<1>2. Tracked(s) => TrackerOK(Log, t) /\ EvenTracker(t)
  BY <1>1 DEF IInv, HeldOK, TrackersOK, CInv, EvenHeld, TrackersEven, Tracked
<1>3. picked' = [picked EXCEPT ![r] = pick]
  BY DEF Select
<1>4. \A c \in found : Even(c) /\ Gated(c, Msgs(r), turn[r].sys)
  BY <1>1, <1>2, ReturnedEven
<1> HIDE DEF found
<1>5. pick # NONE => Even(pick) /\ Gated(pick, Msgs(r), turn[r].sys)
  BY <1>4
<1> HIDE DEF pick
<1> QED BY <1>1, <1>3, <1>5

LEMMA SelectEven ==
  ASSUME IInv, CInv, NEW r \in Requests, Select(r)
  PROVE  EvenNext
<1>1. UNCHANGED disk
  BY DEF Select
<1>2. Session(r) \in Sessions /\ trackers \in [Sessions -> Tracker \cup {NONE}]
  BY RequestFields DEF IInv, Select, HeldOK, TrackersOK
<1>3. LoadedEven(loaded') /\ DonorsEven(donor')
  BY EnterEven DEF CInv, EvenHeld, Select
<1>4. \A x \in Sessions : trackers'[x] \in {trackers[x], NONE}
  BY <1>2 DEF Select
<1>5. TrackersEven(trackers')
  BY <1>4 DEF CInv, EvenHeld, TrackersEven
<1>6. PickedEven(picked')
  BY SelectPicks DEF CInv, EvenHeld, PickedEven
<1> QED BY <1>1, <1>3, <1>5, <1>6 DEF CInv, EvenHeld, EvenNext

LEMMA SendEven ==
  ASSUME CInv, NEW r \in Requests, Send(r)
  PROVE  EvenNext
BY DEF CInv, EvenHeld, EvenNext, Send, storeVars

LEMMA PopPendingEven ==
  ASSUME IInv, CInv, NEW r \in Requests, PopPending(r)
  PROVE  EvenNext
<1>1. UNCHANGED <<trackers, disk, donor>>
  BY DEF PopPending, storeVars
<1>2. LoadedEven(loaded') /\ PickedEven(picked')
  <2>1. CASE UNCHANGED <<picked, loaded>>
    BY <2>1 DEF CInv, EvenHeld
  <2>2. CASE Finished(r)
    BY <2>2, FinishedEven DEF CInv, EvenHeld
  <2> QED BY <2>1, <2>2 DEF PopPending
<1> QED BY <1>1, <1>2 DEF CInv, EvenHeld, EvenNext

LEMMA FailEven ==
  ASSUME IInv, CInv, NEW r \in Requests, Fail(r)
  PROVE  EvenNext
<1>1. UNCHANGED <<trackers, disk, donor>>
  BY DEF Fail, storeVars
<1>2. LoadedEven(loaded') /\ PickedEven(picked')
  BY FinishedEven DEF CInv, EvenHeld, Fail
<1> QED BY <1>1, <1>2 DEF CInv, EvenHeld, EvenNext

LEMMA UpdateEven ==
  ASSUME IInv, CInv, NEW r \in Requests, NEW n \in FrozenCounts, Update(r, n)
  PROVE  EvenNext
<1> DEFINE s == Session(r)
           old == IF Tracked(s) THEN trackers[s] ELSE DefaultTracker
           w == Updated(old, Msgs(r), sent[r].msgs, turn[r].sys, n)
<1>1. UNCHANGED <<disk, donor>>
  BY DEF Update
<1>2. /\ s \in Sessions /\ turn[r] \in Turns /\ Msgs(r) = turn[r].msgs
      /\ loaded \in [Requests -> File \cup {NONE, UNREAD}]
  BY RequestFields DEF IInv, Update, HeldOK, LoadedOK
<1>3. sent[r] # NONE /\ sent[r] \in SentBody /\ Same(sent[r].msgs, turn[r].msgs)
  BY DEF IInv, PathOK, Update, CInv, BodiesFaithful, Faithful
<1>4. sent[r].msgs \in Seq(Message) /\ Len(sent[r].msgs) = Len(turn[r].msgs)
  BY <1>3 DEF SentBody, Same
<1>5. BaseOK(Log, old)
  BY <1>2, TrackerHasBase, DefaultHasBase DEF IInv, HeldOK, TrackersOK, Tracked
<1>6. EvenTracker(old)
  <2>1. EvenTracker(DefaultTracker)
    BY PrimaryIsEven DEF DefaultTracker
  <2> QED BY <1>2, <2>1 DEF CInv, EvenHeld, TrackersEven, Tracked
<1>7. IF Tracked(s) THEN trackers' = [trackers EXCEPT ![s] = w] ELSE Push(s, w)
  BY DEF Update
<1>8. IF PersistDir /\ w.f # << >>
      THEN loaded' = [loaded EXCEPT ![r] = Snapshot(w, updates[s] + 1)] /\ UNCHANGED picked
      ELSE Finished(r)
  BY DEF Update
<1> HIDE DEF old
<1>9. EvenTracker(w)
  BY <1>2, <1>4, <1>5, <1>6, UpdatedEven
<1> HIDE DEF w
<1>10. TrackersEven(trackers')
  <2>1. TrackersOK(Log, trackers) /\ TrackersEven(trackers)
    BY DEF IInv, HeldOK, CInv, EvenHeld
  <2>2. CASE Tracked(s)
    <3>1. \A x \in Sessions : trackers'[x] \in {trackers[x], w}
      BY <1>2, <1>7, <2>1, <2>2 DEF TrackersOK
    <3> QED BY <1>9, <2>1, <3>1 DEF TrackersEven
  <2>3. CASE ~Tracked(s)
    BY <1>2, <1>7, <1>9, <2>1, <2>3, PushEven
  <2> QED BY <2>2, <2>3
<1>11. LoadedEven(loaded') /\ PickedEven(picked')
  <2>1. LoadedEven(loaded) /\ PickedEven(picked)
    BY DEF CInv, EvenHeld
  <2>2. CASE PersistDir /\ w.f # << >>
    <3> DEFINE d == Snapshot(w, updates[s] + 1)
    <3>1. d.o = w.o /\ d.f = w.f
      BY DEF Snapshot
    <3>2. loaded' = [loaded EXCEPT ![r] = d] /\ UNCHANGED picked
      BY <1>8, <2>2
    <3> HIDE DEF d
    <3>3. Even(d)
      BY <1>9, <3>1, EvenPrimary, EvenCopy
    <3>4. \A q \in Requests : loaded'[q] \in {loaded[q], d}
      BY <1>2, <3>2
    <3> QED BY <2>1, <3>2, <3>3, <3>4 DEF LoadedEven
  <2>3. CASE ~(PersistDir /\ w.f # << >>)
    BY <1>8, <2>1, <2>3, FinishedEven
  <2> QED BY <2>2, <2>3
<1> QED BY <1>1, <1>10, <1>11 DEF CInv, EvenHeld, EvenNext

LEMMA WriteEven ==
  ASSUME IInv, CInv, NEW r \in Requests, Write(r)
  PROVE  EvenNext
<1>1. UNCHANGED <<trackers, donor>>
  BY DEF Write
<1>2. LoadedEven(loaded') /\ PickedEven(picked')
  BY FinishedEven DEF CInv, EvenHeld, Write
<1>3. loaded[r] \in File /\ disk \in [Sessions -> File \cup {NONE}]
  BY DEF IInv, WritersOK, Write, HeldOK, FilesOK
<1>4. Even(loaded[r])
  BY <1>3, SentinelAssumption DEF CInv, EvenHeld, LoadedEven
<1>5. \A s \in Sessions : disk'[s] \in {disk[s], loaded[r]}
  BY <1>3 DEF Write
<1>6. FilesEven(disk')
  BY <1>4, <1>5 DEF CInv, EvenHeld, FilesEven
<1> QED BY <1>1, <1>2, <1>6 DEF CInv, EvenHeld, EvenNext

LEMMA CrashEven ==
  ASSUME CInv, Crash
  PROVE  EvenNext
<1>1. TrackersEven(trackers') /\ LoadedEven(loaded') /\ DonorsEven(donor') /\ PickedEven(picked')
  BY DEF Crash, TrackersEven, LoadedEven, DonorsEven, PickedEven
<1>2. FilesEven(disk')
  BY DEF Crash, CInv, EvenHeld, FilesEven
<1> QED BY <1>1, <1>2 DEF EvenHeld, EvenNext

LEMMA TickEven ==
  ASSUME IInv, CInv, Tick
  PROVE  EvenNext
<1>1. UNCHANGED <<loaded, donor, picked>>
  BY DEF Tick, localVars
<1>2. ASSUME NEW s \in Sessions, trackers'[s] # NONE
      PROVE  EvenTracker(trackers'[s])
  <2>1. trackers'[s] = Aged(trackers[s])
    BY DEF Tick
  <2>2. trackers[s] # NONE
    BY <1>2, <2>1 DEF Aged
  <2>3. trackers[s] \in Tracker /\ EvenTracker(trackers[s])
    BY <2>2 DEF IInv, HeldOK, TrackersOK, CInv, EvenHeld, TrackersEven
  <2> QED BY <2>1, <2>3, AgedTrackerEven
<1>3. ASSUME NEW s \in Sessions, disk'[s] # NONE
      PROVE  Even(disk'[s])
  <2>1. disk'[s] = Aged(disk[s])
    BY DEF Tick
  <2>2. disk[s] # NONE
    BY <1>3, <2>1 DEF Aged
  <2>3. disk[s] \in File /\ Even(disk[s])
    BY <2>2 DEF IInv, HeldOK, FilesOK, CInv, EvenHeld, FilesEven
  <2> QED BY <2>1, <2>3, AgedFile, EvenCopy
<1> QED BY <1>1, <1>2, <1>3 DEF CInv, EvenHeld, EvenNext, TrackersEven, FilesEven

-----------------------------------------------------------------------------
(* Steps, seen by the bodies and the system gate.                          *)

\* Of the other requests, nothing that SystemGated reads changes.
OthersStay(r) ==
  \A q \in Requests \ {r} : /\ pc'[q] = pc[q] /\ turn'[q] = turn[q]
                            /\ picked'[q] = picked[q] /\ sent'[q] = sent[q]

LEMMA GatedElsewhere ==
  ASSUME SystemGated, NEW r \in Requests, OthersStay(r), pc'[r] \notin {"floor", "inflight"}
  PROVE  SystemGated'
BY DEF SystemGated, OthersStay

LEMMA BodiesStay ==
  ASSUME BodiesFaithful, SentKept, UNCHANGED sent
  PROVE  BodiesFaithful'
BY DEF BodiesFaithful, SentKept

LEMMA PathTypes ==
  ASSUME IInv
  PROVE  /\ pc \in [Requests -> Stages] /\ turn \in [Requests -> Turns \cup {NONE}]
         /\ sent \in [Requests -> SentBody \cup {NONE}] /\ picked \in [Requests -> Prefix \cup {NONE}]
BY DEF IInv, PathOK, HeldOK, PickedOK

LEMMA ArriveGated ==
  ASSUME IInv, CInv, NEW r \in Requests, NEW t \in Turns, Arrive(r, t)
  PROVE  BodiesFaithful' /\ SystemGated'
<1>1. UNCHANGED <<sent, picked>> /\ turn' = [turn EXCEPT ![r] = t]
  BY DEF Arrive
<1>2. PICK stage \in {"boundary", "probe", "select"} : pc' = [pc EXCEPT ![r] = stage]
  BY DEF Arrive, Enter
<1>3. OthersStay(r) /\ pc'[r] = stage
  BY <1>1, <1>2, PathTypes DEF OthersStay
<1>4. SystemGated'
  BY <1>3, GatedElsewhere DEF CInv
<1>5. BodiesFaithful'
  BY <1>1, ArrivePath, BodiesStay DEF CInv
<1> QED BY <1>4, <1>5

LEMMA LookupGated ==
  ASSUME CInv, NEW r \in Requests, Lookup(r)
  PROVE  BodiesFaithful' /\ SystemGated'
<1>1. UNCHANGED <<pc, turn, picked, sent>>
  BY DEF Lookup, HydrateRead, HydrateInstall, AdoptScan, AdoptInstall
<1> QED BY <1>1 DEF CInv, BodiesFaithful, SystemGated

LEMMA EntersSelectGated ==
  ASSUME IInv, CInv, NEW r \in Requests, Boundary(r) \/ ProbeEnd(r)
  PROVE  BodiesFaithful' /\ SystemGated'
<1>1. UNCHANGED <<turn, picked, sent>> /\ pc' = [pc EXCEPT ![r] = "select"]
  BY DEF Boundary, ProbeEnd, Enter
<1>2. OthersStay(r) /\ pc'[r] = "select"
  BY <1>1, PathTypes DEF OthersStay
<1>3. SystemGated'
  BY <1>2, GatedElsewhere DEF CInv
<1> QED BY <1>1, <1>3 DEF CInv, BodiesFaithful

LEMMA SelectGated ==
  ASSUME IInv, CInv, NEW r \in Requests, Select(r)
  PROVE  BodiesFaithful' /\ SystemGated'
<1>1. UNCHANGED <<turn, sent>> /\ pc' = [pc EXCEPT ![r] = "floor"]
  BY DEF Select, Enter
<1>2. /\ \A q \in Requests \ {r} : picked'[q] = picked[q]
      /\ picked'[r] # NONE => Gated(picked'[r], turn[r].msgs, turn[r].sys)
  BY SelectPicks
<1>3. pc'[r] = "floor" /\ \A q \in Requests \ {r} : pc'[q] = pc[q]
  BY <1>1, PathTypes
<1>4. ASSUME NEW q \in Requests, picked'[q] # NONE
      PROVE  /\ pc'[q] = "floor" => Gated(picked'[q], turn'[q].msgs, turn'[q].sys)
             /\ pc'[q] = "inflight" /\ sent'[q].msgs # Optimized(turn'[q])
                => picked'[q].sys = turn'[q].sys
  <2>1. CASE q = r
    BY <1>1, <1>2, <1>3, <1>4, <2>1
  <2>2. CASE q # r
    BY <1>1, <1>2, <1>3, <1>4, <2>2 DEF CInv, SystemGated
  <2> QED BY <2>1, <2>2
<1>5. SystemGated'
  BY <1>4 DEF SystemGated
<1> QED BY <1>1, <1>5 DEF CInv, BodiesFaithful

LEMMA SendGated ==
  ASSUME NothingWithdrawn, IInv, CInv, NEW r \in Requests, Send(r)
  PROVE  BodiesFaithful' /\ SystemGated'
<1>1. /\ UNCHANGED <<turn, picked>> /\ pc[r] = "floor" /\ pc' = [pc EXCEPT ![r] = "inflight"]
      /\ sent' = [sent EXCEPT ![r] = Body(r)]
  BY DEF Send
<1>2. /\ Faithful(Body(r), turn[r].msgs)
      /\ picked[r] # NONE /\ Body(r).msgs # Optimized(turn[r]) => picked[r].sys = turn[r].sys
  BY <1>1, BodyFaithful
<1>3. /\ sent'[r] = Body(r) /\ pc'[r] = "inflight"
      /\ \A q \in Requests \ {r} : sent'[q] = sent[q] /\ pc'[q] = pc[q]
  BY <1>1, PathTypes
<1>4. ASSUME NEW q \in Requests, sent'[q] # NONE
      PROVE  Faithful(sent'[q], turn'[q].msgs)
  <2>1. CASE q = r
    BY <1>1, <1>2, <1>3, <2>1
  <2>2. CASE q # r
    BY <1>1, <1>3, <1>4, <2>2 DEF CInv, BodiesFaithful
  <2> QED BY <2>1, <2>2
<1>5. ASSUME NEW q \in Requests, picked'[q] # NONE
      PROVE  /\ pc'[q] = "floor" => Gated(picked'[q], turn'[q].msgs, turn'[q].sys)
             /\ pc'[q] = "inflight" /\ sent'[q].msgs # Optimized(turn'[q])
                => picked'[q].sys = turn'[q].sys
  <2>1. CASE q = r
    BY <1>1, <1>2, <1>3, <1>5, <2>1
  <2>2. CASE q # r
    BY <1>1, <1>3, <1>5, <2>2 DEF CInv, SystemGated
  <2> QED BY <2>1, <2>2
<1> QED BY <1>4, <1>5 DEF BodiesFaithful, SystemGated

LEMMA ResponseGated ==
  ASSUME IInv, CInv, NEW r \in Requests, Response(r)
  PROVE  BodiesFaithful' /\ SystemGated'
<1>1. UNCHANGED <<turn, sent>>
  BY DEF Response, PopPending, Fail, Update, Write
<1>2. PICK stage \in {"popped", "writing", "done"} : pc' = [pc EXCEPT ![r] = stage]
  BY DEF Response, PopPending, Fail, Update, Write, Finished
<1>3. picked' = picked \/ picked' = [picked EXCEPT ![r] = NONE]
  BY DEF Response, PopPending, Fail, Update, Write, Finished
<1>4. OthersStay(r) /\ pc'[r] = stage
  BY <1>1, <1>2, <1>3, PathTypes DEF OthersStay
<1>5. SystemGated'
  BY <1>4, GatedElsewhere DEF CInv
<1> QED BY <1>1, <1>5 DEF CInv, BodiesFaithful

-----------------------------------------------------------------------------
LEMMA InitContent == Init => CInv
<1> SUFFICES ASSUME Init PROVE CInv
  OBVIOUS
<1>1. EvenHeld(trackers, disk, loaded, donor, picked)
  BY DEF Init, EvenHeld, TrackersEven, FilesEven, LoadedEven, DonorsEven, PickedEven
<1> QED BY <1>1 DEF Init, CInv, BodiesFaithful, SystemGated

LEMMA NextContent ==
  ASSUME NothingWithdrawn, IInv, CInv, [Next]_vars
  PROVE  CInv'
<1>1. ASSUME EvenNext, BodiesFaithful', SystemGated'
      PROVE  CInv'
  BY <1>1 DEF CInv, EvenNext
<1>2. ASSUME NEW r \in Requests, NEW t \in Turns, Arrive(r, t)
      PROVE  CInv'
  BY <1>1, <1>2, ArriveEven, ArriveGated
<1>3. ASSUME NEW r \in Requests, Lookup(r)
      PROVE  CInv'
  <2>1. EvenNext
    BY <1>3, HydrateReadEven, HydrateInstallEven, AdoptScanEven, AdoptInstallEven DEF Lookup
  <2> QED BY <1>1, <1>3, <2>1, LookupGated
<1>4. ASSUME NEW r \in Requests, Path(r)
      PROVE  CInv'
  <2>1. EvenNext
    BY <1>4, BoundaryEven, ProbeEndEven, SelectEven, SendEven DEF Path
  <2>2. BodiesFaithful' /\ SystemGated'
    BY <1>4, EntersSelectGated, SelectGated, SendGated DEF Path
  <2> QED BY <1>1, <2>1, <2>2
<1>5. ASSUME NEW r \in Requests, Response(r)
      PROVE  CInv'
  <2>1. EvenNext
    BY <1>5, PopPendingEven, FailEven, UpdateEven, WriteEven DEF Response
  <2> QED BY <1>1, <1>5, <2>1, ResponseGated
<1>6. CASE Crash
  <2>1. (\A r \in Requests : picked'[r] = NONE) /\ UNCHANGED <<turn, sent>>
    BY <1>6 DEF Crash
  <2>2. BodiesFaithful' /\ SystemGated'
    BY <2>1 DEF CInv, BodiesFaithful, SystemGated
  <2> QED BY <1>1, <1>6, <2>2, CrashEven
<1>7. CASE Tick
  <2>1. UNCHANGED <<pc, turn, picked, sent>>
    BY <1>7 DEF Tick, localVars
  <2>2. BodiesFaithful' /\ SystemGated'
    BY <2>1 DEF CInv, BodiesFaithful, SystemGated
  <2> QED BY <1>1, <1>7, <2>2, TickEven
<1>8. CASE UNCHANGED vars
  <2>1. UNCHANGED <<trackers, disk, loaded, donor, picked, pc, turn, sent>>
    BY <1>8 DEF vars, storeVars, localVars
  <2>2. EvenNext
    BY <2>1 DEF CInv, EvenNext
  <2>3. BodiesFaithful' /\ SystemGated'
    BY <2>1 DEF CInv, BodiesFaithful, SystemGated
  <2> QED BY <1>1, <2>2, <2>3
<1> QED BY <1>2, <1>3, <1>4, <1>5, <1>6, <1>7, <1>8 DEF Next

LEMMA ContentHolds ==
  ASSUME NothingWithdrawn
  PROVE  Spec => []CInv
<1>1. IInv /\ CInv /\ [Next]_vars => CInv'
  BY NextContent
<1> QED BY <1>1, InitContent, InvHolds, PTL DEF Spec

-----------------------------------------------------------------------------
(* What holds of every behaviour.                                          *)

(* Replay changes bytes, never the conversation: while no scaffolding is   *)
(* withdrawn, every message of the user and the model goes upstream, once  *)
(* and in order, whatever was compressed, forked, edited at the tail, cut  *)
(* at the floor, adopted or brought back after a restart                   *)
(* (overlay_cached_prefix_shaped, split_inflated_replay_at_floor).         *)
THEOREM ContentKept ==
  ASSUME NothingWithdrawn
  PROVE  Spec => []ClientContentKept
<1>1. ASSUME IInv, CInv
      PROVE  ClientContentKept
  <2> SUFFICES ASSUME NEW r \in Requests, sent[r] # NONE
               PROVE  Conversation(sent[r].msgs) = Conversation(Msgs(r))
    BY DEF ClientContentKept
  <2>1. pc[r] # "idle" /\ sent[r] \in SentBody
    BY <1>1 DEF IInv, PathOK
  <2>2. Msgs(r) \in Seq(Message) /\ Msgs(r) = turn[r].msgs
    BY <1>1, <2>1, RequestFields DEF IInv
  <2>3. Same(sent[r].msgs, Msgs(r)) /\ sent[r].msgs \in Seq(Message)
    BY <1>1, <2>1, <2>2 DEF CInv, BodiesFaithful, Faithful, SentBody
  <2> QED BY <2>2, <2>3, SameConversation
<1> QED BY <1>1, InvHolds, ContentHolds, PTL

(* A prefix goes out only under the system block it was recorded under:    *)
(* the pick is gated, and the primary previous_turn_for falls back to is   *)
(* neither a continuation nor a match, so the overlay declines it, while   *)
(* no scaffolding is withdrawn (previous_turn_for, overlay_diverged).      *)
THEOREM SystemKept ==
  ASSUME NothingWithdrawn
  PROVE  Spec => []ReplayKeepsSystem
<1>1. CInv => ReplayKeepsSystem
  BY DEF CInv, SystemGated, ReplayKeepsSystem
<1> QED BY <1>1, ContentHolds, PTL

(* The adjacency check is a net that never catches, while no scaffolding   *)
(* is withdrawn and the client itself sends legal turns: a splice of two   *)
(* renderings of the same messages has the roles and texts of the turn     *)
(* (first_illegal_system_position).                                        *)
THEOREM AdjacencyNetUnused ==
  ASSUME NothingWithdrawn, LegalTurns
  PROVE  Spec => []AdjacencyNetNeverFires
<1>1. ASSUME IInv, CInv
      PROVE  AdjacencyNetNeverFires
  <2> SUFFICES ASSUME NEW r \in Requests, sent[r] # NONE
               PROVE  sent[r].skip # "system_adjacency_broken"
    BY DEF AdjacencyNetNeverFires
  <2>1. turn[r] \in Turns
    BY <1>1 DEF IInv, PathOK
  <2> QED BY <1>1, <2>1 DEF CInv, BodiesFaithful, Faithful, LegalTurns
<1> QED BY <1>1, InvHolds, ContentHolds, PTL


-----------------------------------------------------------------------------
(* The budget of the alternates.                                           *)

LEMMA ImageIsFinite ==
  ASSUME NEW S, IsFiniteSet(S), NEW f
  PROVE  IsFiniteSet({f[x] : x \in S})
<1> DEFINE g == [x \in S |-> f[x]]
           T == {f[x] : x \in S}
<1>1. g \in Surjection(S, T)
  BY DEF Surjection
<1> HIDE DEF g, T
<1>2. IsFiniteSet(T)
  BY <1>1, FS_Surjection
<1> QED BY <1>2 DEF T

\* The members of S that come before a.
Before(S, R, a) == {b \in S : <<b, a>> \in R}

(* In a finite set with a strict total order, how many come before one     *)
(* tells the members apart and takes every value up to the last.           *)
LEMMA RankIsBijective ==
  ASSUME NEW S, IsFiniteSet(S), NEW R,
         \A a \in S : <<a, a>> \notin R,
         \A a, b, c \in S : <<a, b>> \in R /\ <<b, c>> \in R => <<a, c>> \in R,
         \A a, b \in S : a # b => <<a, b>> \in R \/ <<b, a>> \in R
  PROVE  /\ Cardinality(S) \in Nat
         /\ \A a \in S : Cardinality(Before(S, R, a)) \in 0..(Cardinality(S) - 1)
         /\ \A a, c \in S : Cardinality(Before(S, R, a)) = Cardinality(Before(S, R, c)) => a = c
         /\ \A i \in 0..(Cardinality(S) - 1) : \E a \in S : Cardinality(Before(S, R, a)) = i
<1> DEFINE before(a) == Before(S, R, a)
           n == Cardinality(S)
           rank == [a \in S |-> Cardinality(before(a))]
<1>1. n \in Nat
  BY FS_CardinalityType
<1>2. ASSUME NEW a \in S
      PROVE  before(a) \in SUBSET S /\ IsFiniteSet(before(a)) /\ Cardinality(before(a)) \in Nat
  <2>1. before(a) \in SUBSET S
    BY DEF Before
  <2> HIDE DEF before
  <2> QED BY <2>1, FS_Subset, FS_CardinalityType
<1>3. ASSUME NEW a \in S
      PROVE  rank[a] \in 0..(n - 1)
  <2>1. before(a) # S
    BY DEF Before
  <2>2. rank[a] = Cardinality(before(a))
    OBVIOUS
  <2> HIDE DEF before, rank
  <2>3. Cardinality(before(a)) <= n /\ Cardinality(before(a)) # n
    BY <1>2, <2>1, FS_Subset
  <2> QED BY <1>1, <1>2, <2>2, <2>3
<1>4. ASSUME NEW a \in S, NEW c \in S, <<a, c>> \in R
      PROVE  rank[a] # rank[c]
  <2>1. before(a) \cup {a} \in SUBSET before(c) /\ a \notin before(a)
    BY <1>4 DEF Before
  <2>2. rank[a] = Cardinality(before(a)) /\ rank[c] = Cardinality(before(c))
    OBVIOUS
  <2> HIDE DEF before, rank
  <2>3. Cardinality(before(a) \cup {a}) = Cardinality(before(a)) + 1
    BY <1>2, <2>1, FS_AddElement
  <2>4. Cardinality(before(a) \cup {a}) <= Cardinality(before(c))
    BY <1>2, <2>1, FS_Subset
  <2>5. Cardinality(before(a)) \in Nat /\ Cardinality(before(c)) \in Nat
    BY <1>2
  <2> QED BY <2>2, <2>3, <2>4, <2>5
<1>5. \A a, c \in S : rank[a] = rank[c] => a = c
  <2> HIDE DEF rank
  <2> QED BY <1>4
<1>6. rank \in Injection(S, 0..(n - 1))
  <2>1. rank \in [S -> 0..(n - 1)]
    <3>1. rank = [a \in S |-> rank[a]]
      OBVIOUS
    <3> HIDE DEF rank
    <3> QED BY <1>3, <3>1
  <2> HIDE DEF rank
  <2> QED BY <1>5, <2>1 DEF Injection, IsInjective
<1>7. IsFiniteSet(0..(n - 1)) /\ Cardinality(0..(n - 1)) = n
  <2>1. 0 \in Int /\ n - 1 \in Int
    BY <1>1
  <2>2. IsFiniteSet(0..(n - 1)) /\ Cardinality(0..(n - 1)) = IF 0 > n - 1 THEN 0 ELSE n - 1 - 0 + 1
    <3> HIDE DEF n
    <3> QED BY <2>1, FS_Interval
  <2> QED BY <1>1, <2>2
<1>8. rank \in Surjection(S, 0..(n - 1))
  <2> HIDE DEF rank
  <2> QED BY <1>6, <1>7, FS_Injection
<1>9. \A i \in 0..(n - 1) : \E a \in S : rank[a] = i
  <2> HIDE DEF rank
  <2> QED BY <1>8 DEF Surjection
<1>10. \A a \in S : rank[a] = Cardinality(Before(S, R, a))
  OBVIOUS
<1> HIDE DEF rank
<1> QED BY <1>1, <1>3, <1>5, <1>9, <1>10

\* The alternates are a finite list: positions from 1, one each.
Listed(alts) ==
  /\ IsFiniteSet(alts) /\ alts \in SUBSET Prefix
  /\ \A a \in alts : a.pos # 0
  /\ \A a, b \in alts : a.pos = b.pos => a = b

LEMMA FewerListed ==
  ASSUME NEW alts, Listed(alts), NEW few \in SUBSET alts
  PROVE  Listed(few) /\ Cardinality(few) <= Cardinality(alts)
<1>1. IsFiniteSet(few) /\ Cardinality(few) <= Cardinality(alts)
  BY FS_Subset DEF Listed
<1> QED BY <1>1 DEF Listed

(* Vec::insert(0, ..) leaves a list.                                       *)
LEMMA InsertFirstListed ==
  ASSUME NEW alts, Listed(alts), NEW a \in Prefix
  PROVE  Listed(InsertFirst(alts, a))
<1> DEFINE moved == [b \in alts |-> [b EXCEPT !.pos = @ + 1]]
           first == [a EXCEPT !.pos = 1]
           back == {moved[b] : b \in alts}
<1>1. ASSUME NEW b \in alts
      PROVE  moved[b] \in Prefix /\ moved[b].pos = b.pos + 1 /\ b.pos \in Nat /\ b.pos # 0
  <2>1. b \in Prefix /\ b.pos # 0
    BY DEF Listed
  <2>2. b.pos + 1 \in Nat
    BY <2>1 DEF Prefix
  <2> QED BY <2>1, <2>2 DEF Prefix
<1>2. first \in Prefix /\ first.pos = 1
  BY DEF Prefix
<1>3. InsertFirst(alts, a) = back \cup {first}
  BY DEF InsertFirst
<1> HIDE DEF moved, first
<1>4. IsFiniteSet(back \cup {first})
  <2>1. IsFiniteSet(back)
    BY ImageIsFinite DEF Listed
  <2> HIDE DEF back
  <2> QED BY <2>1, FS_AddElement
<1>5. back \cup {first} \in SUBSET Prefix /\ \A e \in back \cup {first} : e.pos # 0
  BY <1>1, <1>2
<1>6. ASSUME NEW e \in back \cup {first}, NEW g \in back \cup {first}, e.pos = g.pos
      PROVE  e = g
  <2>1. CASE e = first \/ g = first
    BY <1>1, <1>2, <1>6, <2>1
  <2>2. CASE e # first /\ g # first
    <3>1. PICK b \in alts, c \in alts : e = moved[b] /\ g = moved[c]
      BY <2>2
    <3>2. b.pos = c.pos
      BY <1>1, <1>6, <3>1
    <3> QED BY <3>1, <3>2 DEF Listed
  <2> QED BY <2>1, <2>2
<1> HIDE DEF back
<1> QED BY <1>3, <1>4, <1>5, <1>6 DEF Listed

(* Vec::truncate leaves at most as many as it is told.                     *)
LEMMA TruncatedCount ==
  ASSUME NEW alts, Listed(alts)
  PROVE  Listed(Truncated(alts)) /\ Cardinality(Truncated(alts)) <= MaxAlternates
<1> DEFINE R == {p \in alts \X alts : p[1].pos < p[2].pos}
           few == Truncated(alts)
           top == 0..(MaxAlternates - 1)
           rank == [a \in few |-> Cardinality(Before(alts, R, a))]
<1>1. \A a, b \in alts : <<a, b>> \in R <=> a.pos < b.pos
  OBVIOUS
<1>2. \A a \in alts : a.pos \in Nat
  BY DEF Listed, Prefix
<1>3. \A a \in alts : Cardinality({b \in alts : b.pos < a.pos}) = Cardinality(Before(alts, R, a))
  <2> SUFFICES ASSUME NEW a \in alts
               PROVE  Cardinality({b \in alts : b.pos < a.pos}) = Cardinality(Before(alts, R, a))
    OBVIOUS
  <2>1. {b \in alts : b.pos < a.pos} = Before(alts, R, a)
    BY <1>1 DEF Before
  <2> QED BY <2>1
<1> HIDE DEF R
<1>4. /\ \A a \in alts : Cardinality(Before(alts, R, a)) \in 0..(Cardinality(alts) - 1)
      /\ \A a, c \in alts :
           Cardinality(Before(alts, R, a)) = Cardinality(Before(alts, R, c)) => a = c
  <2>1. \A a \in alts : <<a, a>> \notin R
    BY <1>1, <1>2
  <2>2. \A a, b, c \in alts : <<a, b>> \in R /\ <<b, c>> \in R => <<a, c>> \in R
    BY <1>1, <1>2
  <2>3. \A a, b \in alts : a # b => <<a, b>> \in R \/ <<b, a>> \in R
    BY <1>1, <1>2 DEF Listed
  <2>4. IsFiniteSet(alts)
    BY DEF Listed
  <2> QED BY <2>1, <2>2, <2>3, <2>4, RankIsBijective
<1>5. few \in SUBSET alts
  BY DEF Truncated
<1>6. ASSUME NEW a \in few
      PROVE  Cardinality(Before(alts, R, a)) < MaxAlternates
  <2>1. Cardinality({b \in alts : b.pos < a.pos}) < MaxAlternates
    BY DEF Truncated
  <2> QED BY <1>3, <1>5, <2>1
<1> HIDE DEF few
<1>7. rank \in Injection(few, top)
  <2>1. \A a \in few : rank[a] = Cardinality(Before(alts, R, a))
    OBVIOUS
  <2>2. \A a \in few : rank[a] \in top
    <3> SUFFICES ASSUME NEW a \in few PROVE rank[a] \in top
      OBVIOUS
    <3>1. rank[a] \in 0..(Cardinality(alts) - 1) /\ rank[a] < MaxAlternates
      BY <1>4, <1>5, <1>6, <2>1
    <3> HIDE DEF rank
    <3> QED BY <3>1, BoundAssumption
  <2>3. rank = [a \in few |-> rank[a]]
    OBVIOUS
  <2> HIDE DEF rank
  <2>4. \A a, c \in few : rank[a] = rank[c] => a = c
    BY <1>4, <1>5, <2>1
  <2> QED BY <2>2, <2>3, <2>4 DEF Injection, IsInjective
<1>8. IsFiniteSet(top) /\ Cardinality(top) = MaxAlternates
  <2>1. MaxAlternates \in Nat \ {0} /\ 0 \in Int /\ MaxAlternates - 1 \in Int
    BY BoundAssumption
  <2>2. /\ IsFiniteSet(top)
        /\ Cardinality(top) = IF 0 > MaxAlternates - 1 THEN 0 ELSE MaxAlternates - 1 - 0 + 1
    BY <2>1, FS_Interval
  <2> QED BY <2>1, <2>2
<1> HIDE DEF rank, top
<1>9. Cardinality(few) <= MaxAlternates
  BY <1>7, <1>8, FS_Injection
<1> QED BY <1>5, <1>9, FewerListed DEF few

-----------------------------------------------------------------------------
(* Counting the messages.                                                  *)

\* Every message of every alternate, as a set; MessagesHeld is its size.
Held(alts) == UNION {{a} \X (1..Len(a.o)) : a \in alts}

LEMMA OneHeld ==
  ASSUME NEW a \in Prefix
  PROVE  /\ Len(a.o) \in Nat /\ IsFiniteSet({a} \X (1..Len(a.o)))
         /\ Cardinality({a} \X (1..Len(a.o))) = Len(a.o)
<1> DEFINE n == Len(a.o)
           places == 1..n
<1>1. n \in Nat
  BY LenProperties DEF Prefix
<1> HIDE DEF n
<1>2. IsFiniteSet(places) /\ Cardinality(places) = n
  <2>1. IsFiniteSet(places) /\ Cardinality(places) = IF 1 > n THEN 0 ELSE n - 1 + 1
    BY <1>1, FS_Interval
  <2> QED BY <1>1, <2>1
<1>3. IsFiniteSet({a}) /\ Cardinality({a}) = 1
  BY FS_Singleton
<1> HIDE DEF places
<1>4. /\ IsFiniteSet({a} \X places)
      /\ Cardinality({a} \X places) = Cardinality({a}) * Cardinality(places)
  BY <1>2, <1>3, FS_Product
<1>5. Cardinality({a} \X places) = n
  BY <1>1, <1>2, <1>3, <1>4
<1> QED BY <1>1, <1>4, <1>5 DEF places, n

LEMMA HeldIsFinite ==
  ASSUME NEW alts \in SUBSET Prefix, IsFiniteSet(alts)
  PROVE  IsFiniteSet(Held(alts))
<1> DEFINE f == [a \in alts |-> {a} \X (1..Len(a.o))]
           parts == {f[a] : a \in alts}
<1>1. Held(alts) = UNION parts
  BY DEF Held
<1>2. \A a \in alts : IsFiniteSet(f[a])
  BY OneHeld
<1> HIDE DEF f
<1>3. IsFiniteSet(parts) /\ \A T \in parts : IsFiniteSet(T)
  BY <1>2, ImageIsFinite
<1> HIDE DEF parts
<1> QED BY <1>1, <1>3, FS_UNION

LEMMA FewerHeld ==
  ASSUME NEW alts \in SUBSET Prefix, IsFiniteSet(alts), NEW few \in SUBSET alts
  PROVE  MessagesHeld(few) <= MessagesHeld(alts)
<1>1. Held(few) \in SUBSET Held(alts)
  BY DEF Held
<1>2. MessagesHeld(few) = Cardinality(Held(few)) /\ MessagesHeld(alts) = Cardinality(Held(alts))
  BY DEF MessagesHeld, Held
<1> QED BY <1>1, <1>2, HeldIsFinite, FS_Subset

(* One more alternate adds no more than its own messages.                  *)
LEMMA OneMoreHeld ==
  ASSUME NEW alts \in SUBSET Prefix, IsFiniteSet(alts), NEW a \in Prefix
  PROVE  /\ MessagesHeld(alts) \in Nat /\ MessagesHeld(alts \cup {a}) \in Nat
         /\ MessagesHeld(alts \cup {a}) <= MessagesHeld(alts) + Len(a.o)
<1> DEFINE own == {a} \X (1..Len(a.o))
           old == Held(alts)
<1>1. Held(alts \cup {a}) = old \cup own
  BY DEF Held
<1>2. /\ MessagesHeld(alts \cup {a}) = Cardinality(Held(alts \cup {a}))
      /\ MessagesHeld(alts) = Cardinality(old)
  BY DEF MessagesHeld, Held
<1>3. IsFiniteSet(own) /\ Cardinality(own) = Len(a.o) /\ Len(a.o) \in Nat
  BY OneHeld
<1>4. IsFiniteSet(old) /\ Cardinality(old) \in Nat
  BY HeldIsFinite, FS_CardinalityType
<1> HIDE DEF own, old
<1>5. /\ IsFiniteSet(old \cup own)
      /\ Cardinality(old \cup own) = Cardinality(old) + Cardinality(own) - Cardinality(old \cap own)
  BY <1>3, <1>4, FS_Union
<1>6. Cardinality(old \cap own) \in Nat /\ Cardinality(old \cup own) \in Nat
  BY <1>4, <1>5, FS_Intersection, FS_CardinalityType
<1> DEFINE both == Cardinality(old \cap own)
<1>7. both \in Nat /\ Cardinality(old \cup own) = Cardinality(old) + Len(a.o) - both
  BY <1>3, <1>5, <1>6
<1> HIDE DEF both
<1>8. Cardinality(old \cup own) <= Cardinality(old) + Len(a.o)
  BY <1>3, <1>4, <1>7
<1> QED BY <1>1, <1>2, <1>4, <1>6, <1>8

-----------------------------------------------------------------------------
(* Spending the budget.                                                    *)

\* The alternate the budget is spent on in the i-th place.
Nth(alts, i) == CHOOSE a \in alts : Cardinality({b \in alts : SpentBefore(b, a)}) = i - 1

(* The order is total, so there is one in every place.                     *)
LEMMA NthIsHeld ==
  ASSUME NEW alts, Listed(alts), NEW i \in 1..Cardinality(alts)
  PROVE  Nth(alts, i) \in alts
<1> DEFINE R == {p \in alts \X alts : SpentBefore(p[1], p[2])}
<1>1. \A a, b \in alts : <<a, b>> \in R <=> SpentBefore(a, b)
  OBVIOUS
<1>2. \A a \in alts : a.pos \in Nat /\ Len(a.o) \in Nat
  BY LenProperties DEF Listed, Prefix
<1>3. ASSUME NEW a \in alts
      PROVE  Cardinality({b \in alts : SpentBefore(b, a)}) = Cardinality(Before(alts, R, a))
  <2>1. {b \in alts : SpentBefore(b, a)} = Before(alts, R, a)
    BY <1>1 DEF Before
  <2> QED BY <2>1
<1> HIDE DEF R
<1>4. /\ Cardinality(alts) \in Nat
      /\ \A k \in 0..(Cardinality(alts) - 1) :
           \E a \in alts : Cardinality(Before(alts, R, a)) = k
  <2>1. \A a \in alts : <<a, a>> \notin R
    BY <1>1, <1>2 DEF SpentBefore
  <2>2. \A a, b, c \in alts : <<a, b>> \in R /\ <<b, c>> \in R => <<a, c>> \in R
    BY <1>1, <1>2 DEF SpentBefore
  <2>3. \A a, b \in alts : a # b => <<a, b>> \in R \/ <<b, a>> \in R
    BY <1>1, <1>2 DEF SpentBefore, Listed
  <2>4. IsFiniteSet(alts)
    BY DEF Listed
  <2> QED BY <2>1, <2>2, <2>3, <2>4, RankIsBijective
<1>5. i - 1 \in 0..(Cardinality(alts) - 1)
  BY <1>4
<1>6. PICK a \in alts : Cardinality(Before(alts, R, a)) = i - 1
  BY <1>4, <1>5
<1>7. Cardinality({b \in alts : SpentBefore(b, a)}) = i - 1
  BY <1>3, <1>6
<1> QED BY <1>7 DEF Nth

Nothing == [kept |-> {}, held |-> 0]

\* The i-th alternate is kept, or passed over.
KeepStep(alts, w, i) ==
  LET a == Nth(alts, i)
      size == Len(a.o)
  IN  IF \/ Cardinality(w.kept) >= MaxAlternates
         \/ w.kept # {} /\ w.held + size > MaxAlternateMsgs
      THEN w
      ELSE [kept |-> w.kept \cup {a}, held |-> w.held + size]

(* What is kept is the end of a walk along the alternates.                 *)
LEMMA KeepWalk ==
  ASSUME NEW alts, IsFiniteSet(alts)
  PROVE  \E at : /\ KeptAlternates(alts) = {a \in alts : a \in at[Cardinality(alts)].kept}
                 /\ at[0] = Nothing
                 /\ \A i \in 1..Cardinality(alts) : at[i] = KeepStep(alts, at[i - 1], i)
<1> DEFINE n == Cardinality(alts)
           Step(w, i) == KeepStep(alts, w, i)
           Walk(f, k) == f = [i \in 0..k |-> IF i = 0 THEN Nothing ELSE Step(f[i - 1], i)]
           G == {k \in 0..n : \E f : Walk(f, k)}
<1>1. n \in Nat
  BY FS_CardinalityType
<1>2. KeptAlternates(alts) = {a \in alts : a \in (CHOOSE f : Walk(f, n))[n].kept}
  BY DEF KeptAlternates, KeepStep, Nth, Nothing
<1> HIDE DEF Step, n
<1>3. 0 \in G
  <2>1. Walk([i \in 0..0 |-> Nothing], 0)
    OBVIOUS
  <2> HIDE DEF Walk
  <2> QED BY <1>1, <2>1
<1>4. ASSUME NEW k \in 1..n, k - 1 \in G
      PROVE  k \in G
  <2>1. k \in 0..n /\ k - 1 \in 0..k /\ k # 0 /\ k \in Nat /\ k - 1 # k
    BY <1>1
  <2>2. PICK f : Walk(f, k - 1)
    <3> HIDE DEF Walk
    <3> QED BY <1>4
  <2> DEFINE g == [i \in 0..k |-> IF i = k THEN Step(f[k - 1], k) ELSE f[i]]
  <2>3. ASSUME NEW i \in 0..k
        PROVE  g[i] = IF i = 0 THEN Nothing ELSE Step(g[i - 1], i)
    <3>1. CASE i = k
      BY <2>1, <3>1
    <3>2. CASE i # k
      <4>1. i \in 0..(k - 1) /\ (i # 0 => i - 1 \in 0..k /\ i - 1 # k)
        BY <2>1, <3>2
      <4>2. f[i] = IF i = 0 THEN Nothing ELSE Step(f[i - 1], i)
        BY <2>2, <4>1
      <4>3. g[i] = f[i] /\ (i # 0 => g[i - 1] = f[i - 1])
        BY <3>2, <4>1
      <4> QED BY <4>2, <4>3
    <3> QED BY <3>1, <3>2
  <2>4. Walk(g, k)
    <3>1. g = [i \in 0..k |-> g[i]]
      OBVIOUS
    <3> HIDE DEF g
    <3> QED BY <2>3, <3>1
  <2> HIDE DEF Walk
  <2> QED BY <2>1, <2>4
<1>5. n \in G
  <2>1. n \in 0..n
    BY <1>1
  <2> HIDE DEF G
  <2> QED BY <1>1, <1>3, <1>4, <2>1, UpTo
<1> DEFINE at == CHOOSE f : Walk(f, n)
<1>6. Walk(at, n)
  <2> HIDE DEF Walk
  <2> QED BY <1>5
<1>7. KeptAlternates(alts) = {a \in alts : a \in at[n].kept}
  BY <1>2
<1> HIDE DEF at
<1>8. \A i \in 0..n : at[i] = IF i = 0 THEN Nothing ELSE Step(at[i - 1], i)
  BY <1>6
<1>9. at[0] = Nothing /\ \A i \in 1..n : at[i] = Step(at[i - 1], i)
  BY <1>1, <1>8
<1> QED BY <1>7, <1>9 DEF n, Step

\* What is kept so far: some of the alternates, no more than their number may
\* be, and no more messages than their sum may be unless there is only one.
Within(alts, w) ==
  /\ w.kept \in SUBSET alts /\ w.held \in Nat
  /\ Cardinality(w.kept) <= MaxAlternates
  /\ MessagesHeld(w.kept) <= w.held
  /\ Cardinality(w.kept) > 1 => w.held <= MaxAlternateMsgs

LEMMA KeepStepWithin ==
  ASSUME NEW alts, Listed(alts), NEW w, Within(alts, w), NEW i \in 1..Cardinality(alts)
  PROVE  Within(alts, KeepStep(alts, w, i))
<1> DEFINE a == Nth(alts, i)
           kept == w.kept
           held == w.held
           size == Len(a.o)
           full == \/ Cardinality(kept) >= MaxAlternates
                   \/ kept # {} /\ held + size > MaxAlternateMsgs
           v == [kept |-> kept \cup {a}, held |-> held + size]
<1>1. CASE full
  BY <1>1 DEF KeepStep
<1>2. CASE ~full
  <2>1. KeepStep(alts, w, i) = v
    BY <1>2 DEF KeepStep
  <2>2. a \in alts /\ a \in Prefix
    BY NthIsHeld DEF Listed
  <2>3. /\ kept \in SUBSET alts /\ held \in Nat /\ kept \in SUBSET Prefix
        /\ MessagesHeld(kept) <= held
    BY DEF Within, Listed
  <2>4. IsFiniteSet(kept) /\ Cardinality(kept) \in Nat
    BY <2>3, FS_Subset, FS_CardinalityType DEF Listed
  <2> HIDE DEF a, kept, held
  <2>5. size \in Nat
    BY <2>2, OneHeld
  <2>6. /\ MessagesHeld(kept) \in Nat /\ MessagesHeld(kept \cup {a}) \in Nat
        /\ MessagesHeld(kept \cup {a}) <= MessagesHeld(kept) + size
    BY <2>2, <2>3, <2>4, OneMoreHeld
  <2>7. /\ Cardinality(kept \cup {a}) \in Nat
        /\ Cardinality(kept \cup {a}) <= Cardinality(kept) + 1
    <3>1. Cardinality(kept \cup {a}) = IF a \in kept THEN Cardinality(kept) ELSE Cardinality(kept) + 1
      BY <2>4, FS_AddElement
    <3> QED BY <2>4, <3>1
  <2>8. Cardinality(kept) < MaxAlternates /\ (kept = {} \/ held + size <= MaxAlternateMsgs)
    BY <1>2, <2>3, <2>4, <2>5, BoundAssumption
  <2>9. kept = {} => Cardinality(kept) = 0
    BY FS_EmptySet
  <2> HIDE DEF size
  <2>10. /\ Cardinality(kept \cup {a}) <= MaxAlternates /\ held + size \in Nat
         /\ MessagesHeld(kept \cup {a}) <= held + size
         /\ Cardinality(kept \cup {a}) > 1 => held + size <= MaxAlternateMsgs
    BY <2>3, <2>4, <2>5, <2>6, <2>7, <2>8, <2>9, BoundAssumption
  <2>11. v.kept = kept \cup {a} /\ v.held = held + size
    OBVIOUS
  <2>12. v.kept \in SUBSET alts
    BY <2>2, <2>3, <2>11
  <2> HIDE DEF v
  <2>13. Within(alts, v)
    BY <2>10, <2>11, <2>12 DEF Within
  <2> QED BY <2>1, <2>13
<1> QED BY <1>1, <1>2

(* The alternates under both caps.                                         *)
LEMMA KeptWithin ==
  ASSUME NEW alts, Listed(alts)
  PROVE  /\ Listed(KeptAlternates(alts))
         /\ Cardinality(KeptAlternates(alts)) <= MaxAlternates
         /\ Cardinality(KeptAlternates(alts)) > 1
              => MessagesHeld(KeptAlternates(alts)) <= MaxAlternateMsgs
<1> DEFINE n == Cardinality(alts)
<1>1. IsFiniteSet(alts) /\ n \in Nat /\ alts \in SUBSET Prefix
  BY FS_CardinalityType DEF Listed
<1>2. PICK at : /\ KeptAlternates(alts) = {a \in alts : a \in at[n].kept}
                /\ at[0] = Nothing
                /\ \A i \in 1..n : at[i] = KeepStep(alts, at[i - 1], i)
  BY <1>1, KeepWalk
<1> DEFINE G == {i \in 0..n : Within(alts, at[i])}
<1>3. 0 \in G
  <2>1. Nothing.kept = {} /\ Nothing.held = 0
    BY DEF Nothing
  <2>2. MessagesHeld({}) = 0 /\ Cardinality({}) = 0
    BY FS_EmptySet DEF MessagesHeld
  <2>3. Within(alts, Nothing)
    BY <2>1, <2>2, BoundAssumption DEF Within
  <2> QED BY <1>1, <1>2, <2>3
<1>4. ASSUME NEW i \in 1..n, i - 1 \in G
      PROVE  i \in G
  <2>1. Within(alts, at[i - 1]) /\ i \in 0..n
    BY <1>1, <1>4
  <2> QED BY <1>2, <2>1, KeepStepWithin
<1>5. n \in G
  <2>1. n \in 0..n
    BY <1>1
  <2> HIDE DEF G, n
  <2> QED BY <1>1, <1>3, <1>4, <2>1, UpTo
<1> DEFINE w == at[n]
<1>6. Within(alts, w)
  BY <1>5
<1>7. KeptAlternates(alts) = w.kept
  BY <1>2, <1>6 DEF Within
<1> HIDE DEF w
<1>8. Listed(w.kept)
  BY <1>6, FewerListed DEF Within
<1>9. MessagesHeld(w.kept) \in Nat /\ w.held \in Nat
  <2>1. IsFiniteSet(Held(w.kept))
    BY <1>8, HeldIsFinite DEF Listed
  <2>2. MessagesHeld(w.kept) = Cardinality(Held(w.kept))
    BY DEF MessagesHeld, Held
  <2> QED BY <1>6, <2>1, <2>2, FS_CardinalityType DEF Within
<1> QED BY <1>6, <1>7, <1>8, <1>9, BoundAssumption DEF Within

-----------------------------------------------------------------------------
(* The budget is kept by every step.                                       *)

\* No prefix is ever adopted: there is one session, or no turn is long enough.
\* install_adopted truncates the alternates by their number only.
NoAdoption ==
  (\A s, t \in Sessions : s = t) \/ (\A t \in Turns : Len(t.msgs) < AdoptMin)

BudgetOK(alts) ==
  /\ Listed(alts) /\ Cardinality(alts) <= MaxAlternates
  /\ NoAdoption /\ Cardinality(alts) > 1 => MessagesHeld(alts) <= MaxAlternateMsgs

TrackersInBudget(tr) == \A s \in Sessions : tr[s] # NONE => BudgetOK(tr[s].alts)

NoDonors(d) == NoAdoption => \A r \in Requests : d[r] \in {NONE, UNREAD}

\* The inductive invariant.
BInv == TrackersInBudget(trackers) /\ NoDonors(donor)

LEMMA EmptyInBudget == BudgetOK({})
<1>1. IsFiniteSet({}) /\ Cardinality({}) = 0
  BY FS_EmptySet
<1> QED BY <1>1, BoundAssumption DEF BudgetOK, Listed

LEMMA FewerInBudget ==
  ASSUME NEW alts, BudgetOK(alts), NEW few \in SUBSET alts
  PROVE  BudgetOK(few)
<1>1. Listed(few) /\ Cardinality(few) <= Cardinality(alts)
  BY FewerListed DEF BudgetOK
<1>2. Cardinality(few) \in Nat /\ Cardinality(alts) \in Nat
  BY <1>1, FS_CardinalityType DEF BudgetOK, Listed
<1>3. MessagesHeld(few) <= MessagesHeld(alts)
  BY FewerHeld DEF BudgetOK, Listed
<1>4. MessagesHeld(few) \in Nat /\ MessagesHeld(alts) \in Nat
  <2>1. IsFiniteSet(Held(few)) /\ IsFiniteSet(Held(alts))
    BY <1>1, HeldIsFinite DEF BudgetOK, Listed
  <2>2. /\ MessagesHeld(few) = Cardinality(Held(few))
        /\ MessagesHeld(alts) = Cardinality(Held(alts))
    BY DEF MessagesHeld, Held
  <2> QED BY <2>1, <2>2, FS_CardinalityType
<1>5. Cardinality(few) <= MaxAlternates
  BY <1>1, <1>2, BoundAssumption DEF BudgetOK
<1>6. NoAdoption /\ Cardinality(few) > 1 => MessagesHeld(few) <= MaxAlternateMsgs
  BY <1>1, <1>2, <1>3, <1>4, BoundAssumption DEF BudgetOK
<1> QED BY <1>1, <1>5, <1>6 DEF BudgetOK

(* The primary that is set aside is paid for by the smallest alternates.   *)
LEMMA UpdatedInBudget ==
  ASSUME NEW log, NEW t, BaseOK(log, t), BudgetOK(t.alts),
         NEW o, NEW f, NEW sys, NEW frozen
  PROVE  BudgetOK(Updated(t, o, f, sys, frozen).alts)
<1> DEFINE so == Front(o, ReplayableLen(o))
           w == Updated(t, o, f, sys, frozen)
           others == {a \in t.alts : a.o # t.o}
           all == InsertFirst(others, Primary(t))
<1>1. w.alts \in SUBSET Displaced(t, so)
  BY DEF Updated, Recorded
<1>2. BudgetOK(Displaced(t, so))
  <2>1. CASE t.f # << >> /\ ~MatchesPrefix(t.o, so)
    <3>1. Displaced(t, so) = KeptAlternates(all)
      BY <2>1 DEF Displaced
    <3>2. Listed(others) /\ Primary(t) \in Prefix
      BY <2>1, FewerListed DEF BudgetOK, BaseOK
    <3> HIDE DEF others
    <3>3. Listed(all)
      BY <3>2, InsertFirstListed
    <3> HIDE DEF all
    <3> QED BY <3>1, <3>3, KeptWithin DEF BudgetOK
  <2>2. CASE ~(t.f # << >> /\ ~MatchesPrefix(t.o, so))
    BY <2>2 DEF Displaced
  <2> QED BY <2>1, <2>2
<1> HIDE DEF w, so
<1>3. BudgetOK(w.alts)
  BY <1>1, <1>2, FewerInBudget
<1> QED BY <1>3 DEF w

(* An adopted prefix pushes the last alternate out.                        *)
LEMMA WithAlternateInBudget ==
  ASSUME ~NoAdoption, NEW t \in Tracker, BudgetOK(t.alts), NEW d \in Adopted
  PROVE  BudgetOK(WithAlternate(t, d).alts)
<1> DEFINE a == [id |-> t.next, o |-> d.o, f |-> d.f, sys |-> d.sys, pos |-> 1]
           others == {b \in t.alts : b.o # d.o}
           all == InsertFirst(others, a)
           few == Truncated(all)
<1>1. a \in Prefix
  BY DEF Tracker, Adopted, Prefix
<1>2. Listed(others)
  BY FewerListed DEF BudgetOK
<1>3. WithAlternate(t, d) = [t EXCEPT !.alts = few, !.next = t.next + 1, !.age = 0]
  BY DEF WithAlternate
<1> HIDE DEF a, others
<1>4. Listed(all)
  BY <1>1, <1>2, InsertFirstListed
<1> HIDE DEF all
<1>5. Listed(few) /\ Cardinality(few) <= MaxAlternates
  BY <1>4, TruncatedCount
<1> HIDE DEF few
<1>6. WithAlternate(t, d).alts = few
  BY <1>3 DEF Tracker
<1> QED BY <1>5, <1>6 DEF BudgetOK

LEMMA PushInBudget ==
  ASSUME trackers \in [Sessions -> Tracker \cup {NONE}], TrackersInBudget(trackers),
         NEW s \in Sessions, NEW t, BudgetOK(t.alts), Push(s, t)
  PROVE  TrackersInBudget(trackers')
<1>1. \A x \in Sessions : trackers'[x] \in {t, NONE, trackers[x]}
  BY DEF Push
<1> QED BY <1>1 DEF TrackersInBudget

BNext == TrackersInBudget(trackers') /\ NoDonors(donor')

LEMMA StoreTypes ==
  ASSUME IInv
  PROVE  /\ trackers \in [Sessions -> Tracker \cup {NONE}]
         /\ donor \in [Requests -> Adopted \cup {NONE, UNREAD}]
BY DEF IInv, HeldOK, TrackersOK, DonorsOK

LEMMA EnterNoDonors ==
  ASSUME IInv, BInv, NEW r \in Requests, NEW stage, Enter(r, stage)
  PROVE  NoDonors(donor')
<1>1. \A q \in Requests : donor'[q] \in {donor[q], NONE, UNREAD}
  BY StoreTypes DEF Enter
<1> QED BY <1>1 DEF BInv, NoDonors

(* Without another session, or a turn long enough, the scan finds nothing. *)
LEMMA AdoptScanBudget ==
  ASSUME IInv, BInv, NEW r \in Requests, AdoptScan(r)
  PROVE  BNext
<1>1. trackers' = trackers
  BY DEF AdoptScan, storeVars
<1>2. ASSUME NoAdoption
      PROVE  donor' = [donor EXCEPT ![r] = NONE]
  <2>1. Session(r) \in Sessions /\ Msgs(r) \in Seq(Message) /\ turn[r] \in Turns
    BY RequestFields DEF IInv, AdoptScan
  <2>2. CASE \A s, t \in Sessions : s = t
    <3>1. Sessions \ {Session(r)} = {}
      BY <2>1, <2>2
    <3>2. InMemoryDonors(Session(r), Msgs(r)) = {}
      BY <3>1 DEF InMemoryDonors
    <3>3. OnDiskDonors(Session(r), Msgs(r)) = {}
      BY <3>1 DEF OnDiskDonors
    <3>4. Donors(Session(r), Msgs(r)) = {}
      BY <3>2, <3>3 DEF Donors
    <3> QED BY <3>4 DEF AdoptScan
  <2>3. CASE \A t \in Turns : Len(t.msgs) < AdoptMin
    <3>1. ~(Len(Msgs(r)) >= AdoptMin)
      BY <2>1, <2>3, LenProperties, ThresholdAssumption DEF Msgs
    <3> QED BY <3>1 DEF AdoptScan
  <2> QED BY <1>2, <2>2, <2>3 DEF NoAdoption
<1>3. NoDonors(donor')
  <2> SUFFICES ASSUME NoAdoption PROVE \A q \in Requests : donor'[q] \in {NONE, UNREAD}
    BY DEF NoDonors
  <2> QED BY <1>2, StoreTypes DEF BInv, NoDonors
<1> QED BY <1>1, <1>3 DEF BInv, BNext

LEMMA AdoptInstallBudget ==
  ASSUME IInv, BInv, NEW r \in Requests, AdoptInstall(r)
  PROVE  BNext
<1> DEFINE s == Session(r)
           live == Tracked(s) /\ ~Idle(trackers[s]) /\ trackers[s].f # << >>
<1>1. s \in Sessions
  BY RequestFields DEF IInv, AdoptInstall
<1>2. donor[r] \in Adopted /\ ~NoAdoption
  BY StoreTypes DEF BInv, NoDonors, AdoptInstall
<1>3. TrackersInBudget(trackers')
  <2>1. CASE live
    <3>1. trackers[s] \in Tracker /\ BudgetOK(trackers[s].alts)
      BY <1>1, <2>1, StoreTypes DEF BInv, TrackersInBudget, Tracked
    <3>2. BudgetOK(WithAlternate(trackers[s], donor[r]).alts)
      BY <1>2, <3>1, WithAlternateInBudget
    <3>3. \A x \in Sessions : trackers'[x] \in {trackers[x], WithAlternate(trackers[s], donor[r])}
      BY <1>1, <2>1, StoreTypes DEF AdoptInstall
    <3> QED BY <3>2, <3>3 DEF BInv, TrackersInBudget
  <2>2. CASE ~live
    <3>1. FromDonor(donor[r]).alts = {}
      BY DEF FromDonor
    <3>2. Push(s, FromDonor(donor[r]))
      BY <2>2 DEF AdoptInstall
    <3> QED BY <1>1, <3>1, <3>2, StoreTypes, EmptyInBudget, PushInBudget DEF BInv
  <2> QED BY <2>1, <2>2
<1> QED BY <1>2, <1>3 DEF BNext, NoDonors

LEMMA LookupBudget ==
  ASSUME IInv, BInv, NEW r \in Requests, Lookup(r)
  PROVE  BNext
<1>1. CASE HydrateRead(r)
  BY <1>1 DEF HydrateRead, storeVars, BInv, BNext
<1>2. CASE HydrateInstall(r)
  <2>1. Session(r) \in Sessions /\ donor' = donor
    BY <1>2, RequestFields DEF IInv, HydrateInstall, Hydrating
  <2>2. Rehydrated(loaded[r]).alts = {}
    BY DEF Rehydrated
  <2>3. trackers' = trackers \/ Push(Session(r), Rehydrated(loaded[r]))
    BY <1>2 DEF HydrateInstall
  <2>4. TrackersInBudget(trackers')
    BY <2>1, <2>2, <2>3, StoreTypes, EmptyInBudget, PushInBudget DEF BInv
  <2> QED BY <2>1, <2>4 DEF BInv, BNext
<1> QED BY <1>1, <1>2, AdoptScanBudget, AdoptInstallBudget DEF Lookup

LEMMA PathBudget ==
  ASSUME IInv, BInv, NEW r \in Requests, Path(r)
  PROVE  BNext
<1>1. CASE Boundary(r)
  <2>1. Session(r) \in Sessions /\ Enter(r, "select")
    BY <1>1, RequestFields DEF IInv, Boundary
  <2> DEFINE old == trackers[Session(r)]
  <2>2. \A x \in Sessions : \/ trackers'[x] \in {trackers[x], NONE}
                            \/ old # NONE /\ trackers'[x] = Invalidated(old)
    BY <1>1, <2>1, StoreTypes DEF Boundary
  <2>3. old # NONE => Invalidated(old).alts = {}
    BY <2>1, StoreTypes DEF Invalidated, Tracker
  <2> HIDE DEF old
  <2>4. TrackersInBudget(trackers')
    BY <2>2, <2>3, EmptyInBudget DEF BInv, TrackersInBudget
  <2> QED BY <2>1, <2>4, EnterNoDonors DEF BNext
<1>2. CASE ProbeEnd(r)
  BY <1>2, EnterNoDonors DEF ProbeEnd, storeVars, BInv, BNext
<1>3. CASE Select(r)
  <2>1. Session(r) \in Sessions /\ Enter(r, "floor")
    BY <1>3, RequestFields DEF IInv, Select
  <2>2. \A x \in Sessions : trackers'[x] \in {trackers[x], NONE}
    BY <1>3, <2>1, StoreTypes DEF Select
  <2>3. TrackersInBudget(trackers')
    BY <2>2 DEF BInv, TrackersInBudget
  <2> QED BY <2>1, <2>3, EnterNoDonors DEF BNext
<1>4. CASE Send(r)
  BY <1>4 DEF Send, storeVars, BInv, BNext
<1> QED BY <1>1, <1>2, <1>3, <1>4 DEF Path

LEMMA UpdateBudget ==
  ASSUME IInv, BInv, NEW r \in Requests, NEW n \in FrozenCounts, Update(r, n)
  PROVE  BNext
<1> DEFINE s == Session(r)
           old == IF Tracked(s) THEN trackers[s] ELSE DefaultTracker
           w == Updated(old, Msgs(r), sent[r].msgs, turn[r].sys, n)
<1>1. s \in Sessions /\ donor' = donor
  BY RequestFields DEF IInv, Update
<1>2. BaseOK(Log, old)
  BY <1>1, TrackerHasBase, DefaultHasBase DEF IInv, HeldOK, TrackersOK, Tracked
<1>3. BudgetOK(old.alts)
  BY <1>1, EmptyInBudget DEF BInv, TrackersInBudget, Tracked, DefaultTracker
<1>4. IF Tracked(s) THEN trackers' = [trackers EXCEPT ![s] = w] ELSE Push(s, w)
  BY DEF Update
<1> HIDE DEF old
<1>5. BudgetOK(w.alts)
  BY <1>2, <1>3, UpdatedInBudget
<1> HIDE DEF w
<1>6. TrackersInBudget(trackers')
  <2>1. CASE Tracked(s)
    <3>1. \A x \in Sessions : trackers'[x] \in {trackers[x], w}
      BY <1>1, <1>4, <2>1, StoreTypes
    <3> QED BY <1>5, <3>1 DEF BInv, TrackersInBudget
  <2>2. CASE ~Tracked(s)
    BY <1>1, <1>4, <1>5, <2>2, StoreTypes, PushInBudget DEF BInv
  <2> QED BY <2>1, <2>2
<1> QED BY <1>1, <1>6 DEF BInv, BNext

LEMMA TickBudget ==
  ASSUME IInv, BInv, Tick
  PROVE  BNext
<1>1. ASSUME NEW s \in Sessions, trackers'[s] # NONE
      PROVE  BudgetOK(trackers'[s].alts)
  <2>1. trackers'[s] = Aged(trackers[s]) /\ trackers[s] # NONE
    BY <1>1 DEF Tick, Aged
  <2>2. trackers[s] \in Tracker /\ BudgetOK(trackers[s].alts)
    BY <2>1, StoreTypes DEF BInv, TrackersInBudget
  <2>3. Aged(trackers[s]).alts = trackers[s].alts
    BY <2>1, <2>2 DEF Aged, Tracker
  <2> QED BY <2>1, <2>2, <2>3
<1> QED BY <1>1 DEF Tick, localVars, BInv, BNext, TrackersInBudget

LEMMA NextBudget ==
  ASSUME IInv, BInv, [Next]_vars
  PROVE  BInv'
<1>1. ASSUME BNext
      PROVE  BInv'
  BY <1>1 DEF BInv, BNext
<1>2. ASSUME NEW r \in Requests, NEW t \in Turns, Arrive(r, t)
      PROVE  BInv'
  BY <1>1, <1>2, EnterNoDonors DEF Arrive, storeVars, BInv, BNext
<1>3. ASSUME NEW r \in Requests, Response(r)
      PROVE  BInv'
  <2>1. CASE \E n \in FrozenCounts : Update(r, n)
    BY <1>1, <2>1, UpdateBudget
  <2>2. CASE PopPending(r) \/ Fail(r) \/ Write(r)
    BY <1>1, <2>2 DEF PopPending, Fail, Write, storeVars, BInv, BNext
  <2> QED BY <1>3, <2>1, <2>2 DEF Response
<1>4. CASE Crash
  <2>1. TrackersInBudget(trackers') /\ NoDonors(donor')
    BY <1>4 DEF Crash, TrackersInBudget, NoDonors
  <2> QED BY <1>1, <2>1 DEF BNext
<1>5. CASE Tick
  BY <1>1, <1>5, TickBudget
<1>6. CASE UNCHANGED vars
  BY <1>1, <1>6 DEF vars, storeVars, localVars, BInv, BNext
<1> QED BY <1>1, <1>2, <1>3, <1>4, <1>5, <1>6, LookupBudget, PathBudget DEF Next

LEMMA BudgetHolds == Spec => []BInv
<1>1. Init => BInv
  BY DEF Init, BInv, TrackersInBudget, NoDonors
<1>2. IInv /\ BInv /\ [Next]_vars => BInv'
  BY NextBudget
<1> QED BY <1>1, <1>2, InvHolds, PTL DEF Spec

(* MAX_ALTERNATE_PREFIXES: whatever is displaced or adopted, a session     *)
(* never holds more alternates (update_from_response, install_adopted).    *)
THEOREM AlternatesCounted ==
  Spec => [](\A s \in Sessions : Tracked(s) => Cardinality(trackers[s].alts) <= MaxAlternates)
<1>1. BInv => \A s \in Sessions : Tracked(s) => Cardinality(trackers[s].alts) <= MaxAlternates
  BY DEF BInv, TrackersInBudget, BudgetOK, Tracked
<1> QED BY <1>1, BudgetHolds, PTL

(* MAX_ALTERNATE_MESSAGES: while nothing is adopted, several alternates    *)
(* together never hold more messages, in whatever order streams displace   *)
(* each other (update_from_response).                                      *)
THEOREM AlternatesStayInBudget ==
  ASSUME NoAdoption
  PROVE  Spec => []AlternatesWithinBudget
<1>1. BInv => AlternatesWithinBudget
  BY DEF BInv, TrackersInBudget, BudgetOK, AlternatesWithinBudget, Tracked
<1> QED BY <1>1, BudgetHolds, PTL

=============================================================================
