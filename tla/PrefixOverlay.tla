---------------------------- MODULE PrefixOverlay ----------------------------
(***************************************************************************)
(* The pure part of prefix replay                                          *)
(* (crates/headroom-proxy/src/cache_stabilization/prefix_replay/compare.rs *)
(* and overlay.rs): how a stored turn is matched with the current one and  *)
(* which bytes go upstream.                                                *)
(*                                                                         *)
(* A message is its role, its text and its form.  The text is what the     *)
(* canonical comparison sees; the form stands for one rendering of it      *)
(* (string or block content, compressed or raw) and is the number of bytes *)
(* that rendering takes.  The text Reminder is a message made of client    *)
(* scaffolding only, which canonicalizes to empty content.                 *)
(***************************************************************************)
EXTENDS Integers, Sequences

CONSTANTS
  Texts,             \* what messages say
  Reminder,          \* the text of a message that is only <system-reminder>
  ServerToolTexts,   \* texts of assistant messages ending in a server tool result
  ErrandTexts        \* texts that open with one of SIDE_ERRAND_OPENINGS

Roles == {"user", "assistant", "system"}
Message == [role : Roles, text : Texts, form : Nat]

Least(a, b) == IF a <= b THEN a ELSE b

Front(s, k) == SubSeq(s, 1, k)
Rest(s, k) == SubSeq(s, k + 1, Len(s))

\* s is a prefix of t, message by message and byte by byte.
Leads(s, t) == Len(s) <= Len(t) /\ s = Front(t, Len(s))

-----------------------------------------------------------------------------
(* Comparison.                                                             *)

\* canonicalize_for_prefix_compare: the form does not count.
Canon(m) == [role |-> m.role, text |-> m.text]

EmptyCanonical(m) == m.text = Reminder

\* is_client_scaffolding_message; i counts from 1.
Scaffolding(i, m) ==
  \/ i > 1 /\ m.role = "system"
  \/ m.role # "assistant" /\ m.text = Reminder

\* Mutant: the first message that differs counts as agreeing.
AgreementLenInclusive(stored, cur) ==
  LET agreeing == {k \in 0..Least(Len(stored), Len(cur)) :
                     \A i \in 1..(k - 1) : Canon(stored[i]) = Canon(cur[i])}
  IN  CHOOSE k \in agreeing : \A j \in agreeing : j <= k

\* canonical_agreement_len.
AgreementLen(stored, cur) ==
  LET agreeing == {k \in 0..Least(Len(stored), Len(cur)) :
                     \A i \in 1..k : Canon(stored[i]) = Canon(cur[i])}
  IN  CHOOSE k \in agreeing : \A j \in agreeing : j <= k

\* matches_canonical_prefix.
MatchesPrefix(stored, cur) ==
  /\ stored # << >>
  /\ Len(stored) <= Len(cur)
  /\ \A i \in 1..Len(stored) : Canon(stored[i]) = Canon(cur[i])

\* Option::None of an alignment.
Unaligned == -1

\* Mutant: scaffolding the client replaced is stepped over as if withdrawn.
AlignOverKeepsBoth(stored, cur) ==
  LET at[i \in 0..Len(stored)] ==
        IF i = 0 THEN 0
        ELSE LET c == at[i - 1]
             IN  IF c = Unaligned THEN Unaligned
                 ELSE IF c + 1 <= Len(cur) /\ Canon(cur[c + 1]) = Canon(stored[i]) THEN c + 1
                 ELSE IF Scaffolding(i, stored[i]) THEN c
                 ELSE Unaligned
  IN  at[Len(stored)]

\* align_over_withdrawn_scaffolding: how many current messages the stored
\* prefix covers, stepping over scaffolding the client withdrew.
AlignOver(stored, cur) ==
  LET at[i \in 0..Len(stored)] ==
        IF i = 0 THEN 0
        ELSE LET c == at[i - 1]
                 has == c + 1 <= Len(cur)
             IN  IF c = Unaligned THEN Unaligned
                 ELSE IF has /\ Canon(cur[c + 1]) = Canon(stored[i]) THEN c + 1
                 ELSE IF ~Scaffolding(i, stored[i]) THEN Unaligned
                 ELSE IF has /\ Scaffolding(c + 1, cur[c + 1]) THEN c + 1
                 ELSE c
  IN  at[Len(stored)]

\* first_illegal_system_position(..).is_some().
IllegalSystemPosition(msgs) ==
  \E i \in 1..Len(msgs) :
    /\ msgs[i].role = "system" /\ ~EmptyCanonical(msgs[i])
    /\ \/ i = 1
       \/ msgs[i - 1].role = "system"
       \/ msgs[i - 1].role = "assistant" /\ msgs[i - 1].text \notin ServerToolTexts

\* is_side_errand.
IsSideErrand(msgs) ==
  /\ msgs # << >>
  /\ msgs[Len(msgs)].role = "user"
  /\ msgs[Len(msgs)].text \in ErrandTexts

\* replayable_stored_prefix_len: trailing reminder-only messages are left out.
ReplayableLen(originals) ==
  LET solid == {i \in 1..Len(originals) : ~EmptyCanonical(originals[i])} \cup {0}
  IN  CHOOSE i \in solid : \A j \in solid : j <= i

-----------------------------------------------------------------------------
(* The splice.                                                             *)

\* compact_json_len.
Weight(msgs) ==
  LET w[i \in 0..Len(msgs)] == IF i = 0 THEN 0 ELSE w[i - 1] + msgs[i].form
  IN  w[Len(msgs)]

Fresh == [kind |-> "fresh", msgs |-> << >>]

\* split_inflated_replay_at_floor and replay_within_bound.
SplitAtFloor(spliced, pf, opt, head, floor, shifted) ==
  IF \/ floor >= head
     \/ spliced = << >> \/ opt = << >>
     \/ Weight(spliced) <= Weight(opt)
     \/ floor # 0 /\ shifted
    THEN [kind |-> "whole", msgs |-> spliced]
  ELSE IF floor = 0 THEN Fresh
  ELSE LET at == Least(floor, Len(opt))
       IN  [kind |-> "split", msgs |-> Front(pf, at) \o Rest(opt, at)]

\* ReplaySkip, "none" when the stored prefix was replayed whole.
Skips ==
  {"none", "no_previous_turn", "forwarded_count_mismatch", "optimized_shorter_than_originals",
   "optimized_shorter_than_prefix", "shorter_than_stored_prefix", "prefix_content_diverged",
   "inflated_without_confirmed_floor", "system_adjacency_broken"}

Decline(opt, reason) == [msgs |-> opt, skip |-> reason]

\* The two exits that share the floor and the adjacency net.
Checked(split, opt, reason) ==
  IF split.kind = "fresh" THEN Decline(opt, "inflated_without_confirmed_floor")
  ELSE IF IllegalSystemPosition(split.msgs) THEN Decline(opt, "system_adjacency_broken")
  ELSE [msgs |-> split.msgs, skip |-> reason]

\* The stored prefix and this turn disagree: only the agreeing run replays,
\* and only when the turn continues that chain.
OverlayDiverged(opt, cur, po, pf, continues, confirmed) ==
  LET upto == IF continues
              THEN Least(AgreementLen(po, cur), Least(Len(pf), Len(opt)))
              ELSE 0
  IN  IF Len(cur) < Len(po) THEN Decline(opt, "shorter_than_stored_prefix")
      ELSE IF Len(opt) < Len(po) THEN Decline(opt, "optimized_shorter_than_prefix")
      ELSE IF upto = 0 THEN Decline(opt, "prefix_content_diverged")
      ELSE Checked(SplitAtFloor(Front(pf, upto) \o Rest(opt, upto), pf, opt, upto,
                                Least(confirmed, upto), Len(pf) > Len(po)),
                   opt, "prefix_content_diverged")

\* overlay_cached_prefix_shaped on the Anthropic path: opt is this turn's own
\* output, cur the client's messages, po and pf the stored turn (empty when
\* there is none), confirmed the provider-confirmed floor.
Overlay(opt, cur, po, pf, continues, confirmed) ==
  LET consumed == AlignOver(po, cur)
  IN  IF po = << >> \/ pf = << >> THEN Decline(opt, "no_previous_turn")
      ELSE IF Len(pf) < Len(po) THEN Decline(opt, "forwarded_count_mismatch")
      ELSE IF Len(opt) >= Len(po) /\ Len(opt) < Len(cur)
        THEN Decline(opt, "optimized_shorter_than_originals")
      ELSE IF consumed = Unaligned
        THEN OverlayDiverged(opt, cur, po, pf, continues, confirmed)
      ELSE IF consumed \notin 0..Len(opt) THEN Decline(opt, "optimized_shorter_than_prefix")
      ELSE Checked(SplitAtFloor(pf \o Rest(opt, consumed), pf, opt, Len(pf),
                                Least(confirmed, Len(pf)), Len(pf) > Len(po)),
                   opt, "none")

-----------------------------------------------------------------------------
(* Picking a stored prefix.  A held prefix is [id, o, f, sys, pos]: chain, *)
(* originals, forwarded, system digest, and its place in the tracker's     *)
(* list (0 is the primary, then the alternates, most recent first).        *)

CONSTANTS
  MinAgreeingRun,    \* MIN_AGREEING_RUN
  TailEditSlack,     \* TAIL_EDIT_SLACK
  AdoptMin           \* CROSS_SESSION_ADOPT_MIN_MESSAGES

ASSUME ThresholdAssumption ==
  MinAgreeingRun \in Nat /\ TailEditSlack \in Nat /\ AdoptMin \in Nat \ {0}

\* Iterator::max_by_key: the largest key, the last of equals.
Longest(held, Key(_)) ==
  CHOOSE c \in held : \A d \in held : Key(d) < Key(c) \/ (Key(d) = Key(c) /\ d.pos <= c.pos)

\* The first scan of pick_replay_candidate: prefixes that lead the turn.
Leading(held, cur) == {c \in held : c.f # << >> /\ MatchesPrefix(c.o, cur)}

\* The second: prefixes the turn continues with the tail edited.
TailEdited(held, cur) ==
  {c \in held :
     /\ c.f # << >>
     /\ AgreementLen(c.o, cur) >= MinAgreeingRun
     /\ AgreementLen(c.o, cur) + TailEditSlack >= Len(c.o)}

\* pick_replay_candidate over the prefixes the system gate lets through, as a
\* set with at most one element.
PickReplay(held, cur) ==
  LET exact == Leading(held, cur)
      edited == TailEdited(held, cur)
  IN  IF exact # {} THEN {Longest(exact, LAMBDA c : Len(c.o))}
      ELSE IF edited # {} THEN {Longest(edited, LAMBDA c : AgreementLen(c.o, cur))}
      ELSE {}

\* adoptable_len, 0 when too few messages agree.
AdoptableLen(c, cur) ==
  IF c.f = << >> \/ Len(c.o) # Len(c.f) \/ AgreementLen(c.o, cur) < AdoptMin THEN 0
  ELSE AgreementLen(c.o, cur)

=============================================================================
