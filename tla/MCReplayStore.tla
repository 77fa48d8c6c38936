---------------------------- MODULE MCReplayStore ----------------------------
(***************************************************************************)
(* Model-checking instances of ReplayStore.  A run names the turns its     *)
(* client may send; any of them may come at any time, any number of times. *)
(* Client messages have form 3; the passes in front make them 1 or 2, so a *)
(* later turn may compress better than the stored one did.                 *)
(***************************************************************************)
EXTENDS ReplayStore, TLC

Symmetry == Permutations(Requests)

Msg(role, text) == [role |-> role, text |-> text, form |-> 3]
U(text) == Msg("user", text)
A(text) == Msg("assistant", text)
S(text) == Msg("system", text)

\* One conversation, one step at a time.
C1 == <<U("u1")>>
C2 == <<U("u1"), A("a1"), U("u2")>>
C3 == <<U("u1"), A("a1"), U("u2"), A("a2"), U("u3")>>
\* A subagent forked after the first answer.
F2 == <<U("u1"), A("a1"), U("x2")>>

Turn(s, msgs, level) ==
  [session |-> s, msgs |-> msgs, sys |-> "sys1", level |-> level, boundary |-> FALSE]

\* One session: a conversation and a fork of it, restarts, idle times, and a
\* rebuild of its context that begins the conversation anew.
PersistTurns ==
  {[Turn("s1", C1, 2) EXCEPT !.boundary = TRUE],
   Turn("s1", C2, 2), Turn("s1", C3, 1), Turn("s1", F2, 2)}

\* A conversation handed from one session to another, which may run it under
\* another system block.
AdoptTurns ==
  {Turn("s1", C2, 1), Turn("s2", C3, 2),
   [Turn("s2", C2, 2) EXCEPT !.sys = "sys2"], Turn("s3", C1, 2)}

\* Scaffolding that comes and goes: a mid-conversation system message, legal
\* after a user turn or a server tool result, a trailing reminder, and a side
\* errand on the same history.
N2 == <<U("u1"), S("note"), A("srv"), U("u2")>>
W2 == <<U("u1"), A("srv"), U("u2")>>
W3 == <<U("u1"), A("srv"), U("u2"), A("a2"), U("u3")>>
R2 == <<U("u1"), A("srv"), S("note"), U("u2"), U("rem")>>
E2 == <<U("u1"), A("srv"), U("errand")>>

N1 == <<U("u1"), S("note")>>
M2 == <<U("u1"), S("note2"), A("srv"), U("u2")>>

WithdrawTurns ==
  {Turn("s1", N1, 1), Turn("s1", M2, 2), Turn("s1", N2, 1), Turn("s1", W2, 2), Turn("s1", W3, 2),
   Turn("s1", R2, 1), Turn("s1", E2, 2)}

-----------------------------------------------------------------------------
(* The turns of the runs that show a disagreement with a comment.          *)

\* A note is withdrawn; a later turn edits its last message.
ShiftedTurns ==
  {Turn("s1", N2, 1), Turn("s1", W3, 2),
   Turn("s1", <<U("u1"), A("srv"), U("u2"), A("a2"), U("x2")>>, 2)}

\* A note is withdrawn while only part of the prefix is confirmed.
PartialFloorTurns == {Turn("s1", N2, 2), Turn("s1", W3, 2)}

\* A context rebuild while another turn of the session is in flight.
BoundaryTurns == {Turn("s1", C1, 2), [Turn("s1", F2, 2) EXCEPT !.boundary = TRUE]}

\* A note is withdrawn and the system block changes in the same turn.
SystemTurns == {Turn("s1", N2, 1), [Turn("s1", W3, 2) EXCEPT !.sys = "sys2"]}

\* Two short conversations take turns in a lane that then meets a longer one
\* another lane has had.
BudgetTurns ==
  {Turn("s1", <<U("u3"), A("a1")>>, 2), Turn("s1", <<U("x2"), A("a1")>>, 2),
   Turn("s2", C2, 2), Turn("s1", C3, 2)}

=============================================================================
