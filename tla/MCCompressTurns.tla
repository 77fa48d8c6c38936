--------------------------- MODULE MCCompressTurns ---------------------------
(***************************************************************************)
(* Model-checking instance of CompressTurns: a turn of one session, its    *)
(* retry, and a turn of another session that needs room in the registry.   *)
(***************************************************************************)
EXTENDS CompressTurns

CONSTANTS c1, c2, d1, sA, sB

TurnsOf == [c \in Calls |-> IF c = d1 THEN sB ELSE sA]

=============================================================================
