----------------------------- MODULE MCWrapProxy -----------------------------
(***************************************************************************)
(* Model-checking instances of WrapProxy.                                  *)
(***************************************************************************)
EXTENDS WrapProxy

CONSTANTS a, b, c, d, x, y, memory

\* Everybody asks for the default port.
OnePort == [s \in Sessions |-> 1]

\* Two sessions route elsewhere, and one needs a feature more.
WantTwo == [s \in Sessions |-> IF s \in {b, d} THEN y ELSE x]
NeedLast == [s \in Sessions |-> IF s = c THEN {memory} ELSE {}]

=============================================================================
