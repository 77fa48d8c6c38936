--------------------------- MODULE MCWrapSettings ---------------------------
(***************************************************************************)
(* Model-checking instances of WrapSettings.                               *)
(***************************************************************************)
EXTENDS WrapSettings, TLC

CONSTANTS a, b, c, p, q

\* Every session uses the default port, and so shares one proxy.
SharedPort == [s \in Sessions |-> p]

\* The second session was started on a port of its own.
OwnPorts == [s \in Sessions |-> IF s = b THEN q ELSE p]

Symmetry == Permutations(Sessions)

=============================================================================
