-------------------------- MODULE MCPrefixStampede --------------------------
(***************************************************************************)
(* Model-checking instances of PrefixStampede.  Requests are               *)
(* interchangeable, so are keys; the instances for invariants alone may    *)
(* use that symmetry and leave fairness out.                               *)
(***************************************************************************)
EXTENDS PrefixStampede, TLC

Symmetry == Permutations(Requests) \cup Permutations(Keys)

\* The same behaviours without fairness: enough for invariants.
SafetySpec == Init /\ [][Next]_vars

=============================================================================
