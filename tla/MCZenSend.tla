------------------------------ MODULE MCZenSend ------------------------------
(***************************************************************************)
(* Model-checking instances of ZenSend.                                    *)
(***************************************************************************)
EXTENDS ZenSend, TLC

Symmetry == Permutations(Turns) \cup Permutations(Lanes)

=============================================================================
