----------------------------- MODULE MCCcrStore -----------------------------
(***************************************************************************)
(* Model-checking instances of CcrStore.  Keys are never compared (stamps  *)
(* are distinct, so the heaps never order tuples by key) and threads are   *)
(* interchangeable.                                                        *)
(***************************************************************************)
EXTENDS CcrStore, TLC

Symmetry == Permutations(Keys) \cup Permutations(Threads)

=============================================================================
