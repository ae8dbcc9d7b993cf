---------------------------- MODULE MCSafepoint ----------------------------
(* Small instances of Safepoint.                                           *)
EXTENDS Safepoint, TLC

Symmetry == Permutations(Mutator) \cup Permutations(Thread \ Mutator)
=============================================================================
