--------------------------- MODULE MCAtomicList ----------------------------
(* Instances of InkAtomicList for TLC.                                     *)
EXTENDS InkAtomicList, TLC

Symm == Permutations(Items)
=============================================================================
