-------------------------- MODULE MCBaseScheduler --------------------------
(* Instances of BaseScheduler for TLC.                                     *)
EXTENDS BaseScheduler, TLC

CONSTANTS k1, k2, c1, c2

MCKeys    == {k1, k2}
MCCallers == {c1, c2}
Symmetry  == Permutations(MCKeys) \union Permutations(MCCallers)
=============================================================================
