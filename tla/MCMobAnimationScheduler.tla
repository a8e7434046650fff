---------------------- MODULE MCMobAnimationScheduler ----------------------
(* Instances of MobAnimationScheduler for TLC.                             *)
EXTENDS MobAnimationScheduler, TLC

CONSTANTS k1, k2, c1, c2

MCKeys    == {k1, k2}
MCCallers == {c1, c2}
Symmetry  == Permutations(MCKeys) \union Permutations(MCCallers)
=============================================================================
