----------------------- MODULE MCEventScriptScheduler -----------------------
(* Instances of EventScriptScheduler for TLC.                              *)
EXTENDS EventScriptScheduler, TLC

CONSTANTS a1, a2, a3

MCActions  == {a1, a2}
MCActions3 == {a1, a2, a3}
MCMayThrow == {a1, a2}
Symmetry   == Permutations(MCActions)
Symmetry3  == Permutations(MCActions3)
=============================================================================
