---------------------------- MODULE MCMatchChecker ----------------------------
(* Instances of MatchChecker for TLC.                                      *)
EXTENDS MatchChecker, TLC

CONSTANTS p1, p2, p3

MCPlayers2 == {p1, p2}
MCPlayers3 == {p1, p2, p3}
Symmetry2  == Permutations(MCPlayers2)
Symmetry3  == Permutations(MCPlayers3)
=============================================================================
