------------------------ MODULE MCInviteCoordinator ------------------------
(* Instances of InviteCoordinator for TLC.                                 *)
EXTENDS InviteCoordinator

CONSTANTS c1, c2

MCCallers == {c1, c2}
=============================================================================
