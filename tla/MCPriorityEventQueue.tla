------------------------ MODULE MCPriorityEventQueue ------------------------
(* Instances of PriorityEventQueue for TLC.                                *)
EXTENDS PriorityEventQueue, TLC

Symm == Permutations(Events)
=============================================================================
