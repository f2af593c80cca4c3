---------------------------- MODULE MCProxyMutex ----------------------------
(* Instances of ProxyMutex for TLC.                                        *)
EXTENDS ProxyMutex, TLC

Symm == Permutations(Threads)
=============================================================================
