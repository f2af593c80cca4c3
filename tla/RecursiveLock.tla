--------------------------- MODULE RecursiveLock ----------------------------
(***************************************************************************)
(* What the ProxyMutex of iocore/eventsystem/I_Lock.h promises: a lock     *)
(* that one thread at a time has, any number of times.                     *)
(***************************************************************************)
EXTENDS Naturals

CONSTANT Threads

VARIABLE depth   \* depth[t]: how often t has the lock

LockInit == depth = [t \in Threads |-> 0]

\* A thread gets the lock if no other thread has it.
Take(t) ==
  /\ \A u \in Threads \ {t} : depth[u] = 0
  /\ depth' = [depth EXCEPT ![t] = @ + 1]

\* A thread that has the lock gives one of its locks back.
Give(t) ==
  /\ depth[t] > 0
  /\ depth' = [depth EXCEPT ![t] = @ - 1]

LockSpec == LockInit /\ [][\E t \in Threads : Take(t) \/ Give(t)]_depth
=============================================================================
