----------------------------- MODULE ProxyMutex -----------------------------
(***************************************************************************)
(* The lock of iocore/eventsystem/I_Lock.h: a pthread mutex made           *)
(* recursive.  A thread decides whether it holds the lock already by       *)
(* reading thread_holding without any lock; Mutex_unlock clears that field *)
(* before it releases the mutex.  Every access to a shared field is a step *)
(* of its own.                                                             *)
(*                                                                         *)
(* Assumed of the callers: a thread unlocks only what it has locked, which *)
(* MutexLock and MutexTryLock see to.                                      *)
(***************************************************************************)
EXTENDS Naturals

CONSTANTS
  Threads,
  NULL,
  MaxSpin,   \* the spin count of Mutex_trylock_spin
  MaxDepth   \* bound: how deep a thread nests its locks

ASSUME MutexOK ==
  /\ NULL \notin Threads
  /\ MaxSpin \in Nat \ {0}
  /\ MaxDepth \in Nat

VARIABLES
  the_mutex,        \* the thread that has the pthread mutex, or NULL
  thread_holding,
  nthread_holding,
  mpc,              \* mpc[t]: where t is
  spincnt,          \* spincnt[t]: tries left; 0 in Mutex_lock, which blocks
  depth             \* depth[t]: locks t has and has not released (history)

mvars == <<the_mutex, thread_holding, nthread_holding, mpc, spincnt, depth>>

PCs == {"idle", "read", "acquire", "hold", "count", "dec", "clear", "release"}

MInit ==
  /\ the_mutex = NULL
  /\ thread_holding = NULL
  /\ nthread_holding = 0
  /\ mpc = [t \in Threads |-> "idle"]
  /\ spincnt = [t \in Threads |-> 0]
  /\ depth = [t \in Threads |-> 0]

MGoto(t, l) == mpc' = [mpc EXCEPT ![t] = l]

-----------------------------------------------------------------------------
(* Mutex_lock, Mutex_trylock (one try) and Mutex_trylock_spin              *)

Call(t) ==
  /\ mpc[t] = "idle"
  /\ depth[t] < MaxDepth
  /\ \E n \in 0 .. MaxSpin : spincnt' = [spincnt EXCEPT ![t] = n]
  /\ MGoto(t, "read")
  /\ UNCHANGED <<the_mutex, thread_holding, nthread_holding, depth>>

\* if (m->thread_holding != t)
ReadHolder(t) ==
  /\ mpc[t] = "read"
  /\ MGoto(t, IF thread_holding = t THEN "count" ELSE "acquire")
  /\ UNCHANGED <<the_mutex, thread_holding, nthread_holding, spincnt, depth>>

Acquire(t) ==
  /\ mpc[t] = "acquire"
  /\ the_mutex = NULL
  /\ the_mutex' = t
  /\ MGoto(t, "hold")
  /\ UNCHANGED <<thread_holding, nthread_holding, spincnt, depth>>

\* A failed try: try again, or return false.
TryFail(t) ==
  /\ mpc[t] = "acquire"
  /\ the_mutex # NULL
  /\ spincnt[t] > 0
  /\ spincnt' = [spincnt EXCEPT ![t] = @ - 1]
  /\ MGoto(t, IF spincnt[t] = 1 THEN "idle" ELSE "acquire")
  /\ UNCHANGED <<the_mutex, thread_holding, nthread_holding, depth>>

SetHolder(t) ==
  /\ mpc[t] = "hold"
  /\ thread_holding' = t
  /\ MGoto(t, "count")
  /\ UNCHANGED <<the_mutex, nthread_holding, spincnt, depth>>

CountUp(t) ==
  /\ mpc[t] = "count"
  /\ nthread_holding' = nthread_holding + 1
  /\ depth' = [depth EXCEPT ![t] = @ + 1]
  /\ spincnt' = [spincnt EXCEPT ![t] = 0]
  /\ MGoto(t, "idle")
  /\ UNCHANGED <<the_mutex, thread_holding>>

-----------------------------------------------------------------------------
(* Mutex_unlock                                                            *)

\* if (m->nthread_holding): else there is nothing to do.
Unlock(t) ==
  /\ mpc[t] = "idle"
  /\ depth[t] > 0
  /\ nthread_holding > 0
  /\ MGoto(t, "dec")
  /\ UNCHANGED <<the_mutex, thread_holding, nthread_holding, spincnt, depth>>

\* Mutant of CountDown: the last unlock releases the mutex before it clears the
\* holder.
CountDownSwapped(t) ==
  /\ mpc[t] = "dec"
  /\ nthread_holding' = nthread_holding - 1
  /\ depth' = [depth EXCEPT ![t] = @ - 1]
  /\ the_mutex' = IF nthread_holding = 1 THEN NULL ELSE the_mutex
  /\ MGoto(t, IF nthread_holding = 1 THEN "clear" ELSE "idle")
  /\ UNCHANGED <<thread_holding, spincnt>>

\* Mutant of CountDown: every unlock releases the mutex.
CountDownFlat(t) ==
  /\ mpc[t] = "dec"
  /\ nthread_holding' = nthread_holding - 1
  /\ depth' = [depth EXCEPT ![t] = @ - 1]
  /\ MGoto(t, "clear")
  /\ UNCHANGED <<the_mutex, thread_holding, spincnt>>

CountDown(t) ==
  /\ mpc[t] = "dec"
  /\ nthread_holding' = nthread_holding - 1
  /\ depth' = [depth EXCEPT ![t] = @ - 1]
  /\ MGoto(t, IF nthread_holding = 1 THEN "clear" ELSE "idle")
  /\ UNCHANGED <<the_mutex, thread_holding, spincnt>>

ClearHolder(t) ==
  /\ mpc[t] = "clear"
  /\ thread_holding' = NULL
  /\ MGoto(t, "release")
  /\ UNCHANGED <<the_mutex, nthread_holding, spincnt, depth>>

ReleaseMutex(t) ==
  /\ mpc[t] = "release"
  /\ the_mutex' = NULL
  /\ MGoto(t, "idle")
  /\ UNCHANGED <<thread_holding, nthread_holding, spincnt, depth>>

-----------------------------------------------------------------------------
Step(t) ==
  \/ Call(t) \/ ReadHolder(t) \/ Acquire(t) \/ TryFail(t) \/ SetHolder(t) \/ CountUp(t)
  \/ Unlock(t) \/ CountDown(t) \/ ClearHolder(t) \/ ReleaseMutex(t)

MNext == \E t \in Threads : Step(t)

MSpec == MInit /\ [][MNext]_mvars

-----------------------------------------------------------------------------
(* Properties                                                              *)

\* Every variable has its type.
MTypeOK ==
  /\ the_mutex \in Threads \cup {NULL}
  /\ thread_holding \in Threads \cup {NULL}
  /\ nthread_holding \in Nat
  /\ mpc \in [Threads -> PCs]
  /\ spincnt \in [Threads -> 0 .. MaxSpin]
  /\ depth \in [Threads -> Nat]

\* At most one thread has the lock, counting the nested locks it has.
Exclusive == \A t, u \in Threads : depth[t] > 0 /\ depth[u] > 0 => t = u

\* The unlocked read is right: a thread that finds itself in thread_holding
\* really has the mutex, and a thread that has locked does find itself.
HolderIsTrue ==
  \A t \in Threads :
    /\ thread_holding = t => the_mutex = t
    /\ depth[t] > 0 => thread_holding = t

\* The count is that of the holder's locks, so the last unlock and no other
\* releases the mutex.
CountIsDepth ==
  \A t \in Threads : depth[t] > 0 => nthread_holding = depth[t]

\* What callers see is a recursive lock whose operations are atomic.
Lock == INSTANCE RecursiveLock

\* Every step of the code is an atomic lock or unlock, or changes nothing a
\* caller can see.
ImplementsLock == Lock!LockSpec
=============================================================================
