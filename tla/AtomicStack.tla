---------------------------- MODULE AtomicStack ----------------------------
(***************************************************************************)
(* What the lock-free list of lib/ts/ink_queue.cc promises: a stack whose  *)
(* operations are atomic.  Each item is either on the stack or belongs to  *)
(* one thread.                                                             *)
(***************************************************************************)
EXTENDS Naturals, Sequences

CONSTANTS Threads, Items

VARIABLES
  stack,   \* the items on the list, top first
  held     \* held[t]: the items thread t owns

absvars == <<stack, held>>

AbsInit ==
  /\ stack = <<>>
  /\ held \in [Threads -> SUBSET Items]
  /\ \A i \in Items : \E t \in Threads : i \in held[t]
  /\ \A t, u \in Threads : t # u => held[t] \cap held[u] = {}

\* An owned item goes on top.
AbsPush(t) ==
  \E i \in held[t] :
    /\ stack' = <<i>> \o stack
    /\ held' = [held EXCEPT ![t] = @ \ {i}]

\* The top item goes to the popping thread.
AbsPop(t) ==
  /\ stack # <<>>
  /\ stack' = Tail(stack)
  /\ held' = [held EXCEPT ![t] = @ \cup {stack[1]}]

\* The whole stack goes to the popping thread.
AbsPopAll(t) ==
  /\ stack # <<>>
  /\ stack' = <<>>
  /\ held' = [held EXCEPT ![t] = @ \cup {stack[k] : k \in DOMAIN stack}]

\* The sequence s without its k-th element.
Without(s, k) == [j \in 1 .. Len(s) - 1 |-> IF j < k THEN s[j] ELSE s[j + 1]]

\* One item, wherever it is, goes to the removing thread; the others keep
\* their order.
AbsRemove(t) ==
  \E k \in DOMAIN stack :
    /\ stack' = Without(stack, k)
    /\ held' = [held EXCEPT ![t] = @ \cup {stack[k]}]

AbsNext ==
  \E t \in Threads : AbsPush(t) \/ AbsPop(t) \/ AbsPopAll(t) \/ AbsRemove(t)

AbsSpec == AbsInit /\ [][AbsNext]_absvars
=============================================================================
