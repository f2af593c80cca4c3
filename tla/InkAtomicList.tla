--------------------------- MODULE InkAtomicList ---------------------------
(***************************************************************************)
(* The lock-free list of lib/ts/ink_queue.cc: ink_atomiclist_push, _pop,   *)
(* _popall and _remove.  The head is a (pointer, version) pair changed     *)
(* only by compare-and-swap; every operation that takes items off at the   *)
(* head bumps the version, a push does not.  Every access to memory that   *)
(* another thread may change is a step of its own.                         *)
(*                                                                         *)
(* An item is owned by one thread or by the list (owner, a history         *)
(* variable).  The owner of an item may write anything into its link       *)
(* field while others still read it: ProtectedQueue reuses an Event's link *)
(* for its local queues, and a freed item is allocated again.              *)
(***************************************************************************)
EXTENDS Naturals, Sequences

CONSTANTS
  Pushers,     \* threads that call push
  Poppers,     \* threads that call pop and popall
  Removers,    \* threads that call remove
  Items,       \* the items
  NULL,        \* the null pointer
  LIST,        \* the owner of an item that is on the list
  VersionMod   \* versions are counted modulo this: 2^16 in a 64-bit head

Threads == Pushers \cup Poppers \cup Removers

\* ink_queue.h warns that remove is for the only thread that pops.
ASSUME SolePopper ==
  Removers # {} => \A t, u \in Poppers \cup Removers : t = u

ASSUME ConstantsOK ==
  /\ NULL \notin Items
  /\ LIST \notin Threads
  /\ VersionMod \in Nat \ {0}

VARIABLES
  head,     \* l->head: [ptr, ver]
  next,     \* next[i]: the link field of item i
  owner,    \* owner[i]: a thread, or LIST (history)
  lst,      \* the items in list order, as completed operations define it (history)
  pc,       \* pc[t]: where thread t is
  item,     \* item[t]: the item t pushes or removes
  snap,     \* snap[t]: the head as t last loaded it
  nxt,      \* nxt[t]: the link t read, the new head it will install
  cur,      \* cur[t]: the predecessor under inspection in remove's walk
  age       \* age[t]: version bumps since t loaded snap[t] (history)

vars == <<head, next, owner, lst, pc, item, snap, nxt, cur, age>>

Ptr == Items \cup {NULL}
HeadP == [ptr : Ptr, ver : 0 .. VersionMod - 1]
PCs == {"idle", "push_load", "push_cas", "pop_load", "pop_next", "pop_cas",
        "pop_fix", "popall_load", "popall_cas", "rem_load", "rem_cas", "rem_walk"}

Init ==
  /\ head = [ptr |-> NULL, ver |-> 0]
  /\ next = [i \in Items |-> NULL]
  /\ owner \in [Items -> Pushers]
  /\ lst = <<>>
  /\ pc = [t \in Threads |-> "idle"]
  /\ item = [t \in Threads |-> NULL]
  /\ snap = [t \in Threads |-> [ptr |-> NULL, ver |-> 0]]
  /\ nxt = [t \in Threads |-> NULL]
  /\ cur = [t \in Threads |-> NULL]
  /\ age = [t \in Threads |-> 0]

-----------------------------------------------------------------------------
(* Helpers                                                                 *)

\* Threads between loading the head and the compare-and-swap that uses it.
Pending(t) == pc[t] \in {"push_cas", "pop_next", "pop_cas", "popall_cas", "rem_cas"}

\* Mutant of Bump: the version is not advanced.
NoBump(v) == v

\* FREELIST_VERSION(x) + 1 in the width of the version field.
Bump(v) == (v + 1) % VersionMod

\* INK_QUEUE_LD.
Load(t) ==
  /\ snap' = [snap EXCEPT ![t] = head]
  /\ age' = [age EXCEPT ![t] = 0]

\* A successful compare-and-swap that installs ptr p and bumps the version.
\* Assumed of the machine: the version does not come round while a thread is
\* between its load and its compare-and-swap.
CasTake(t, p) ==
  /\ head = snap[t]
  /\ \A u \in Threads \ {t} : Pending(u) => age[u] < VersionMod - 1
  /\ head' = [ptr |-> p, ver |-> Bump(snap[t].ver)]
  /\ age' = [u \in Threads |-> IF u # t /\ Pending(u) THEN age[u] + 1 ELSE 0]

Goto(t, l) == pc' = [pc EXCEPT ![t] = l]

NoHead == [ptr |-> NULL, ver |-> 0]

\* The operation returns: its local variables are gone.
Return(t) ==
  /\ Goto(t, "idle")
  /\ item' = [item EXCEPT ![t] = NULL]
  /\ snap' = [snap EXCEPT ![t] = NoHead]
  /\ nxt' = [nxt EXCEPT ![t] = NULL]
  /\ cur' = [cur EXCEPT ![t] = NULL]

\* A compare-and-swap that finds another head: the loop goes back to label l
\* for a new load.
Retry(t, l) ==
  /\ head # snap[t]
  /\ Goto(t, l)
  /\ snap' = [snap EXCEPT ![t] = NoHead]
  /\ age' = [age EXCEPT ![t] = 0]
  /\ UNCHANGED <<head, next, owner, lst, item, cur>>

\* The sequence s without its k-th element.
Without(s, k) == [j \in 1 .. Len(s) - 1 |-> IF j < k THEN s[j] ELSE s[j + 1]]

-----------------------------------------------------------------------------
(* ink_atomiclist_push                                                     *)

PushCall(t) ==
  /\ pc[t] = "idle"
  /\ \E i \in Items :
       /\ owner[i] = t
       /\ item' = [item EXCEPT ![t] = i]
  /\ Goto(t, "push_load")
  /\ UNCHANGED <<head, next, owner, lst, snap, nxt, cur, age>>

PushLoad(t) ==
  /\ pc[t] = "push_load"
  /\ Load(t)
  /\ next' = [next EXCEPT ![item[t]] = head.ptr]
  /\ Goto(t, "push_cas")
  /\ UNCHANGED <<head, owner, lst, item, nxt, cur>>

PushCas(t) ==
  /\ pc[t] = "push_cas"
  /\ head = snap[t]
  /\ head' = [ptr |-> item[t], ver |-> snap[t].ver]
  /\ owner' = [owner EXCEPT ![item[t]] = LIST]
  /\ lst' = <<item[t]>> \o lst
  /\ Return(t)
  /\ UNCHANGED <<next, age>>

PushRetry(t) ==
  /\ pc[t] = "push_cas"
  /\ Retry(t, "push_load")
  /\ UNCHANGED nxt

-----------------------------------------------------------------------------
(* ink_atomiclist_pop                                                      *)

PopCall(t) ==
  /\ pc[t] = "idle"
  /\ Goto(t, "pop_load")
  /\ UNCHANGED <<head, next, owner, lst, item, snap, nxt, cur, age>>

\* pop, popall and remove return NULL at once when they load an empty head.
EmptyReturn(t) ==
  /\ pc[t] \in {"pop_load", "popall_load", "rem_load"}
  /\ head.ptr = NULL
  /\ Return(t)
  /\ UNCHANGED <<head, next, owner, lst, age>>

PopLoad(t) ==
  /\ pc[t] = "pop_load"
  /\ head.ptr # NULL
  /\ Load(t)
  /\ Goto(t, "pop_next")
  /\ UNCHANGED <<head, next, owner, lst, item, nxt, cur>>

\* The link is read from an item that may have left the list since.
PopNext(t) ==
  /\ pc[t] = "pop_next"
  /\ nxt' = [nxt EXCEPT ![t] = next[snap[t].ptr]]
  /\ Goto(t, "pop_cas")
  /\ UNCHANGED <<head, next, owner, lst, item, snap, cur, age>>

\* Mutant of PopCas: the head is stored without comparing it.
PopCasBlind(t) ==
  /\ pc[t] = "pop_cas"
  /\ head' = [ptr |-> nxt[t], ver |-> Bump(snap[t].ver)]
  /\ owner' = [owner EXCEPT ![snap[t].ptr] = t]
  /\ lst' = IF lst = <<>> THEN lst ELSE Tail(lst)
  /\ Goto(t, "pop_fix")
  /\ UNCHANGED <<next, item, snap, nxt, cur, age>>

PopCas(t) ==
  /\ pc[t] = "pop_cas"
  /\ CasTake(t, nxt[t])
  /\ owner' = [owner EXCEPT ![snap[t].ptr] = t]
  /\ lst' = Tail(lst)
  /\ Goto(t, "pop_fix")
  /\ UNCHANGED <<next, item, snap, nxt, cur>>

PopRetry(t) ==
  /\ pc[t] = "pop_cas"
  /\ Retry(t, "pop_load")
  /\ nxt' = [nxt EXCEPT ![t] = NULL]

\* The returned item's link is cleared.
PopFix(t) ==
  /\ pc[t] = "pop_fix"
  /\ next' = [next EXCEPT ![snap[t].ptr] = NULL]
  /\ Return(t)
  /\ UNCHANGED <<head, owner, lst, age>>

-----------------------------------------------------------------------------
(* ink_atomiclist_popall                                                   *)

PopAllCall(t) ==
  /\ pc[t] = "idle"
  /\ Goto(t, "popall_load")
  /\ UNCHANGED <<head, next, owner, lst, item, snap, nxt, cur, age>>

PopAllLoad(t) ==
  /\ pc[t] = "popall_load"
  /\ head.ptr # NULL
  /\ Load(t)
  /\ Goto(t, "popall_cas")
  /\ UNCHANGED <<head, next, owner, lst, item, nxt, cur>>

\* The walk that follows rewrites each link of the chain with its decoded
\* value; in a release build the encoding of a link is the pointer itself.
PopAllCas(t) ==
  /\ pc[t] = "popall_cas"
  /\ CasTake(t, NULL)
  /\ owner' = [i \in Items |-> IF owner[i] = LIST THEN t ELSE owner[i]]
  /\ lst' = <<>>
  /\ Return(t)
  /\ UNCHANGED next

PopAllRetry(t) ==
  /\ pc[t] = "popall_cas"
  /\ Retry(t, "popall_load")
  /\ UNCHANGED nxt

-----------------------------------------------------------------------------
(* ink_atomiclist_remove                                                   *)

\* The item's own link (item_next) is read once, before the head.  The item
\* is on the list or was taken off by this thread: ProtectedQueue::remove
\* looks into its local queue when the list does not have it.
RemCall(t) ==
  /\ pc[t] = "idle"
  /\ \E i \in Items :
       /\ owner[i] \in {LIST, t}
       /\ item' = [item EXCEPT ![t] = i]
       /\ nxt' = [nxt EXCEPT ![t] = next[i]]
  /\ Goto(t, "rem_load")
  /\ UNCHANGED <<head, next, owner, lst, snap, cur, age>>

RemLoad(t) ==
  /\ pc[t] = "rem_load"
  /\ head.ptr # NULL
  /\ \/ /\ head.ptr = item[t]
        /\ Load(t)
        /\ Goto(t, "rem_cas")
        /\ UNCHANGED cur
     \/ /\ head.ptr # item[t]
        /\ cur' = [cur EXCEPT ![t] = head.ptr]
        /\ Goto(t, "rem_walk")
        /\ UNCHANGED <<snap, age>>
  /\ UNCHANGED <<head, next, owner, lst, item, nxt>>

RemCas(t) ==
  /\ pc[t] = "rem_cas"
  /\ CasTake(t, nxt[t])
  /\ next' = [next EXCEPT ![item[t]] = NULL]
  /\ owner' = [owner EXCEPT ![item[t]] = t]
  /\ lst' = Tail(lst)
  /\ Return(t)

RemRetry(t) ==
  /\ pc[t] = "rem_cas"
  /\ Retry(t, "rem_load")
  /\ UNCHANGED nxt

\* Mutant of RemWalk: it looks two links ahead.
RemWalkSkips(t) ==
  /\ pc[t] = "rem_walk"
  /\ next[cur[t]] \notin {item[t], NULL}
  /\ cur' = [cur EXCEPT ![t] = IF next[next[@]] = NULL THEN next[@] ELSE next[next[@]]]
  /\ UNCHANGED <<head, next, owner, lst, pc, item, snap, nxt, age>>

\* One round of the walk that has not met the item.
RemWalk(t) ==
  /\ pc[t] = "rem_walk"
  /\ next[cur[t]] \notin {item[t], NULL}
  /\ cur' = [cur EXCEPT ![t] = next[cur[t]]]
  /\ UNCHANGED <<head, next, owner, lst, pc, item, snap, nxt, age>>

\* The end of the list: the item is not on it.
RemFail(t) ==
  /\ pc[t] = "rem_walk"
  /\ next[cur[t]] = NULL
  /\ Return(t)
  /\ UNCHANGED <<head, next, owner, lst, age>>

\* The round that meets it: the predecessor is linked past the item.
RemUnlink(t) ==
  /\ pc[t] = "rem_walk"
  /\ next[cur[t]] = item[t]
  /\ next' = [next EXCEPT ![cur[t]] = nxt[t], ![item[t]] = NULL]
  /\ owner' = [owner EXCEPT ![item[t]] = t]
  /\ \E k \in DOMAIN lst :
       /\ lst[k] = item[t]
       /\ lst' = Without(lst, k)
  /\ Return(t)
  /\ UNCHANGED <<head, age>>

-----------------------------------------------------------------------------
\* The owner of an item uses its link field for something else.
Scribble(t) ==
  /\ pc[t] = "idle"
  /\ \E i \in Items, p \in Ptr :
       /\ owner[i] = t
       /\ next' = [next EXCEPT ![i] = p]
  /\ UNCHANGED <<head, owner, lst, pc, item, snap, nxt, cur, age>>

Push(t) == PushCall(t) \/ PushLoad(t) \/ PushCas(t) \/ PushRetry(t)

Pop(t) ==
  \/ PopCall(t) \/ PopLoad(t) \/ PopNext(t) \/ PopCas(t) \/ PopRetry(t) \/ PopFix(t)

PopAll(t) == PopAllCall(t) \/ PopAllLoad(t) \/ PopAllCas(t) \/ PopAllRetry(t)

Remove(t) ==
  \/ RemCall(t) \/ RemLoad(t) \/ RemCas(t) \/ RemRetry(t)
  \/ RemWalk(t) \/ RemFail(t) \/ RemUnlink(t)

Next ==
  \/ \E t \in Pushers : Push(t)
  \/ \E t \in Poppers : Pop(t) \/ PopAll(t)
  \/ \E t \in Removers : Remove(t)
  \/ \E t \in Threads : EmptyReturn(t) \/ Scribble(t)

Spec == Init /\ [][Next]_vars

-----------------------------------------------------------------------------
(* Properties                                                              *)

\* Every variable has its type; the head's version stays in its field.
TypeOK ==
  /\ head \in HeadP
  /\ next \in [Items -> Ptr]
  /\ owner \in [Items -> Threads \cup {LIST}]
  /\ lst \in Seq(Items)
  /\ pc \in [Threads -> PCs]
  /\ item \in [Threads -> Ptr]
  /\ snap \in [Threads -> HeadP]
  /\ nxt \in [Threads -> Ptr]
  /\ cur \in [Threads -> Ptr]
  /\ age \in [Threads -> Nat]

\* The chain of links that starts at the head is exactly the list the
\* completed pushes, pops and removes define: no item is lost, shared between
\* the list and a thread, reached twice, or out of order.
ChainIsList ==
  /\ head.ptr = IF lst = <<>> THEN NULL ELSE lst[1]
  /\ \A k \in 1 .. Len(lst) : next[lst[k]] = IF k = Len(lst) THEN NULL ELSE lst[k + 1]
  /\ \A j, k \in 1 .. Len(lst) : lst[j] = lst[k] => j = k
  /\ \A i \in Items : owner[i] = LIST <=> \E k \in 1 .. Len(lst) : lst[k] = i

\* A thread whose compare-and-swap would succeed now holds a head that nobody
\* took off in between, and the link it read is still that item's link: the
\* ABA case the version field is there for.
NoStaleCas ==
  \A t \in Threads :
    (Pending(t) /\ snap[t] = head) =>
      /\ age[t] = 0
      /\ pc[t] \in {"pop_cas", "rem_cas"} => nxt[t] = next[head.ptr]

\* remove gives up only on an item that is not on the list: the walk never
\* passes the item, however many pushes go on meanwhile.
RemoveFinds ==
  \A t \in Removers :
    (pc[t] = "rem_walk" /\ owner[item[t]] = LIST) =>
      \E j, k \in 1 .. Len(lst) : j < k /\ lst[j] = cur[t] /\ lst[k] = item[t]

\* Every step of the code is an atomic operation on a stack, or changes
\* nothing a caller can see: the returned item is the one that was on top.
Stack == INSTANCE AtomicStack
           WITH stack <- lst, held <- [t \in Threads |-> {i \in Items : owner[i] = t}]

ImplementsStack == Stack!AbsSpec
=============================================================================
