--------------------------- MODULE NetEnableProofs ---------------------------
(* Proofs about NetEnable, for any connections, users and bounds.  The       *)
(* inductive invariant says who holds what and where a connection can be:    *)
(* a user works on a connection whose mutex it has; NetHandler's mutex is    *)
(* held exactly while mainNetEvent runs; a connection is in at most one of   *)
(* enable_list, the list that process_enabled_list works on, and the hands   *)
(* of the one thread that is about to push it, and in_enabled_list tells     *)
(* that it is in one of them.                                                *)
EXTENDS NetEnable, TLAPS

UserAt == {"idle", "own", "gone", "try", "check", "push", "signal", "close"}
NetAt  == {"idle", "popall", "enabled", "test", "store", "poll", "ready"}

TypeOK ==
  /\ open \subseteq Conns /\ missed \subseteq Conns
  /\ enable_list \subseteq Conns /\ ready_list \subseteq Conns /\ rq \subseteq Conns
  /\ edge \subseteq Conns
  /\ enabled \in [Conns -> BOOLEAN] /\ in_enabled_list \in [Conns -> BOOLEAN]
  /\ triggered \in [Conns -> BOOLEAN] /\ closed \in [Conns -> BOOLEAN]
  /\ vm \in [Conns -> Users \cup {NULL}]
  /\ nhm \in {NULL, "net"}
  /\ npc \in NetAt /\ ncur \in Conns \cup {NULL}
  /\ upc \in [Users -> UserAt] /\ ucur \in [Users -> Conns \cup {NULL}]

(* A user that is not idle holds the mutex of its connection, which is not   *)
(* closed unless the user has just done so.                                  *)
Held ==
  \A u \in Users :
    IF upc[u] = "idle" THEN ucur[u] = NULL
    ELSE /\ ucur[u] \in Conns
         /\ vm[ucur[u]] = u
         /\ closed[ucur[u]] => upc[u] = "gone"

(* The net thread, its mutex and its local variables.                        *)
Place ==
  /\ nhm = "net" <=> npc # "idle"
  /\ ncur # NULL <=> npc \in {"test", "store"}
  /\ npc = "store" => ncur \in rq
  /\ rq # {} => npc \in {"enabled", "test", "store"}

Pushing(c) == \E u \in Users : ucur[u] = c /\ upc[u] = "push"

(* A connection is pushed once.                                              *)
Once ==
  /\ enable_list \cap rq = {}
  /\ \A c \in enable_list \cup rq : ~Pushing(c)

FlagOf(c) == in_enabled_list[c] <=> (c \in enable_list \cup rq \/ Pushing(c))

Flag == \A c \in Conns : FlagOf(c)

Lists == \A c \in Conns \ missed : Listed(c)

IInv == TypeOK /\ Held /\ Place /\ Once /\ Flag /\ FreedIsGone /\ Lists /\ NoStall
-----------------------------------------------------------------------------
(* Preservation of the invariant, one lemma per action.  The first step of a *)
(* lemma has the parts whose variables the action leaves alone.              *)

\* A thread gets the mutex of a connection, ...
LEMMA AcquireKeeps ==
  ASSUME NEW u \in Users, NEW c \in Conns, IInv, Acquire(u, c) PROVE IInv'
<1>1. Place'
  BY DEF IInv, Place, Acquire, UGoto, lists, flags, net, kern
<1>2. TypeOK'
  BY NetConstants DEF IInv, TypeOK, Held, Place, UserAt, NetAt, Acquire, UGoto, lists,
      flags, net, kern
<1>3. Held'
  BY NetConstants DEF IInv, TypeOK, Held, UserAt, Acquire, UGoto, lists, flags, net, kern
<1>4. Once'
  BY NetConstants DEF IInv, TypeOK, Held, Place, Once, Flag, FlagOf, Pushing, Acquire,
      UGoto, lists, flags, net, kern
<1>5. Flag'
  BY NetConstants DEF IInv, TypeOK, Held, Place, Once, Flag, FlagOf, Pushing, Acquire,
      UGoto, lists, flags, net, kern
<1>6. FreedIsGone'
  BY NetConstants DEF IInv, TypeOK, Held, Place, Once, Flag, FlagOf, FreedIsGone, Acquire,
      UGoto, lists, flags, net, kern
<1>7. Lists'
  BY NetConstants DEF IInv, TypeOK, Held, Place, Flag, FlagOf, Pushing, Lists, Listed,
      Enabling, Acquire, UGoto, lists, flags, net, kern
<1>8. NoStall'
  BY NetConstants DEF IInv, TypeOK, Held, Place, NoStall, Acquire, UGoto, lists, flags,
      net, kern
<1> QED
  BY <1>1, <1>2, <1>3, <1>4, <1>5, <1>6, <1>7, <1>8 DEF IInv

\* ... and releases it.
LEMMA ReleaseKeeps ==
  ASSUME NEW u \in Users, IInv, Release(u) PROVE IInv'
<1>1. Place'
  BY DEF IInv, Place, Release, UGoto, lists, flags, net, kern
<1>2. TypeOK'
  BY NetConstants DEF IInv, TypeOK, Held, Place, UserAt, NetAt, Release, UGoto, lists,
      flags, net, kern
<1>3. Held'
  BY NetConstants DEF IInv, TypeOK, Held, UserAt, Release, UGoto, lists, flags, net, kern
<1>4. Once'
  BY NetConstants DEF IInv, TypeOK, Held, Place, Once, Flag, FlagOf, Pushing, Release,
      UGoto, lists, flags, net, kern
<1>5. Flag'
  BY NetConstants DEF IInv, TypeOK, Held, Place, Once, Flag, FlagOf, Pushing, Release,
      UGoto, lists, flags, net, kern
<1>6. FreedIsGone'
  BY NetConstants DEF IInv, TypeOK, Held, Place, Once, Flag, FlagOf, FreedIsGone, Release,
      UGoto, lists, flags, net, kern
<1>7. Lists'
  BY NetConstants DEF IInv, TypeOK, Held, Place, Flag, FlagOf, Pushing, Lists, Listed,
      Enabling, Release, UGoto, lists, flags, net, kern
<1>8. NoStall'
  BY NetConstants DEF IInv, TypeOK, Held, Place, NoStall, Release, UGoto, lists, flags,
      net, kern
<1> QED
  BY <1>1, <1>2, <1>3, <1>4, <1>5, <1>6, <1>7, <1>8 DEF IInv

\* reenable sets the flag enabled.
LEMMA ReenableKeeps ==
  ASSUME NEW u \in Users, IInv, Reenable(u) PROVE IInv'
<1>1. Place'
  BY DEF IInv, Place, Reenable, UGoto, lists, net, kern
<1>2. TypeOK'
  BY NetConstants DEF IInv, TypeOK, Held, Place, UserAt, NetAt, Reenable, UGoto, lists,
      net, kern
<1>3. Held'
  BY NetConstants DEF IInv, TypeOK, Held, UserAt, Reenable, UGoto, lists, net, kern
<1>4. Once'
  BY NetConstants DEF IInv, TypeOK, Held, Place, Once, Flag, FlagOf, Pushing, Reenable,
      UGoto, lists, net, kern
<1>5. Flag'
  BY NetConstants DEF IInv, TypeOK, Held, Place, Once, Flag, FlagOf, Pushing, Reenable,
      UGoto, lists, net, kern
<1>6. FreedIsGone'
  BY NetConstants DEF IInv, TypeOK, Held, Place, Once, Flag, FlagOf, FreedIsGone,
      Reenable, UGoto, lists, net, kern
<1>7. Lists'
  BY NetConstants DEF IInv, TypeOK, Held, Place, Flag, FlagOf, Pushing, Lists, Listed,
      Enabling, Reenable, UGoto, lists, net, kern
<1>8. NoStall'
  BY NetConstants DEF IInv, TypeOK, Held, Place, NoStall, Reenable, UGoto, lists, net,
      kern
<1> QED
  BY <1>1, <1>2, <1>3, <1>4, <1>5, <1>6, <1>7, <1>8 DEF IInv

\* reenable finds the NetHandler's mutex free and updates the ready list itself.
LEMMA ReenableLockedKeeps ==
  ASSUME NEW u \in Users, IInv, ReenableLocked(u) PROVE IInv'
<1>1. Place'
  BY DEF IInv, Place, ReenableLocked, UGoto, flags, net, kern
<1>2. TypeOK'
  BY NetConstants DEF IInv, TypeOK, Held, Place, UserAt, NetAt, ReenableLocked, UGoto,
      flags, net, kern
<1>3. Held'
  BY NetConstants DEF IInv, TypeOK, Held, UserAt, ReenableLocked, UGoto, flags, net, kern
<1>4. Once'
  BY NetConstants DEF IInv, TypeOK, Held, Place, Once, Flag, FlagOf, Pushing,
      ReenableLocked, UGoto, flags, net, kern
<1>5. Flag'
  BY NetConstants DEF IInv, TypeOK, Held, Place, Once, Flag, FlagOf, Pushing,
      ReenableLocked, UGoto, flags, net, kern
<1>6. FreedIsGone'
  BY NetConstants DEF IInv, TypeOK, Held, Place, Once, Flag, FlagOf, FreedIsGone,
      ReenableLocked, UGoto, flags, net, kern
<1>7. Lists'
  BY NetConstants DEF IInv, TypeOK, Held, Place, Flag, FlagOf, Pushing, Lists, Listed,
      Enabling, ReenableLocked, UGoto, flags, net, kern
<1>8. NoStall'
  BY NetConstants DEF IInv, TypeOK, Held, Place, NoStall, ReenableLocked, UGoto, flags,
      net, kern
<1> QED
  BY <1>1, <1>2, <1>3, <1>4, <1>5, <1>6, <1>7, <1>8 DEF IInv

\* reenable does not get the NetHandler's mutex.
LEMMA ReenableBusyKeeps ==
  ASSUME NEW u \in Users, IInv, ReenableBusy(u) PROVE IInv'
<1>1. Place'
  BY DEF IInv, Place, ReenableBusy, UGoto, lists, flags, net, kern
<1>2. TypeOK'
  BY NetConstants DEF IInv, TypeOK, Held, Place, UserAt, NetAt, ReenableBusy, UGoto,
      lists, flags, net, kern
<1>3. Held'
  BY NetConstants DEF IInv, TypeOK, Held, UserAt, ReenableBusy, UGoto, lists, flags, net,
      kern
<1>4. Once'
  BY NetConstants DEF IInv, TypeOK, Held, Place, Once, Flag, FlagOf, Pushing,
      ReenableBusy, UGoto, lists, flags, net, kern
<1>5. Flag'
  BY NetConstants DEF IInv, TypeOK, Held, Place, Once, Flag, FlagOf, Pushing,
      ReenableBusy, UGoto, lists, flags, net, kern
<1>6. FreedIsGone'
  BY NetConstants DEF IInv, TypeOK, Held, Place, Once, Flag, FlagOf, FreedIsGone,
      ReenableBusy, UGoto, lists, flags, net, kern
<1>7. Lists'
  BY NetConstants DEF IInv, TypeOK, Held, Place, Flag, FlagOf, Pushing, Lists, Listed,
      Enabling, ReenableBusy, UGoto, lists, flags, net, kern
<1>8. NoStall'
  BY NetConstants DEF IInv, TypeOK, Held, Place, NoStall, ReenableBusy, UGoto, lists,
      flags, net, kern
<1> QED
  BY <1>1, <1>2, <1>3, <1>4, <1>5, <1>6, <1>7, <1>8 DEF IInv

\* reenable tests and sets in_enabled_list.
LEMMA ReenableCheckKeeps ==
  ASSUME NEW u \in Users, IInv, ReenableCheck(u) PROVE IInv'
<1>1. Place'
  BY DEF IInv, Place, ReenableCheck, UGoto, lists, net, kern
<1>2. TypeOK'
  BY NetConstants DEF IInv, TypeOK, Held, Place, UserAt, NetAt, ReenableCheck, UGoto,
      lists, net, kern
<1>3. Held'
  BY NetConstants DEF IInv, TypeOK, Held, UserAt, ReenableCheck, UGoto, lists, net, kern
<1>4. Once'
  BY NetConstants DEF IInv, TypeOK, Held, Place, Once, Flag, FlagOf, Pushing,
      ReenableCheck, UGoto, lists, net, kern
<1>5. Flag'
  BY NetConstants DEF IInv, TypeOK, Held, Place, Once, Flag, FlagOf, Pushing,
      ReenableCheck, UGoto, lists, net, kern
<1>6. FreedIsGone'
  BY NetConstants DEF IInv, TypeOK, Held, Place, Once, Flag, FlagOf, FreedIsGone,
      ReenableCheck, UGoto, lists, net, kern
<1>7. Lists'
  BY NetConstants DEF IInv, TypeOK, Held, Place, Flag, FlagOf, Pushing, Lists, Listed,
      Enabling, ReenableCheck, UGoto, lists, net, kern
<1>8. NoStall'
  BY NetConstants DEF IInv, TypeOK, Held, Place, NoStall, ReenableCheck, UGoto, lists,
      net, kern
<1> QED
  BY <1>1, <1>2, <1>3, <1>4, <1>5, <1>6, <1>7, <1>8 DEF IInv

\* reenable pushes on the enable list.
LEMMA ReenablePushKeeps ==
  ASSUME NEW u \in Users, IInv, ReenablePush(u) PROVE IInv'
<1>1. Place'
  BY DEF IInv, Place, ReenablePush, UGoto, flags, net, kern
<1>2. TypeOK'
  BY NetConstants DEF IInv, TypeOK, Held, Place, UserAt, NetAt, ReenablePush, UGoto,
      flags, net, kern
<1>3. Held'
  BY NetConstants DEF IInv, TypeOK, Held, UserAt, ReenablePush, UGoto, flags, net, kern
<1>4. Once'
  BY NetConstants DEF IInv, TypeOK, Held, Place, Once, Flag, FlagOf, Pushing,
      ReenablePush, UGoto, flags, net, kern
<1>5. Flag'
  BY NetConstants DEF IInv, TypeOK, Held, Place, Once, Flag, FlagOf, Pushing,
      ReenablePush, UGoto, flags, net, kern
<1>6. FreedIsGone'
  BY NetConstants DEF IInv, TypeOK, Held, Place, Once, Flag, FlagOf, FreedIsGone,
      ReenablePush, UGoto, flags, net, kern
<1>7. Lists'
  BY NetConstants DEF IInv, TypeOK, Held, Place, Flag, FlagOf, Pushing, Lists, Listed,
      Enabling, ReenablePush, UGoto, flags, net, kern
<1>8. NoStall'
  BY NetConstants DEF IInv, TypeOK, Held, Place, NoStall, ReenablePush, UGoto, flags, net,
      kern
<1> QED
  BY <1>1, <1>2, <1>3, <1>4, <1>5, <1>6, <1>7, <1>8 DEF IInv

\* reenable signals the net thread.
LEMMA ReenableSignalKeeps ==
  ASSUME NEW u \in Users, IInv, ReenableSignal(u) PROVE IInv'
<1>1. Place'
  BY DEF IInv, Place, ReenableSignal, UGoto, lists, flags, net
<1>2. TypeOK'
  BY NetConstants DEF IInv, TypeOK, Held, Place, UserAt, NetAt, ReenableSignal, UGoto,
      lists, flags, net
<1>3. Held'
  BY NetConstants DEF IInv, TypeOK, Held, UserAt, ReenableSignal, UGoto, lists, flags, net
<1>4. Once'
  BY NetConstants DEF IInv, TypeOK, Held, Place, Once, Flag, FlagOf, Pushing,
      ReenableSignal, UGoto, lists, flags, net
<1>5. Flag'
  BY NetConstants DEF IInv, TypeOK, Held, Place, Once, Flag, FlagOf, Pushing,
      ReenableSignal, UGoto, lists, flags, net
<1>6. FreedIsGone'
  BY NetConstants DEF IInv, TypeOK, Held, Place, Once, Flag, FlagOf, FreedIsGone,
      ReenableSignal, UGoto, lists, flags, net
<1>7. Lists'
  BY NetConstants DEF IInv, TypeOK, Held, Place, Flag, FlagOf, Pushing, Lists, Listed,
      Enabling, ReenableSignal, UGoto, lists, flags, net
<1>8. NoStall'
  BY NetConstants DEF IInv, TypeOK, Held, Place, NoStall, ReenableSignal, UGoto, lists,
      flags, net
<1> QED
  BY <1>1, <1>2, <1>3, <1>4, <1>5, <1>6, <1>7, <1>8 DEF IInv

\* A connection is disabled.
LEMMA DisableKeeps ==
  ASSUME NEW u \in Users, IInv, Disable(u) PROVE IInv'
<1>1. Held' /\ Place' /\ Once' /\ Flag' /\ FreedIsGone' /\ NoStall'
  BY DEF IInv, Held, Place, Once, Pushing, Flag, FlagOf, FreedIsGone, NoStall, Disable,
      lists, net, user, kern
<1>2. TypeOK'
  BY NetConstants DEF IInv, TypeOK, Held, Place, UserAt, NetAt, Disable, lists, net, user,
      kern
<1>3. Lists'
  BY NetConstants DEF IInv, TypeOK, Held, Place, Flag, FlagOf, Pushing, Lists, Listed,
      Enabling, Disable, lists, net, user, kern
<1> QED
  BY <1>1, <1>2, <1>3 DEF IInv

\* A thread other than the net thread closes a connection, ...
LEMMA CloseKeeps ==
  ASSUME NEW u \in Users, IInv, Close(u) PROVE IInv'
<1>1. Place'
  BY DEF IInv, Place, Close, UGoto, lists, net, kern
<1>2. TypeOK'
  BY NetConstants DEF IInv, TypeOK, Held, Place, UserAt, NetAt, Close, UGoto, lists, net,
      kern
<1>3. Held'
  BY NetConstants DEF IInv, TypeOK, Held, UserAt, Close, UGoto, lists, net, kern
<1>4. Once'
  BY NetConstants DEF IInv, TypeOK, Held, Place, Once, Flag, FlagOf, Pushing, Close,
      UGoto, lists, net, kern
<1>5. Flag'
  BY NetConstants DEF IInv, TypeOK, Held, Place, Once, Flag, FlagOf, Pushing, Close,
      UGoto, lists, net, kern
<1>6. FreedIsGone'
  BY NetConstants DEF IInv, TypeOK, Held, Place, Once, Flag, FlagOf, FreedIsGone, Close,
      UGoto, lists, net, kern
<1>7. Lists'
  BY NetConstants DEF IInv, TypeOK, Held, Place, Flag, FlagOf, Pushing, Lists, Listed,
      Enabling, Close, UGoto, lists, net, kern
<1>8. NoStall'
  BY NetConstants DEF IInv, TypeOK, Held, Place, NoStall, Close, UGoto, lists, net, kern
<1> QED
  BY <1>1, <1>2, <1>3, <1>4, <1>5, <1>6, <1>7, <1>8 DEF IInv

\* ... which the net thread sees by the mark.
LEMMA CloseMarkKeeps ==
  ASSUME NEW u \in Users, IInv, CloseMark(u) PROVE IInv'
<1>1. Place'
  BY DEF IInv, Place, CloseMark, UGoto, lists, net, kern
<1>2. TypeOK'
  BY NetConstants DEF IInv, TypeOK, Held, Place, UserAt, NetAt, CloseMark, UGoto, lists,
      net, kern
<1>3. Held'
  BY NetConstants DEF IInv, TypeOK, Held, UserAt, CloseMark, UGoto, lists, net, kern
<1>4. Once'
  BY NetConstants DEF IInv, TypeOK, Held, Place, Once, Flag, FlagOf, Pushing, CloseMark,
      UGoto, lists, net, kern
<1>5. Flag'
  BY NetConstants DEF IInv, TypeOK, Held, Place, Once, Flag, FlagOf, Pushing, CloseMark,
      UGoto, lists, net, kern
<1>6. FreedIsGone'
  BY NetConstants DEF IInv, TypeOK, Held, Place, Once, Flag, FlagOf, FreedIsGone,
      CloseMark, UGoto, lists, net, kern
<1>7. Lists'
  BY NetConstants DEF IInv, TypeOK, Held, Place, Flag, FlagOf, Pushing, Lists, Listed,
      Enabling, CloseMark, UGoto, lists, net, kern
<1>8. NoStall'
  BY NetConstants DEF IInv, TypeOK, Held, Place, NoStall, CloseMark, UGoto, lists, net,
      kern
<1> QED
  BY <1>1, <1>2, <1>3, <1>4, <1>5, <1>6, <1>7, <1>8 DEF IInv

\* The memory of a freed connection is used again.
LEMMA OpenKeeps ==
  ASSUME NEW c \in Conns, IInv, Open(c) PROVE IInv'
<1>1. Held' /\ Place' /\ Once' /\ Flag' /\ Lists' /\ NoStall'
  BY DEF IInv, Held, Place, Once, Pushing, Flag, FlagOf, Lists, Listed, Enabling, NoStall,
      Open, lists, flags, net, user, kern
<1>2. TypeOK'
  BY NetConstants DEF IInv, TypeOK, Place, UserAt, NetAt, Open, lists, flags, net, user,
      kern
<1>3. FreedIsGone'
  BY NetConstants DEF IInv, TypeOK, Held, Place, Once, Flag, FlagOf, FreedIsGone, Open,
      lists, flags, net, user, kern
<1> QED
  BY <1>1, <1>2, <1>3 DEF IInv

\* The InactivityCop frees a connection that another thread has closed.
LEMMA CopKeeps ==
  ASSUME NEW c \in Conns, IInv, Cop(c) PROVE IInv'
<1>1. Place'
  BY DEF IInv, Place, Cop, CloseConn, net, user
<1>2. TypeOK'
  BY NetConstants DEF IInv, TypeOK, Place, UserAt, NetAt, Cop, CloseConn, net, user
<1>3. Held'
  BY NetConstants DEF IInv, TypeOK, Held, UserAt, Cop, CloseConn, net, user
<1>4. Once'
  BY NetConstants DEF IInv, TypeOK, Held, Place, Once, Flag, FlagOf, Pushing, Cop,
      CloseConn, net, user
<1>5. Flag'
  BY NetConstants DEF IInv, TypeOK, Held, Place, Once, Flag, FlagOf, Pushing, Cop,
      CloseConn, net, user
<1>6. FreedIsGone'
  BY NetConstants DEF IInv, TypeOK, Held, Place, Once, Flag, FlagOf, FreedIsGone, Cop,
      CloseConn, net, user
<1>7. Lists'
  BY NetConstants DEF IInv, TypeOK, Held, Place, Flag, FlagOf, Pushing, Lists, Listed,
      Enabling, Cop, CloseConn, net, user
<1>8. NoStall'
  BY NetConstants DEF IInv, TypeOK, Place, NoStall, Cop, CloseConn, net, user
<1> QED
  BY <1>1, <1>2, <1>3, <1>4, <1>5, <1>6, <1>7, <1>8 DEF IInv

\* The InactivityCop closes a connection whose time is over.
LEMMA TimeoutKeeps ==
  ASSUME NEW c \in Conns, IInv, Timeout(c) PROVE IInv'
<1>1. Place'
  BY DEF IInv, Place, Timeout, CloseConn, net, user
<1>2. TypeOK'
  BY NetConstants DEF IInv, TypeOK, Place, UserAt, NetAt, Timeout, CloseConn, net, user
<1>3. Held'
  BY NetConstants DEF IInv, TypeOK, Held, UserAt, Timeout, CloseConn, net, user
<1>4. Once'
  BY NetConstants DEF IInv, TypeOK, Held, Place, Once, Flag, FlagOf, Pushing, Timeout,
      CloseConn, net, user
<1>5. Flag'
  BY NetConstants DEF IInv, TypeOK, Held, Place, Once, Flag, FlagOf, Pushing, Timeout,
      CloseConn, net, user
<1>6. FreedIsGone'
  BY NetConstants DEF IInv, TypeOK, Held, Place, Once, Flag, FlagOf, FreedIsGone, Timeout,
      CloseConn, net, user
<1>7. Lists'
  BY NetConstants DEF IInv, TypeOK, Held, Place, Flag, FlagOf, Pushing, Lists, Listed,
      Enabling, Timeout, CloseConn, net, user
<1>8. NoStall'
  BY NetConstants DEF IInv, TypeOK, Place, NoStall, Timeout, CloseConn, net, user
<1> QED
  BY <1>1, <1>2, <1>3, <1>4, <1>5, <1>6, <1>7, <1>8 DEF IInv

\* mainNetEvent begins.
LEMMA EventBeginKeeps ==
  ASSUME IInv, EventBegin PROVE IInv'
<1>1. Held' /\ Once' /\ Flag' /\ FreedIsGone'
  BY DEF IInv, Held, Once, Pushing, Flag, FlagOf, FreedIsGone, EventBegin, lists, flags,
      net, user, kern
<1>2. TypeOK'
  BY NetConstants DEF IInv, TypeOK, Place, UserAt, NetAt, EventBegin, lists, flags, net,
      user, kern
<1>3. Place'
  BY NetConstants DEF IInv, TypeOK, Place, Held, EventBegin, lists, flags, net, user, kern
<1>4. Lists'
  BY NetConstants DEF IInv, TypeOK, Held, Place, Flag, FlagOf, Pushing, Lists, Listed,
      Enabling, EventBegin, lists, flags, net, user, kern
<1>5. NoStall'
  BY NetConstants DEF IInv, TypeOK, Place, NoStall, EventBegin, lists, flags, net, user,
      kern
<1> QED
  BY <1>1, <1>2, <1>3, <1>4, <1>5 DEF IInv

\* process_enabled_list takes the whole enable list.
LEMMA PopAllKeeps ==
  ASSUME IInv, PopAll PROVE IInv'
<1>1. Held'
  BY DEF IInv, Held, PopAll, flags, user, kern
<1>2. TypeOK'
  BY NetConstants DEF IInv, TypeOK, Place, UserAt, NetAt, PopAll, flags, user, kern
<1>3. Place'
  BY NetConstants DEF IInv, TypeOK, Place, Held, PopAll, flags, user, kern
<1>4. Once'
  BY NetConstants DEF IInv, TypeOK, Held, Place, Once, Flag, FlagOf, Pushing, PopAll,
      flags, user, kern
<1>5. Flag'
  BY NetConstants DEF IInv, TypeOK, Held, Place, Once, Flag, FlagOf, Pushing, PopAll,
      flags, user, kern
<1>6. FreedIsGone'
  BY NetConstants DEF IInv, TypeOK, Held, Place, Once, Flag, FlagOf, FreedIsGone, PopAll,
      flags, user, kern
<1>7. Lists'
  BY NetConstants DEF IInv, TypeOK, Held, Place, Flag, FlagOf, Pushing, Lists, Listed,
      Enabling, PopAll, flags, user, kern
<1>8. NoStall'
  BY NetConstants DEF IInv, TypeOK, Place, NoStall, PopAll, flags, user, kern
<1> QED
  BY <1>1, <1>2, <1>3, <1>4, <1>5, <1>6, <1>7, <1>8 DEF IInv

\* process_enabled_list clears in_enabled_list ...
LEMMA EnabledClearKeeps ==
  ASSUME NEW c \in Conns, IInv, EnabledClear(c) PROVE IInv'
<1>1. Held'
  BY DEF IInv, Held, EnabledClear, user, kern
<1>2. TypeOK'
  BY NetConstants DEF IInv, TypeOK, Place, UserAt, NetAt, EnabledClear, user, kern
<1>3. Place'
  BY NetConstants DEF IInv, TypeOK, Place, Held, EnabledClear, user, kern
<1>4. Once'
  BY NetConstants DEF IInv, TypeOK, Held, Place, Once, Flag, FlagOf, Pushing,
      EnabledClear, user, kern
<1>5. Flag'
  BY NetConstants DEF IInv, TypeOK, Held, Place, Once, Flag, FlagOf, Pushing,
      EnabledClear, user, kern
<1>6. FreedIsGone'
  BY NetConstants DEF IInv, TypeOK, Held, Place, Once, Flag, FlagOf, FreedIsGone,
      EnabledClear, user, kern
<1>7. Lists'
  BY NetConstants DEF IInv, TypeOK, Held, Place, Flag, FlagOf, Pushing, Lists, Listed,
      Enabling, EnabledClear, user, kern
<1>8. NoStall'
  BY NetConstants DEF IInv, TypeOK, Place, NoStall, EnabledClear, user, kern
<1> QED
  BY <1>1, <1>2, <1>3, <1>4, <1>5, <1>6, <1>7, <1>8 DEF IInv

\* ... and then tests enabled, ...
LEMMA EnabledTestKeeps ==
  ASSUME IInv, EnabledTest PROVE IInv'
<1>1. Held' /\ Once' /\ Flag'
  BY DEF IInv, Held, Once, Pushing, Flag, FlagOf, EnabledTest, Wanted, flags, user, kern
<1>2. TypeOK'
  BY NetConstants DEF IInv, TypeOK, Place, UserAt, NetAt, EnabledTest, Wanted, flags,
      user, kern
<1>3. Place'
  BY NetConstants DEF IInv, TypeOK, Place, Held, EnabledTest, Wanted, flags, user, kern
<1>4. FreedIsGone'
  BY NetConstants DEF IInv, TypeOK, Held, Place, Once, Flag, FlagOf, FreedIsGone,
      EnabledTest, Wanted, flags, user, kern
<1>5. Lists'
  BY NetConstants DEF IInv, TypeOK, Held, Place, Flag, FlagOf, Pushing, Lists, Listed,
      Enabling, EnabledTest, Wanted, flags, user, kern
<1>6. NoStall'
  BY NetConstants DEF IInv, TypeOK, Place, NoStall, EnabledTest, Wanted, flags, user, kern
<1> QED
  BY <1>1, <1>2, <1>3, <1>4, <1>5, <1>6 DEF IInv

\* ... or, since nothing orders the two, tests first ...
LEMMA EnabledTestEarlyKeeps ==
  ASSUME NEW c \in Conns, IInv, EnabledTestEarly(c) PROVE IInv'
<1>1. Held' /\ Once' /\ Flag'
  BY DEF IInv, Held, Once, Pushing, Flag, FlagOf, EnabledTestEarly, Wanted, lists, flags,
      user, kern
<1>2. TypeOK'
  BY NetConstants DEF IInv, TypeOK, Place, UserAt, NetAt, EnabledTestEarly, Wanted, lists,
      flags, user, kern
<1>3. Place'
  BY NetConstants DEF IInv, TypeOK, Place, Held, EnabledTestEarly, Wanted, lists, flags,
      user, kern
<1>4. FreedIsGone'
  BY NetConstants DEF IInv, TypeOK, Held, Place, Once, Flag, FlagOf, FreedIsGone,
      EnabledTestEarly, Wanted, lists, flags, user, kern
<1>5. Lists'
  BY NetConstants DEF IInv, TypeOK, Held, Place, Flag, FlagOf, Pushing, Lists, Listed,
      Enabling, EnabledTestEarly, Wanted, lists, flags, user, kern
<1>6. NoStall'
  BY NetConstants DEF IInv, TypeOK, Place, NoStall, EnabledTestEarly, Wanted, lists,
      flags, user, kern
<1> QED
  BY <1>1, <1>2, <1>3, <1>4, <1>5, <1>6 DEF IInv

\* ... and clears afterwards.
LEMMA EnabledClearLateKeeps ==
  ASSUME IInv, EnabledClearLate PROVE IInv'
<1>1. Held'
  BY DEF IInv, Held, EnabledClearLate, Wanted, user, kern
<1>2. TypeOK'
  BY NetConstants DEF IInv, TypeOK, Place, UserAt, NetAt, EnabledClearLate, Wanted, user,
      kern
<1>3. Place'
  BY NetConstants DEF IInv, TypeOK, Place, Held, EnabledClearLate, Wanted, user, kern
<1>4. Once'
  BY NetConstants DEF IInv, TypeOK, Held, Place, Once, Flag, FlagOf, Pushing,
      EnabledClearLate, Wanted, user, kern
<1>5. Flag'
  BY NetConstants DEF IInv, TypeOK, Held, Place, Once, Flag, FlagOf, Pushing,
      EnabledClearLate, Wanted, user, kern
<1>6. FreedIsGone'
  BY NetConstants DEF IInv, TypeOK, Held, Place, Once, Flag, FlagOf, FreedIsGone,
      EnabledClearLate, Wanted, user, kern
<1>7. Lists'
  BY NetConstants DEF IInv, TypeOK, Held, Place, Flag, FlagOf, Pushing, Lists, Listed,
      Enabling, EnabledClearLate, Wanted, user, kern
<1>8. NoStall'
  BY NetConstants DEF IInv, TypeOK, Place, NoStall, EnabledClearLate, Wanted, user, kern
<1> QED
  BY <1>1, <1>2, <1>3, <1>4, <1>5, <1>6, <1>7, <1>8 DEF IInv

\* The net thread decides whether to block, ...
LEMMA PollBeginKeeps ==
  ASSUME IInv, PollBegin PROVE IInv'
<1>1. Held' /\ Once' /\ Flag' /\ FreedIsGone'
  BY DEF IInv, Held, Once, Pushing, Flag, FlagOf, FreedIsGone, PollBegin, lists, flags,
      user, kern
<1>2. TypeOK'
  BY NetConstants DEF IInv, TypeOK, Place, UserAt, NetAt, PollBegin, lists, flags, user,
      kern
<1>3. Place'
  BY NetConstants DEF IInv, TypeOK, Place, Held, PollBegin, lists, flags, user, kern
<1>4. Lists'
  BY NetConstants DEF IInv, TypeOK, Held, Place, Flag, FlagOf, Pushing, Lists, Listed,
      Enabling, PollBegin, lists, flags, user, kern
<1>5. NoStall'
  BY NetConstants DEF IInv, TypeOK, Place, NoStall, PollBegin, lists, flags, user, kern
<1> QED
  BY <1>1, <1>2, <1>3, <1>4, <1>5 DEF IInv

\* ... and comes back with what is ready.
LEMMA PollEndKeeps ==
  ASSUME IInv, PollEnd PROVE IInv'
<1>1. Held' /\ Once' /\ Flag'
  BY DEF IInv, Held, Once, Pushing, Flag, FlagOf, PollEnd, user
<1>2. TypeOK'
  BY NetConstants DEF IInv, TypeOK, Place, UserAt, NetAt, PollEnd, user
<1>3. Place'
  BY NetConstants DEF IInv, TypeOK, Place, Held, PollEnd, user
<1>4. FreedIsGone'
  BY NetConstants DEF IInv, TypeOK, Held, Place, Once, Flag, FlagOf, FreedIsGone, PollEnd,
      user
<1>5. Lists'
  BY NetConstants DEF IInv, TypeOK, Held, Place, Flag, FlagOf, Pushing, Lists, Listed,
      Enabling, PollEnd, user
<1>6. NoStall'
  BY NetConstants DEF IInv, TypeOK, Place, NoStall, PollEnd, user
<1> QED
  BY <1>1, <1>2, <1>3, <1>4, <1>5, <1>6 DEF IInv

\* A connection on the ready list is closed and is freed.
LEMMA ReadyClosedKeeps ==
  ASSUME NEW c \in Conns, IInv, ReadyClosed(c) PROVE IInv'
<1>1. Place'
  BY DEF IInv, Place, ReadyClosed, CloseConn, net, user
<1>2. TypeOK'
  BY NetConstants DEF IInv, TypeOK, Place, UserAt, NetAt, ReadyClosed, CloseConn, net,
      user
<1>3. Held'
  BY NetConstants DEF IInv, TypeOK, Held, UserAt, ReadyClosed, CloseConn, net, user
<1>4. Once'
  BY NetConstants DEF IInv, TypeOK, Held, Place, Once, Flag, FlagOf, Pushing, ReadyClosed,
      CloseConn, net, user
<1>5. Flag'
  BY NetConstants DEF IInv, TypeOK, Held, Place, Once, Flag, FlagOf, Pushing, ReadyClosed,
      CloseConn, net, user
<1>6. FreedIsGone'
  BY NetConstants DEF IInv, TypeOK, Held, Place, Once, Flag, FlagOf, FreedIsGone,
      ReadyClosed, CloseConn, net, user
<1>7. Lists'
  BY NetConstants DEF IInv, TypeOK, Held, Place, Flag, FlagOf, Pushing, Lists, Listed,
      Enabling, ReadyClosed, CloseConn, net, user
<1>8. NoStall'
  BY NetConstants DEF IInv, TypeOK, Place, NoStall, ReadyClosed, CloseConn, net, user
<1> QED
  BY <1>1, <1>2, <1>3, <1>4, <1>5, <1>6, <1>7, <1>8 DEF IInv

\* A connection on the ready list is not enabled or not triggered.
LEMMA ReadyIdleKeeps ==
  ASSUME NEW c \in Conns, IInv, ReadyIdle(c) PROVE IInv'
<1>1. Held' /\ Place' /\ Once' /\ Flag' /\ NoStall'
  BY DEF IInv, Held, Place, Once, Pushing, Flag, FlagOf, NoStall, ReadyIdle, flags, net,
      user, kern
<1>2. TypeOK'
  BY NetConstants DEF IInv, TypeOK, Place, UserAt, NetAt, ReadyIdle, flags, net, user,
      kern
<1>3. FreedIsGone'
  BY NetConstants DEF IInv, TypeOK, Held, Place, Once, Flag, FlagOf, FreedIsGone,
      ReadyIdle, flags, net, user, kern
<1>4. Lists'
  BY NetConstants DEF IInv, TypeOK, Held, Place, Flag, FlagOf, Pushing, Lists, Listed,
      Enabling, ReadyIdle, flags, net, user, kern
<1> QED
  BY <1>1, <1>2, <1>3, <1>4 DEF IInv

\* A read finds nothing.
LEMMA ReadAgainKeeps ==
  ASSUME NEW c \in Conns, IInv, ReadAgain(c) PROVE IInv'
<1>1. Held' /\ Place' /\ Once' /\ Flag' /\ NoStall'
  BY DEF IInv, Held, Place, Once, Pushing, Flag, FlagOf, NoStall, ReadAgain, Readable,
      net, user, kern
<1>2. TypeOK'
  BY NetConstants DEF IInv, TypeOK, Place, UserAt, NetAt, ReadAgain, Readable, net, user,
      kern
<1>3. FreedIsGone'
  BY NetConstants DEF IInv, TypeOK, Held, Place, Once, Flag, FlagOf, FreedIsGone,
      ReadAgain, Readable, net, user, kern
<1>4. Lists'
  BY NetConstants DEF IInv, TypeOK, Held, Place, Flag, FlagOf, Pushing, Lists, Listed,
      Enabling, ReadAgain, Readable, net, user, kern
<1> QED
  BY <1>1, <1>2, <1>3, <1>4 DEF IInv

\* Data is read, and the connection stays on the ready list.
LEMMA ReadMoreKeeps ==
  ASSUME NEW c \in Conns, IInv, ReadMore(c) PROVE IInv'
<1>1. Held' /\ Place' /\ Once' /\ Flag' /\ FreedIsGone' /\ Lists' /\ NoStall'
  BY DEF IInv, Held, Place, Once, Pushing, Flag, FlagOf, FreedIsGone, Lists, Listed,
      Enabling, NoStall, ReadMore, Readable, lists, flags, net, user
<1>2. TypeOK'
  BY NetConstants DEF IInv, TypeOK, Place, UserAt, NetAt, ReadMore, Readable, lists,
      flags, net, user
<1> QED
  BY <1>1, <1>2 DEF IInv

\* A read fills the buffer or has nothing left to do: the connection is disabled.
LEMMA ReadDisableKeeps ==
  ASSUME NEW c \in Conns, IInv, ReadDisable(c) PROVE IInv'
<1>1. Held' /\ Place' /\ Once' /\ Flag' /\ NoStall'
  BY DEF IInv, Held, Place, Once, Pushing, Flag, FlagOf, NoStall, ReadDisable, Readable,
      net, user
<1>2. TypeOK'
  BY NetConstants DEF IInv, TypeOK, Place, UserAt, NetAt, ReadDisable, Readable, net, user
<1>3. FreedIsGone'
  BY NetConstants DEF IInv, TypeOK, Held, Place, Once, Flag, FlagOf, FreedIsGone,
      ReadDisable, Readable, net, user
<1>4. Lists'
  BY NetConstants DEF IInv, TypeOK, Held, Place, Flag, FlagOf, Pushing, Lists, Listed,
      Enabling, ReadDisable, Readable, net, user
<1> QED
  BY <1>1, <1>2, <1>3, <1>4 DEF IInv

\* A read finds the end of the stream.
LEMMA ReadEosKeeps ==
  ASSUME NEW c \in Conns, IInv, ReadEos(c) PROVE IInv'
<1>1. Held' /\ Place' /\ Once' /\ Flag' /\ NoStall'
  BY DEF IInv, Held, Place, Once, Pushing, Flag, FlagOf, NoStall, ReadEos, Readable, net,
      user, kern
<1>2. TypeOK'
  BY NetConstants DEF IInv, TypeOK, Place, UserAt, NetAt, ReadEos, Readable, net, user,
      kern
<1>3. FreedIsGone'
  BY NetConstants DEF IInv, TypeOK, Held, Place, Once, Flag, FlagOf, FreedIsGone, ReadEos,
      Readable, net, user, kern
<1>4. Lists'
  BY NetConstants DEF IInv, TypeOK, Held, Place, Flag, FlagOf, Pushing, Lists, Listed,
      Enabling, ReadEos, Readable, net, user, kern
<1> QED
  BY <1>1, <1>2, <1>3, <1>4 DEF IInv

\* The state machine closes the connection from its handler.
LEMMA ReadCloseKeeps ==
  ASSUME NEW c \in Conns, IInv, ReadClose(c) PROVE IInv'
<1>1. Place'
  BY DEF IInv, Place, ReadClose, CloseConn, Readable, net, user
<1>2. TypeOK'
  BY NetConstants DEF IInv, TypeOK, Place, UserAt, NetAt, ReadClose, CloseConn, Readable,
      net, user
<1>3. Held'
  BY NetConstants DEF IInv, TypeOK, Held, UserAt, ReadClose, CloseConn, Readable, net,
      user
<1>4. Once'
  BY NetConstants DEF IInv, TypeOK, Held, Place, Once, Flag, FlagOf, Pushing, ReadClose,
      CloseConn, Readable, net, user
<1>5. Flag'
  BY NetConstants DEF IInv, TypeOK, Held, Place, Once, Flag, FlagOf, Pushing, ReadClose,
      CloseConn, Readable, net, user
<1>6. FreedIsGone'
  BY NetConstants DEF IInv, TypeOK, Held, Place, Once, Flag, FlagOf, FreedIsGone,
      ReadClose, CloseConn, Readable, net, user
<1>7. Lists'
  BY NetConstants DEF IInv, TypeOK, Held, Place, Flag, FlagOf, Pushing, Lists, Listed,
      Enabling, ReadClose, CloseConn, Readable, net, user
<1>8. NoStall'
  BY NetConstants DEF IInv, TypeOK, Place, NoStall, ReadClose, CloseConn, Readable, net,
      user
<1> QED
  BY <1>1, <1>2, <1>3, <1>4, <1>5, <1>6, <1>7, <1>8 DEF IInv

\* mainNetEvent ends.
LEMMA EventEndKeeps ==
  ASSUME IInv, EventEnd PROVE IInv'
<1>1. Held' /\ Once' /\ Flag' /\ FreedIsGone'
  BY DEF IInv, Held, Once, Pushing, Flag, FlagOf, FreedIsGone, EventEnd, lists, flags,
      user, kern
<1>2. TypeOK'
  BY NetConstants DEF IInv, TypeOK, Place, UserAt, NetAt, EventEnd, lists, flags, user,
      kern
<1>3. Place'
  BY NetConstants DEF IInv, TypeOK, Place, Held, EventEnd, lists, flags, user, kern
<1>4. Lists'
  BY NetConstants DEF IInv, TypeOK, Held, Place, Flag, FlagOf, Pushing, Lists, Listed,
      Enabling, EventEnd, lists, flags, user, kern
<1>5. NoStall'
  BY NetConstants DEF IInv, TypeOK, Place, NoStall, EventEnd, lists, flags, user, kern
<1> QED
  BY <1>1, <1>2, <1>3, <1>4, <1>5 DEF IInv

\* Data arrives.
LEMMA ArriveKeeps ==
  ASSUME NEW c \in Conns, IInv, Arrive(c) PROVE IInv'
<1>1. Held' /\ Place' /\ Once' /\ Flag' /\ Lists' /\ NoStall'
  BY DEF IInv, Held, Place, Once, Pushing, Flag, FlagOf, Lists, Listed, Enabling, NoStall,
      Arrive, lists, flags, net, user
<1>2. TypeOK'
  BY NetConstants DEF IInv, TypeOK, Place, UserAt, NetAt, Arrive, lists, flags, net, user
<1>3. FreedIsGone'
  BY NetConstants DEF IInv, TypeOK, Held, Place, Once, Flag, FlagOf, FreedIsGone, Arrive,
      lists, flags, net, user
<1> QED
  BY <1>1, <1>2, <1>3 DEF IInv

-----------------------------------------------------------------------------

\* The lists are empty at first.
LEMMA InitHolds == Init => IInv
BY NetConstants DEF Init, IInv, TypeOK, UserAt, NetAt, Held, Place, Once, Flag, FlagOf, Pushing,
     FreedIsGone, Lists, Listed, Enabling, NoStall

\* A step that changes nothing.
LEMMA StutterKeeps == IInv /\ UNCHANGED vars => IInv'
BY DEF IInv, TypeOK, Held, Place, Once, Flag, FlagOf, Pushing, FreedIsGone, Lists, Listed,
     Enabling, NoStall, vars, flags, lists, net, user, kern

\* The steps of the other threads, ...
LEMMA UserKeeps ==
  ASSUME NEW u \in Users, IInv, UserFinish(u) \/ UserBegin(u) PROVE IInv'
<1>1. CASE UserFinish(u)
  BY <1>1, ReleaseKeeps, ReenableLockedKeeps, ReenableBusyKeeps, ReenableCheckKeeps,
     ReenablePushKeeps, ReenableSignalKeeps, CloseMarkKeeps DEF UserFinish
<1>2. CASE UserBegin(u)
  BY <1>2, ReenableKeeps, DisableKeeps, CloseKeeps, AcquireKeeps DEF UserBegin
<1> QED
  BY <1>1, <1>2

\* ... of the net thread, ...
LEMMA MainKeeps ==
  ASSUME IInv, Main PROVE IInv'
<1>1. CASE \E c \in Conns :
             \/ EnabledClear(c) \/ EnabledTestEarly(c) \/ ReadyClosed(c) \/ ReadyIdle(c)
             \/ ReadAgain(c) \/ ReadMore(c) \/ ReadDisable(c) \/ ReadEos(c) \/ ReadClose(c)
  BY <1>1, EnabledClearKeeps, EnabledTestEarlyKeeps, ReadyClosedKeeps, ReadyIdleKeeps,
     ReadAgainKeeps, ReadMoreKeeps, ReadDisableKeeps, ReadEosKeeps, ReadCloseKeeps
<1>2. CASE EventBegin \/ PopAll \/ EnabledTest \/ EnabledClearLate \/ PollBegin \/ PollEnd \/ EventEnd
  BY <1>2, EventBeginKeeps, PopAllKeeps, EnabledTestKeeps, EnabledClearLateKeeps,
     PollBeginKeeps, PollEndKeeps, EventEndKeeps
<1> QED
  BY <1>1, <1>2 DEF Main

\* ... and all steps keep the invariant.
LEMMA NextKeeps == IInv /\ [Next]_vars => IInv'
<1> SUFFICES ASSUME IInv, [Next]_vars PROVE IInv'
  OBVIOUS
<1>1. CASE Main
  BY <1>1, MainKeeps
<1>2. CASE \E u \in Users : UserFinish(u) \/ UserBegin(u)
  BY <1>2, UserKeeps
<1>3. CASE \E c \in Conns : Open(c) \/ Cop(c) \/ Timeout(c) \/ Arrive(c)
  BY <1>3, OpenKeeps, CopKeeps, TimeoutKeeps, ArriveKeeps
<1>4. CASE UNCHANGED vars
  BY <1>4, StutterKeeps
<1> QED
  BY <1>1, <1>2, <1>3, <1>4 DEF Next

(* The inductive invariant: who holds which mutex, and where a connection    *)
(* is while it is handed from the thread that enables it (reenable) to its   *)
(* net thread (process_enabled_list).                                        *)
THEOREM Invariance == Spec => []IInv
<1>1. Init => IInv
  BY InitHolds
<1>2. IInv /\ [Next]_vars => IInv'
  BY NextKeeps
<1> QED
  BY <1>1, <1>2, PTL DEF Spec

(* A connection that reenable has enabled and that is triggered is on a list *)
(* mainNetEvent looks at, or about to be put there, unless                   *)
(* process_enabled_list has overlooked it by a load before its store.        *)
THEOREM EnablesAreNotLost == Spec => []NoLostEnable
<1>1. IInv => NoLostEnable
  BY DEF IInv, TypeOK, Lists, NoLostEnable
<1> QED
  BY <1>1, Invariance, PTL

(* in_enabled_list is set exactly while the connection is on the enable list,*)
(* on the list process_enabled_list works on, or about to be pushed.         *)
THEOREM FlagIsRight == Spec => []FlagTells
<1>1. IInv => FlagTells
  BY DEF IInv, Flag, FlagOf, Pushing, FlagTells
<1> QED
  BY <1>1, Invariance, PTL

(* close_UnixNetVConnection leaves the freed connection on no list of its    *)
(* NetHandler, and no thread in the middle of an operation on it.            *)
THEOREM FreedLeavesNothing == Spec => []FreedIsGone
<1>1. IInv => FreedIsGone
  BY DEF IInv
<1> QED
  BY <1>1, Invariance, PTL

(* The poll of mainNetEvent does not wait on a connection that reenable has  *)
(* pushed: the event fd is readable or about to be.                          *)
THEOREM PollNeverStalls == Spec => []NoStall
<1>1. IInv => NoStall
  BY DEF IInv
<1> QED
  BY <1>1, Invariance, PTL
=============================================================================
