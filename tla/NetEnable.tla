------------------------------ MODULE NetEnable ------------------------------
(* The hand-over of connections to their net thread: a thread that holds the *)
(* mutex of a connection's VIO enables, disables or closes it while the net  *)
(* thread, which holds the mutex of its NetHandler, polls, reads and frees.  *)
(* The flag enabled is guarded by the one mutex and read under the other.    *)
(*                                                                           *)
(* One net thread, the read side of its connections, edge-triggered epoll.   *)
(* The write side is the same code with its own flags and lists.             *)
EXTENDS Integers, FiniteSets

CONSTANTS Conns,       \* the UnixNetVConnections of the thread (memory cells)
          Users,       \* the threads that run continuations of connections
          NULL,        \* nobody, no connection
          MaxOps,      \* bound on the operations of the users
          MaxArrivals, \* bound on the arrivals of data
          MaxOpens     \* bound on the connections opened

ASSUME NetConstants == /\ NULL \notin Conns \cup Users \cup {"net"}
                       /\ "net" \notin Users
                       /\ MaxOps \in Nat /\ MaxArrivals \in Nat /\ MaxOpens \in Nat

VARIABLES open,             \* the connections in use (open_list)
          enabled,          \* NetState.enabled
          in_enabled_list,  \* NetState.in_enabled_list
          triggered,        \* NetState.triggered
          closed,           \* UnixNetVConnection.closed
          missed,           \* those whose enabling the net thread has overlooked
          enable_list,      \* NetHandler.read_enable_list, an InkAtomicList
          ready_list,       \* NetHandler.read_ready_list
          rq,               \* local list of process_enabled_list
          vm,               \* holder of the mutex of a connection's VIO
          nhm,              \* holder of NetHandler.mutex
          npc, ncur, nval,  \* the net thread: position, connection, loaded value
          blocks,           \* its poll may wait
          upc, ucur,        \* a user: position, connection
          data, edge, evfd, \* the kernel: unread data, events of epoll, the event fd
          used              \* how much of each bound is used

flags == <<enabled, in_enabled_list, triggered, closed, missed>>
lists == <<enable_list, ready_list, rq>>
net   == <<npc, ncur, nval, blocks>>
user  == <<upc, ucur>>
kern  == <<data, edge, evfd>>
vars  == <<open, flags, lists, vm, nhm, net, user, kern, used>>

Bound == [ops |-> MaxOps, arrivals |-> MaxArrivals, opens |-> MaxOpens]

Spend(what) == /\ used[what] < Bound[what]
               /\ used' = [used EXCEPT ![what] = @ + 1]

Init ==
  /\ open = {}
  /\ enabled = [c \in Conns |-> FALSE]
  /\ in_enabled_list = [c \in Conns |-> FALSE]
  /\ triggered = [c \in Conns |-> FALSE]
  /\ closed = [c \in Conns |-> FALSE]
  /\ missed = {}
  /\ enable_list = {} /\ ready_list = {} /\ rq = {}
  /\ vm = [c \in Conns |-> NULL] /\ nhm = NULL
  /\ npc = "idle" /\ ncur = NULL /\ nval = FALSE /\ blocks = FALSE
  /\ upc = [u \in Users |-> "idle"] /\ ucur = [u \in Users |-> NULL]
  /\ data = {} /\ edge = {} /\ evfd = FALSE
  /\ used = [b \in DOMAIN Bound |-> 0]

-----------------------------------------------------------------------------
(* The users                                                                 *)

UGoto(u, l) == upc' = [upc EXCEPT ![u] = l]

(* A thread takes the mutex of a connection it has not closed.               *)
Acquire(u, c) ==
  /\ upc[u] = "idle" /\ vm[c] = NULL
  /\ c \in open /\ ~closed[c]
  /\ Spend("ops")
  /\ vm' = [vm EXCEPT ![c] = u]
  /\ ucur' = [ucur EXCEPT ![u] = c]
  /\ UGoto(u, "own")
  /\ UNCHANGED <<open, flags, lists, nhm, net, kern>>

Release(u) ==
  /\ upc[u] \in {"own", "gone"}
  /\ vm' = [vm EXCEPT ![ucur[u]] = NULL]
  /\ ucur' = [ucur EXCEPT ![u] = NULL]
  /\ UGoto(u, "idle")
  /\ UNCHANGED <<open, flags, lists, nhm, net, kern, used>>

(* reenable, up to MUTEX_TRY_LOCK: set_enabled.                              *)
Reenable(u) ==
  /\ upc[u] = "own" /\ ~enabled[ucur[u]]
  /\ Spend("ops")
  /\ enabled' = [enabled EXCEPT ![ucur[u]] = TRUE]
  /\ UGoto(u, "try")
  /\ UNCHANGED <<open, in_enabled_list, triggered, closed, missed, lists, vm, nhm, net, ucur, kern>>

(* The NetHandler is free: the ready list is updated under its mutex.        *)
ReenableLocked(u) ==
  /\ upc[u] = "try" /\ nhm = NULL
  /\ ready_list' = IF triggered[ucur[u]] THEN ready_list \cup {ucur[u]} ELSE ready_list \ {ucur[u]}
  /\ UGoto(u, "own")
  /\ UNCHANGED <<open, flags, enable_list, rq, vm, nhm, net, ucur, kern, used>>

(* It is not: the connection goes onto the enable list, unless it is there.  *)
ReenableBusy(u) ==
  /\ upc[u] = "try" /\ nhm # NULL
  /\ UGoto(u, "check")
  /\ UNCHANGED <<open, flags, lists, vm, nhm, net, ucur, kern, used>>

ReenableCheck(u) ==
  /\ upc[u] = "check"
  /\ in_enabled_list' = [in_enabled_list EXCEPT ![ucur[u]] = TRUE]
  /\ UGoto(u, IF in_enabled_list[ucur[u]] THEN "signal" ELSE "push")
  /\ UNCHANGED <<open, enabled, triggered, closed, missed, lists, vm, nhm, net, ucur, kern, used>>

\* Mutant of ReenablePush: the net thread is not signalled.
ReenablePushSilent(u) ==
  /\ upc[u] = "push"
  /\ enable_list' = enable_list \cup {ucur[u]}
  /\ UGoto(u, "own")
  /\ UNCHANGED <<open, flags, ready_list, rq, vm, nhm, net, ucur, kern, used>>

ReenablePush(u) ==
  /\ upc[u] = "push"
  /\ enable_list' = enable_list \cup {ucur[u]}
  /\ UGoto(u, "signal")
  /\ UNCHANGED <<open, flags, ready_list, rq, vm, nhm, net, ucur, kern, used>>

(* signal_hook: net_signal_hook_function.                                    *)
ReenableSignal(u) ==
  /\ upc[u] = "signal"
  /\ evfd' = TRUE
  /\ UGoto(u, "own")
  /\ UNCHANGED <<open, flags, lists, vm, nhm, net, ucur, data, edge, used>>

(* do_io_read without a buffer, do_io_shutdown.                              *)
Disable(u) ==
  /\ upc[u] = "own" /\ enabled[ucur[u]]
  /\ Spend("ops")
  /\ enabled' = [enabled EXCEPT ![ucur[u]] = FALSE]
  /\ missed' = missed \ {ucur[u]}
  /\ UNCHANGED <<open, in_enabled_list, triggered, closed, lists, vm, nhm, net, user, kern>>

(* do_io_close on another thread: disable_read, a barrier, closed.           *)
Close(u) ==
  /\ upc[u] = "own"
  /\ enabled' = [enabled EXCEPT ![ucur[u]] = FALSE]
  /\ missed' = missed \ {ucur[u]}
  /\ UGoto(u, "close")
  /\ UNCHANGED <<open, in_enabled_list, triggered, closed, lists, vm, nhm, net, ucur, kern, used>>

CloseMark(u) ==
  /\ upc[u] = "close"
  /\ closed' = [closed EXCEPT ![ucur[u]] = TRUE]
  /\ UGoto(u, "gone")
  /\ UNCHANGED <<open, enabled, in_enabled_list, triggered, missed, lists, vm, nhm, net, ucur, kern, used>>

-----------------------------------------------------------------------------
(* The net thread                                                            *)

\* Mutant of CloseConn: the connection stays on the enable list.
CloseConnListed(c) ==
  /\ open' = open \ {c}
  /\ edge' = edge \ {c} /\ data' = data \ {c}                   \* ep.stop, con.close
  /\ ready_list' = ready_list \ {c}
  /\ in_enabled_list' = [in_enabled_list EXCEPT ![c] = FALSE]
  /\ triggered' = [triggered EXCEPT ![c] = FALSE]
  /\ closed' = [closed EXCEPT ![c] = FALSE]
  /\ missed' = missed \ {c}
  /\ UNCHANGED <<enable_list, rq, evfd>>

(* close_UnixNetVConnection and free, on the net thread.  enabled is left as *)
(* do_io_close has made it.                                                  *)
CloseConn(c) ==
  /\ open' = open \ {c}
  /\ edge' = edge \ {c} /\ data' = data \ {c}                   \* ep.stop, con.close
  /\ ready_list' = ready_list \ {c}
  /\ enable_list' = IF in_enabled_list[c] THEN enable_list \ {c} ELSE enable_list
  /\ in_enabled_list' = [in_enabled_list EXCEPT ![c] = FALSE]
  /\ triggered' = [triggered EXCEPT ![c] = FALSE]
  /\ closed' = [closed EXCEPT ![c] = FALSE]
  /\ missed' = missed \ {c}
  /\ UNCHANGED <<rq, evfd>>

(* connectUp, acceptEvent: a connection of the allocator, as it is there.    *)
Open(c) ==
  /\ npc = "idle" /\ nhm = NULL
  /\ c \notin open
  /\ Spend("opens")
  /\ open' = open \cup {c}
  /\ UNCHANGED <<flags, lists, vm, nhm, net, user, kern>>

\* Mutant of Cop: it looks only at enabled connections.
CopEnabled(c) ==
  /\ npc = "idle" /\ nhm = NULL
  /\ c \in open /\ closed[c] /\ enabled[c] /\ vm[c] = NULL
  /\ CloseConn(c)
  /\ UNCHANGED <<enabled, vm, nhm, net, user, used>>

(* InactivityCop: a connection that is closed, or closed by its continuation *)
(* when it is called with the timeout.                                       *)
Cop(c) ==
  /\ npc = "idle" /\ nhm = NULL
  /\ c \in open /\ closed[c] /\ vm[c] = NULL
  /\ CloseConn(c)
  /\ UNCHANGED <<enabled, vm, nhm, net, user, used>>

Timeout(c) ==
  /\ npc = "idle" /\ nhm = NULL
  /\ c \in open /\ ~closed[c] /\ vm[c] = NULL
  /\ enabled' = [enabled EXCEPT ![c] = FALSE]                    \* do_io_close
  /\ CloseConn(c)
  /\ UNCHANGED <<vm, nhm, net, user, used>>

(* mainNetEvent is called with the NetHandler's mutex.                       *)
EventBegin ==
  /\ npc = "idle" /\ nhm = NULL
  /\ nhm' = "net" /\ npc' = "popall"
  /\ UNCHANGED <<open, flags, lists, vm, ncur, nval, blocks, user, kern, used>>

(* process_enabled_list.                                                     *)
PopAll ==
  /\ npc = "popall"
  /\ rq' = enable_list /\ enable_list' = {}
  /\ npc' = "enabled"
  /\ UNCHANGED <<open, flags, ready_list, vm, nhm, ncur, nval, blocks, user, kern, used>>

Wanted(c) == (enabled[c] /\ triggered[c]) \/ closed[c]

(* read.in_enabled_list = 0, then the test of enabled.                       *)
EnabledClear(c) ==
  /\ npc = "enabled" /\ c \in rq
  /\ in_enabled_list' = [in_enabled_list EXCEPT ![c] = FALSE]
  /\ rq' = rq \ {c}
  /\ ncur' = c /\ npc' = "test"
  /\ UNCHANGED <<open, enabled, triggered, closed, missed, enable_list, ready_list, vm, nhm, nval, blocks, user, kern, used>>

\* Mutant of EnabledTest: a connection whose mutex is held is passed over.
EnabledTestUnheld ==
  /\ npc = "test"
  /\ ready_list' = IF Wanted(ncur) /\ vm[ncur] = NULL THEN ready_list \cup {ncur} ELSE ready_list
  /\ npc' = "enabled" /\ ncur' = NULL
  /\ UNCHANGED <<open, flags, enable_list, rq, vm, nhm, nval, blocks, user, kern, used>>

EnabledTest ==
  /\ npc = "test"
  /\ ready_list' = IF Wanted(ncur) THEN ready_list \cup {ncur} ELSE ready_list
  /\ npc' = "enabled" /\ ncur' = NULL
  /\ UNCHANGED <<open, flags, enable_list, rq, vm, nhm, nval, blocks, user, kern, used>>

(* Nothing orders the store and the load: a processor with a store buffer,   *)
(* or the compiler, may load before others see the store.                    *)
EnabledTestEarly(c) ==
  /\ npc = "enabled" /\ c \in rq
  /\ nval' = Wanted(c)
  /\ ncur' = c /\ npc' = "store"
  /\ UNCHANGED <<open, flags, lists, vm, nhm, blocks, user, kern, used>>

EnabledClearLate ==
  /\ npc = "store"
  /\ in_enabled_list' = [in_enabled_list EXCEPT ![ncur] = FALSE]
  /\ rq' = rq \ {ncur}
  /\ ready_list' = IF nval THEN ready_list \cup {ncur} ELSE ready_list
  /\ missed' = IF ~nval /\ Wanted(ncur) THEN missed \cup {ncur} ELSE missed
  /\ npc' = "enabled" /\ ncur' = NULL /\ nval' = FALSE
  /\ UNCHANGED <<open, enabled, triggered, closed, enable_list, vm, nhm, blocks, user, kern, used>>

(* epoll_wait; its timeout is 0 if there is something to do.                 *)
PollBegin ==
  /\ npc = "enabled" /\ rq = {}
  /\ blocks' = (ready_list = {} /\ enable_list = {})
  /\ npc' = "poll"
  /\ UNCHANGED <<open, flags, lists, vm, nhm, ncur, nval, user, kern, used>>

(* It returns, at the latest when the timeout is over.                       *)
PollEnd ==
  /\ npc = "poll"
  /\ triggered' = [c \in Conns |-> triggered[c] \/ c \in edge]
  /\ missed' = missed \ edge
  /\ ready_list' = ready_list \cup edge
  /\ edge' = {} /\ evfd' = FALSE
  /\ blocks' = FALSE
  /\ npc' = "ready"
  /\ UNCHANGED <<open, enabled, in_enabled_list, closed, enable_list, rq, vm, nhm, ncur, nval, user, data, used>>

(* The loop over the ready list.  A connection whose mutex is held goes back *)
(* onto the list.                                                            *)
ReadyClosed(c) ==
  /\ npc = "ready" /\ c \in ready_list
  /\ closed[c]
  /\ CloseConn(c)
  /\ UNCHANGED <<enabled, vm, nhm, net, user, used>>

ReadyIdle(c) ==
  /\ npc = "ready" /\ c \in ready_list
  /\ ~closed[c] /\ ~(enabled[c] /\ triggered[c])
  /\ ready_list' = ready_list \ {c}
  /\ UNCHANGED <<open, flags, enable_list, rq, vm, nhm, net, user, kern, used>>

Readable(c) ==
  /\ npc = "ready" /\ c \in ready_list
  /\ ~closed[c] /\ enabled[c] /\ triggered[c] /\ vm[c] = NULL

(* read_from_net: EAGAIN.                                                    *)
ReadAgain(c) ==
  /\ Readable(c) /\ c \notin data
  /\ triggered' = [triggered EXCEPT ![c] = FALSE]
  /\ ready_list' = ready_list \ {c}
  /\ UNCHANGED <<open, enabled, in_enabled_list, closed, missed, enable_list, rq, vm, nhm, net, user, kern, used>>

(* Data is read and the continuation called: it goes on, and read_reschedule *)
(* keeps the connection on the list; ...                                     *)
ReadMore(c) ==
  /\ Readable(c) /\ c \in data
  /\ data' = data \ {c}
  /\ UNCHANGED <<open, flags, lists, vm, nhm, net, user, edge, evfd, used>>

(* ... or the buffer is full, perhaps before all is read, or nothing is to   *)
(* do any more: read_disable; ...                                            *)
ReadDisable(c) ==
  /\ Readable(c)
  /\ data' \in {data, data \ {c}}
  /\ enabled' = [enabled EXCEPT ![c] = FALSE]
  /\ ready_list' = ready_list \ {c}
  /\ UNCHANGED <<open, in_enabled_list, triggered, closed, missed, enable_list, rq, vm, nhm, net, user, edge, evfd, used>>

(* ... or the other side has closed, or the read has failed: read_signal_done*)
(* and read_signal_error; ...                                                *)
ReadEos(c) ==
  /\ Readable(c) /\ c \notin data
  /\ triggered' = [triggered EXCEPT ![c] = FALSE]
  /\ enabled' = [enabled EXCEPT ![c] = FALSE]
  /\ ready_list' = ready_list \ {c}
  /\ UNCHANGED <<open, in_enabled_list, closed, missed, enable_list, rq, vm, nhm, net, user, kern, used>>

(* ... or the continuation, whatever it is called with, closes the           *)
(* connection, which is freed when it returns.                               *)
ReadClose(c) ==
  /\ Readable(c)
  /\ enabled' = [enabled EXCEPT ![c] = FALSE]                    \* do_io_close
  /\ CloseConn(c)
  /\ UNCHANGED <<vm, nhm, net, user, used>>

EventEnd ==
  /\ npc = "ready" /\ ready_list = {}
  /\ nhm' = NULL /\ npc' = "idle"
  /\ UNCHANGED <<open, flags, lists, vm, ncur, nval, blocks, user, kern, used>>

-----------------------------------------------------------------------------

(* Data arrives, which is an edge.                                           *)
Arrive(c) ==
  /\ c \in open
  /\ Spend("arrivals")
  /\ data' = data \cup {c} /\ edge' = edge \cup {c}
  /\ UNCHANGED <<open, flags, lists, vm, nhm, net, user, evfd>>

(* What a user has begun it finishes, and it releases the mutex.             *)
UserFinish(u) ==
  \/ Release(u) \/ ReenableLocked(u) \/ ReenableBusy(u) \/ ReenableCheck(u)
  \/ ReenablePush(u) \/ ReenableSignal(u) \/ CloseMark(u)

UserBegin(u) == Reenable(u) \/ Disable(u) \/ Close(u) \/ \E c \in Conns : Acquire(u, c)

Main ==
  \/ EventBegin \/ PopAll \/ EnabledTest \/ EnabledClearLate \/ PollBegin \/ PollEnd \/ EventEnd
  \/ \E c \in Conns : \/ EnabledClear(c) \/ EnabledTestEarly(c) \/ ReadyClosed(c) \/ ReadyIdle(c)
                      \/ ReadAgain(c) \/ ReadMore(c) \/ ReadDisable(c) \/ ReadEos(c) \/ ReadClose(c)

Next ==
  \/ Main
  \/ \E u \in Users : UserFinish(u) \/ UserBegin(u)
  \/ \E c \in Conns : Open(c) \/ Cop(c) \/ Timeout(c) \/ Arrive(c)

Spec == Init /\ [][Next]_vars

(* The event loop calls mainNetEvent again and again and, between two calls, *)
(* every second the InactivityCop.                                           *)
FairSpec ==
  /\ Spec
  /\ WF_vars(Main)
  /\ \A u \in Users : WF_vars(UserFinish(u))
  /\ \A c \in Conns : SF_vars(Cop(c))

-----------------------------------------------------------------------------
(* Properties                                                                *)

(* A connection that is enabled and triggered is on a list the net thread    *)
(* looks at, or the thread that enabled it is about to put it there.         *)
(* Otherwise nobody reads what has arrived: the edge is past.                *)
Enabling(c) == \E u \in Users : ucur[u] = c /\ upc[u] \in {"try", "check", "push"}

Listed(c) ==
  enabled[c] /\ triggered[c] /\ ~closed[c] =>
    \/ c \in ready_list \cup enable_list \cup rq
    \/ npc = "test" /\ ncur = c
    \/ Enabling(c)

(* "Move VC's enabled on a different thread to the ready list"               *)
(* (process_enabled_list): all of them.                                      *)
EveryEnableIsSeen == \A c \in open : Listed(c)

(* This holds but for a load of enabled that passed the store before it.     *)
NoLostEnable == \A c \in open \ missed : Listed(c)

(* in_enabled_list tells whether the connection is on the enable list or     *)
(* about to be: it is pushed once, and close_UnixNetVConnection takes it off *)
(* when it is there.                                                         *)
FlagTells ==
  \A c \in Conns : in_enabled_list[c] <=>
    c \in enable_list \cup rq \/ \E u \in Users : ucur[u] = c /\ upc[u] = "push"

(* A connection that was freed is on no list of its NetHandler, has no event *)
(* left and no thread in the middle of an operation on it; its memory serves *)
(* the next connection.                                                      *)
FreedIsGone ==
  /\ enable_list \cup ready_list \cup rq \cup edge \subseteq open
  /\ ncur # NULL => ncur \in open
  /\ \A u \in Users : upc[u] \notin {"idle", "gone"} => ucur[u] \in open

(* The poll does not wait while a connection is on the enable list, unless   *)
(* the event fd will end it at once or a thread is about to write to it.     *)
NoStall ==
  npc = "poll" /\ blocks /\ enable_list # {} =>
    evfd \/ \E u \in Users : upc[u] = "signal"

(* What has arrived on an enabled connection is read, unless the connection  *)
(* is disabled, closed or overlooked.                                        *)
Waiting(c) == c \in open \ missed /\ enabled[c] /\ ~closed[c] /\ c \in data

Served == \A c \in Conns : Waiting(c) ~> ~Waiting(c)

(* A connection that was closed on another thread is freed by the net thread.*)
Freed == \A c \in Conns : (c \in open /\ closed[c]) ~> (c \notin open)
=============================================================================
