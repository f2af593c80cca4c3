------------------------ MODULE PriorityEventQueue -------------------------
(***************************************************************************)
(* The timer queue of an EThread (iocore/eventsystem/PQ-List.cc,           *)
(* I_PriorityEventQueue.h) and the part of EThread::execute that drives    *)
(* it.  List i holds the events that were due within PQ_BUCKET_TIME(i)     *)
(* when they were put there; check_ready looks again only at the lists     *)
(* whose period has a boundary between the last check and this one, which  *)
(* it finds by comparing bits of the two times.                            *)
(*                                                                         *)
(* Only the list an event is on matters here, not its place in it.         *)
(***************************************************************************)
EXTENDS Integers, FiniteSets, FiniteSetsExt

CONSTANTS
  Events,     \* the Event objects
  N_PQ_LIST,  \* the number of lists
  Tick,       \* time units in PQ_BUCKET_TIME(0)
  Heartbeat,  \* THREAD_MAX_HEARTBEAT_MSECONDS, in time units
  MaxDelay,   \* bound: the longest timeout scheduled
  MaxStep,    \* bound: the longest time from one round of the loop to the next
  MaxTime     \* bound: the time at which the model stops

ASSUME ListsOK ==
  /\ N_PQ_LIST \in Nat \ {0, 1}
  /\ Tick \in Nat \ {0} /\ Tick % 2 = 0
  /\ {Heartbeat, MaxDelay, MaxStep, MaxTime} \subseteq Nat

VARIABLES
  timeout_at,       \* timeout_at[e]
  in_heap,          \* in_heap[e]: the list e is on, or NotQueued
  cancelled,        \* the events whose cancelled flag is set
  cur_time,         \* the time the loop works with
  last_check_time,
  next_time,        \* when the thread means to wake up
  done_one,         \* an event was handled since the last check
  pc                \* "local", "check", "ready" or "sleep"

vars == <<timeout_at, in_heap, cancelled, cur_time, last_check_time, next_time, done_one, pc>>
times == <<cur_time, last_check_time, next_time>>

Lists == 0 .. N_PQ_LIST - 1
NotQueued == -1

\* 1 << i
Shifted[i \in Lists] == IF i = 0 THEN 1 ELSE 2 * Shifted[i - 1]

\* PQ_BUCKET_TIME
BucketTime(i) == Tick * Shifted[i]

\* Every variable has its type: an event is on a list there is.
TypeOK ==
  /\ timeout_at \in [Events -> Nat]
  /\ in_heap \in [Events -> Lists \cup {NotQueued}]
  /\ cancelled \subseteq Events
  /\ {cur_time, last_check_time, next_time} \subseteq Nat
  /\ done_one \in BOOLEAN
  /\ pc \in {"local", "check", "ready", "sleep"}

Init ==
  /\ timeout_at = [e \in Events |-> 0]
  /\ in_heap = [e \in Events |-> NotQueued]
  /\ cancelled = {}
  /\ cur_time \in 1 .. BucketTime(N_PQ_LIST - 1)
  /\ last_check_time = cur_time
  /\ next_time = 0
  /\ done_one = FALSE
  /\ pc = "local"

\* Mutant of ListFor: what is due after the last period gets a list of its own.
ListForBeyond(t) == Min({i \in Lists : t <= BucketTime(i)} \cup {N_PQ_LIST})

\* The list for an event due in t: the nested comparisons of enqueue.
ListFor(t) == Min({i \in Lists : t <= BucketTime(i)} \cup {N_PQ_LIST - 1})

\* Mutant of ChangedLists: the last list with a changed bit is left out.
ChangedListsShort(a, b) ==
  LET m == Shifted[N_PQ_LIST - 1]
  IN  Max({0, Min({k \in 0 .. N_PQ_LIST - 1 : (a % m) \div Shifted[k] = (b % m) \div Shifted[k]}) - 1})

\* k of check_ready: the number of bits up to the highest one in which a and b
\* differ, of the bits that have a list.
ChangedLists(a, b) ==
  LET m == Shifted[N_PQ_LIST - 1]
  IN  Min({k \in 0 .. N_PQ_LIST - 1 : (a % m) \div Shifted[k] = (b % m) \div Shifted[k]})

\* Mutant of Relist: an event goes down while it is due within the period of
\* the list it is on.
RelistEager(e, i, t) == Min({j \in 0 .. i : \A l \in j + 1 .. i : t <= BucketTime(l)})

\* The list to which check_ready moves e from list i when it is due in t: down
\* as long as the list below is long enough.
Relist(e, i, t) == Min({j \in 0 .. i : \A l \in j .. i - 1 : t <= BucketTime(l)})

-----------------------------------------------------------------------------
\* The loop takes an event with a timeout from its local queue; the time may
\* have passed meanwhile.
Enqueue(e) ==
  /\ pc = "local"
  /\ in_heap[e] = NotQueued
  /\ \E d \in -1 .. MaxDelay :
       /\ cur_time + d > 0
       /\ timeout_at' = [timeout_at EXCEPT ![e] = cur_time + d]
       /\ in_heap' = [in_heap EXCEPT ![e] = ListFor(d)]
  /\ UNCHANGED <<cancelled, times, done_one, pc>>

\* Whoever holds the event's mutex cancels it.
Cancel(e) ==
  /\ in_heap[e] # NotQueued
  /\ cancelled' = cancelled \cup {e}
  /\ UNCHANGED <<timeout_at, in_heap, times, done_one, pc>>

\* A handler of this thread reschedules a waiting event: it leaves its list
\* for the local queue.
RemoveEvent(e) ==
  /\ pc \in {"local", "ready"}
  /\ in_heap[e] # NotQueued /\ e \notin cancelled
  /\ in_heap' = [in_heap EXCEPT ![e] = NotQueued]
  /\ timeout_at' = [timeout_at EXCEPT ![e] = 0]
  /\ UNCHANGED <<cancelled, times, done_one, pc>>

EndLocal ==
  /\ pc = "local"
  /\ pc' = "check"
  /\ UNCHANGED <<timeout_at, in_heap, cancelled, times, done_one>>

CheckReady ==
  /\ pc = "check"
  /\ LET k == ChangedLists(cur_time \div Tick, last_check_time \div Tick)
         looked == {e \in Events : in_heap[e] \in 1 .. k}
     IN  /\ in_heap' = [e \in Events |->
               IF e \notin looked THEN in_heap[e]
               ELSE IF e \in cancelled THEN NotQueued
               ELSE Relist(e, in_heap[e], timeout_at[e] - cur_time)]
         /\ cancelled' = cancelled \ looked
         /\ timeout_at' = [e \in Events |-> IF e \in looked \cap cancelled THEN 0
                                            ELSE timeout_at[e]]
  /\ last_check_time' = cur_time
  /\ done_one' = FALSE
  /\ pc' = "ready"
  /\ UNCHANGED <<cur_time, next_time>>

\* dequeue_ready, and the event is freed or handled; after a periodic event the
\* clock is read again.
DequeueReady(e) ==
  /\ pc = "ready"
  /\ in_heap[e] = 0
  /\ in_heap' = [in_heap EXCEPT ![e] = NotQueued]
  /\ timeout_at' = [timeout_at EXCEPT ![e] = 0]
  /\ cancelled' = cancelled \ {e}
  /\ IF e \in cancelled
     THEN UNCHANGED <<cur_time, done_one>>
     ELSE /\ done_one' = TRUE
          /\ cur_time' \in cur_time .. last_check_time + MaxStep
  /\ UNCHANGED <<last_check_time, next_time, pc>>

\* No event is ready: after a round in which one was handled, look again.
CheckAgain ==
  /\ pc = "ready"
  /\ \A e \in Events : in_heap[e] # 0
  /\ done_one
  /\ pc' = "check"
  /\ UNCHANGED <<timeout_at, in_heap, cancelled, times, done_one>>

\* Mutant of Earliest: the whole period of the list.
EarliestWhole ==
  LET used == {in_heap[e] : e \in Events} \ {NotQueued}
  IN  Min({cur_time + Heartbeat} \cup {last_check_time + BucketTime(i) : i \in used})

\* earliest_timeout, which looks at the first list in use, and the cap that
\* execute puts on it.
Earliest ==
  LET used == {in_heap[e] : e \in Events} \ {NotQueued}
  IN  Min({cur_time + Heartbeat} \cup {last_check_time + BucketTime(i) \div 2 : i \in used})

Sleep ==
  /\ pc = "ready"
  /\ \A e \in Events : in_heap[e] # 0
  /\ ~done_one
  /\ next_time' = Earliest
  /\ pc' = "sleep"
  /\ UNCHANGED <<timeout_at, in_heap, cancelled, cur_time, last_check_time, done_one>>

\* The thread wakes up, early because of a signal or late because of the
\* machine, handles what there is and starts the next round.
Wake ==
  /\ pc = "sleep"
  /\ cur_time < MaxTime
  /\ cur_time' \in cur_time .. cur_time + MaxStep
  /\ next_time' = 0
  /\ pc' = "local"
  /\ UNCHANGED <<timeout_at, in_heap, cancelled, last_check_time, done_one>>

Next ==
  \/ \E e \in Events : Enqueue(e) \/ Cancel(e) \/ RemoveEvent(e) \/ DequeueReady(e)
  \/ EndLocal \/ CheckReady \/ CheckAgain \/ Sleep \/ Wake

Spec == Init /\ [][Next]_vars

-----------------------------------------------------------------------------
(* Properties                                                              *)

Waiting(e) == in_heap[e] \in Lists \ {0}

\* A round is no longer than half the period of the highest bit that check_ready
\* compares: 1.28 s with the queue's ten lists of 5 ms and up.
ShortRounds == MaxStep <= BucketTime(N_PQ_LIST - 2)

\* After a check no waiting event is overdue: every event is looked at again
\* before its time, although check_ready looks at few lists.  It takes
\* ShortRounds.
NotOverdue == pc \in {"ready", "sleep"} => \A e \in Events : Waiting(e) => timeout_at[e] > last_check_time

\* An event is handled at most one tick before its time.
NotEarly == \A e \in Events : in_heap[e] = 0 => timeout_at[e] - cur_time <= Tick

\* The thread never means to sleep past an event by half the period of the
\* event's list or more, nor by the heartbeat or more.
OversleepBounded ==
  pc = "sleep" => \A e \in Events : Waiting(e) =>
    /\ next_time < timeout_at[e] + BucketTime(in_heap[e]) \div 2
    /\ next_time < timeout_at[e] + Heartbeat

\* UnixEThread.cc: execute will "Sleep until the event time or until an earlier
\* event is inserted".
SleepsUntilEventTime ==
  pc = "sleep" => \A e \in Events : Waiting(e) => next_time <= timeout_at[e]
=============================================================================
