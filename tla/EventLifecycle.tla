-------------------------- MODULE EventLifecycle ---------------------------
(***************************************************************************)
(* An Event from its allocation to its release (iocore/eventsystem:        *)
(* UnixEThread.cc, P_UnixEThread.h, UnixEvent.cc, P_UnixEvent.h,           *)
(* ProtectedQueue.cc, PQ-List.cc, I_ProxyAllocator.h): one EThread, the    *)
(* events of one state machine, and other threads that take the state      *)
(* machine's mutex.                                                        *)
(*                                                                         *)
(* The state machine follows the rules of event.h: it cancels and          *)
(* reschedules an event only while it holds its mutex, the latter on the   *)
(* event's own thread, and forgets an event it has cancelled or that has   *)
(* called it for the last time.  The order of the queues is left to        *)
(* ProtectedQueue and PriorityEventQueue.                                  *)
(*                                                                         *)
(* No flag of an event says that it is in NegativeQueue.  One that is      *)
(* rescheduled there goes to the local queue with its links still in the   *)
(* other one.  What the loop then makes of the two lists depends on their  *)
(* order, so behaviours are followed up to the loop's next step.           *)
(***************************************************************************)
EXTENDS Naturals, FiniteSets

CONSTANTS
  Events,                \* the Event objects
  Others,                \* threads other than the EThread that use the mutex
  THREAD,                \* the EThread as holder of the mutex
  NULL,
  thread_freelist_size

ASSUME ConstantsOK ==
  /\ THREAD \notin Others /\ NULL \notin Others \cup Events \cup {THREAD}
  /\ thread_freelist_size \in Nat

VARIABLES
  place,      \* place[e]: the list e was put on last, or "none"
  NegativeQueue, \* the events that the links of NegativeQueue reach
  ev,         \* ev[e]: its fields
  ref,        \* ref[e]: the state machine has a pointer to e (history)
  holder,     \* who holds the mutex, or NULL
  pc,         \* where the EThread is: in its loop or in process_event
  cur         \* the event of process_event, or NULL

vars == <<place, NegativeQueue, ev, ref, holder, pc, cur>>

\* The free lists of the process and of the thread, the atomic list and the
\* local queue of EventQueueExternal, EventQueue and NegativeQueue.
FreeLists == {"global", "thread"}
Places == FreeLists \cup {"al", "local", "timer", "poll", "none"}

\* The signs of timeout_at and period that the schedule functions set; the
\* schedule_every of EThread adds a negative period to the time.
Kinds == {<<"imm", "none">>, <<"timed", "none">>, <<"timed", "timed">>,
          <<"poll", "poll">>, <<"timed", "poll">>}

\* The fields of an Event; mutex says whether it refers to one.
EventRec ==
  [in_the_prot_queue : BOOLEAN, in_the_priority_queue : BOOLEAN, cancelled : BOOLEAN,
   globally_allocated : BOOLEAN, mutex : BOOLEAN, timeout_at : {"imm", "timed", "poll"},
   period : {"none", "timed", "poll"}]

\* An object as the constructor of Event leaves it.
Proto ==
  [in_the_prot_queue |-> FALSE, in_the_priority_queue |-> FALSE, cancelled |-> FALSE,
   globally_allocated |-> TRUE, mutex |-> FALSE, timeout_at |-> "imm", period |-> "none"]

Init ==
  /\ place = [e \in Events |-> "global"]
  /\ NegativeQueue = {}
  /\ ev = [e \in Events |-> Proto]
  /\ ref = [e \in Events |-> FALSE]
  /\ holder = NULL
  /\ pc = "loop"
  /\ cur = NULL

Put(e, p) == place' = [place EXCEPT ![e] = p]

\* An event of NegativeQueue is on another queue as well.
Tangled == \E e \in NegativeQueue : place[e] # "poll"

\* The thread is in its loop, and its queues are apart.
AtLoop == pc = "loop" /\ ~Tangled

\* Somebody runs the state machine, with its mutex.
InStateMachine == pc = "handler" \/ holder \in Others

-----------------------------------------------------------------------------
(* Allocation and release                                                  *)

\* EVENT_FREE: the thread's list is given back when it has grown too long.
EventFree(e) ==
  LET mine == {f \in Events : place[f] = "thread"} \cup {e}
  IN  IF ev[e].globally_allocated THEN Put(e, "global")
      ELSE IF Cardinality(mine) > thread_freelist_size
      THEN place' = [f \in Events |-> IF f \in mine THEN "global" ELSE place[f]]
      ELSE Put(e, "thread")

FreeEvent(e) ==
  /\ ev' = [ev EXCEPT ![e].mutex = FALSE]
  /\ EventFree(e)

\* The fields that init, schedule, schedule_local and enqueue set.
Scheduled(r, k, g) ==
  [r EXCEPT !.timeout_at = k[1], !.period = k[2], !.cancelled = FALSE, !.mutex = TRUE,
            !.globally_allocated = g, !.in_the_prot_queue = TRUE]

\* schedule: the prototype is copied over an object of the global free list.
\* The caller keeps the pointer only if it holds the mutex meanwhile.
Schedule(e, k, keep) ==
  /\ place[e] = "global"
  /\ keep => InStateMachine
  /\ ev' = [ev EXCEPT ![e] = Scheduled(Proto, k, TRUE)]
  /\ ref' = [ref EXCEPT ![e] = keep]
  /\ Put(e, "al")
  /\ UNCHANGED <<NegativeQueue, holder, pc, cur>>

\* schedule_local: an object of the thread's own list keeps its fields.
ScheduleLocal(e, k) ==
  /\ pc = "handler"
  /\ \/ /\ place[e] = "thread"
        /\ ev' = [ev EXCEPT ![e] = Scheduled(ev[e], k, FALSE)]
     \/ /\ place[e] = "global"
        /\ \A f \in Events : place[f] # "thread"
        /\ ev' = [ev EXCEPT ![e] = Scheduled(Proto, k, FALSE)]
  /\ ref' = [ref EXCEPT ![e] = TRUE]
  /\ Put(e, "local")
  /\ UNCHANGED <<NegativeQueue, holder, pc, cur>>

-----------------------------------------------------------------------------
(* What the state machine does with an event it knows, under its mutex     *)

Cancel(e) ==
  /\ InStateMachine
  /\ ref[e]
  /\ ev' = [ev EXCEPT ![e].cancelled = TRUE]
  /\ ref' = [ref EXCEPT ![e] = FALSE]
  /\ UNCHANGED <<place, NegativeQueue, holder, pc, cur>>

\* Mutant of Reschedule: an event that waits for its time stays there.
RescheduleInPlace(e, k) ==
  /\ pc = "handler"
  /\ ref[e] /\ k # <<"timed", "poll">>
  /\ ev' = [ev EXCEPT ![e].timeout_at = k[1], ![e].period = k[2], ![e].in_the_prot_queue = TRUE]
  /\ IF place[e] \in {"none", "poll"} THEN Put(e, "local") ELSE UNCHANGED place
  /\ UNCHANGED <<NegativeQueue, ref, holder, pc, cur>>

\* Event::schedule_imm, _at, _in and _every, on the event's own thread.
Reschedule(e, k) ==
  /\ pc = "handler"
  /\ ref[e] /\ k # <<"timed", "poll">>
  /\ ev' = [ev EXCEPT ![e].timeout_at = k[1], ![e].period = k[2],
                      ![e].in_the_priority_queue = FALSE, ![e].in_the_prot_queue = TRUE]
  /\ IF ev[e].in_the_prot_queue THEN UNCHANGED place ELSE Put(e, "local")
  /\ UNCHANGED <<NegativeQueue, ref, holder, pc, cur>>

\* Another thread takes the mutex, and releases it.
OtherLock(x) ==
  /\ holder = NULL
  /\ holder' = x
  /\ UNCHANGED <<place, NegativeQueue, ev, ref, pc, cur>>

OtherUnlock(x) ==
  /\ holder = x
  /\ holder' = NULL
  /\ UNCHANGED <<place, NegativeQueue, ev, ref, pc, cur>>

-----------------------------------------------------------------------------
(* The loop of execute                                                     *)

\* Mutant of DequeueTimed: a cancelled event goes to the list it came from.
DequeueTimedLocalFree(e) ==
  /\ AtLoop
  /\ place[e] = "al"
  /\ IF ev[e].cancelled
     THEN ev' = [ev EXCEPT ![e].mutex = FALSE] /\ Put(e, "thread")
     ELSE Put(e, "local") /\ UNCHANGED ev
  /\ UNCHANGED <<NegativeQueue, ref, holder, pc, cur>>

\* dequeue_timed: a cancelled event goes back as it is, its flags set, to the
\* global list.
DequeueTimed(e) ==
  /\ AtLoop
  /\ place[e] = "al"
  /\ IF ev[e].cancelled
     THEN ev' = [ev EXCEPT ![e].mutex = FALSE] /\ Put(e, "global")
     ELSE Put(e, "local") /\ UNCHANGED ev
  /\ UNCHANGED <<NegativeQueue, ref, holder, pc, cur>>

\* process_event is called for e, which has left its queue with fields r.
Dispatch(e, r) ==
  /\ ev' = [ev EXCEPT ![e] = r]
  /\ Put(e, "none")
  /\ pc' = "try"
  /\ cur' = e

\* dequeue_local, and where the event goes.  Of the two loops that do this the
\* second, before the poll, leaves an immediate event to process_event even if
\* it is cancelled.
DequeueLocal(e) ==
  LET r == [ev[e] EXCEPT !.in_the_prot_queue = FALSE] IN
  /\ AtLoop
  /\ place[e] = "local"
  /\ \/ /\ r.cancelled
        /\ ev' = [ev EXCEPT ![e] = [r EXCEPT !.mutex = FALSE]]
        /\ EventFree(e)
        /\ UNCHANGED <<NegativeQueue, pc, cur>>
     \/ /\ r.timeout_at = "imm"
        /\ Dispatch(e, r)
        /\ UNCHANGED NegativeQueue
     \/ /\ ~r.cancelled /\ r.timeout_at = "timed"
        /\ ev' = [ev EXCEPT ![e] = [r EXCEPT !.in_the_priority_queue = TRUE]]
        /\ Put(e, "timer")
        /\ UNCHANGED <<NegativeQueue, pc, cur>>
     \/ /\ ~r.cancelled /\ r.timeout_at = "poll"
        /\ ev' = [ev EXCEPT ![e] = r]
        /\ Put(e, "poll")
        /\ NegativeQueue' = NegativeQueue \cup {e}
        /\ UNCHANGED <<pc, cur>>
  /\ UNCHANGED <<ref, holder>>

\* check_ready frees the cancelled events it meets.
CheckReady(e) ==
  /\ AtLoop
  /\ place[e] = "timer" /\ ev[e].cancelled
  /\ ev' = [ev EXCEPT ![e].in_the_priority_queue = FALSE, ![e].cancelled = FALSE,
                      ![e].mutex = FALSE]
  /\ EventFree(e)
  /\ UNCHANGED <<NegativeQueue, ref, holder, pc, cur>>

\* The time of e has come: dequeue_ready.
DequeueReady(e) ==
  LET r == [ev[e] EXCEPT !.in_the_priority_queue = FALSE] IN
  /\ AtLoop
  /\ place[e] = "timer"
  /\ \/ /\ r.cancelled
        /\ ev' = [ev EXCEPT ![e] = [r EXCEPT !.mutex = FALSE]]
        /\ EventFree(e)
        /\ UNCHANGED <<pc, cur>>
     \/ /\ ~r.cancelled
        /\ Dispatch(e, r)
  /\ UNCHANGED <<NegativeQueue, ref, holder>>

\* Mutant of DequeuePoll: the event is handled before it leaves the queue.
DequeuePollPeeks(e) ==
  /\ AtLoop
  /\ e \in NegativeQueue
  /\ Dispatch(e, ev[e])
  /\ UNCHANGED <<NegativeQueue, ref, holder>>

\* The poll events are executed.
DequeuePoll(e) ==
  /\ AtLoop
  /\ e \in NegativeQueue
  /\ NegativeQueue' = NegativeQueue \ {e}
  /\ Dispatch(e, ev[e])
  /\ UNCHANGED <<ref, holder>>

-----------------------------------------------------------------------------
(* process_event                                                           *)

\* Mutant of LockMissed: the event is not put back.
LockMissedDrops ==
  /\ pc = "try"
  /\ holder # NULL
  /\ pc' = "loop"
  /\ cur' = NULL
  /\ UNCHANGED <<place, NegativeQueue, ev, ref, holder>>

\* The mutex is taken by another: try again later.
LockMissed ==
  /\ pc = "try"
  /\ holder # NULL
  /\ ev' = [ev EXCEPT ![cur].timeout_at = "timed", ![cur].in_the_prot_queue = TRUE]
  /\ Put(cur, "local")
  /\ pc' = "loop"
  /\ cur' = NULL
  /\ UNCHANGED <<NegativeQueue, ref, holder>>

LockTaken ==
  /\ pc = "try"
  /\ holder = NULL
  /\ holder' = THREAD
  /\ pc' = "locked"
  /\ UNCHANGED <<place, NegativeQueue, ev, ref, cur>>

\* Mutant of Enter: whether the event is cancelled was tested when it left its
\* queue, before the mutex was taken.
EnterUntested ==
  /\ pc = "locked"
  /\ pc' = "handler"
  /\ UNCHANGED <<place, NegativeQueue, ev, ref, holder, cur>>

\* With the mutex: a cancelled event is freed, any other calls its handler.
Enter ==
  /\ pc = "locked"
  /\ IF ev[cur].cancelled
     THEN /\ FreeEvent(cur)
          /\ pc' = "loop" /\ cur' = NULL /\ holder' = NULL
     ELSE /\ pc' = "handler"
          /\ UNCHANGED <<place, ev, holder, cur>>
  /\ UNCHANGED <<NegativeQueue, ref>>

\* The handler returns, and the mutex is released.  An event that will not call
\* again is forgotten.
Return ==
  /\ pc = "handler"
  /\ ref' = [ref EXCEPT ![cur] = @ /\ (place[cur] # "none" \/ ev[cur].period # "none")]
  /\ holder' = NULL
  /\ pc' = "after"
  /\ UNCHANGED <<place, NegativeQueue, ev, cur>>

\* Mutant of Finish: whether the handler has rescheduled the event is not
\* looked at.
FinishAlways ==
  /\ pc = "after"
  /\ IF ev[cur].period = "none" THEN FreeEvent(cur)
     ELSE /\ ev' = [ev EXCEPT ![cur].timeout_at = ev[cur].period, ![cur].in_the_prot_queue = TRUE]
          /\ Put(cur, "local")
  /\ pc' = "loop"
  /\ cur' = NULL
  /\ UNCHANGED <<NegativeQueue, ref, holder>>

\* An event that is on no queue is put back if it has a period, or freed.
Finish ==
  /\ pc = "after"
  /\ IF ev[cur].in_the_prot_queue \/ ev[cur].in_the_priority_queue THEN UNCHANGED <<place, ev>>
     ELSE IF ev[cur].period = "none" THEN FreeEvent(cur)
     ELSE /\ ev' = [ev EXCEPT ![cur].timeout_at = ev[cur].period, ![cur].in_the_prot_queue = TRUE]
          /\ Put(cur, "local")
  /\ pc' = "loop"
  /\ cur' = NULL
  /\ UNCHANGED <<NegativeQueue, ref, holder>>

-----------------------------------------------------------------------------
Loop(e) ==
  DequeueTimed(e) \/ DequeueLocal(e) \/ CheckReady(e) \/ DequeueReady(e) \/ DequeuePoll(e)

ProcessEvent == LockMissed \/ LockTaken \/ Enter \/ Return \/ Finish

Next ==
  \/ \E e \in Events : Loop(e) \/ Cancel(e)
  \/ ProcessEvent
  \/ \E e \in Events, k \in Kinds, keep \in BOOLEAN : Schedule(e, k, keep)
  \/ \E e \in Events, k \in Kinds : ScheduleLocal(e, k) \/ Reschedule(e, k)
  \/ \E x \in Others : OtherLock(x) \/ OtherUnlock(x)

Spec == Init /\ [][Next]_vars

\* The thread runs its loop, which comes to every event again and again; the
\* time of a waiting event comes, that is, handlers do not put it off for ever;
\* handlers return; other threads give the mutex back; and of an unbounded
\* number of tries, 10 ms or more apart, not every one finds the mutex taken.
FairSpec ==
  /\ Spec
  /\ \A e \in Events : SF_vars(Loop(e)) /\ SF_vars(DequeueReady(e))
  /\ WF_vars(ProcessEvent) /\ WF_vars(Return)
  /\ \A e \in Events :
       []<>(pc = "try" /\ cur = e) => []<><<LockTaken /\ cur = e>>_vars
  /\ \A x \in Others : WF_vars(OtherUnlock(x))

-----------------------------------------------------------------------------
(* Properties                                                              *)

\* Every variable has its type.
TypeOK ==
  /\ place \in [Events -> Places]
  /\ NegativeQueue \subseteq Events
  /\ ev \in [Events -> EventRec]
  /\ ref \in [Events -> BOOLEAN]
  /\ holder \in Others \cup {THREAD, NULL}
  /\ pc \in {"loop", "try", "locked", "handler", "after"}
  /\ cur \in Events \cup {NULL}

\* The flags of a live event say which queue it was put on, and that one queue is
\* all it is on; only an event rescheduled out of NegativeQueue is on two, that and
\* the local queue.  What the assertions of enqueue, enqueue_local, dequeue_local,
\* process_event and free_event rest on.
FlagsTell ==
  \A e \in Events :
    /\ place[e] \notin FreeLists =>
         /\ ev[e].in_the_prot_queue <=> place[e] \in {"al", "local"}
         /\ ev[e].in_the_priority_queue <=> place[e] = "timer"
         /\ place[e] = "none" => e = cur
         /\ ev[e].mutex
         /\ ev[e].timeout_at = "imm" => ev[e].period = "none"
    /\ place[e] = "poll" => e \in NegativeQueue
    /\ e \in NegativeQueue => place[e] \in {"poll", "local"}

\* Of all steps only one of the schedule functions of Event, called by another
\* event's handler for an event that waits in NegativeQueue, puts an event on two
\* queues at once.
TangledByReschedule ==
  [][~Tangled /\ Tangled' =>
       \E e \in Events, k \in Kinds : place[e] = "poll" /\ e # cur /\ Reschedule(e, k)]_vars

\* process_event: "ink_assert((!e->in_the_prot_queue && !e->in_the_priority_queue))"
\* for every event that NegativeQueue hands to it.
OneQueue ==
  \A e \in NegativeQueue : ~ev[e].in_the_prot_queue /\ ~ev[e].in_the_priority_queue

\* An object that the thread's free list hands out again without a new prototype
\* has no flag set and no mutex, although objects are freed in six places.
RecycledClean ==
  \A e \in Events : place[e] = "thread" =>
    ~ev[e].in_the_prot_queue /\ ~ev[e].in_the_priority_queue /\ ~ev[e].mutex

\* The state machine never has a pointer to an event that was freed.
NoDangling == \A e \in Events : place[e] \in FreeLists => ~ref[e]

\* No handler is called for an event that the state machine has cancelled, even
\* on another thread while process_event was on its way.
NoCallAfterCancel ==
  [][pc # "handler" /\ pc' = "handler" => ~ev[cur'].cancelled]_vars

\* A scheduled event calls its handler or is cancelled, although the mutex may
\* be missed many times, unless two queues get tangled.
Called ==
  \A e \in Events :
    place[e] = "al" ~>
      (cur = e /\ pc = "handler") \/ ev[e].cancelled \/ place[e] \in FreeLists \/ Tangled

\* A cancelled event is freed, unless two queues get tangled.
Reclaimed == \A e \in Events : ev[e].cancelled ~> place[e] \in FreeLists \/ Tangled
=============================================================================
