------------------------ MODULE EventLifecycleProofs ------------------------
(***************************************************************************)
(* Proofs about EventLifecycle: the safety properties hold for any number  *)
(* of events and threads and any size of the thread's free list.           *)
(***************************************************************************)
EXTENDS EventLifecycle, TLAPS

\* Where the event of process_event is.  Only its own handler can have put it
\* somewhere, and only into the local queue.
CurOK ==
  /\ pc = "loop" <=> cur = NULL
  /\ pc \in {"try", "locked"} => place[cur] = "none"
  /\ pc \in {"handler", "after"} => place[cur] \in {"none", "local"}

\* The state machine has forgotten the events it has cancelled, and the one
\* that process_event is about to free.
Forgotten ==
  /\ \A e \in Events : place[e] \notin FreeLists /\ ev[e].cancelled => ~ref[e]
  /\ pc = "after" /\ place[cur] = "none" /\ ev[cur].period = "none" => ~ref[cur]

IInv == TypeOK /\ FlagsTell /\ RecycledClean /\ NoDangling /\ CurOK /\ Forgotten

\* The invariant holds initially.
LEMMA InitInv == Init => IInv
BY ConstantsOK DEF Init, IInv, TypeOK, FlagsTell, RecycledClean, NoDangling, CurOK, Forgotten,
  Places, FreeLists, Proto, EventRec

\* What EVENT_FREE does to the free lists: only e leaves its place for a free
\* list, and only if it was allocated locally for the thread's own.
LEMMA EventFreeFacts ==
  ASSUME place \in [Events -> Places], NEW e \in Events, EventFree(e)
  PROVE  /\ place' \in [Events -> Places]
         /\ place'[e] \in FreeLists
         /\ place'[e] = "thread" => ~ev[e].globally_allocated
         /\ \A f \in Events \ {e} :
              \/ place'[f] = place[f]
              \/ place[f] = "thread" /\ place'[f] = "global"
BY DEF EventFree, Put, Places, FreeLists

\* What the flags of an event on a queue, or on none, have to say: FlagsTell for
\* one event with fields r in place p.
Told(r, p) ==
  /\ r.in_the_prot_queue <=> p \in {"al", "local"}
  /\ r.in_the_priority_queue <=> p = "timer"
  /\ r.mutex
  /\ r.timeout_at = "imm" => r.period = "none"

\* What FlagsTell says of NegativeQueue: in says whether an event in place p is
\* in it.
Linked(in, p) ==
  /\ p = "poll" => in
  /\ in => p \in {"poll", "local"}

\* The times and periods that the schedule functions set.
LEMMA KindFacts ==
  ASSUME NEW k \in Kinds
  PROVE  /\ k[1] \in {"imm", "timed", "poll"} /\ k[2] \in {"none", "timed", "poll"}
         /\ k[1] = "imm" => k[2] = "none"
BY DEF Kinds

\* Everything but what is asked of e survives a step that gives e the fields r,
\* the pointer w and a new place, and returns objects to the global list.
LEMMA OneMoves ==
  ASSUME IInv, NEW e \in Events, NEW r \in EventRec, NEW w \in BOOLEAN,
         ev' = [ev EXCEPT ![e] = r],
         ref' = [ref EXCEPT ![e] = w],
         place' \in [Events -> Places],
         \A f \in Events \ {e} :
           \/ place'[f] = place[f]
           \/ place[f] = "thread" /\ place'[f] = "global",
         cur' = cur \/ cur \in {NULL, e},
         place'[e] \notin FreeLists => Told(r, place'[e]) /\ (r.cancelled => ~w),
         place'[e] = "none" => cur' = e,
         place'[e] \in FreeLists => ~w,
         place'[e] = "thread" =>
           ~r.in_the_prot_queue /\ ~r.in_the_priority_queue /\ ~r.mutex,
         \A f \in Events \ {e} : f \in NegativeQueue' <=> f \in NegativeQueue,
         Linked(e \in NegativeQueue', place'[e])
  PROVE  /\ ev' \in [Events -> EventRec] /\ ref' \in [Events -> BOOLEAN]
         /\ FlagsTell' /\ RecycledClean' /\ NoDangling'
         /\ \A f \in Events : place'[f] \notin FreeLists /\ ev'[f].cancelled => ~ref'[f]
<1>1. ev' \in [Events -> EventRec] /\ ref' \in [Events -> BOOLEAN]
  BY DEF IInv, TypeOK
<1>2. ev'[e] = r /\ ref'[e] = w
  BY DEF IInv, TypeOK
<1>3. \A f \in Events \ {e} : ev'[f] = ev[f] /\ ref'[f] = ref[f]
  BY DEF IInv, TypeOK
<1>4. FlagsTell'
  <2>1. ASSUME NEW f \in Events, place'[f] \notin FreeLists
        PROVE  Told(ev'[f], place'[f]) /\ (place'[f] = "none" => f = cur')
    <3>1. CASE f = e
      BY <1>2, <2>1, <3>1
    <3>2. CASE f # e
      BY <1>3, <2>1, <3>2, ConstantsOK DEF IInv, FlagsTell, Told, FreeLists
    <3> QED
      BY <3>1, <3>2
  <2>2. ASSUME NEW f \in Events PROVE Linked(f \in NegativeQueue', place'[f])
    <3>1. CASE f # e
      BY <3>1 DEF IInv, FlagsTell, Linked
    <3> QED
      BY <3>1
  <2> QED
    BY <2>1, <2>2 DEF FlagsTell, Told, Linked
<1>5. RecycledClean'
  <2> SUFFICES ASSUME NEW f \in Events, place'[f] = "thread"
               PROVE  ~ev'[f].in_the_prot_queue /\ ~ev'[f].in_the_priority_queue /\ ~ev'[f].mutex
    BY DEF RecycledClean
  <2>1. CASE f = e
    BY <1>2, <2>1
  <2>2. CASE f # e
    BY <1>3, <2>2 DEF IInv, RecycledClean
  <2> QED
    BY <2>1, <2>2
<1>6. NoDangling'
  BY <1>2, <1>3 DEF IInv, NoDangling, FreeLists
<1>7. \A f \in Events : place'[f] \notin FreeLists /\ ev'[f].cancelled => ~ref'[f]
  BY <1>2, <1>3 DEF IInv, Forgotten, FreeLists
<1> QED
  BY <1>1, <1>4, <1>5, <1>6, <1>7

-----------------------------------------------------------------------------
(* One lemma per action *)

\* schedule preserves the invariant.
LEMMA ScheduleInv ==
  ASSUME IInv, NEW e \in Events, NEW k \in Kinds, NEW keep \in BOOLEAN, Schedule(e, k, keep)
  PROVE  IInv'
<1> DEFINE r == Scheduled(Proto, k, TRUE)
<1>1. r \in EventRec /\ Told(r, "al") /\ ~r.cancelled
  BY KindFacts DEF Scheduled, Proto, EventRec, Told
<1>2. ev' = [ev EXCEPT ![e] = r] /\ ref' = [ref EXCEPT ![e] = keep] /\ place[e] = "global"
      /\ UNCHANGED <<NegativeQueue, holder, pc, cur>> /\ e \notin NegativeQueue
  BY DEF Schedule, IInv, FlagsTell
<1> HIDE DEF r
<1>3. /\ place' \in [Events -> Places] /\ place'[e] = "al"
      /\ \A f \in Events \ {e} : place'[f] = place[f]
  BY DEF Schedule, Put, IInv, TypeOK, Places
<1>4. /\ ev' \in [Events -> EventRec] /\ ref' \in [Events -> BOOLEAN]
      /\ FlagsTell' /\ RecycledClean' /\ NoDangling'
      /\ \A f \in Events : place'[f] \notin FreeLists /\ ev'[f].cancelled => ~ref'[f]
  BY <1>1, <1>2, <1>3, OneMoves DEF FreeLists, Linked
<1>5. cur # e
  BY <1>2, ConstantsOK DEF IInv, CurOK, TypeOK
<1>6. \A f \in Events \ {e} : ev'[f] = ev[f] /\ ref'[f] = ref[f]
  BY <1>2 DEF IInv, TypeOK
<1>7. TypeOK' /\ CurOK' /\ Forgotten'
  BY <1>2, <1>3, <1>4, <1>5, <1>6, ConstantsOK DEF IInv, TypeOK, CurOK, Forgotten
<1> QED
  BY <1>4, <1>7 DEF IInv

\* schedule_local preserves the invariant: the object that the thread's own
\* list hands out carries no flag from its last use.
LEMMA ScheduleLocalInv ==
  ASSUME IInv, NEW e \in Events, NEW k \in Kinds, ScheduleLocal(e, k)
  PROVE  IInv'
<1>1. PICK o \in EventRec :
        /\ ~o.in_the_priority_queue
        /\ ev' = [ev EXCEPT ![e] = Scheduled(o, k, FALSE)]
  <2>1. CASE place[e] = "thread" /\ ev' = [ev EXCEPT ![e] = Scheduled(ev[e], k, FALSE)]
    BY <2>1 DEF IInv, TypeOK, RecycledClean
  <2>2. CASE ev' = [ev EXCEPT ![e] = Scheduled(Proto, k, FALSE)]
    <3>1. Proto \in EventRec /\ ~Proto.in_the_priority_queue
      BY DEF Proto, EventRec
    <3> QED
      BY <2>2, <3>1
  <2> QED
    BY <2>1, <2>2 DEF ScheduleLocal
<1> DEFINE r == Scheduled(o, k, FALSE)
<1>2. r \in EventRec /\ Told(r, "local") /\ ~r.cancelled
  BY <1>1, KindFacts DEF Scheduled, EventRec, Told
<1>3. ev' = [ev EXCEPT ![e] = r] /\ ref' = [ref EXCEPT ![e] = TRUE]
      /\ UNCHANGED <<NegativeQueue, holder, pc, cur>> /\ pc = "handler" /\ place[e] \in FreeLists
  BY <1>1 DEF ScheduleLocal, FreeLists
<1> HIDE DEF r
<1>4. /\ place' \in [Events -> Places] /\ place'[e] = "local"
      /\ \A f \in Events \ {e} : place'[f] = place[f]
  BY DEF ScheduleLocal, Put, IInv, TypeOK, Places
<1>5. /\ ev' \in [Events -> EventRec] /\ ref' \in [Events -> BOOLEAN]
      /\ FlagsTell' /\ RecycledClean' /\ NoDangling'
      /\ \A f \in Events : place'[f] \notin FreeLists /\ ev'[f].cancelled => ~ref'[f]
  BY <1>2, <1>3, <1>4, OneMoves DEF FreeLists, Linked
<1>6. TypeOK' /\ CurOK' /\ Forgotten'
  BY <1>3, <1>4, <1>5, ConstantsOK DEF IInv, TypeOK, CurOK, Forgotten
<1> QED
  BY <1>5, <1>6 DEF IInv

\* cancel preserves the invariant.
LEMMA CancelInv ==
  ASSUME IInv, NEW e \in Events, Cancel(e)
  PROVE  IInv'
<1> DEFINE r == [ev[e] EXCEPT !.cancelled = TRUE]
<1>1. ev[e] \in EventRec /\ place[e] \notin FreeLists /\ Told(ev[e], place[e])
      /\ (place[e] = "none" => e = cur)
  BY DEF Cancel, IInv, TypeOK, NoDangling, FlagsTell, Told
<1>2. r \in EventRec /\ Told(r, place[e]) /\ r.period = ev[e].period
  BY <1>1 DEF EventRec, Told
<1>3. ev' = [ev EXCEPT ![e] = r] /\ ref' = [ref EXCEPT ![e] = FALSE]
      /\ UNCHANGED <<place, NegativeQueue, holder, pc, cur>>
  BY DEF Cancel
<1> HIDE DEF r
<1>3a. place' \in [Events -> Places] /\ place'[e] \notin FreeLists /\ place' = place
      /\ Told(r, place'[e]) /\ (place'[e] = "none" => cur' = e) /\ place'[e] # "thread"
  BY <1>1, <1>2, <1>3 DEF IInv, TypeOK, FreeLists
<1>3b. NegativeQueue' = NegativeQueue /\ Linked(e \in NegativeQueue', place'[e])
  BY <1>3 DEF IInv, FlagsTell, Linked
<1>4. /\ ev' \in [Events -> EventRec] /\ ref' \in [Events -> BOOLEAN]
      /\ FlagsTell' /\ RecycledClean' /\ NoDangling'
      /\ \A f \in Events : place'[f] \notin FreeLists /\ ev'[f].cancelled => ~ref'[f]
  BY <1>2, <1>3, <1>3a, <1>3b, OneMoves
<1>5. \A f \in Events : /\ ev'[f].period = ev[f].period
                          /\ ~ref[f] => ~ref'[f]
  BY <1>2, <1>3 DEF IInv, TypeOK
<1>6. TypeOK' /\ CurOK' /\ Forgotten'
  BY <1>3, <1>4, <1>5, ConstantsOK DEF IInv, TypeOK, CurOK, Forgotten
<1> QED
  BY <1>4, <1>6 DEF IInv

\* The schedule functions of an event preserve the invariant: its flags say
\* whether it has to be moved to the local queue.
LEMMA RescheduleInv ==
  ASSUME IInv, NEW e \in Events, NEW k \in Kinds, Reschedule(e, k)
  PROVE  IInv'
<1> DEFINE r == [ev[e] EXCEPT !.timeout_at = k[1], !.period = k[2],
                              !.in_the_priority_queue = FALSE, !.in_the_prot_queue = TRUE]
<1>1. ev[e] \in EventRec /\ place[e] \notin FreeLists /\ Told(ev[e], place[e])
      /\ ref[e] /\ ~ev[e].cancelled
  BY DEF Reschedule, IInv, TypeOK, NoDangling, FlagsTell, Told, Forgotten
<1>2. r \in EventRec /\ Told(r, "al") /\ Told(r, "local") /\ ~r.cancelled
  BY <1>1, KindFacts DEF EventRec, Told
<1>3. /\ ev' = [ev EXCEPT ![e] = r] /\ ref' = ref /\ pc = "handler"
      /\ UNCHANGED <<NegativeQueue, holder, pc, cur>>
  BY DEF Reschedule
<1> HIDE DEF r
<1>4. ref' = [ref EXCEPT ![e] = TRUE]
  BY <1>1, <1>3 DEF IInv, TypeOK
<1>5. (place'[e] = place[e] /\ place[e] \in {"al", "local"}) \/ place'[e] = "local"
  BY <1>1 DEF Reschedule, Put, IInv, TypeOK, Told
<1>6. /\ place' \in [Events -> Places]
      /\ \A f \in Events \ {e} : place'[f] = place[f]
  BY DEF Reschedule, Put, IInv, TypeOK, Places
<1>6a. place'[e] \notin FreeLists /\ place'[e] \notin {"none", "thread"} /\ Told(r, place'[e])
  BY <1>2, <1>5 DEF FreeLists
<1>6b. Linked(e \in NegativeQueue', place'[e])
  BY <1>3, <1>5 DEF IInv, FlagsTell, Linked
<1>7. /\ ev' \in [Events -> EventRec] /\ ref' \in [Events -> BOOLEAN]
      /\ FlagsTell' /\ RecycledClean' /\ NoDangling'
      /\ \A f \in Events : place'[f] \notin FreeLists /\ ev'[f].cancelled => ~ref'[f]
  BY <1>2, <1>3, <1>4, <1>6, <1>6a, <1>6b, OneMoves
<1>8. TypeOK' /\ CurOK' /\ Forgotten'
  BY <1>3, <1>5, <1>6, <1>7, ConstantsOK DEF IInv, TypeOK, CurOK, Forgotten
<1> QED
  BY <1>7, <1>8 DEF IInv

\* The other threads preserve the invariant.
LEMMA OtherInv ==
  ASSUME IInv, NEW x \in Others, OtherLock(x) \/ OtherUnlock(x)
  PROVE  IInv'
BY DEF OtherLock, OtherUnlock, IInv, TypeOK, FlagsTell, RecycledClean, NoDangling, CurOK,
  Forgotten

\* An event that leaves the loop for good: the loop frees it, with fields r.
LEMMA FreedInv ==
  ASSUME IInv, NEW e \in Events, NEW r \in EventRec, pc = "loop",
         ev' = [ev EXCEPT ![e] = r], ~r.mutex, ~ref[e],
         place' \in [Events -> Places],
         \A f \in Events \ {e} :
           \/ place'[f] = place[f]
           \/ place[f] = "thread" /\ place'[f] = "global",
         place'[e] \in FreeLists,
         place'[e] = "thread" => ~r.in_the_prot_queue /\ ~r.in_the_priority_queue,
         e \notin NegativeQueue, UNCHANGED <<NegativeQueue, ref, holder, pc, cur>>
  PROVE  IInv'
<1>1. ref' = [ref EXCEPT ![e] = FALSE]
  BY DEF IInv, TypeOK
<1>2. cur = NULL
  BY DEF IInv, CurOK
<1>3. /\ ev' \in [Events -> EventRec] /\ ref' \in [Events -> BOOLEAN]
      /\ FlagsTell' /\ RecycledClean' /\ NoDangling'
      /\ \A f \in Events : place'[f] \notin FreeLists /\ ev'[f].cancelled => ~ref'[f]
  <2>1. Linked(e \in NegativeQueue', place'[e])
    BY DEF Linked, FreeLists
  <2> QED
    BY <1>1, <1>2, <2>1, OneMoves DEF FreeLists
<1>4. TypeOK' /\ CurOK' /\ Forgotten'
  BY <1>3, ConstantsOK DEF IInv, TypeOK, CurOK, Forgotten
<1> QED
  BY <1>3, <1>4 DEF IInv

\* An event that goes on: from one queue to another, or to process_event.
LEMMA MovedInv ==
  ASSUME IInv, NEW e \in Events, NEW r \in EventRec, NEW p \in Places \ FreeLists,
         pc = "loop", place[e] \notin FreeLists,
         ev' = [ev EXCEPT ![e] = r], r.cancelled <=> ev[e].cancelled, Told(r, p),
         place' = [place EXCEPT ![e] = p],
         \/ p # "none" /\ UNCHANGED <<pc, cur>>
         \/ p = "none" /\ pc' = "try" /\ cur' = e,
         NegativeQueue' = IF p = "poll" THEN NegativeQueue \cup {e} ELSE NegativeQueue \ {e},
         UNCHANGED <<ref, holder>>
  PROVE  IInv'
<1>1. ref' = [ref EXCEPT ![e] = ref[e]] /\ ref[e] \in BOOLEAN
  BY DEF IInv, TypeOK
<1>2. cur = NULL /\ (ev[e].cancelled => ~ref[e])
  BY DEF IInv, CurOK, Forgotten
<1>3. /\ place' \in [Events -> Places] /\ place'[e] = p
      /\ \A f \in Events \ {e} : place'[f] = place[f]
  BY DEF IInv, TypeOK, FreeLists
<1>4. /\ ev' \in [Events -> EventRec] /\ ref' \in [Events -> BOOLEAN]
      /\ FlagsTell' /\ RecycledClean' /\ NoDangling'
      /\ \A f \in Events : place'[f] \notin FreeLists /\ ev'[f].cancelled => ~ref'[f]
  <2>1. /\ Linked(e \in NegativeQueue', place'[e]) /\ NegativeQueue' \subseteq Events
        /\ \A f \in Events \ {e} : f \in NegativeQueue' <=> f \in NegativeQueue
    BY <1>3 DEF Linked, IInv, TypeOK
  <2> QED
    BY <1>1, <1>2, <1>3, <2>1, OneMoves DEF FreeLists
<1>5. TypeOK' /\ CurOK' /\ Forgotten'
  BY <1>3, <1>4, ConstantsOK DEF IInv, TypeOK, CurOK, Forgotten
<1> QED
  BY <1>4, <1>5 DEF IInv

\* What is known of an event that the loop takes from a queue.
LEMMA QueuedFacts ==
  ASSUME IInv, NEW e \in Events, place[e] \notin FreeLists
  PROVE  /\ ev[e] \in EventRec /\ Told(ev[e], place[e])
         /\ ev[e].cancelled => ~ref[e]
         /\ place \in [Events -> Places]
         /\ ev \in [Events -> EventRec]
         /\ AtLoop => pc = "loop" /\ (place[e] # "poll" => e \notin NegativeQueue)
BY DEF IInv, TypeOK, FlagsTell, Told, Forgotten, AtLoop, Tangled

\* dequeue_timed preserves the invariant: an event freed with its flags set goes
\* to the global list, from which it gets a new prototype.
LEMMA DequeueTimedInv ==
  ASSUME IInv, NEW e \in Events, DequeueTimed(e)
  PROVE  IInv'
<1>1. /\ place[e] \notin FreeLists /\ place[e] = "al" /\ AtLoop
      /\ UNCHANGED <<NegativeQueue, ref, holder, pc, cur>>
  BY DEF DequeueTimed, FreeLists
<1>2. /\ ev[e] \in EventRec /\ Told(ev[e], place[e]) /\ (ev[e].cancelled => ~ref[e])
      /\ place \in [Events -> Places] /\ ev \in [Events -> EventRec]
      /\ pc = "loop" /\ e \notin NegativeQueue
  BY <1>1, QueuedFacts
<1>3. CASE ev[e].cancelled
  <2> DEFINE r == [ev[e] EXCEPT !.mutex = FALSE]
  <2>1. r \in EventRec /\ ~r.mutex
    BY <1>2 DEF EventRec
  <2>2. ev' = [ev EXCEPT ![e] = r] /\ place' = [place EXCEPT ![e] = "global"]
    BY <1>3 DEF DequeueTimed, Put
  <2> HIDE DEF r
  <2>3. /\ place' \in [Events -> Places] /\ place'[e] = "global"
        /\ \A f \in Events \ {e} : place'[f] = place[f]
    BY <1>2, <2>2 DEF Places, FreeLists
  <2> QED
    BY <1>1, <1>2, <1>3, <2>1, <2>2, <2>3, FreedInv DEF FreeLists
<1>4. CASE ~ev[e].cancelled
  <2>1. ev' = [ev EXCEPT ![e] = ev[e]] /\ place' = [place EXCEPT ![e] = "local"]
    BY <1>2, <1>4 DEF DequeueTimed, Put
  <2>2. "local" \in Places \ FreeLists /\ Told(ev[e], "local")
    BY <1>1, <1>2 DEF Places, FreeLists, Told
  <2>3. NegativeQueue' = NegativeQueue \ {e}
    BY <1>1, <1>2
  <2> QED
    BY <1>1, <1>2, <2>1, <2>2, <2>3, MovedInv
<1> QED
  BY <1>3, <1>4

\* dequeue_local and what follows it preserve the invariant.
LEMMA DequeueLocalInv ==
  ASSUME IInv, NEW e \in Events, DequeueLocal(e)
  PROVE  IInv'
<1> DEFINE r == [ev[e] EXCEPT !.in_the_prot_queue = FALSE]
<1>1. place[e] \notin FreeLists /\ place[e] = "local" /\ AtLoop /\ UNCHANGED <<ref, holder>>
  BY DEF DequeueLocal, FreeLists
<1>2. /\ ev[e] \in EventRec /\ Told(ev[e], place[e]) /\ (ev[e].cancelled => ~ref[e])
      /\ place \in [Events -> Places] /\ ev \in [Events -> EventRec]
      /\ pc = "loop" /\ e \notin NegativeQueue
  BY <1>1, QueuedFacts
<1>3. /\ r \in EventRec /\ Told(r, "none") /\ Told(r, "poll")
      /\ (r.cancelled <=> ev[e].cancelled) /\ ~r.in_the_prot_queue /\ ~r.in_the_priority_queue
  BY <1>1, <1>2 DEF EventRec, Told
<1>4. CASE /\ r.cancelled
           /\ ev' = [ev EXCEPT ![e] = [r EXCEPT !.mutex = FALSE]]
           /\ EventFree(e)
           /\ UNCHANGED <<NegativeQueue, pc, cur>>
  <2> HIDE DEF r
  <2> DEFINE q == [r EXCEPT !.mutex = FALSE]
  <2>1. q \in EventRec /\ ~q.mutex /\ ~q.in_the_prot_queue /\ ~q.in_the_priority_queue
    BY <1>3 DEF EventRec
  <2>2. ev' = [ev EXCEPT ![e] = q]
    BY <1>4
  <2> HIDE DEF q
  <2>3. /\ place' \in [Events -> Places] /\ place'[e] \in FreeLists
        /\ \A f \in Events \ {e} :
              \/ place'[f] = place[f]
              \/ place[f] = "thread" /\ place'[f] = "global"
    BY <1>2, <1>4, EventFreeFacts
  <2>4. UNCHANGED <<NegativeQueue, ref, holder, pc, cur>> /\ ~ref[e]
    BY <1>1, <1>2, <1>3, <1>4
  <2> QED
    BY <1>1, <1>2, <2>1, <2>2, <2>3, <2>4, FreedInv
<1>5. CASE r.timeout_at = "imm" /\ Dispatch(e, r) /\ UNCHANGED NegativeQueue
  <2> HIDE DEF r
  <2>1. /\ ev' = [ev EXCEPT ![e] = r] /\ place' = [place EXCEPT ![e] = "none"]
        /\ pc' = "try" /\ cur' = e
    BY <1>5 DEF Dispatch, Put
  <2>2. "none" \in Places \ FreeLists
    BY DEF Places, FreeLists
  <2>3. NegativeQueue' = NegativeQueue \ {e}
    BY <1>2, <1>5
  <2> QED
    BY <1>1, <1>2, <1>3, <2>1, <2>2, <2>3, MovedInv
<1>6. CASE /\ ev' = [ev EXCEPT ![e] = [r EXCEPT !.in_the_priority_queue = TRUE]]
           /\ r.timeout_at = "timed"
           /\ Put(e, "timer")
           /\ UNCHANGED <<NegativeQueue, pc, cur>>
  <2> HIDE DEF r
  <2> DEFINE q == [r EXCEPT !.in_the_priority_queue = TRUE]
  <2>1. q \in EventRec /\ Told(q, "timer") /\ (q.cancelled <=> ev[e].cancelled)
    BY <1>3 DEF EventRec, Told
  <2>2. ev' = [ev EXCEPT ![e] = q] /\ place' = [place EXCEPT ![e] = "timer"]
    BY <1>6 DEF Put
  <2> HIDE DEF q
  <2>3. "timer" \in Places \ FreeLists /\ "timer" # "none"
    BY DEF Places, FreeLists
  <2>4. NegativeQueue' = NegativeQueue \ {e}
    BY <1>2, <1>6
  <2> QED
    BY <1>1, <1>2, <1>6, <2>1, <2>2, <2>3, <2>4, MovedInv
<1>7. CASE /\ ev' = [ev EXCEPT ![e] = r]
           /\ Put(e, "poll")
           /\ NegativeQueue' = NegativeQueue \cup {e}
           /\ UNCHANGED <<pc, cur>>
  <2> HIDE DEF r
  <2>1. place' = [place EXCEPT ![e] = "poll"]
    BY <1>7 DEF Put
  <2>2. "poll" \in Places \ FreeLists /\ "poll" # "none"
    BY DEF Places, FreeLists
  <2> QED
    BY <1>1, <1>2, <1>3, <1>7, <2>1, <2>2, MovedInv
<1> QED
  BY <1>4, <1>5, <1>6, <1>7 DEF DequeueLocal

\* check_ready preserves the invariant.
LEMMA CheckReadyInv ==
  ASSUME IInv, NEW e \in Events, CheckReady(e)
  PROVE  IInv'
<1> DEFINE r == [ev[e] EXCEPT !.in_the_priority_queue = FALSE, !.cancelled = FALSE,
                              !.mutex = FALSE]
<1>1. /\ place[e] \notin FreeLists /\ place[e] = "timer" /\ AtLoop /\ ev[e].cancelled
      /\ UNCHANGED <<NegativeQueue, ref, holder, pc, cur>> /\ EventFree(e)
      /\ ev' = [ev EXCEPT ![e] = r]
  BY DEF CheckReady, FreeLists
<1>2. /\ ev[e] \in EventRec /\ Told(ev[e], place[e]) /\ ~ref[e] /\ place \in [Events -> Places]
      /\ pc = "loop" /\ e \notin NegativeQueue
  BY <1>1, QueuedFacts
<1>3. r \in EventRec /\ ~r.mutex /\ ~r.in_the_prot_queue /\ ~r.in_the_priority_queue
  BY <1>1, <1>2 DEF EventRec, Told
<1> HIDE DEF r
<1>4. /\ place' \in [Events -> Places] /\ place'[e] \in FreeLists
      /\ \A f \in Events \ {e} :
            \/ place'[f] = place[f]
            \/ place[f] = "thread" /\ place'[f] = "global"
  BY <1>1, <1>2, EventFreeFacts
<1> QED
  BY <1>1, <1>2, <1>3, <1>4, FreedInv

\* dequeue_ready and what follows it preserve the invariant.
LEMMA DequeueReadyInv ==
  ASSUME IInv, NEW e \in Events, DequeueReady(e)
  PROVE  IInv'
<1> DEFINE r == [ev[e] EXCEPT !.in_the_priority_queue = FALSE]
<1>1. /\ place[e] \notin FreeLists /\ place[e] = "timer" /\ AtLoop
      /\ UNCHANGED <<NegativeQueue, ref, holder>>
  BY DEF DequeueReady, FreeLists
<1>2. /\ ev[e] \in EventRec /\ Told(ev[e], place[e]) /\ (ev[e].cancelled => ~ref[e])
      /\ place \in [Events -> Places] /\ pc = "loop" /\ e \notin NegativeQueue
  BY <1>1, QueuedFacts
<1>3. /\ r \in EventRec /\ Told(r, "none") /\ (r.cancelled <=> ev[e].cancelled)
      /\ ~r.in_the_prot_queue /\ ~r.in_the_priority_queue
  BY <1>1, <1>2 DEF EventRec, Told
<1>4. CASE /\ r.cancelled
           /\ ev' = [ev EXCEPT ![e] = [r EXCEPT !.mutex = FALSE]]
           /\ EventFree(e)
           /\ UNCHANGED <<pc, cur>>
  <2> HIDE DEF r
  <2> DEFINE q == [r EXCEPT !.mutex = FALSE]
  <2>1. q \in EventRec /\ ~q.mutex /\ ~q.in_the_prot_queue /\ ~q.in_the_priority_queue
    BY <1>3 DEF EventRec
  <2>2. ev' = [ev EXCEPT ![e] = q]
    BY <1>4
  <2> HIDE DEF q
  <2>3. /\ place' \in [Events -> Places] /\ place'[e] \in FreeLists
        /\ \A f \in Events \ {e} :
              \/ place'[f] = place[f]
              \/ place[f] = "thread" /\ place'[f] = "global"
    BY <1>2, <1>4, EventFreeFacts
  <2>4. UNCHANGED <<NegativeQueue, ref, holder, pc, cur>> /\ ~ref[e]
    BY <1>1, <1>2, <1>3, <1>4
  <2> QED
    BY <1>1, <1>2, <2>1, <2>2, <2>3, <2>4, FreedInv
<1>5. CASE Dispatch(e, r)
  <2> HIDE DEF r
  <2>1. /\ ev' = [ev EXCEPT ![e] = r] /\ place' = [place EXCEPT ![e] = "none"]
        /\ pc' = "try" /\ cur' = e
    BY <1>5 DEF Dispatch, Put
  <2>2. "none" \in Places \ FreeLists
    BY DEF Places, FreeLists
  <2>3. NegativeQueue' = NegativeQueue \ {e}
    BY <1>1, <1>2
  <2> QED
    BY <1>1, <1>2, <1>3, <2>1, <2>2, <2>3, MovedInv
<1> QED
  BY <1>4, <1>5 DEF DequeueReady

\* Executing a poll event preserves the invariant.
LEMMA DequeuePollInv ==
  ASSUME IInv, NEW e \in Events, DequeuePoll(e)
  PROVE  IInv'
<1>1. /\ place[e] \notin FreeLists /\ place[e] = "poll" /\ pc = "loop" /\ UNCHANGED <<ref, holder>>
      /\ ev' = [ev EXCEPT ![e] = ev[e]] /\ place' = [place EXCEPT ![e] = "none"]
      /\ NegativeQueue' = NegativeQueue \ {e}
      /\ pc' = "try" /\ cur' = e
  BY DEF DequeuePoll, FreeLists, Dispatch, Put, AtLoop, Tangled
<1>2. ev[e] \in EventRec /\ Told(ev[e], "none")
  BY <1>1, QueuedFacts DEF Told
<1>3. "none" \in Places \ FreeLists
  BY DEF Places, FreeLists
<1> QED
  BY <1>1, <1>2, <1>3, MovedInv

\* What is known of the event of process_event.
LEMMA CurFacts ==
  ASSUME IInv, pc # "loop"
  PROVE  /\ cur \in Events /\ ev[cur] \in EventRec /\ Told(ev[cur], place[cur])
         /\ place[cur] \in {"none", "local"}
         /\ ev[cur].cancelled => ~ref[cur]
         /\ place \in [Events -> Places] /\ ev \in [Events -> EventRec]
<1>1. cur \in Events /\ place[cur] \in {"none", "local"}
  BY DEF IInv, TypeOK, CurOK
<1> QED
  BY <1>1 DEF IInv, TypeOK, FlagsTell, Told, Forgotten, FreeLists

\* process_event ends: its event has gone to a queue or to a free list.
LEMMA EndInv ==
  ASSUME IInv, pc # "loop", NEW r \in EventRec,
         ev' = [ev EXCEPT ![cur] = r], r.cancelled <=> ev[cur].cancelled,
         place' \in [Events -> Places],
         \A f \in Events \ {cur} :
           \/ place'[f] = place[f]
           \/ place[f] = "thread" /\ place'[f] = "global",
         \/ place'[cur] = "local" /\ Told(r, "local")
         \/ /\ place'[cur] \in FreeLists /\ ~ref[cur]
            /\ ~r.in_the_prot_queue /\ ~r.in_the_priority_queue /\ ~r.mutex
            /\ cur \notin NegativeQueue,
         NegativeQueue' = NegativeQueue,
         holder' \in Others \cup {THREAD, NULL}, pc' = "loop", cur' = NULL, ref' = ref
  PROVE  IInv'
<1>1. cur \in Events /\ (ev[cur].cancelled => ~ref[cur])
  BY CurFacts
<1>2. ref' = [ref EXCEPT ![cur] = ref[cur]] /\ ref[cur] \in BOOLEAN
  BY <1>1 DEF IInv, TypeOK
<1>3. /\ ev' \in [Events -> EventRec] /\ ref' \in [Events -> BOOLEAN]
      /\ FlagsTell' /\ RecycledClean' /\ NoDangling'
      /\ \A f \in Events : place'[f] \notin FreeLists /\ ev'[f].cancelled => ~ref'[f]
  <2>1. Linked(cur \in NegativeQueue', place'[cur])
    BY DEF Linked, FreeLists
  <2> QED
    BY <1>1, <1>2, <2>1, OneMoves DEF FreeLists
<1>4. TypeOK' /\ CurOK' /\ Forgotten'
  BY <1>3, ConstantsOK DEF IInv, TypeOK, CurOK, Forgotten
<1> QED
  BY <1>3, <1>4 DEF IInv

\* free_event of the event of process_event.
LEMMA FreeEventInv ==
  ASSUME IInv, pc # "loop", place[cur] = "none", FreeEvent(cur), ~ref[cur],
         holder' \in Others \cup {THREAD, NULL}, pc' = "loop", cur' = NULL, ref' = ref,
         NegativeQueue' = NegativeQueue
  PROVE  IInv'
<1> DEFINE r == [ev[cur] EXCEPT !.mutex = FALSE]
<1>1. cur \in Events /\ ev[cur] \in EventRec /\ Told(ev[cur], "none") /\ place \in [Events -> Places]
  BY CurFacts
<1>2. /\ r \in EventRec /\ ~r.in_the_prot_queue /\ ~r.in_the_priority_queue /\ ~r.mutex
      /\ r.cancelled <=> ev[cur].cancelled
  BY <1>1 DEF EventRec, Told
<1>3. ev' = [ev EXCEPT ![cur] = r] /\ EventFree(cur)
  BY DEF FreeEvent
<1> HIDE DEF r
<1>4. /\ place' \in [Events -> Places] /\ place'[cur] \in FreeLists
      /\ \A f \in Events \ {cur} :
            \/ place'[f] = place[f]
            \/ place[f] = "thread" /\ place'[f] = "global"
  BY <1>1, <1>3, EventFreeFacts
<1>5. cur \notin NegativeQueue
  BY <1>1 DEF IInv, FlagsTell
<1> QED
  BY <1>2, <1>3, <1>4, <1>5, EndInv

\* Putting the event of process_event, with the time t, into the local queue.
LEMMA PutBackInv ==
  ASSUME IInv, pc # "loop", place[cur] = "none", NEW t \in {"timed", "poll"},
         ev' = [ev EXCEPT ![cur].timeout_at = t, ![cur].in_the_prot_queue = TRUE],
         Put(cur, "local"),
         holder' \in Others \cup {THREAD, NULL}, pc' = "loop", cur' = NULL, ref' = ref,
         NegativeQueue' = NegativeQueue
  PROVE  IInv'
<1> DEFINE r == [ev[cur] EXCEPT !.timeout_at = t, !.in_the_prot_queue = TRUE]
<1>1. cur \in Events /\ ev[cur] \in EventRec /\ Told(ev[cur], "none") /\ place \in [Events -> Places]
  BY CurFacts
<1>2. r \in EventRec /\ Told(r, "local") /\ (r.cancelled <=> ev[cur].cancelled)
  BY <1>1 DEF EventRec, Told
<1>3. ev' = [ev EXCEPT ![cur] = r]
  OBVIOUS
<1> HIDE DEF r
<1>4. /\ place' \in [Events -> Places] /\ place'[cur] = "local"
      /\ \A f \in Events \ {cur} : place'[f] = place[f]
  BY <1>1 DEF Put, Places
<1> QED
  BY <1>2, <1>3, <1>4, EndInv

\* process_event preserves the invariant.
LEMMA ProcessEventInv ==
  ASSUME IInv, ProcessEvent
  PROVE  IInv'
<1>t. holder \in Others \cup {THREAD, NULL}
  BY DEF IInv, TypeOK
<1>1. CASE LockMissed
  <2>1. /\ pc # "loop" /\ place[cur] = "none" /\ UNCHANGED <<NegativeQueue, ref, holder>> /\ Put(cur, "local")
        /\ ev' = [ev EXCEPT ![cur].timeout_at = "timed", ![cur].in_the_prot_queue = TRUE]
        /\ pc' = "loop" /\ cur' = NULL
    BY <1>1 DEF LockMissed, IInv, CurOK
  <2> QED
    BY <1>t, <2>1, PutBackInv
<1>2. CASE LockTaken
  BY <1>2 DEF LockTaken, IInv, TypeOK, FlagsTell, RecycledClean, NoDangling, CurOK, Forgotten
<1>3. CASE Enter
  <2>1. pc = "locked" /\ place[cur] = "none" /\ (ev[cur].cancelled => ~ref[cur])
    BY <1>3, CurFacts DEF Enter, IInv, CurOK
  <2>2. CASE ev[cur].cancelled
    <3>1. /\ FreeEvent(cur) /\ pc' = "loop" /\ cur' = NULL /\ holder' = NULL /\ ref' = ref
          /\ NegativeQueue' = NegativeQueue
      BY <1>3, <2>2 DEF Enter
    <3> QED
      BY <2>1, <2>2, <3>1, FreeEventInv
  <2>3. CASE ~ev[cur].cancelled
    BY <1>3, <2>3 DEF Enter, IInv, TypeOK, FlagsTell, RecycledClean, NoDangling, CurOK, Forgotten
  <2> QED
    BY <2>2, <2>3
<1>4. CASE Return
  <2>1. cur \in Events /\ ref \in [Events -> BOOLEAN]
    BY <1>4, CurFacts DEF Return, IInv, TypeOK
  <2>2. /\ ref' \in [Events -> BOOLEAN] /\ \A f \in Events : ref'[f] => ref[f]
        /\ place[cur] = "none" /\ ev[cur].period = "none" => ~ref'[cur]
    BY <1>4, <2>1 DEF Return
  <2>3. UNCHANGED <<place, NegativeQueue, ev, cur>> /\ pc = "handler" /\ pc' = "after" /\ holder' = NULL
    BY <1>4 DEF Return
  <2> QED
    BY <2>2, <2>3 DEF IInv, TypeOK, FlagsTell, RecycledClean, NoDangling, CurOK, Forgotten
<1>5. CASE Finish
  <2>1. /\ pc = "after" /\ cur \in Events /\ ev[cur] \in EventRec /\ Told(ev[cur], place[cur])
        /\ place[cur] \in {"none", "local"}
        /\ place[cur] = "none" /\ ev[cur].period = "none" => ~ref[cur]
        /\ UNCHANGED <<NegativeQueue, ref, holder>> /\ pc' = "loop" /\ cur' = NULL
    BY <1>5, CurFacts DEF Finish, IInv, Forgotten
  <2>2. CASE ev[cur].in_the_prot_queue \/ ev[cur].in_the_priority_queue
    <3>1. place[cur] = "local" /\ UNCHANGED <<place, ev>>
      BY <1>5, <2>1, <2>2 DEF Finish, Told
    <3>2. ev' = [ev EXCEPT ![cur] = ev[cur]] /\ place' \in [Events -> Places]
      BY <3>1 DEF IInv, TypeOK
    <3> QED
      BY <1>t, <2>1, <3>1, <3>2, EndInv
  <2>3. CASE ~(ev[cur].in_the_prot_queue \/ ev[cur].in_the_priority_queue)
    <3>1. place[cur] = "none"
      BY <2>1, <2>3 DEF Told
    <3>2. CASE ev[cur].period = "none"
      <4>1. FreeEvent(cur)
        BY <1>5, <2>3, <3>2 DEF Finish
      <4> QED
        BY <1>t, <2>1, <3>1, <3>2, <4>1, FreeEventInv
    <3>3. CASE ev[cur].period # "none"
      <4>1. /\ ev[cur].period \in {"timed", "poll"} /\ Put(cur, "local")
            /\ ev' = [ev EXCEPT ![cur].timeout_at = ev[cur].period, ![cur].in_the_prot_queue = TRUE]
        BY <1>5, <2>1, <2>3, <3>3 DEF Finish, EventRec
      <4> QED
        BY <1>t, <2>1, <3>1, <4>1, PutBackInv
    <3> QED
      BY <3>2, <3>3
  <2> QED
    BY <2>2, <2>3
<1> QED
  BY <1>1, <1>2, <1>3, <1>4, <1>5 DEF ProcessEvent

-----------------------------------------------------------------------------
(* The theorems *)

\* The invariant is inductive.
LEMMA NextInv == IInv /\ [Next]_vars => IInv'
<1> SUFFICES ASSUME IInv, [Next]_vars PROVE IInv'
  OBVIOUS
<1>1. CASE UNCHANGED vars
  BY <1>1 DEF vars, IInv, TypeOK, FlagsTell, RecycledClean, NoDangling, CurOK, Forgotten
<1>2. ASSUME NEW e \in Events, Loop(e) PROVE IInv'
  BY <1>2, DequeueTimedInv, DequeueLocalInv, CheckReadyInv, DequeueReadyInv, DequeuePollInv
  DEF Loop
<1>3. ASSUME NEW e \in Events, Cancel(e) PROVE IInv'
  BY <1>3, CancelInv
<1>4. ASSUME NEW e \in Events, NEW k \in Kinds, NEW keep \in BOOLEAN, Schedule(e, k, keep)
      PROVE  IInv'
  BY <1>4, ScheduleInv
<1>5. ASSUME NEW e \in Events, NEW k \in Kinds, ScheduleLocal(e, k) \/ Reschedule(e, k)
      PROVE  IInv'
  BY <1>5, ScheduleLocalInv, RescheduleInv
<1>6. ASSUME NEW x \in Others, OtherLock(x) \/ OtherUnlock(x) PROVE IInv'
  BY <1>6, OtherInv
<1> QED
  BY <1>1, <1>2, <1>3, <1>4, <1>5, <1>6, ProcessEventInv DEF Next

\* In every reachable state the inductive invariant holds.
THEOREM Inductive == Spec => []IInv
BY InitInv, NextInv, PTL DEF Spec

\* The variables of the event system keep their types.
THEOREM TypeCorrect == Spec => []TypeOK
<1>1. IInv => TypeOK
  BY DEF IInv
<1> QED
  BY <1>1, Inductive, PTL

\* in_the_prot_queue and in_the_priority_queue always say which queue a live
\* event was put on, and no event is on a second one but for those rescheduled
\* while they wait in NegativeQueue.
THEOREM FlagsAreRight == Spec => []FlagsTell
<1>1. IInv => FlagsTell
  BY DEF IInv
<1> QED
  BY <1>1, Inductive, PTL

\* The queues stay apart as long as no event of NegativeQueue is put elsewhere.
LEMMA StaysApart ==
  ASSUME IInv, ~Tangled, NEW e \in Events,
         \A f \in NegativeQueue' \ {e} : f \in NegativeQueue,
         \A f \in Events \ {e} :
           \/ place'[f] = place[f]
           \/ place[f] = "thread" /\ place'[f] = "global",
         e \in NegativeQueue' => place'[e] = "poll"
  PROVE  ~Tangled'
<1> SUFFICES ASSUME NEW f \in NegativeQueue', f # e PROVE place'[f] = "poll"
  BY DEF Tangled
<1>1. f \in NegativeQueue /\ place[f] = "poll" /\ f \in Events
  BY DEF Tangled, IInv, TypeOK
<1> QED
  BY <1>1

\* Only a reschedule of an event that waits in NegativeQueue, by the handler of
\* another, ever puts an event on two queues.
THEOREM OnlyRescheduleTangles == Spec => TangledByReschedule
<1> DEFINE Culprit == \E e \in Events, k \in Kinds : place[e] = "poll" /\ e # cur /\ Reschedule(e, k)
<1>1. ASSUME IInv, Next, ~Tangled, Tangled' PROVE Culprit
  <2> SUFFICES ASSUME ~Culprit PROVE FALSE
    OBVIOUS
  <2>0. /\ place \in [Events -> Places] /\ NegativeQueue \subseteq Events
        /\ \A f \in NegativeQueue : place[f] = "poll"
        /\ \A f \in Events : place[f] = "poll" => f # cur
    <3>1. \A f \in Events : place[f] = "poll" => f # cur
      BY <1>1, ConstantsOK DEF IInv, TypeOK, CurOK
    <3> QED
      BY <1>1, <3>1 DEF IInv, TypeOK, Tangled
  <2>1. ~UNCHANGED <<place, NegativeQueue>>
    BY <1>1 DEF Tangled
  <2>2. ASSUME NEW e \in Events, NEW p, Put(e, p), NegativeQueue' = NegativeQueue,
               place[e] # "poll"
        PROVE  FALSE
    BY <1>1, <2>0, <2>2, StaysApart DEF Put
  <2>3. ASSUME NEW e \in Events, EventFree(e), NegativeQueue' = NegativeQueue, place[e] # "poll"
        PROVE  FALSE
    BY <1>1, <2>0, <2>3, EventFreeFacts, StaysApart
  <2>4. ASSUME NEW e \in Events, Loop(e) PROVE FALSE
    <3>1. CASE DequeueTimed(e)
      BY <2>1, <2>2, <3>1 DEF DequeueTimed
    <3>2. CASE DequeueLocal(e)
      <4>1. CASE UNCHANGED NegativeQueue
        <5>1. place[e] = "local" /\ (EventFree(e) \/ Put(e, "none") \/ Put(e, "timer") \/ Put(e, "poll"))
          BY <3>2 DEF DequeueLocal, Dispatch
        <5> QED
          BY <2>2, <2>3, <4>1, <5>1
      <4>2. CASE Put(e, "poll") /\ NegativeQueue' = NegativeQueue \cup {e}
        <5>1. place'[e] = "poll" /\ \A f \in Events \ {e} : place'[f] = place[f]
          BY <2>0, <4>2 DEF Put
        <5> QED
          BY <1>1, <4>2, <5>1, StaysApart
      <4> QED
        BY <3>2, <4>1, <4>2 DEF DequeueLocal
    <3>3. CASE CheckReady(e)
      BY <2>3, <3>3 DEF CheckReady
    <3>4. CASE DequeueReady(e)
      BY <2>2, <2>3, <3>4 DEF DequeueReady, Dispatch
    <3>5. CASE DequeuePoll(e)
      <4>1. NegativeQueue' = NegativeQueue \ {e} /\ \A f \in Events \ {e} : place'[f] = place[f]
        BY <2>0, <3>5 DEF DequeuePoll, Dispatch, Put
      <4> QED
        BY <1>1, <4>1, StaysApart
    <3> QED
      BY <2>4, <3>1, <3>2, <3>3, <3>4, <3>5 DEF Loop
  <2>5. ASSUME NEW e \in Events, Cancel(e) PROVE FALSE
    BY <2>1, <2>5 DEF Cancel
  <2>6. CASE ProcessEvent
    <3>1. pc # "loop" /\ UNCHANGED NegativeQueue
      BY <2>6 DEF ProcessEvent, LockMissed, LockTaken, Enter, Return, Finish
    <3>2. cur \in Events /\ place[cur] # "poll"
      BY <1>1, <3>1, CurFacts
    <3>3. EventFree(cur) \/ Put(cur, "local") \/ UNCHANGED place
      BY <2>6 DEF ProcessEvent, LockMissed, LockTaken, Enter, Return, Finish, FreeEvent
    <3> QED
      BY <2>1, <2>2, <2>3, <3>1, <3>2, <3>3
  <2>7. ASSUME NEW e \in Events, NEW k \in Kinds, NEW keep \in BOOLEAN, Schedule(e, k, keep)
        PROVE  FALSE
    BY <2>2, <2>7 DEF Schedule
  <2>8. ASSUME NEW e \in Events, NEW k \in Kinds, ScheduleLocal(e, k) PROVE FALSE
    BY <2>2, <2>8 DEF ScheduleLocal
  <2>9. ASSUME NEW e \in Events, NEW k \in Kinds, Reschedule(e, k) PROVE FALSE
    <3>1. place[e] # "poll"
      BY <2>0, <2>9
    <3> QED
      BY <2>1, <2>2, <2>9, <3>1 DEF Reschedule
  <2>10. ASSUME NEW x \in Others, OtherLock(x) \/ OtherUnlock(x) PROVE FALSE
    BY <2>1, <2>10 DEF OtherLock, OtherUnlock
  <2> QED
    BY <1>1, <2>4, <2>5, <2>6, <2>7, <2>8, <2>9, <2>10 DEF Next
<1>2. IInv /\ [Next]_vars => [~Tangled /\ Tangled' => Culprit]_vars
  BY <1>1
<1> QED
  BY <1>2, Inductive, PTL DEF Spec, TangledByReschedule

\* schedule_local never reuses an object with flags left from its last use,
\* although EVENT_FREE does not clear them.
THEOREM RecycledAreClean == Spec => []RecycledClean
<1>1. IInv => RecycledClean
  BY DEF IInv
<1> QED
  BY <1>1, Inductive, PTL

\* A state machine that follows the rules of event.h never has a pointer to an
\* event that was freed.
THEOREM NothingDangles == Spec => []NoDangling
<1>1. IInv => NoDangling
  BY DEF IInv
<1> QED
  BY <1>1, Inductive, PTL

\* process_event calls no handler for a cancelled event, since it looks again
\* with the mutex held.
THEOREM CancelIsRespected == Spec => NoCallAfterCancel
<1>1. [Next]_vars => [pc # "handler" /\ pc' = "handler" => ~ev[cur'].cancelled]_vars
  <2> SUFFICES ASSUME Next, pc # "handler", pc' = "handler" PROVE ~ev[cur'].cancelled
    BY DEF vars
  <2>1. Enter
    BY DEF Next, Loop, ProcessEvent, DequeueTimed, DequeueLocal, CheckReady, DequeueReady,
      DequeuePoll, Dispatch, Cancel, Schedule, ScheduleLocal, Reschedule, OtherLock, OtherUnlock,
      LockMissed, LockTaken, Return, Finish
  <2> QED
    BY <2>1 DEF Enter
<1> QED
  BY <1>1, PTL DEF Spec, NoCallAfterCancel
=============================================================================
