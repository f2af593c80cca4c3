-------------------------- MODULE ProtectedQueue ---------------------------
(***************************************************************************)
(* The queue through which other threads schedule events on an EThread     *)
(* (iocore/eventsystem/ProtectedQueue.cc) and the part of                  *)
(* EThread::execute that sleeps on it and signals others.                  *)
(*                                                                         *)
(* A producer that finds the list empty owes the consumer a signal.  A     *)
(* thread that is not a regular EThread signals at once; a regular one     *)
(* notes the consumer in ethreads_to_be_signalled and signals when it goes *)
(* idle (flush_signals).  A regular thread without poll events sleeps on   *)
(* its condition variable; a net thread sleeps in the poll of its          *)
(* NetHandler and is woken through its event fd (signal_hook).             *)
(*                                                                         *)
(* The list itself is atomic here: InkAtomicList shows that it is.         *)
(***************************************************************************)
EXTENDS Integers, Sequences, SequencesExt, Filtering

CONSTANTS
  N,          \* eventProcessor.n_ethreads
  Pollers,    \* the EThreads that run a NetHandler
  Externals,  \* producers that are not regular EThreads
  Events,     \* the Event objects
  MaxLocal,   \* bound: MaxLocal[t]: events t schedules on itself locally in a round
  NULL

EThreads == 0 .. N - 1

ASSUME ThreadsOK ==
  /\ N \in Nat \ {0}
  /\ Pollers \subseteq EThreads
  /\ NULL \notin Nat /\ NULL \notin [to : EThreads, hook : BOOLEAN]
  /\ MaxLocal \in [EThreads -> Nat]
  /\ Externals \cap EThreads = {}

VARIABLES
  al,         \* al[q]: EventQueueExternal.al of thread q, newest event first
  localQueue, \* localQueue[q]: EventQueueExternal.localQueue
  cancelled,  \* the events whose cancelled flag is set
  fast,       \* events others scheduled on net threads with fast_signal (history)
  sig_e,      \* sig_e[t]: ethreads_to_be_signalled of t
  nsig,       \* nsig[t]: n_ethreads_to_be_signalled of t
  evfd,       \* evfd[q]: the event fd of q is readable
  pc,         \* pc[t]: where EThread t is in execute
  fl,         \* fl[t]: the index of t's flush_signals loop
  nlocal,     \* nlocal[t]: events scheduled locally in this round
  owes,       \* owes[x]: whom external x has to signal, or NULL
  order       \* order[q]: events enqueued on q, oldest first (history)

queues == <<al, localQueue, cancelled, fast, order>>
signals == <<sig_e, nsig, evfd, owes>>
vars == <<al, localQueue, cancelled, fast, sig_e, nsig, evfd, pc, fl, nlocal, owes, order>>

Init ==
  /\ al = [q \in EThreads |-> <<>>]
  /\ localQueue = [q \in EThreads |-> <<>>]
  /\ cancelled = {}
  /\ fast = {}
  /\ sig_e = [t \in EThreads |-> [i \in EThreads |-> NULL]]
  /\ nsig = [t \in EThreads |-> 0]
  /\ evfd = [q \in EThreads |-> FALSE]
  /\ pc = [t \in EThreads |-> "run"]
  /\ fl = [t \in EThreads |-> 0]
  /\ nlocal = [t \in EThreads |-> 0]
  /\ owes = [x \in Externals |-> NULL]
  /\ order = [q \in EThreads |-> <<>>]

Goto(t, l) == pc' = [pc EXCEPT ![t] = l]

Queued(e) == \E q \in EThreads : e \in ToSet(al[q]) \cup ToSet(localQueue[q])

-----------------------------------------------------------------------------
(* ethreads_to_be_signalled: a vector, or a map by thread id once full     *)

\* One round of the inner loop: put st.cur in its own slot and go on with
\* what was there.
PlaceOne(st) ==
  IF st.cur = NULL \/ st.s[st.cur] = st.cur
  THEN [st EXCEPT !.cur = NULL]
  ELSE [s |-> [st.s EXCEPT ![st.cur] = st.cur], cur |-> st.s[st.cur]]

\* The inner loop for slot i, round by round.  Each round fills a slot for good,
\* so it ends when it has been through all of them.
Chain(s, i) ==
  LET c[k \in 0 .. Cardinality(DOMAIN s)] ==
        IF k = 0 THEN [s |-> s, cur |-> s[i]] ELSE PlaceOne(c[k - 1])
  IN  c

\* One round of the outer loop, for slot i.
PlaceChain(s, i) ==
  LET r == Chain(s, i)[Cardinality(DOMAIN s)].s
  IN  IF r[i] # NULL /\ r[i] # i THEN [r EXCEPT ![i] = NULL] ELSE r

\* The outer loop over the first t slots, round by round.
Rounds(s, t) ==
  LET d[k \in 0 .. t] == IF k = 0 THEN s ELSE PlaceChain(d[k - 1], k - 1)
  IN  d

\* Mutant of DirectMap: the chain of displaced threads is not followed.
DirectMapNoChain(s, t) ==
  FoldLeft(LAMBDA r, i : IF r[i] = NULL \/ r[i] = i THEN r
                         ELSE [r EXCEPT ![r[i]] = r[i], ![i] = NULL],
           s, [k \in 1 .. t |-> k - 1])

\* The conversion of the first t slots from a vector to a map.
DirectMap(s, t) == Rounds(s, t)[t]

\* Mutant of NoteSignal: the full vector is not converted.
NoteSignalUnconverted(t, q) ==
  LET n == nsig[t]
  IN  /\ nsig' = [nsig EXCEPT ![t] = IF n < N THEN n + 1 ELSE n]
      /\ sig_e' = [sig_e EXCEPT ![t][IF n + 1 < N THEN n ELSE q] = q]

\* Note in t's table that q has to be signalled.
NoteSignal(t, q) ==
  LET s == sig_e[t]
      n == nsig[t]
  IN  IF n + 1 < N
      THEN /\ sig_e' = [sig_e EXCEPT ![t][n] = q]
           /\ nsig' = [nsig EXCEPT ![t] = n + 1]
      ELSE /\ sig_e' = [sig_e EXCEPT ![t] =
                          [(IF n + 1 = N THEN DirectMap(s, n) ELSE s) EXCEPT ![q] = q]]
           /\ nsig' = [nsig EXCEPT ![t] = IF n + 1 = N THEN n + 1 ELSE n]

\* The threads t still has to signal.
Noted(t) == {sig_e[t][i] : i \in {j \in EThreads : j < nsig[t]}} \ {NULL}

\* Mutant of Signal: the lock is not taken.
SignalUnlocked(q) ==
  pc' = [pc EXCEPT ![q] = IF pc[q] = "wait" THEN "popall" ELSE pc[q]]

\* signal: q's lock is free for a moment, and q, if it waits, wakes up.
Signal(q) ==
  /\ pc[q] \notin {"locked", "empty"}
  /\ pc' = [pc EXCEPT ![q] = IF pc[q] = "wait" THEN "popall" ELSE pc[q]]

\* signal_hook: only a thread with a NetHandler has one.
SignalHook(qs) == evfd' = [q \in EThreads |-> evfd[q] \/ q \in qs \cap Pollers]

-----------------------------------------------------------------------------
(* enqueue                                                                 *)

\* The push of a free event on q's list.
Push(q, e, f) ==
  /\ ~Queued(e)
  /\ al' = [al EXCEPT ![q] = <<e>> \o @]
  /\ order' = [order EXCEPT ![q] = Append(@, e)]
  /\ fast' = IF f /\ q \in Pollers THEN fast \cup {e} ELSE fast
  /\ UNCHANGED <<localQueue, cancelled>>

\* EThread t, running a handler, schedules e on q.
Enqueue(t, q, e, f) ==
  /\ pc[t] \in {"run", "timers", "drain", "netio"}
  /\ Push(q, e, f /\ q # t)
  /\ IF al[q] = <<>> /\ q # t
     THEN NoteSignal(t, q) /\ SignalHook(IF f THEN {q} ELSE {})
     ELSE UNCHANGED <<sig_e, nsig, evfd>>
  /\ UNCHANGED <<pc, fl, nlocal, owes>>

\* enqueue_local: t schedules e on itself, or puts back an event whose lock was
\* taken or that is periodic.
EnqueueLocal(t, e) ==
  /\ pc[t] \in {"run", "timers", "drain", "netio"}
  /\ nlocal[t] < MaxLocal[t]
  /\ ~Queued(e)
  /\ localQueue' = [localQueue EXCEPT ![t] = Append(@, e)]
  /\ nlocal' = [nlocal EXCEPT ![t] = @ + 1]
  /\ UNCHANGED <<al, cancelled, fast, order, signals, pc, fl>>

\* Another thread schedules e on q: if the list was empty it goes on to
\* signal q.
ExternalPush(x, q, e, f) ==
  /\ owes[x] = NULL
  /\ Push(q, e, f)
  /\ owes' = [owes EXCEPT ![x] = IF al[q] = <<>> 
                                  THEN [to |-> q, hook |-> f /\ q \in Pollers] ELSE NULL]
  /\ UNCHANGED <<sig_e, nsig, evfd, pc, fl, nlocal>>

ExternalSignal(x) ==
  /\ owes[x] # NULL
  /\ Signal(owes[x].to)
  /\ SignalHook(IF owes[x].hook THEN {owes[x].to} ELSE {})
  /\ owes' = [owes EXCEPT ![x] = NULL]
  /\ UNCHANGED <<queues, sig_e, nsig, fl, nlocal>>

\* Whoever holds the event's mutex cancels it.
Cancel(e) ==
  /\ Queued(e)
  /\ cancelled' = cancelled \cup {e}
  /\ UNCHANGED <<al, localQueue, fast, order, signals, pc, fl, nlocal>>

-----------------------------------------------------------------------------
(* The loop of EThread::execute                                            *)

\* The next event of the local queue is handled, moved to the timer queue, or
\* freed if cancelled.
Process(t) ==
  /\ pc[t] \in {"run", "drain"}
  /\ localQueue[t] # <<>>
  /\ localQueue' = [localQueue EXCEPT ![t] = Tail(@)]
  /\ order' = [order EXCEPT ![t] = Keep(@, Events \ {Head(localQueue[t])})]
  /\ cancelled' = cancelled \ {Head(localQueue[t])}
  /\ UNCHANGED <<al, fast, signals, pc, fl, nlocal>>

\* No local event is left: the handlers of the timer queue's events follow.
EndRun(t) ==
  /\ pc[t] = "run"
  /\ localQueue[t] = <<>>
  /\ Goto(t, "timers")
  /\ UNCHANGED <<queues, signals, fl, nlocal>>

\* No timer is due any more: with signals noted, they are flushed first.  The
\* local queue, to which the timers' handlers may have added, is not looked at.
AfterFlush(t) == IF t \in Pollers THEN "peek" ELSE "acquire"

EndTimers(t) ==
  /\ pc[t] = "timers"
  /\ Goto(t, IF nsig[t] > 0 THEN "flush" ELSE AfterFlush(t))
  /\ UNCHANGED <<queues, signals, fl, nlocal>>

\* One round of flush_signals.
FlushOne(t) ==
  /\ pc[t] = "flush"
  /\ fl[t] < nsig[t]
  /\ LET q == sig_e[t][fl[t]] IN
       /\ IF q = NULL THEN UNCHANGED <<pc, evfd>> ELSE Signal(q) /\ SignalHook({q})
       /\ sig_e' = [sig_e EXCEPT ![t][fl[t]] = NULL]
  /\ fl' = [fl EXCEPT ![t] = @ + 1]
  /\ UNCHANGED <<queues, nsig, owes, nlocal>>

\* Mutant of FlushEnd: the loop ends one slot early.
FlushEndEarly(t) ==
  /\ pc[t] = "flush"
  /\ fl[t] + 1 >= nsig[t]
  /\ nsig' = [nsig EXCEPT ![t] = 0]
  /\ fl' = [fl EXCEPT ![t] = 0]
  /\ Goto(t, AfterFlush(t))
  /\ UNCHANGED <<queues, sig_e, evfd, owes, nlocal>>

FlushEnd(t) ==
  /\ pc[t] = "flush"
  /\ fl[t] >= nsig[t]
  /\ nsig' = [nsig EXCEPT ![t] = 0]
  /\ fl' = [fl EXCEPT ![t] = 0]
  /\ Goto(t, AfterFlush(t))
  /\ UNCHANGED <<queues, sig_e, evfd, owes, nlocal>>

\* dequeue_timed with sleep: the lock is held from the test to the wait.
Acquire(t) ==
  /\ pc[t] = "acquire"
  /\ Goto(t, "locked")
  /\ UNCHANGED <<queues, signals, fl, nlocal>>

\* Mutant of Test: the list is not looked at under the lock.
TestNot(t) ==
  /\ pc[t] = "locked"
  /\ Goto(t, "empty")
  /\ UNCHANGED <<queues, signals, fl, nlocal>>

Test(t) ==
  /\ pc[t] = "locked"
  /\ Goto(t, IF al[t] = <<>> THEN "empty" ELSE "popall")
  /\ UNCHANGED <<queues, signals, fl, nlocal>>

\* The timed wait releases the lock.
Wait(t) ==
  /\ pc[t] = "empty"
  /\ Goto(t, "wait")
  /\ UNCHANGED <<queues, signals, fl, nlocal>>

\* The earliest timeout, the heartbeat, or a spurious wakeup.
Timeout(t) ==
  /\ pc[t] = "wait"
  /\ Goto(t, "popall")
  /\ UNCHANGED <<queues, signals, fl, nlocal>>

\* Mutant of Inverted: the list is taken in its own order.
NotInverted(s) == s

\* The list is inverted to have the oldest event first.
Inverted(s) == Reverse(s)

\* The rest of dequeue_timed: live events go to the local queue, cancelled
\* ones are freed.
TakeAll(t) ==
  LET gone == ToSet(al[t]) \cap cancelled
  IN  /\ localQueue' = [localQueue EXCEPT ![t] = @ \o Keep(Inverted(al[t]), Events \ cancelled)]
      /\ al' = [al EXCEPT ![t] = <<>>]
      /\ cancelled' = cancelled \ gone
      /\ fast' = fast \ ToSet(al[t])
      /\ order' = [order EXCEPT ![t] = Keep(@, Events \ gone)]

PopAll(t) ==
  /\ pc[t] = "popall"
  /\ TakeAll(t)
  /\ Goto(t, "run")
  /\ nlocal' = [nlocal EXCEPT ![t] = 0]
  /\ UNCHANGED <<signals, fl>>

\* With poll events, dequeue_timed without sleep, if the list looks non-empty.
Peek(t) ==
  /\ pc[t] = "peek"
  /\ TakeAll(t)
  /\ Goto(t, "drain")
  /\ UNCHANGED <<signals, fl, nlocal>>

\* The local events are done: the poll events run, and NetHandler waits.
EndDrain(t) ==
  /\ pc[t] = "drain"
  /\ localQueue[t] = <<>>
  /\ Goto(t, "poll")
  /\ UNCHANGED <<queues, signals, fl, nlocal>>

\* The poll returns because of the event fd, which is drained.
PollSignalled(t) ==
  /\ pc[t] = "poll"
  /\ evfd[t]
  /\ evfd' = [evfd EXCEPT ![t] = FALSE]
  /\ Goto(t, "netio")
  /\ UNCHANGED <<queues, sig_e, nsig, owes, fl, nlocal>>

\* The poll returns for another descriptor or because its time is over.
PollTimeout(t) ==
  /\ pc[t] = "poll"
  /\ ~evfd[t]
  /\ Goto(t, "netio")
  /\ UNCHANGED <<queues, signals, fl, nlocal>>

\* After the I/O callbacks: dequeue_timed again, if the list looks non-empty.
EndNetio(t) ==
  /\ pc[t] = "netio"
  /\ TakeAll(t)
  /\ Goto(t, "run")
  /\ nlocal' = [nlocal EXCEPT ![t] = 0]
  /\ UNCHANGED <<signals, fl>>

-----------------------------------------------------------------------------
Loop(t) ==
  \/ Process(t) \/ EndRun(t) \/ EndTimers(t) \/ FlushOne(t) \/ FlushEnd(t)
  \/ Acquire(t) \/ Test(t) \/ Wait(t) \/ PopAll(t)
  \/ Peek(t) \/ EndDrain(t) \/ PollSignalled(t) \/ EndNetio(t)

Next ==
  \/ \E t \in EThreads : Loop(t) \/ Timeout(t) \/ PollTimeout(t)
  \/ \E t, q \in EThreads, e \in Events, f \in BOOLEAN : Enqueue(t, q, e, f)
  \/ \E t \in EThreads, e \in Events : EnqueueLocal(t, e)
  \/ \E x \in Externals, q \in EThreads, e \in Events, f \in BOOLEAN : ExternalPush(x, q, e, f)
  \/ \E x \in Externals : ExternalSignal(x)
  \/ \E e \in Events : Cancel(e)

Spec == Init /\ [][Next]_vars

\* The scheduler runs every thread, handlers return and do not keep the local
\* queue filled for ever (MaxLocal); poll has a timeout; a thread that wants a
\* queue's lock, held only for an instant at a time, gets it in the end.  A wait
\* on the condition variable is not assumed to time out.
FairSpec ==
  /\ Spec
  /\ \A t \in EThreads : WF_vars(Loop(t)) /\ SF_vars(FlushOne(t)) /\ WF_vars(PollTimeout(t))
  /\ \A x \in Externals : SF_vars(ExternalSignal(x))

-----------------------------------------------------------------------------
(* Properties                                                              *)

\* Somebody who is not on the way to wait on a condition variable has still to
\* signal q.
Owed(q) ==
  \/ \E t \in EThreads : q \in Noted(t) /\ pc[t] \notin {"acquire", "locked", "empty", "wait"}
  \/ \E x \in Externals : owes[x] # NULL /\ owes[x].to = q

\* A thread sleeps on its condition variable while its list has an event only
\* as long as somebody is about to signal it: another thread on its way to
\* flush_signals, if need be after one poll, or a foreign thread in enqueue.
NoLostWakeup ==
  \A q \in EThreads : (pc[q] \in {"empty", "wait"} /\ al[q] # <<>>) => Owed(q)

\* Events enqueued on a thread by others reach its local queue in the order in
\* which they were enqueued; none is lost or taken twice.
InOrder ==
  \A q \in EThreads :
    Keep(localQueue[q], ToSet(order[q])) \o Reverse(al[q]) = order[q]

\* The table never overflows, however many signals handlers note before they are
\* flushed, and once it is a map every thread in it is in its own slot.
TableOK ==
  \A t \in EThreads :
    /\ nsig[t] <= N
    /\ nsig[t] = N /\ pc[t] # "flush" =>
         \A i \in EThreads : sig_e[t][i] \in {i, NULL}

\* Conversion in place: whatever threads, in any order and any of them more than
\* once, join those that t has noted, when the vector is full the map has each of
\* them in its own slot and nothing else.  For tables of up to MaxTable threads,
\* so that chains of displaced threads are longer than the table of the instance.
MaxTable == 4

DirectMapKeeps ==
  \A t \in EThreads : nsig[t] \in 1 .. N - 1 /\ pc[t] \in {"run", "timers", "drain", "netio"} =>
    \A n \in nsig[t] .. MaxTable - 1 : \A v \in [0 .. n - 1 -> 0 .. n] :
      (\A i \in 0 .. nsig[t] - 1 : v[i] = sig_e[t][i]) =>
        DirectMap([i \in 0 .. n |-> IF i < n THEN v[i] ELSE NULL], n)
          = [i \in 0 .. n |-> IF i \in Range(v) THEN i ELSE NULL]

\* The events on a thread's list are taken from it, all at once, without the help
\* of the timed wait's timeout.
Taken == \A q \in EThreads : al[q] # <<>> ~> al[q] = <<>>

\* The queue and the execute loop implement the wakeup protocol.
NonEmpty == [q \in EThreads |-> al[q] # <<>>]
Mode == [q \in EThreads |-> CASE pc[q] = "locked" -> "locked"
                              [] pc[q] = "empty" -> "decided"
                              [] pc[q] = "wait" -> "asleep"
                              [] OTHER -> "awake"]
Notes == [t \in EThreads |-> Noted(t)]
Debt == [x \in Externals |-> IF owes[x] = NULL THEN NULL ELSE owes[x].to]

Wakeup == INSTANCE WakeupProtocol WITH
  nonempty <- NonEmpty, mode <- Mode, notes <- Notes, debt <- Debt

\* Every step of the queue and of the loop is a step of the wakeup protocol:
\* the conversion of the table and its duplicate entries lose no thread.
ImplementsWakeup == Wakeup!WSpec

\* eventProcessor.h: schedule_imm_signal "also signals the thread immediately".
FastIsSignalled ==
  \A q \in Pollers, x \in Externals :
    (pc[q] = "poll" /\ owes[x] = NULL /\ ToSet(al[q]) \cap fast # {}) => evfd[q]
=============================================================================
