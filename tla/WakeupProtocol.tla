-------------------------- MODULE WakeupProtocol ---------------------------
(***************************************************************************)
(* How the event threads of iocore/eventsystem wake each other, without    *)
(* the contents of the queues: whoever makes a thread's list non-empty     *)
(* owes that thread a signal, an event thread pays what it owes before it  *)
(* sleeps, and a sleeper looks at its list under the lock that a signal    *)
(* needs.  ProtectedQueue implements this.                                 *)
(***************************************************************************)
CONSTANTS EThreads, Externals, NULL

\* What the theorems assume of the constants.
SetsOK == NULL \notin EThreads

VARIABLES
  nonempty,  \* nonempty[q]: q's list has an event
  mode,      \* mode[q]: "awake", "locked" (about to look at its list), "decided"
             \* (has found it empty, still with its lock) or "asleep"
  notes,     \* notes[t]: the threads that t still has to signal
  debt       \* debt[x]: the thread that x, which is no event thread, has to signal

wvars == <<nonempty, mode, notes, debt>>

WInit ==
  /\ nonempty = [q \in EThreads |-> FALSE]
  /\ mode = [q \in EThreads |-> "awake"]
  /\ notes = [t \in EThreads |-> {}]
  /\ debt = [x \in Externals |-> NULL]

\* The condition variable of q is signalled, under its lock.
WSignal(q) ==
  /\ mode[q] \notin {"locked", "decided"}
  /\ mode' = [mode EXCEPT ![q] = "awake"]

WPost(t, q) ==
  /\ mode[t] = "awake"
  /\ nonempty' = [nonempty EXCEPT ![q] = TRUE]
  /\ notes' = IF nonempty[q] \/ q = t THEN notes ELSE [notes EXCEPT ![t] = @ \cup {q}]
  /\ UNCHANGED <<mode, debt>>

WExternalPost(x, q) ==
  /\ debt[x] = NULL
  /\ nonempty' = [nonempty EXCEPT ![q] = TRUE]
  /\ debt' = [debt EXCEPT ![x] = IF nonempty[q] THEN NULL ELSE q]
  /\ UNCHANGED <<mode, notes>>

WExternalSignal(x) ==
  /\ debt[x] # NULL
  /\ WSignal(debt[x])
  /\ debt' = [debt EXCEPT ![x] = NULL]
  /\ UNCHANGED <<nonempty, notes>>

\* A thread noted twice is signalled twice: the note may outlast a signal.
WFlush(t, q) ==
  /\ mode[t] = "awake"
  /\ q \in notes[t]
  /\ WSignal(q)
  /\ notes' \in {notes, [notes EXCEPT ![t] = @ \ {q}]}
  /\ UNCHANGED <<nonempty, debt>>

WLock(t) ==
  /\ mode[t] = "awake"
  /\ notes[t] = {}
  /\ mode' = [mode EXCEPT ![t] = "locked"]
  /\ UNCHANGED <<nonempty, notes, debt>>

\* The list is looked at under the lock ...
WTest(t) ==
  /\ mode[t] = "locked"
  /\ mode' = [mode EXCEPT ![t] = IF nonempty[t] THEN "awake" ELSE "decided"]
  /\ UNCHANGED <<nonempty, notes, debt>>

\* ... which only the wait gives up.
WSleep(t) ==
  /\ mode[t] = "decided"
  /\ mode' = [mode EXCEPT ![t] = "asleep"]
  /\ UNCHANGED <<nonempty, notes, debt>>

WTimeout(t) ==
  /\ mode[t] = "asleep"
  /\ mode' = [mode EXCEPT ![t] = "awake"]
  /\ UNCHANGED <<nonempty, notes, debt>>

WTake(t) ==
  /\ mode[t] = "awake"
  /\ nonempty' = [nonempty EXCEPT ![t] = FALSE]
  /\ UNCHANGED <<mode, notes, debt>>

WNext ==
  \/ \E t \in EThreads : WLock(t) \/ WTest(t) \/ WSleep(t) \/ WTimeout(t) \/ WTake(t)
  \/ \E t, q \in EThreads : WPost(t, q) \/ WFlush(t, q)
  \/ \E x \in Externals : WExternalSignal(x) \/ \E q \in EThreads : WExternalPost(x, q)

WSpec == WInit /\ [][WNext]_wvars

-----------------------------------------------------------------------------
\* Every variable has its type.
WTypeOK ==
  /\ nonempty \in [EThreads -> BOOLEAN]
  /\ mode \in [EThreads -> {"awake", "locked", "decided", "asleep"}]
  /\ notes \in [EThreads -> SUBSET EThreads]
  /\ debt \in [Externals -> EThreads \cup {NULL}]

\* A thread is asleep, or past the point of no return on its way there, with an
\* event on its list only while a thread that is awake, or a foreign one, is
\* bound to signal it.
WNoLostWakeup ==
  \A q \in EThreads : (mode[q] \in {"decided", "asleep"} /\ nonempty[q]) =>
    \/ \E t \in EThreads : q \in notes[t] /\ mode[t] = "awake"
    \/ \E x \in Externals : debt[x] = q
=============================================================================
