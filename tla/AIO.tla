-------------------------------- MODULE AIO ---------------------------------
(***************************************************************************)
(* Disk I/O by threads (iocore/aio/AIO.cc, AIO_MODE_THREAD).  Each file    *)
(* descriptor has an entry in aio_reqs with two queues, a mutex, a         *)
(* condition variable and threads of its own.  A caller that does not get  *)
(* the mutex at once leaves its request on an atomic list, and signals     *)
(* nobody; the next thread that holds the mutex moves it to its queue.     *)
(*                                                                         *)
(* Entries are looked up without a lock and made under insert_mutex.       *)
(* Entry 0 serves the requests of the plugin API.                          *)
(***************************************************************************)
EXTENDS Integers, Sequences, FiniteSets, SequencesExt, Filtering

CONSTANTS
  Callers,    \* threads that issue requests
  Ops,        \* AIOCallback objects
  Fds,        \* file descriptors
  API,        \* the descriptor of entry 0
  FdOf,       \* FdOf[o]: aio_fildes, API for a request from the API
  PrioOf,     \* PrioOf[o]: aio_reqprio, 0 for http
  NThreads,   \* threads per disk
  MaxIssues,  \* bound: MaxIssues[o]: how often o is issued
  NULL

\* aio_reqs has room for more descriptors than there are; only the entries that
\* are made have threads.
Entries == 0 .. Cardinality(Fds) + 1
Workers == (0 .. Cardinality(Fds)) \X (1 .. NThreads)

ASSUME ConstantsOK ==
  /\ IsFiniteSet(Fds) /\ API \notin Fds
  /\ FdOf \in [Ops -> Fds \cup {API}]
  /\ PrioOf \in [Ops -> Nat]
  /\ NThreads \in Nat \ {0} /\ MaxIssues \in [Ops -> Nat]
  /\ NULL \notin Callers \cup Workers \cup Ops \cup Fds \cup Entries \cup {API}
  /\ Callers \cap Workers = {}

VARIABLES
  aio_reqs,       \* aio_reqs[i]: the descriptor of entry i, or NULL
  num_filedes,
  insert_mutex,   \* its holder, or NULL
  aio_mutex,      \* aio_mutex[i]: its holder, or NULL
  aio_temp_list,  \* aio_temp_list[i], newest first
  aio_todo, http_aio_todo,
  requests_queued,
  aio_req,        \* aio_req[o]: the entry o was last queued on, or NULL
  arrival,        \* arrival[i]: requests queued on i, oldest first (history)
  issues,         \* issues[o]: how often o may still be issued
  status,         \* status[o]: "idle", "issued" or "done"
  cpc, cop, ndx,  \* of a caller: where it is, its request, its index in the search
  wpc, wop        \* of a worker: where it is, its request

table == <<aio_reqs, num_filedes, insert_mutex>>
lists == <<aio_temp_list, aio_todo, http_aio_todo, arrival>>
ops == <<aio_req, issues, status>>
caller == <<cpc, cop, ndx>>
worker == <<wpc, wop>>
vars == <<table, aio_mutex, lists, requests_queued, ops, caller, worker>>

Init ==
  /\ aio_reqs = [i \in Entries |-> NULL]
  /\ num_filedes = 1
  /\ insert_mutex = NULL
  /\ aio_mutex = [i \in Entries |-> NULL]
  /\ aio_temp_list = [i \in Entries |-> <<>>]
  /\ aio_todo = [i \in Entries |-> <<>>]
  /\ http_aio_todo = [i \in Entries |-> <<>>]
  /\ requests_queued = [i \in Entries |-> 0]
  /\ aio_req = [o \in Ops |-> NULL]
  /\ arrival = [i \in Entries |-> <<>>]
  /\ issues = MaxIssues
  /\ status = [o \in Ops |-> "idle"]
  /\ cpc = [c \in Callers |-> "idle"]
  /\ cop = [c \in Callers |-> NULL]
  /\ ndx = [c \in Callers |-> 0]
  /\ wpc = [w \in Workers |-> "off"]
  /\ wop = [w \in Workers |-> NULL]

CGoto(c, l) == cpc' = [cpc EXCEPT ![c] = l]
WGoto(w, l) == wpc' = [wpc EXCEPT ![w] = l]

Fd(c) == FdOf[cop[c]]
Entry(c) == aio_req[cop[c]]

-----------------------------------------------------------------------------
(* The queues of an entry                                                  *)

\* Mutant of InsertSorted: a request goes last.
InsertSortedLast(q, o) == Append(q, o)

\* aio_insert walks from the tail to a request of no lower priority.
InsertSorted(q, o) ==
  LET k == CHOOSE k \in 0 .. Len(q) :
             /\ k = 0 \/ PrioOf[q[k]] >= PrioOf[o]
             /\ \A j \in k + 1 .. Len(q) : PrioOf[q[j]] < PrioOf[o]
  IN  InsertAt(q, k + 1, o)

\* aio_insert: requests of the lowest priority have a queue of their own.
aio_insert(q, o) ==
  IF PrioOf[o] = 0 THEN [q EXCEPT !.http = Append(@, o)]
                   ELSE [q EXCEPT !.todo = InsertSorted(@, o)]

\* Mutant of Flip: the list is taken as it is.
NotFlipped(s) == s

\* aio_move flips the list, which has the newest request first.
Flip(s) == Reverse(s)

\* The loop of aio_move over the flipped list s, request by request.
Moved(q, s) ==
  LET m[k \in 0 .. Len(s)] == IF k = 0 THEN q ELSE aio_insert(m[k - 1], s[k])
  IN  m

\* Both queues of entry i after aio_move.
aio_move(i) ==
  LET s == Flip(aio_temp_list[i])
  IN  Moved([todo |-> aio_todo[i], http |-> http_aio_todo[i]], s)[Len(s)]

SetQueues(i, q) ==
  /\ aio_temp_list' = [aio_temp_list EXCEPT ![i] = <<>>]
  /\ aio_todo' = [aio_todo EXCEPT ![i] = q.todo]
  /\ http_aio_todo' = [http_aio_todo EXCEPT ![i] = q.http]

-----------------------------------------------------------------------------
(* aio_queue_req                                                           *)

\* ink_aio_read, ink_aio_write.  A request that was queued before knows its
\* entry.
Issue(c, o) ==
  /\ cpc[c] = "idle"
  /\ status[o] = "idle" /\ issues[o] > 0
  /\ issues' = [issues EXCEPT ![o] = @ - 1]
  /\ status' = [status EXCEPT ![o] = "issued"]
  /\ cop' = [cop EXCEPT ![c] = o]
  /\ ndx' = [ndx EXCEPT ![c] = 1]
  /\ CGoto(c, IF aio_req[o] # NULL THEN "count"
              ELSE IF FdOf[o] = API THEN "insert" ELSE "search")
  /\ UNCHANGED <<table, aio_mutex, lists, requests_queued, aio_req, worker>>

Found(c, i) ==
  /\ aio_req' = [aio_req EXCEPT ![cop[c]] = i]
  /\ CGoto(c, "count")

\* One round of the search, which takes no lock.
Search(c) ==
  /\ cpc[c] = "search"
  /\ \/ /\ ndx[c] < num_filedes
        /\ aio_reqs[ndx[c]] = Fd(c)
        /\ Found(c, ndx[c])
        /\ UNCHANGED ndx
     \/ /\ ndx[c] < num_filedes
        /\ aio_reqs[ndx[c]] # Fd(c)
        /\ ndx' = [ndx EXCEPT ![c] = @ + 1]
        /\ UNCHANGED <<aio_req, cpc>>
     \/ /\ ndx[c] >= num_filedes
        /\ CGoto(c, "insert")
        /\ UNCHANGED <<aio_req, ndx>>
  /\ UNCHANGED <<table, aio_mutex, lists, requests_queued, issues, status, cop, worker>>

InsertLock(c) ==
  /\ cpc[c] = "insert"
  /\ insert_mutex = NULL
  /\ insert_mutex' = c
  /\ CGoto(c, "recheck")
  /\ UNCHANGED <<aio_reqs, num_filedes, aio_mutex, lists, requests_queued, ops, cop, ndx, worker>>

\* Mutant of Matches: what was inserted since the search is not looked at.
MatchesNone(c) == {}

\* The entries that the second look, under insert_mutex, finds.  It looks only
\* if the table has grown since the search.
Matches(c) ==
  IF Fd(c) = API THEN {i \in {0} : aio_reqs[0] # NULL}
  ELSE IF ndx[c] = num_filedes THEN {}
  ELSE {i \in 1 .. num_filedes - 1 : aio_reqs[i] = Fd(c)}

Recheck(c) ==
  /\ cpc[c] = "recheck"
  /\ IF Matches(c) = {}
     THEN CGoto(c, "create") /\ UNCHANGED <<insert_mutex, aio_req>>
     ELSE /\ \E i \in Matches(c) : Found(c, i)
          /\ insert_mutex' = NULL
  /\ UNCHANGED <<aio_reqs, num_filedes, aio_mutex, lists, requests_queued, issues, status,
                 cop, ndx, worker>>

\* aio_init_fildes: the entry is filled in and its threads are spawned ...
Create(c) ==
  /\ cpc[c] = "create"
  /\ LET i == IF Fd(c) = API THEN 0 ELSE num_filedes IN
       /\ aio_reqs' = [aio_reqs EXCEPT ![i] = Fd(c)]
       /\ wpc' = [w \in Workers |-> IF w[1] = i THEN "relock" ELSE wpc[w]]
       /\ aio_req' = [aio_req EXCEPT ![cop[c]] = i]
  /\ CGoto(c, "publish")
  /\ UNCHANGED <<num_filedes, insert_mutex, aio_mutex, lists, requests_queued, issues, status,
                 cop, ndx, wop>>

\* ... before num_filedes lets others see it.
Publish(c) ==
  /\ cpc[c] = "publish"
  /\ num_filedes' = IF Fd(c) = API THEN num_filedes ELSE num_filedes + 1
  /\ insert_mutex' = NULL
  /\ CGoto(c, "count")
  /\ UNCHANGED <<aio_reqs, aio_mutex, lists, requests_queued, ops, cop, ndx, worker>>

Count(c) ==
  /\ cpc[c] = "count"
  /\ requests_queued' = [requests_queued EXCEPT ![Entry(c)] = @ + 1]
  /\ CGoto(c, "try")
  /\ UNCHANGED <<table, aio_mutex, lists, ops, cop, ndx, worker>>

TryLock(c) ==
  /\ cpc[c] = "try"
  /\ IF aio_mutex[Entry(c)] # NULL
     THEN CGoto(c, "push") /\ UNCHANGED aio_mutex
     ELSE CGoto(c, "fill") /\ aio_mutex' = [aio_mutex EXCEPT ![Entry(c)] = c]
  /\ UNCHANGED <<table, lists, requests_queued, ops, cop, ndx, worker>>

CallerDone(c) ==
  /\ CGoto(c, "idle")
  /\ cop' = [cop EXCEPT ![c] = NULL]
  /\ ndx' = [ndx EXCEPT ![c] = 0]

PushTemp(c) ==
  /\ cpc[c] = "push"
  /\ aio_temp_list' = [aio_temp_list EXCEPT ![Entry(c)] = <<cop[c]>> \o @]
  /\ arrival' = [arrival EXCEPT ![Entry(c)] = Append(@, cop[c])]
  /\ CallerDone(c)
  /\ UNCHANGED <<table, aio_mutex, aio_todo, http_aio_todo, requests_queued, ops, worker>>

\* What is on the atomic list goes first.
Fill(c) ==
  /\ cpc[c] = "fill"
  /\ SetQueues(Entry(c), aio_insert(aio_move(Entry(c)), cop[c]))
  /\ arrival' = [arrival EXCEPT ![Entry(c)] = Append(@, cop[c])]
  /\ CGoto(c, "signal")
  /\ UNCHANGED <<table, aio_mutex, requests_queued, ops, cop, ndx, worker>>

\* Mutant of Wakeable: threads that wait are not told.
WakeableNone(i) == {}

\* The threads of entry i that ink_cond_signal can wake.
Wakeable(i) == {w \in Workers : w[1] = i /\ wpc[w] = "wait"}

\* One waiting thread, if there is one, is woken; the mutex is released.
Signal(c) ==
  /\ cpc[c] = "signal"
  /\ IF Wakeable(Entry(c)) = {} THEN UNCHANGED wpc
     ELSE \E w \in Wakeable(Entry(c)) : WGoto(w, "relock")
  /\ aio_mutex' = [aio_mutex EXCEPT ![Entry(c)] = NULL]
  /\ CallerDone(c)
  /\ UNCHANGED <<table, lists, requests_queued, ops, wop>>

-----------------------------------------------------------------------------
(* aio_thread_main                                                         *)

\* The mutex is acquired: at the start, after a request, after a wait.
Relock(w) ==
  /\ wpc[w] = "relock"
  /\ aio_mutex[w[1]] = NULL
  /\ aio_mutex' = [aio_mutex EXCEPT ![w[1]] = w]
  /\ WGoto(w, "check")
  /\ UNCHANGED <<table, lists, requests_queued, ops, caller, wop>>

\* Mutant of Check: the atomic list is left to the callers.
CheckQueuesOnly(w) ==
  /\ wpc[w] = "check"
  /\ LET i == w[1]
         q == [todo |-> aio_todo[i], http |-> http_aio_todo[i]]
     IN  IF q.todo = <<>> /\ q.http = <<>>
         THEN /\ WGoto(w, "empty")
              /\ UNCHANGED <<lists, aio_mutex, wop>>
         ELSE LET f == IF q.todo # <<>> THEN "todo" ELSE "http"
                  o == Head(q[f])
              IN  /\ aio_todo' = [aio_todo EXCEPT ![i] = Keep(@, Ops \ {o})]
                  /\ http_aio_todo' = [http_aio_todo EXCEPT ![i] = Keep(@, Ops \ {o})]
                  /\ arrival' = [arrival EXCEPT ![i] = Keep(@, Ops \ {o})]
                  /\ wop' = [wop EXCEPT ![w] = o]
                  /\ aio_mutex' = [aio_mutex EXCEPT ![i] = NULL]
                  /\ WGoto(w, "io")
                  /\ UNCHANGED aio_temp_list
  /\ UNCHANGED <<table, requests_queued, ops, caller>>

\* The atomic list is emptied, and a request taken: http requests come last.
Check(w) ==
  /\ wpc[w] = "check"
  /\ LET i == w[1]
         q == aio_move(i)
     IN  IF q.todo = <<>> /\ q.http = <<>>
         THEN /\ WGoto(w, "empty")
              /\ UNCHANGED <<lists, aio_mutex, wop>>
         ELSE LET f == IF q.todo # <<>> THEN "todo" ELSE "http"
                  o == Head(q[f])
              IN  /\ SetQueues(i, [q EXCEPT ![f] = Tail(@)])
                  /\ arrival' = [arrival EXCEPT ![i] = Keep(@, Ops \ {o})]
                  /\ wop' = [wop EXCEPT ![w] = o]
                  /\ aio_mutex' = [aio_mutex EXCEPT ![i] = NULL]
                  /\ WGoto(w, "io")
  /\ UNCHANGED <<table, requests_queued, ops, caller>>

\* cache_op, which may fail: either way the request is over.
CacheOp(w) ==
  /\ wpc[w] = "io"
  /\ requests_queued' = [requests_queued EXCEPT ![w[1]] = @ - 1]
  /\ WGoto(w, "call")
  /\ UNCHANGED <<table, aio_mutex, lists, ops, caller, wop>>

\* The continuation is called back, here or by an event thread.
CallBack(w) ==
  /\ wpc[w] = "call"
  /\ status' = [status EXCEPT ![wop[w]] = "done"]
  /\ wop' = [wop EXCEPT ![w] = NULL]
  /\ WGoto(w, "relock")
  /\ UNCHANGED <<table, aio_mutex, lists, requests_queued, aio_req, issues, caller>>

\* Nothing to do: the timed wait releases the mutex.
Wait(w) ==
  /\ wpc[w] = "empty"
  /\ aio_mutex' = [aio_mutex EXCEPT ![w[1]] = NULL]
  /\ WGoto(w, "wait")
  /\ UNCHANGED <<table, lists, requests_queued, ops, caller, wop>>

Timeout(w) ==
  /\ wpc[w] = "wait"
  /\ WGoto(w, "relock")
  /\ UNCHANGED <<table, aio_mutex, lists, requests_queued, ops, caller, wop>>

\* The owner of a finished request may use it again.
Reuse(o) ==
  /\ status[o] = "done" /\ issues[o] > 0
  /\ status' = [status EXCEPT ![o] = "idle"]
  /\ UNCHANGED <<table, aio_mutex, lists, requests_queued, aio_req, issues, caller, worker>>

-----------------------------------------------------------------------------
CallerStep(c) ==
  \/ Search(c) \/ InsertLock(c) \/ Recheck(c) \/ Create(c) \/ Publish(c)
  \/ Count(c) \/ TryLock(c) \/ PushTemp(c) \/ Fill(c) \/ Signal(c)

WorkerStep(w) == Relock(w) \/ Check(w) \/ CacheOp(w) \/ CallBack(w) \/ Wait(w) \/ Timeout(w)

Next ==
  \/ \E c \in Callers, o \in Ops : Issue(c, o)
  \/ \E c \in Callers : CallerStep(c)
  \/ \E w \in Workers : WorkerStep(w)
  \/ \E o \in Ops : Reuse(o)

Spec == Init /\ [][Next]_vars

\* Threads run; a mutex that is released again and again is got in the end;
\* ink_cond_timedwait returns when its time is over.
FairSpec ==
  /\ Spec
  /\ \A c \in Callers : WF_vars(CallerStep(c)) /\ SF_vars(InsertLock(c))
  /\ \A w \in Workers : WF_vars(WorkerStep(w)) /\ SF_vars(Relock(w))

-----------------------------------------------------------------------------
(* Properties                                                              *)

\* Every variable has its type.
TypeOK ==
  /\ aio_reqs \in [Entries -> Fds \cup {API, NULL}]
  /\ num_filedes \in 1 .. Cardinality(Fds) + 1
  /\ insert_mutex \in Callers \cup {NULL}
  /\ aio_mutex \in [Entries -> Callers \cup Workers \cup {NULL}]
  /\ {aio_temp_list, aio_todo, http_aio_todo, arrival} \subseteq [Entries -> Seq(Ops)]
  /\ requests_queued \in [Entries -> Int]
  /\ aio_req \in [Ops -> Entries \cup {NULL}]
  /\ issues \in [Ops -> Nat]
  /\ status \in [Ops -> {"idle", "issued", "done"}]
  /\ cpc \in [Callers -> {"idle", "search", "insert", "recheck", "create", "publish",
                          "count", "try", "push", "fill", "signal"}]
  /\ cop \in [Callers -> Ops \cup {NULL}]
  /\ ndx \in [Callers -> 0 .. Cardinality(Fds) + 1]
  /\ wpc \in [Workers -> {"off", "relock", "check", "io", "call", "empty", "wait"}]
  /\ wop \in [Workers -> Ops \cup {NULL}]

\* No descriptor gets two entries, however the unlocked searches and the
\* insertions interleave, and a request is on the entry of its descriptor.
OneEntryPerFd ==
  /\ \A i, j \in Entries : i # j /\ aio_reqs[i] # NULL => aio_reqs[i] # aio_reqs[j]
  /\ \A o \in Ops : aio_req[o] # NULL => aio_reqs[aio_req[o]] = FdOf[o]

OfPrio(p) == {o \in Ops : PrioOf[o] = p}

\* Within each priority, requests are waiting in the order in which they were
\* queued, whichever way each of them went; none is lost or there twice.
Fifo ==
  \A i \in Entries, p \in {PrioOf[o] : o \in Ops} :
    Keep(aio_todo[i] \o http_aio_todo[i] \o Reverse(aio_temp_list[i]), OfPrio(p))
      = Keep(arrival[i], OfPrio(p))

\* The highest priority is first in the queue.
Sorted ==
  \A i \in Entries : \A j, k \in DOMAIN aio_todo[i] :
    j < k => PrioOf[aio_todo[i][j]] >= PrioOf[aio_todo[i][k]]

\* The threads of an entry do not all wait while its queues have a request,
\* unless the one who put it there is about to signal.
NoneLeftWaiting ==
  \A i \in Entries :
    aio_todo[i] \o http_aio_todo[i] # <<>> =>
      \/ \E w \in Workers : w[1] = i /\ wpc[w] \notin {"off", "wait"}
      \/ \E c \in Callers : cpc[c] = "signal" /\ Entry(c) = i

\* Every request is finished, even one left on the atomic list of a disk all of
\* whose threads have gone to sleep.
Served == \A o \in Ops : status[o] = "issued" ~> status[o] = "done"
=============================================================================
