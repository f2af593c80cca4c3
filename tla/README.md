# TLA+ models of the Traffic Server core

This directory models the core of the caching proxy in this repository: the
event system on which every other part runs, the lock-free list and the lock it
is built from, the disk I/O queues, the hand-over of connections to the net
threads, and what the cache keeps on disk across crashes. The modules are checked
by TLC on small instances; their safety properties are also proved by TLAPS, for every
number of threads, events, requests, connections, pieces of a directory and documents of
a log.

`PROJECT.json` is the index: the components, the runs, the source lines behind
each definition (`map`), for each property a mutated definition that breaks it
(`mutants`), the hazards, the disagreements between comments and code
(`findings`), and the theorems.

    tlc -workers 2 -config MCAIO.cfg MCAIO     # a run: module and cfg as in "runs"
    tlapm InkAtomicListProofs.tla              # the proofs of a module

## 1. Inventory

The server is one process of many threads (`proxy/`, `iocore/`), with a manager
(`mgmt/`) and a watchdog (`cmd/traffic_cop`) beside it. Everything in the process
is a state machine (`Continuation`) with a `ProxyMutex`, called back by events
that an `EThread` takes from its queues.

| part | state | operations | talks to |
|---|---|---|---|
| `InkAtomicList` (`lib/ts/ink_queue.cc`) | head (pointer, version), links in the items | push, pop, popall, remove | every queue between threads |
| `InkFreeList`, allocators (`ink_queue.cc`, `Allocator.h`, `I_ProxyAllocator.h`) | global free list, one short list per thread | alloc, free, thread_alloc, thread_free | all objects |
| `ProxyMutex` (`I_Lock.h`) | pthread mutex, `thread_holding`, `nthread_holding` | lock, trylock, spin, unlock | all continuations |
| `ProtectedQueue` | atomic list, local queue, lock, condition variable, and per thread `ethreads_to_be_signalled` | enqueue, enqueue_local, dequeue_timed, dequeue_local, signal, flush_signals | producers on all threads, one consumer |
| `PriorityEventQueue` | 10 lists by time to go, `last_check_time` | enqueue, remove, check_ready, dequeue_ready, earliest_timeout | its EThread |
| `Event`, `EThread` | flags, time, period, cancelled; the loop `execute` | schedule_*, cancel, process_event, free | state machines, the queues |
| `EventProcessor` | threads by type, round robin | spawn, schedule, assign | EThreads |
| disk I/O (`iocore/aio`) | table of descriptors; per descriptor two queues, an atomic list, lock, condition variable, threads | aio_read, aio_write, aio_thread_main | cache; plugin API |
| net (`iocore/net`) | per thread the NetHandler: epoll, ready and enable lists, cop list | accept, connect, read/write, reenable, close | EThread (a poll event, the event fd), state machines |
| cache (`iocore/cache`) | per volume: directory with header and footer, two copies on disk, aggregation buffer, OpenDir, write position and phase | lookup, open read/write, aggregate, sync, recover | aio, HostDB, HTTP |
| RAM cache | hash, LRU or CLFUS lists, byte counts, ghost entries | get, put, fixup | cache |
| HostDB, MultiCache | host entries, pending lookups per partition | getbyname, set, sync | DNS, HTTP |
| DNS | outstanding entries, name servers, retries, down marks | query, answer, timeout, failover | HostDB, net (UDP) |
| cluster | machines, channels, locks of channel lists | remote open, send, receive | cache |
| HTTP (`proxy/http`) | HttpSM, tunnels, server session pool | transaction states | net, cache, DNS |
| logging | LogBuffer with a packed checkout state, flush list | checkout_write, checkin_write, preproc, flush | every transaction |
| plugin API, PluginVC, transforms | two-sided virtual connections with one lock | reenable, shutdown, process_* | HTTP |
| manager, records, watchdog | config versions (Rollback), supervised processes, record table | update, roll back, restart, heartbeat | everything |

What is hard here, and where:

- **interleavings without locks**: the list and its version field; the unlocked
  read of `thread_holding`; the unlocked search of the aio table; the peek at an
  atomic list before a wait;
- **wakeups**: an event thread puts its signals off until it is idle; a caller of
  aio that misses the lock signals nobody at all; both rest on somebody else
  looking again; a connection enabled on another thread has to end the poll of its
  net thread;
- **lifetime**: events are freed in six places, some with their flags still set,
  into two kinds of free lists that treat the old contents differently; an event
  can be cancelled from another thread, or rescheduled from inside its own handler,
  while `process_event` still has it in hand;
- **time**: the timer queue looks at an event again only when certain bits of the
  clock change;
- **crash and recovery**: the cache directory (two copies, serial numbers in header
  and footer, a scan of the data written after the last sync, writes that end half
  way), MultiCache sync, Rollback;
- **late and repeated answers**: DNS retries and failover, HostDB's pending lookups;
- **everyone behind one queue**: bounded tables (`ethreads_to_be_signalled`), log
  buffers, server session pools.

Which properties make the modelled parts correct is section 3; what would make the
others correct is part of the plan, section 6.

## 2. Modules

| module | models | state and actions against the code |
|---|---|---|
| `InkAtomicList` | `ink_atomiclist_*` | `head`, `next`, per-thread locals as variables; one action per access to shared memory (`PopLoad`, `PopNext`, `PopCas`, ...). `owner`, `lst` and `age` are history. `Scribble`: whoever owns an item writes into its link while others still read it |
| `AtomicStack` | what the list promises | atomic push, pop, popall, remove |
| `WakeupProtocol` | how threads wake each other, abstractly | non-empty lists, who is asleep, who owes whom a signal |
| `ProtectedQueue` | `ProtectedQueue.cc`, the sleeping half of `EThread::execute`, the event fd of a net thread | `Enqueue` is the whole of `enqueue` on an event thread, with the conversion of the table of threads to signal; a foreign thread's is `ExternalPush`, `ExternalSignal`, since its signal waits for a lock. The handlers of timers run between the local queue and the sleep (`EndRun`, `EndTimers`). `dequeue_timed` is `Acquire`, `Test`, `Wait`, `PopAll` (or `Peek` without sleep) |
| `PriorityEventQueue` | `PQ-List.cc`, `I_PriorityEventQueue.h` and the loop that drives them | events have a time and a list number; `CheckReady` and `Earliest` are the bit comparisons; time is a natural number and advances between rounds and after handlers |
| `EventLifecycle` | scheduling, `process_event`, release and reuse of events | one EThread, the flags of each event, where it was put last (`place`) and what the links of `NegativeQueue` reach; behaviours end when the loop would go on with an event that is on two queues (`Tangled`); the mutex of the state machine is shared with other threads |
| `ProxyMutex` | `Mutex_lock`, `Mutex_trylock`, `Mutex_trylock_spin`, `Mutex_unlock` | one action per access to the three fields |
| `RecursiveLock` | what the mutex promises | atomic take and give of a recursive lock |
| `CacheDirSync` | `CacheSync::mainEvent`, `sync_cache_dir_on_shutdown`, `Vol::clear_dir`, `handle_header_read`, `handle_dir_read`, the rewrite at the end of `handle_recover_from_data` | one volume; a copy is a header, body pieces and a footer, each stamped with the snapshot and the serial it was written from. One action per write that reaches the disk, one per event of `CacheSync`; a write may fail, a crash may leave a body piece torn. `exposed` is history: a fault whose consequences the code does not mend |
| `DirStore` | what the two copies promise | one durable directory, replaced in a single step |
| `CacheRecovery` | `aggWrite`, `aggWriteDone`, `agg_wrap`, `dir_valid`, `dir_clean_vol`, `handle_recover_from_data`, `dir_clear_range` | the log of documents in blocks, the directory as a set of entries, the copy on disk as `DirStore` promises it; the scan buffer by buffer (`Read`, `Check`, `ExamineNext`, ...) and `Ldone`, `Lclear` as in the code's labels |
| `NetEnable` | `NetHandler::mainNetEvent`, `process_enabled_list`, `reenable`, `do_io_close`, `close_UnixNetVConnection`, `InactivityCop` | the read side of the connections of one net thread; the mutex of a VIO and that of the NetHandler; epoll's edges, the event fd; the store to `in_enabled_list` and the load of `enabled` as two steps in either order |
| `AIO` | `aio_queue_req`, `aio_init_fildes`, `aio_insert`, `aio_move`, `aio_thread_main`, `cache_op` | callers and threads step between locks; the two queues as sequences |
| `Filtering` | the part of a sequence that is in a set | as `SelectSeq`, by a recursive function |
| `Lemmas` | facts about numbers, sequences and `Filtering` that several proofs use | |
| `*Proofs` | the theorems about the modules they extend | |
| `MC*` | values of the constants for TLC | |

`ProtectedQueue` takes the atomic list as atomic, which `InkAtomicList` justifies
(the list's refinement of `AtomicStack` is proved). `EventLifecycle` leaves the order
of the queues to `ProtectedQueue` and the times to `PriorityEventQueue`, and takes the
mutex as atomic, which `ProxyMutex` justifies. `CacheRecovery` takes the directory on
disk as what `CacheDirSync` is proved to implement, and `CacheDirSync` takes from
`CacheRecovery` only the outcomes of the scan (nothing to do, clear, rewrite with a serial
above the one read). `NetEnable` takes the enable list as atomic.

A definition called a "Mutant of" another is a plausible wrong version of it, kept to
show that a property can fail; no specification uses it.

## 3. Runs

Every property a run checks is also shown to fail for a mutant under the same bounds.

| run | instance | shows |
|---|---|---|
| `atomic_list` | 3 threads push, 2 of them pop and popall, 3 items, versions modulo 3 | `ChainIsList`, `NoStaleCas`, refinement of `AtomicStack`. ABA needs two poppers and three items: a head, its successor and one that changes places; without the version bump the run fails. Nobody removes here; removal is in the proofs of the same properties |
| `atomic_list_remove` | one thread pops and removes, one pushes, 3 items | remove from the middle while pushes go on: `RemoveFinds` (the chain and the refinement, removal included, are proved) |
| `protected_queue` | a net thread, a thread on its condition variable that also schedules locally, a foreign producer, 2 events | the two ways to sleep: `NoLostWakeup`, `InOrder`, refinement of `WakeupProtocol`, and `Taken`: events are taken from the list although no timed wait is assumed to time out. `TableOK` (no more entries than there are threads, and each in its own slot once it is full) and `DirectMapKeeps` are about the table of threads to signal; the second is about the conversion from vector to map for every vector that goes on from what a thread has noted, in tables of up to four threads, with chains of displaced ones |
| `timer_queue` | 2 events, 4 lists, ticks of 2 units, rounds of up to 8 units, delays up to 18, 40 units of time | `NotOverdue`, `NotEarly`, `OversleepBounded`. The delays reach beyond the last list, the time goes through every bit pattern of the compared bits more than once, a round may be as long as half the period of the highest compared bit. A longer round (1.28 s in the real queue) breaks `NotOverdue`: an event is then looked at one round late |
| `event_lifecycle` | 2 events, a thread free list of one, one other thread | `FlagsTell`, `TangledByReschedule`, `RecycledClean`, `NoDangling`, `NoCallAfterCancel`, and under fairness `Called`, `Reclaimed`. Two events and a free list of one reach both sides of `EVENT_FREE`; the safety properties are proved for any number |
| `proxy_mutex` | 3 threads, nesting 2, spin count 2 | exclusion, the unlocked read, refinement of `RecursiveLock` |
| `aio` | 2 callers, a disk with one thread, two requests of one priority, one of a higher one and one of http that is issued twice | order within a priority (`Fifo`), `Sorted`, `NoneLeftWaiting`; `OneEntryPerFd` for unlocked searches against insertions (both callers find no entry); `Served`: every request is finished, also one left on the atomic list |
| `cache_sync` | 2 body pieces, 2 syncs, 2 crashes, a shutdown, a failed write, a clear, documents one serial ahead | `GoodCopyKept`, refinement of `DirStore`, `WaitingSyncBegins`. Two syncs write both copies, and after a recovery a third and fourth directory is written over them; two body pieces tell a torn copy from one that lacks its end. Both safety properties are proved for all bounds |
| `cache_sync_clear` | 3 syncs, a clear, 2 crashes | fails: see Findings |
| `cache_recover` | 10 blocks of data, aggregation writes of up to 2 blocks, the log half full to begin with, 4 more writes, 2 syncs, 2 crashes, a write that fails after any of its blocks | `EntriesIntact`, `ScanEnds`. The log wraps, is cut anywhere in a write, and is scanned from before and from behind the wrap; documents of 2 blocks reach over the end of a buffer of 4. `EntriesIntact` is proved for all bounds |
| `cache_recover_round` | the same volume with one more write and one crash | fails: see Findings |
| `net_enable` | 2 connections, 2 other threads, 4 operations, 2 arrivals, 2 connections opened | `NoLostEnable`, `FreedIsGone`, `NoStall`, `Served`, `Freed`. One thread may enable a connection while the net thread has it in hand, close it, and have its memory used again; the safety properties are proved for all bounds |

Bounds are named in the modules: `MaxLocal` (local scheduling per round), `MaxDelay`,
`MaxStep`, `MaxTime` (timer queue), `MaxSpin`, `MaxDepth` (mutex), `MaxIssues` (reuse of
a request), `MaxSyncs`, `MaxCrashes`, `MaxStops`, `MaxErrors`, `MaxClears`, `MaxSkip`,
`MaxLogWrites`, `MaxLogSyncs`, `MaxLogCrashes`, `MaxLogErrors` (cache), `MaxOps`, `MaxArrivals`, `MaxOpens` (net). `CHECK_DEADLOCK` is off
for the timer queue, where time ends at `MaxTime`, and for the recovery, where the log
ends at `MaxLogWrites`. Symmetry is used only in runs without liveness properties.

Fairness, and why the code has it:

- `ProtectedQueue!FairSpec`: threads run their loops (weak fairness of `Loop`), `epoll`
  has a timeout, and a thread that needs a queue's lock gets it although the owner takes
  it again and again (strong fairness): the owner holds it for an instant per round. The
  timeout of the condition variable is *not* assumed, so `Taken` does not hide a lost
  wakeup behind the 60 ms heartbeat. A handler that schedules itself with
  `schedule_imm_local` for ever would keep the loop away from the external list; the code
  does nothing against it, `MaxLocal` rules it out.
- `EventLifecycle!FairSpec`: the loop comes back to every event, handlers return, other
  threads release the mutex, and of infinitely many tries to lock it not every one fails.
  `process_event` only tries, 10 ms apart; that a try succeeds in the end is an assumption
  on the other threads.
- `AIO!FairSpec`: threads run, mutexes are got in the end, and `ink_cond_timedwait` returns
  when its time is over. The last one is needed: a request put on the atomic list while the
  disk's threads are about to sleep is found only by the timeout.
- `CacheDirSync!FairSpec`: an aggregation write that is due is issued and completes; both
  are events of the AIO threads. Nothing is assumed of `CacheSync`, which while it waits has
  no trigger of its own.
- `CacheRecovery!LogFairSpec`: the reads of a recovery complete and their handler is called.
- `NetEnable!FairSpec`: the net thread's loop runs, a thread that has begun an operation
  ends it and releases the mutex, and the InactivityCop, which only tries a connection's
  mutex once a second, gets it now and then (strong fairness).

### Findings

Two runs fail, because a comment promises more than the code does.

- `cache_sync_clear`: `Cache.cc:1335` says of clearing a volume that "We don't need to clear
  the whole of directory B". Only B's header is written; its footer keeps the serial of the
  last sync, and the serials start again at 0. When a later sync gets that serial, header and
  footer of B match from the first write on, and a crash before the body is written makes the
  restart load a header of one directory with the body of another.
- `cache_recover_round`: `Cache.cc:1399` says that all entries that point to the region that
  may be inconsistent are removed. If the log has come round to within `EVACUATION_SIZE`
  before the position the scan started from, `recover_pos` is moved past `write_pos` and
  only the entries in between are cleared; entries behind, whose documents were written over
  in this lap, stay and are valid. Two rarer forms take more writes: the scan, in its second
  lap, reads over the position it started from and goes on behind it; or the first document at
  the start of the volume is an old one, so that `recover_pos` falls back to `skip + len -
  EVACUATION_SIZE` (`Cache.cc:1506`), which happens to be `write_pos`, and `Ldone`
  (`Cache.cc:1610`) concludes that there is nothing to clear. The proof of `EntriesIntact`
  showed two more. A document of an earlier life of the volume, left between the last
  document and the end, may have the sync serial the scan expects and a higher write serial;
  the new document at the start of the volume is then refused as old (`Cache.cc:1503`), and
  the entries behind the first blocks stay. And if `start` is less than `EVACUATION_SIZE`,
  `recover_pos -= skip + len` may come out at or behind `write_pos`, so that only what lies
  between is cleared. The history variable `misled` marks the five, and is a little wider
  than they are: it is set by every read of the second lap whose buffer reaches over
  `last_write_pos`, also if the scan then stops before it, and by every `Ldone` that finds
  nothing to clear; and it stays set until the volume is cleared. `EntriesIntact` says, and is
  proved to hold, that the region is right otherwise. `MCCacheRecoveryLong.cfg` (by hand,
  a minute or two) checks it with more writes on a larger volume.

Four more disagreements have a cfg of their own, to be run by hand; each ends with a
counterexample:

- `MCProtectedQueueFast.cfg` (`FastIsSignalled`): `eventProcessor.h:124` says
  `schedule_imm_signal` "also signals the thread immediately". `enqueue`
  (`ProtectedQueue.cc:55`) looks at `fast_signal` only if the list was empty before; behind an
  event that was scheduled without it, the net thread stays in its poll until the poll's
  timeout.
- `MCPriorityEventQueueSleep.cfg` (`SleepsUntilEventTime`): `UnixEThread.cc:170` says the
  loop sleeps "until the event time". `earliest_timeout` answers with half the period of the
  first list in use, which may be later; `OversleepBounded` says by how much.
- `MCNetEnableEarly.cfg` (`EveryEnableIsSeen`): `process_enabled_list` clears
  `in_enabled_list` and then tests `enabled`, with nothing that orders the two. If the load
  is done first, a thread that enables in between sees the flag still set and does not push:
  the connection is overlooked until its next enable or edge. `NoLostEnable` and `Served`
  leave out exactly the connections this happened to (`missed`).

- `MCEventLifecyclePoll.cfg` (`OneQueue`): `process_event` begins with
  `ink_assert((!e->in_the_prot_queue && !e->in_the_priority_queue))` (`UnixEThread.cc:130`),
  also for the events of `NegativeQueue`. `Event::schedule_*` (`UnixEvent.cc:6`) take an event
  off the queue its flags name, and no flag names `NegativeQueue`. The rules of `event.h:86`
  (same thread, lock held) let a handler reschedule an event of its state machine that waits
  there; the event is then on the local queue as well, through the one link it has for both.
  `TangledByReschedule` says that nothing else puts an event on two queues.

Read along the way, in the cache:

- A failed write of a sync leaves `dir_sync_in_progress` set and the serial bumped. The next
  sync takes the next serial and so writes over the one good copy.
- The sync at shutdown does not wait for a periodic write under way; the two write the same
  copy, and the result may be accepted and mixed. Both are `exposed` in `CacheDirSync`.
- Nor does it need a write under way: if the periodic sync's footer has landed but its last
  event has not come (`dir_sync_in_progress` is still set, `CacheDir.cc:1080`, `1137`, `1223`),
  the shutdown keeps the serial and writes over the newest complete copy in place. Nothing has
  failed, and a crash before it is done leaves a mixed copy that is accepted. `StaleFooter` sets
  `exposed` here too.
- The recovery scan compares a serial with `last_write_serial` where it means the sync
  serial, and `max_sync_serial` is a local variable that starts again with each read. If the
  volume holds documents of one sync serial all round, the scan does not end (`ScanEnds`
  leaves that out by `CameRound`).
- `dir_clear_range` for a range over the end is called with the parts swapped, so it clears
  everything outside the range; `recover_pos -= skip + len` does not add `start`. Both
  usually clear more than needed.
- After a failed aggregation write the entries are looked up by an offset in bytes, which no
  entry has; they stay. `write_pos` stays too, so if a failed write has reached the disk in
  part and the next one is shorter, `agg_pos` is set back, and entries of the lap before become
  valid again whose documents are partly overwritten. `orphans` are the entries of failed
  writes and those whose documents a failed write has hit; `EntriesIntact` leaves them out. A
  reader finds another key in such a document and treats it as a miss.

And in aio: the comment at `AIO.cc:212` says that idle threads look for requests of other
disks; they do not. `AIO.cc:336` trusts the entry a request was queued on before, and leaves
it there if the descriptor has changed and has no entry yet.

## 4. Proofs

All for arbitrary constants that satisfy the modules' `ASSUME`s.

**`InkAtomicListProofs`**: type correctness, `ChainIsList`, `NoStaleCas`, `RemoveFinds`,
and that `InkAtomicList` implements `AtomicStack`. The inductive invariant adds
`VersionsTell` (the version in the head differs from a pending load by the number of takes
since, modulo the field's width) and `LocalOK` (what each thread knows at each label: a
pusher's item is its own and linked to the head it loaded, a popper whose load is current
has a successor that is current). Without the first, a compare-and-swap could succeed
after a full turn of the list; without the second nothing connects the link that was read
to the item it was read from. Assumptions: `SolePopper` (only one thread pops where one
removes, as `ink_queue.h` demands) and, in `CasTake`, that fewer takes than the version
field can count fall between one thread's load and its compare-and-swap. The field has 16
bits; the code relies on the same.

**`Lemmas`**: an induction over numbers or sequences takes a set instead of a predicate
(`NatInduct`, `SeqInduct`: a set that has 0 and with each number the next has them all),
proved from the least number it lacks; `RunExists` gives from it that a loop, written as a
recursive function over its rounds, is what its equations say. On these rest what `Keep` does
to concatenations, reversals and subsets.

**`ProtectedQueueProofs`**: `InOrder`, `TableOK`, `DirectMapKeeps`, `NoLostWakeup`, that
`ProtectedQueue` implements `WakeupProtocol`, and `WNoLostWakeup` of the latter.
`DirectMapCorrect` is about the conversion alone, for a table of any size: each round of the
inner loop fills for good the slot of one thread that was not in its own slot (`Chain`), so it
ends within as many rounds as there are slots, and the outer loop leaves behind it only slots
that are empty or hold their own thread. With it the table is a vector without gaps until it
is full and a map from then on, and the set of threads noted in it grows by exactly the one
that is added; that set is what the refinement maps to. A vector that is not full has room for one
more, a full one is a map and does not grow, so there are never more entries than threads. `InOrder` needs that an event is in one
queue at most and on it once, and that a local event that is no longer in `order` cannot come
back to it. The wakeup protocol's strengthening is `DebtsPaid`: whoever is on the way to sleep
owes nobody a signal. Otherwise the thread bound to wake a sleeper could be asleep itself.

**`LockAndTimerProofs`** has two parts, which share only a module.

- The timer queue: type correctness, `NotEarly`, `NotOverdue`, `OversleepBounded`, for any
  number of events and lists, any tick and delays without limit. The invariant that carries
  them is `Ahead`: for an event on list i, a multiple of the period of list i - 1 lies after
  the last check and not after the event's time. `enqueue` and `check_ready` establish it (what
  is on list i had more than that period to go), and `BoundaryStays` keeps it for the lists
  that are not looked at: if the clock had passed such a multiple, a bit at or above that of
  the list would differ (`SameBlock`). This is where `ShortRounds` is needed, a hypothesis of
  the last two theorems: in a longer round the highest compared bit may change twice. The
  code does not enforce it, no more than anything limits how long a handler runs; it is 1.28 s
  for the real queue.
- `ProxyMutex`: type correctness, `Exclusive`, `HolderIsTrue`, `CountIsDepth`, and the
  refinement of `RecursiveLock`. The strengthening says for each label who has the mutex, what
  `thread_holding` shows and what the count is. It is the proof that the unlocked read of
  `thread_holding` is harmless: it can only be the reader's own name if the reader wrote it.

**`EventLifecycleProofs`**: type correctness, `FlagsTell`, `TangledByReschedule`,
`RecycledClean`, `NoDangling` and `NoCallAfterCancel`. `FlagsTell` says that the flags name the
queue an event was put on last and that it is on no other, but for one that was in
`NegativeQueue` when it was rescheduled; `TangledByReschedule` that there is no other way to get
on two. `StaysApart` is what the other steps keep: they take an event out of `NegativeQueue`
before they put it elsewhere. All this is up to the loop's first step after such a reschedule,
where the model ends. `CurOK` says where the event in `process_event` can be (on no
queue before its handler runs, at most on the local queue after), `Forgotten` that the
state machine has no pointer to what it has cancelled nor to the event that is about to be
freed. `OneMoves` is the frame: a step that moves one event keeps everything about the
others, although `EVENT_FREE` may empty the thread's free list.

**`AIOProofs`**: type correctness, `OneEntryPerFd`, `NoneLeftWaiting`, `Sorted`, `Fifo`, for
any number of callers, disks, threads per disk and priorities (the run has one disk with one
thread). Type correctness already needs an argument: a new entry fits into `aio_reqs` because
the descriptors of the entries differ (`RoomForEntry`), and they differ because whoever inserts
has searched all entries made so far under `insert_mutex` (`CallersOK`). `OpsInv` says that a
request is in one place at a time: with its caller, on one list of one entry, or with one
thread; without it a request could be counted twice in its line. `MutexInv` says who holds the
mutex of an entry, so that the queues do not change between the steps of its holder. `QueuesInv`
has the order: for each priority the two queues followed by the reversed list are the arrivals
of that priority, and no request has arrived twice. That insertion
from the tail keeps the order within a priority, and `aio_move` request by request, are lemmas
about `InsertSorted` and `Moved`.

**`NetEnableProofs`**: `NoLostEnable`, `FlagTells`, `FreedIsGone`, `NoStall`. The
strengthening says who holds what (`Held`: a thread in the middle of an operation has the
connection's mutex and has not closed it; `Place`: the NetHandler's mutex is held exactly
while `mainNetEvent` runs, and which of its locals are live) and that a connection is in one
place at a time of the enable list, the popped part of it and the hands of one pusher
(`Once`). Without `Once` a push could follow another and leave a freed connection on the
list; without `Held` a connection could be freed under the thread that enables it.

**`CacheProofs`**, the two copies: `GoodCopyKept`, and that `CacheDirSync` implements
`DirStore`. The inductive invariant has three layers. `Control` ties `CacheSync`'s variables together.
`Image`, `Landed`, `Ids`, `Parity`, `Newest` hold whatever has gone wrong: the pieces written
so far are on the disk, odd serials are in copy B only, no copy that would be accepted is
newer than the directory in memory. `Good` holds while `exposed` is false: the chosen copy is
whole, a write goes to the other one, whose footer does not yet have the serial it gets, and
between writes memory has the serial of the chosen copy, so that the next serial goes to the
other one. `Landed` and `Newest` are what a footer's write needs to become the commit:
everything before it is there, and it wins the choice. `exposed` is raised by a failed write,
a clear, a shutdown during a periodic write and a footer left with the serial about to be
used (by a directory that was cleared, or by a complete periodic sync that a shutdown writes
over before it is marked as done), and ends with the next complete directory; the theorem promises nothing in between,
which is how far the code goes.

**`CacheProofs`**, the log: `EntriesIntact`, for volumes, documents and aggregation writes of
any size and any number of writes, syncs, crashes and failed writes, which may leave some of
their blocks on the disk. The assumptions
(`LogConstants`) are that a document and a write fit into the aggregation buffer and that the
data area holds three buffers; the smallest volume has 128 MB (`MIN_VOL_SIZE`) and the buffer
4 MB. The property says nothing of what a scan relies on, so the invariant `LogInv` has to
follow a copy of the directory from the sync that takes it to the end of the recovery that
loads it:

- while the volume runs, `Live`: an entry of this phase lies whole before the write position,
  one of the phase before is whole unless the position has passed it; and `Ahead`, for the
  copy on disk and for the one being written: how far the log has gone since. It is in the
  same lap (`SameLap`: what was written since is a gapless run of documents whose sync serials
  do not fall, and of the copy's entries only those over that run are lost), about to begin the
  next lap or in it (`LapBegins`, `NextLap`: the run reaches near the end of the volume, and
  the first document of the volume is new), or it has reached the last write before the copy
  (`Overtaken`), which `Check` notices by the write serial. `Hopeless` are the copies that
  `Check` refuses or that have no entries to lose. That a copy is at most one sync old bounds
  the serials a run can have, which is why `ExamineStop` may refuse a higher one;
- when it has crashed, `Found`: the run is whole up to some block, and the write that was cut
  reaches at most `AGG_SIZE` further (`EndsAt`);
- during the scan, `Scanning`: the position is at a document of the last write before the copy
  (`CheckOK`), then at one of the run or behind its end (`ExamineOK`), and in a second lap
  before where the scan started (`LapOK`). So the scan cannot stop before the end of the run,
  and `Ldone`'s `EVACUATION_SIZE` covers the write that was cut.

Below this are lemmas on the sums of lengths: `EndOfDef` (from `RunExists`), that the documents
of a write lie apart and cover it (`DocsLieApart`, `DocExists`), and on runs that are extended,
joined or cut (`TiledNext`, `TiledJoin`). `LogInv` promises of the entries nothing while
`misled`, which stays set until the volume is cleared.

Only model-checked: the liveness properties (`Taken`, `Called`, `Reclaimed`, `Served` and
`Freed`, `WaitingSyncBegins`, `ScanEnds`), which are out of the prover's reach. Every safety
property that a passing run checks is proved.

## 5. What is left out

- Net threads: a net thread with signals put off may go through one poll before it pays
  them (`NoLostWakeup` allows it), and an event it schedules on itself through the external
  list before its poll waits for the poll's end. Both delays are bounded by the poll timeout.
- A thread goes to sleep without another look at its local queue (`UnixEThread.cc:274`), to
  which the handlers of timers may have added (a missed lock does, `:138`): such an event waits
  for the next wakeup or the end of the timed wait. `ProtectedQueue` has these enqueues
  (`EndTimers`); `Taken` is about the external list and promises nothing for them.
- `schedule_spawn`, and what the loop does with an event that is on two queues (`Tangled`).
- In the timer queue the events that the loop puts in just before the poll
  (`UnixEThread.cc:264`), after `check_ready` with the same `cur_time`.
- DEDICATED threads, `EAGER_SIGNALLING` (off in the build) and `ProtectedQueue::remove` (no
  callers); in the timer queue the place within a list.
- Native and synchronous modes of aio, chained requests (`then`), a change of a request's
  descriptor (`CacheSync` uses one `AIOCallback` for all volumes in turn), `thread_num_set`. A failing disk only ends the request.
- A second disk, the API's entry and several threads of a disk are in the module `AIO` but
  not in its instance, which with them is too large for a run.
- The write side of a connection (the same code with its own flags), accepting, connecting,
  SSL. In `NetEnable` the mutex that the InactivityCop tries is that of the VIO: the same
  object while a connection has one continuation. `reenable` by a thread that has the
  NetHandler's mutex already (`UnixNetVConnection.cc:714`, with the effect of `ReenableLocked`),
  and the close of one connection by the handler of another, which frees it at once (`:595`).
- In the cache: the hash chains of the directory (an entry is found by its offset), OpenDir
  and the readers, evacuation of pinned documents, several volumes behind one `CacheSync`
  (each is a volume of its own in turn), the interim cache. Header and footer are one disk
  block and are written or not; the blocks of an aggregation write reach the disk in order. Of the
  errors a recovery's reads may meet only the one past the end of the volume (the others go to
  `Lclear`, which drops all entries).
- Memory order: every access is a step, in program order, but for the one load in
  `process_enabled_list` that the code itself leaves unordered.
- Debug checks, statistics, logging.
- The components of the table in section 1 that have no module; the reason or the plan for
  each is in `PROJECT.json`. By lines they are most of the repository: `HttpTransact`,
  `HttpSM` and the plugin API are policy over hundreds of configuration values, one
  transaction at a time; the header parsers, the command line tools, the test programs and
  the management pages are sequential. The concurrency and the persistence they rest on
  are below them, in the parts modelled here.

## 6. Plan

In this order; each step with its properties, mutants and, where it says so, proofs.

1. **OpenDir and the aggregation buffer** (`CacheWrite.cc`, `CacheDir.cc`): one writer per
   key or several with shared vectors; what is in the aggregation buffer is found by readers;
   the hash chains of a segment and its free list.
2. **InkFreeList**, with the proof of the list reused.
3. **RAM cache** (CLFUS): bytes and objects counted right, ghosts hold no data.
4. **HostDB and DNS**: pending lookups all answered, late answers after failover.
5. **LogBuffer** checkout, **OneWayTunnel**, **PluginVC**, `HttpSessionManager`, Rollback,
   traffic_cop: as far as the number of runs stays readable.
