# A TLA+ verification of the LK kernel

LK ("little kernel") is a small preemptive SMP kernel written in C. This directory holds TLA+
models of its core (scheduler, wait queues, synchronisation primitives, thread life cycle,
timers, message ports, memory) and of the libraries, file systems, network stack and driver
built on it that have a protocol of their own, with TLC configurations that check them on
small instances, and TLAPS proofs, for every number of threads, cpus and bytes, of what the
scheduler, the blocking primitives and the circular buffer promise. Paths below are relative to `src/`.

`PROJECT.json` is the index: every definition with the source lines it models, every run, the
mutants that show each property can fail, the hazards, the findings and the theorems.

## 1. The system

| Part | Where | What is hard |
|---|---|---|
| wait queues | `kernel/thread.c` | wakeups, timeouts and destruction compete for a thread that has not run yet |
| mutex, semaphore, event, condition variable | `kernel/{mutex,semaphore,event,cond}.c` | hand-over to a thread that runs later; counts that still include waits that timed out; an unsignal without the lock; releasing a mutex and blocking in one step |
| scheduler, cpus | `kernel/thread.c`, `kernel/mp.c` | several cpus pick from one set of run queues; interrupts arrive between critical sections |
| thread life cycle, delayed free | `kernel/thread.c`, `lib/heap/heap_wrapper.c` | three functions may free a thread; a stack is freed while its thread still runs on it |
| timers, watchdogs | `kernel/timer.c`, `lib/watchdog` | callbacks that set and cancel timers, the wrap of the clock, a timer that another cpu's tick has in its hands |
| message ports | `kernel/port.c` | groups, broadcast to several readers, closing with readers blocked |
| deferred calls | `lib/dpc` | an entry is queued before it is filled |
| memory | `kernel/vm`, `kernel/novm`, `lib/heap/miniheap` | partial failure, growth and trimming outside the lock |
| block devices, cache, file systems | `lib/bio`, `lib/partition`, `lib/bcache`, `lib/fs`, `lib/norfs` | references from several owners, errors half way, power failure between two writes |
| logs, circular buffer | `lib/debuglog`, `lib/klog`, `lib/cbuf` | lapping, positions that wrap, resets in the middle of a store |
| TCP, virtio network driver | `lib/minip/tcp.c`, `dev/virtio` | loss, reordering and repetition; a device that answers in any order; a ring or a pool that is full |

One spin lock, `thread_lock`, protects the scheduler, all wait queues and all primitives. A
critical section is therefore atomic, except where it calls `thread_resched()`: the calling
thread goes on only when it is scheduled again. Every model has this granularity: an action is
a function up to its return, its block or the unlock after which others may come in between,
and `..._resume` is the rest of it. Timer callbacks run in interrupt context, after
`timer_tick()` has dropped its own lock and before the callback takes `thread_lock`.

## 2. Modules

| Module | Models | State and actions |
|---|---|---|
| `WaitQueue` | the wait queue functions of `thread.c` | operators from a record `sched` (lists, counts, thread states, `wait_queue_block_ret`, timers set) to the next one; no variables, so that every primitive composes them |
| `Mutex` | `mutex.c` | `sched`, the mutex and a program counter per thread; one action per function |
| `HandOffLock` | what the mutex promises without timeouts | owner and queue of waiters: take, wait, free, hand over, destroy |
| `Semaphore`, `Event` | `semaphore.c`, `event.c` | as `Mutex`; history variables count the resources (`tokens`) and the signals (`due`) |
| `Cond` | `cond.c` composed with `Mutex` | producers that set and consumers that reset a flag under the mutex; the queue of the condition is added to `sched` |
| `Dpc` | `lib/dpc/dpc.c` | the list, the pool, the fields of an entry, callers and the worker |
| `Thread` | the scheduler and `mp.c` | run queues, masks, preemption timers, wait and sleep timers, interrupts of every cpu |
| `WaitSpec` | the wait queue as the primitives see it | `WaitQueue`'s operators as a specification. `Thread` implements it on one cpu, and on several if no wait has a timeout, which justifies `WaitQueue` in the primitives that far. On several cpus with timeouts a handler may end a later wait (`thread_stale_timeout`), and what is shown of the primitives leaves that case out |
| `Join`, `DelayedFree` | create, join, detach, exit; `malloc()` and the stacks that wait to be freed | life, detached flag and frees of threads; the delayed list, read without its lock |
| `Timer`, `Watchdog` | `timer.c` on one cpu; watchdogs on the timers of two | clock, queue, hardware timer and where the tick handler stands; time is reduced to what is due in `Watchdog` |
| `Port` | `port.c` over `WaitQueue` | write ports, read ports, groups, buffers, and the windows where `thread_lock` is dropped |
| `Debuglog`, `Klog` | `lib/debuglog`, `lib/klog` | positions in a ring, records, readers, notifier; the stores to memory that survives a reset |
| `Cbuf`, `ByteQueue` | `lib/cbuf`; the queue of bytes it implements | head, tail, buffer, event, and transfers in chunks |
| `Bio`, `Deblock` | `lib/bio`, `lib/partition` | devices, references, sub-devices; transfers of bytes cut into blocks |
| `Bcache` | `lib/bcache` | blocks, lists, references, dirty flags, a device that may fail |
| `Fs`, `Path` | `lib/fs/fs.c`, with `Bio` | mounts, their references and devices; `fs_normalize_path()` against the path it should resolve to |
| `Spifs`, `Norfs` | `lib/fs/spifs`, `lib/norfs` | pages and tables, or records in flash blocks, with power failure between any two writes |
| `Vm`, `Novm`, `Miniheap` | `kernel/vm`, `kernel/novm`, `lib/heap/miniheap` | pages, regions, arenas, free list |
| `Tcp`, `TcpListen` | `lib/minip/tcp.c` | one connection and its peer over a network that loses, repeats and reorders; the accept slot of a listening socket |
| `VirtioNet` | `dev/virtio/net`, `dev/virtio/virtio.c`, `lib/minip/pktbuf.c` | descriptors of both rings, interrupt handler, worker, pool of buffers, device |
| `MC*` | instances for TLC | see section 3 |
| `ListProofs`, `WaitQueueProofs`, `MutexProofs` (with the condition), `SignalProofs` (semaphore and event), `ThreadSteps`, `ThreadProofs`, `ThreadWaits`, `CbufProofs` | proofs | see section 4 |

Data are abstracted: a timeout is `ZERO`, `FINITE` or `INFINITE`, and a finite one may expire at
any moment; names, stacks, statistics and output are left out; the contents of packets, blocks
and files are numbers. Priorities, quantum, counts, sizes, positions and times are integers, and
those that wrap in the source wrap in the model, at a smaller value (`WRAP`, `SEQ`, `UINT`,
`SIZE_T`, `VERSIONS`, `BYTE`). Destroyed objects may be initialised again once no thread is
inside a call on them.

Mutants: a definition `X_Change` placed before `X` is a wrong version of `X`. Substituting it
for `X` violates the property that `PROJECT.json` names.

## 3. Runs

A run that has several parts starts in one of them and stays there: the variable `part` says
which, and each property speaks of the parts it names. The components of a part share
variables of the same name with other parts, which changes nothing, since a behaviour has only
one part.

| Run | Parts and instance | Shows |
|---|---|---|
| `sync` (`MCSync`) | monitor: 1 producer, 3 consumers, all timeouts of the condition; mutex: 4 threads, untimed, destroyed by its owner; semaphore: 3 threads, initially 1, at most 2 free; event: 3 threads, both kinds, all timeouts; calls: 2 callers, 2 entries; fairness | consumers are served; acquisitions end and `Mutex` implements `HandOffLock`; `ResourcesExact`; `SignalsExact`, and a release is final; waits end while posts and signals keep coming; deferred calls are made, as they were queued |
| `cpus` (`MCCpus`) | 2 cpus; 2 threads, pinned to the second cpu or not, created at the lowest priority and set to priorities beyond both ends, that become real time, exit, and sleep while none is pinned or at priority 0 and no other is real time; or 3 threads that block and wake each other | run queues and bitmap exact, no cpu idles unnoticed with work ready, preemption timer and idle mask exact, a thread on one cpu and only one it may run on, highest priority first |
| `thread_live` (`ThreadWaits`) | 3 regular threads of one priority, 1 cpu, quantum 2, every way to block on a wait queue and to be woken from it, no sleep; fairness | nobody starves; the scheduler implements `WaitSpec` |
| `tasks` (`MCTasks`) | mutex: 4 threads, all timeouts, destruction; monitor: 2 producers, 2 consumers; ports: 2 threads, 2 unicast ports and 1 packet or one broadcast port and 2 packets, 2 readers, 1 group; join: 3 threads, one joiner of each, any detacher; stacks: 3 threads, 2 blocks, 1 or 2 cpus; timer: 2 timers, set with interrupts off or on, clock wraps at 10 and runs to 12; watchdog: 2 cpus; log: 2 writers, 1 reader, 4 records in a ring of 8 | exclusion, exact count, no missed signal; packets in order, readers served, ports linked; structures and stacks freed once and found valid; timers neither early, late nor after cancel, watchdogs armed exactly while enabled; every record once, whole and in order |
| `libs` (`MCLibs`) | cbuf of 4 bytes, 3 sets of flags; norfs of 3 blocks, 2 keys, 5 puts, or 2 blocks, 3 keys, 3 lengths, 3 puts, with a power failure; klog of 2 logs of 4 bytes, 5 characters | the buffer implements a queue and leaves no reader asleep; what was stored is found after a restart; norfs's books are exact |
| `storage` (`MCStorage`) | devices: 3 threads, 1 disk, 2 sub-devices; mounts: 2 threads, 2 mounts, 2 paths; transfers: 4 blocks of 2 bytes, 2 calls; paths of up to 7 characters; cache: 2 blocks, 3 numbers; spifs: 3 pages, 2 names, with and without device errors | devices and mounts freed with their last reference; transfers touch exactly the bytes asked for; names found; no update lost; files kept |
| `memory` (`MCMemory`) | vm: 2 threads, 2 arenas of 2 and 1 pages, 1 user space; novm: every range of up to 9 pages; heap: 2 threads, 2 pages of 8 words | pages free or with one owner, regions apart and mapped; arenas laid out without overlap, first fit; the pieces of the heap tile its pages |
| `network` (`MCNetwork`) | connection: sequence numbers wrap at 16, four loads; listen: 2 acceptors, 3 connections; driver: rings of 4 and 2, pool of 10 | both streams intact, a retransmission due while bytes are unacknowledged, nobody asleep with work, references exact; each connection handed to one acceptor; descriptors and buffers each in one place, no missed interrupt |

Violations, each a disagreement of the code with what the repository says of it (`findings`
quotes the lines):

| Run | What happens |
|---|---|
| `mutex_timed_lost_wakeup` | a release counts on a waiter that has timed out; the next acquirer sleeps on a free mutex |
| `thread_stale_timeout` | on two cpus, the timeout of an earlier wait ends a later wait without timeout |
| `port_close` | a reader already woken goes on reading from a port that `port_close()` has freed |
| `tcp_time_wait` | a RST in TIME_WAIT leaves the time wait timer queued; the assertion in its callback fails |

**Bounds.** Three threads are the least that show a hand-over (one leaves, one is woken, one
arrives); four add a second waiter whose order matters. Two cpus are enough for every pairwise
interleaving of critical sections and interrupts. `MaxCount` bounds the semaphore's free
resources; `MaxClock` the length of a timer run (past one wrap) and `MaxLatency` the delay of
the timer interrupt, the length of its handler and of a `timer_set()` that is interrupted before it
takes `timer_lock`; `Quantum` is 1 or 2 instead of 5, and `MinQuantum` floors the remaining
quantum, of which only the sign matters; `MaxPackets`, `MaxPuts`, `MaxRestarts`, `MaxRecords`,
`MaxChars`, `MaxCalls`, `MaxRef`, `MaxLeaks`, `MaxRegions`, `MaxAllocs` and `MaxGeneration` cap
what has no bound in the source and are large enough for a wrap, a collection, an eviction or a
second commit to happen. `NotLate` allows a few latencies because `timer_cancel()` may program
the hardware again while an interrupt is pending. Each instance of `Thread` enables a subset of
the calls (`Calls`): all of them together are beyond TLC, and within the proofs. Deadlock checking is off where the system may
stop: threads that have all exited, a mutex left held, a bound reached.

Larger instances were also checked, once: `Norfs` with `MaxPuts` 6, and 4 on 2 blocks; `Miniheap`
with 3 pages and sizes {0, 2, 9}; `Spifs` with `MaxGeneration` 7, or offsets {0, 1}, or 6 entries in
tables of one page; `Debuglog` with 2 readers, or 5 records; `Klog` with lengths {1, 2} and {1, 3},
and 6 characters; `Cbuf` with 4 sets of flags; `Port` with 2 packets in both modes; `Timer` with a
clock that wraps at 16 and runs to 20; `Tcp` with `AllLoads` (both ways at once, resets at every
point); `VirtioNet` with two senders and a pool of 12, or one and a pool of 14; the monitor with 2
producers and 3 consumers; `Thread` with pins to both cpus and sleepers among them.

**Fairness.** Weak fairness of a thread that is ready (the scheduler's `ReadyRuns` justifies it
among equal priorities), of owners that release, of callbacks that return, and of posts and
signals where a property says "as long as". `thread_live` assumes that timer interrupts keep
coming while a regular thread runs (strong fairness of the tick, which is periodic hardware but
is disabled while another interrupt is being handled) and that interrupts are eventually taken.
Its threads are regular ones (`RegularNext`): nothing takes the cpu from a real-time thread.
No client is assumed to start a call.

## 4. Proofs

Every theorem holds for every set of threads (finite, for the primitives), every number of cpus
and priorities, every length and content of the buffer, and all calls together, from the
assumptions named `...Assumption` in the modules that declare the constants: `NULL` is none of the
threads, cpus and queues, idle threads are no other threads, the boot cpu is a cpu, timeouts are
among the three, quantum and priorities are positive; the lengths of a buffer are at least 1 and
divide the range of its indexes, which holds at least two of the largest, as powers of two below
2^32 do (`cbuf_initialize()` takes others with a complaint and miscounts them: section 5), 0 is a
byte, and chunks are not empty. What a theorem needs beyond them is a hypothesis in its statement.

| Theorem | Says | Needs |
|---|---|---|
| `MutexExcludes`, `MutexCountExact`, `MutexWaitConsistent`, `MutexTypeCorrect` | at most one owner, whom the mutex names; count is who holds or acquires; queue and threads agree | |
| `MutexImplementsLock` | every critical section of the mutex is a step of `HandOffLock`, or none | no finite timeout |
| `UntimedMutexWakes` | nobody waits for a mutex that has no owner | no finite timeout; the run `mutex_timed_lost_wakeup` shows why |
| `SemaphoreExact`, `SemaphoreTypeCorrect` | count accounts for every resource, none is given twice, a post that wakes nobody leaves nobody waiting until a post meets a timed-out wait | `sem_init()` is given an unsigned value |
| `EventExact`, `EventReleaseFinal`, `EventTypeCorrect` | a signaled event holds nobody, each accepted signal is remembered or carried by one thread, a release is final | the flag is a flag |
| `MonitorMissesNoSignal`, `MonitorQueuesConsistent` | no consumer sleeps on a set flag unless a signal or another consumer is on its way; a thread is on the queue it is blocked on and on no other | no finite timeout of the mutex; those of the condition are free |
| `SchedulerQueuesExact`, `SchedulerOneCpu`, `SchedulerSwitchesToHighest`, `SchedulerTypeCorrect` | run queues and bitmap exact; a thread on one cpu, one it may run on; no eligible thread of higher priority left behind | |
| `SchedulerCpusExact` | a thread on one cpu, and `idle_cpus` exact but for bits that a starting cpu, which updates the mask without `thread_lock` (`thread.c:948`), has set back since that cpu's last switch (`reverted`) | |
| `SchedulerTimerExact` | the preemption timer is set exactly for regular threads | threads make themselves, or threads not started, real time (`RealTimeTargets`) |
| `SchedulerNoneIdle` | an idle cpu with work ready has been told | no pins and no sleep: `thread_sleep_handler()` sends no `mp_reschedule()`, nor does a yield that leaves a thread to another cpu |
| `SchedulerImplementsWaits` | every step of the scheduler and of its handlers is a step of `WaitSpec` | `NoTimerRaces`: one cpu, or no timed wait, since the stale timeout of `thread_stale_timeout` needs both; and no exit: `thread_create_etc()` clears `wait_queue_block_ret` of a structure used again, which `WaitSpec` has no step for |
| `CbufImplementsQueue` | every call on the buffer, and every chunk of a transfer that is cut into several, is a step of `ByteQueue`: bytes are appended, delivered in order, dropped at an end or wiped, and never beyond the length | |
| `CbufReadersAwake` | no thread sleeps in a blocking read while there are bytes | where hardware writes, nobody signals: the property itself says so |
| `CbufPeekExact` | the two regions of `cbuf_peek()` are the bytes that are in the buffer, in order | |
| `CbufTwoPasses` | the loops of the locked write and read end after two passes | |

The argument, from below:

* `ListProofs`: what appending, removing and taking a prefix do to the elements of a list without
  repetition, that the least and the greatest element of a set of indices are what they say, and
  well-founded induction in a form the provers can use (`Smallest`, `SetInduction`: a non-empty set
  of naturals has a least element, so that induction is over a set and not over an operator).
* `WaitQueueProofs`: every wait queue operator preserves `Sound` (typed, and queues and threads
  describe the same waits). Each primitive gets its part from these lemmas.
* The primitives: an inductive invariant `IInv`, one lemma per action. None of the properties is
  inductive alone. All need `BlockedInside` (who is blocked is inside a wait) and most
  `StatusInside` (while the object lives a wait ends with `NO_ERROR` or `ERR_TIMED_OUT`, so that
  the status determines what a resumed thread does; `sem_wait()`, which does not back out, is never
  timed out, because only timed waits have a timer, `SemTimerInside`). The semaphore's comment on posting becomes
  inductive with `FreeOrGranted`: until a post comes too late, every resource is free or granted
  to one thread. The monitor needs `Placed`: a thread is blocked on the queue of the call it is
  inside, and its timer is set only while it waits for the condition. The refinement of
  `HandOffLock` adds that no timer is set, that a living mutex with threads inside has an owner
  (`Owned`), and that nobody waits on a destroyed one.
* `ThreadSteps`: `IInv` of the scheduler has the exact run queues, one cpu per thread, the list of
  the wait queue, the timers of sleeps that expire (`Sleeping`), cpus that have not started
  (`Starting`), the idle mask, and, each under its hypothesis, timer and `Told`, which says of an
  idle cpu with work ready that an interrupt or a yield is to come, and that a real time cpu does
  not idle (`mp_reschedule()` spares it). `thread_resched()` is treated once: `Prepared` and
  `Leaves` say what a caller owes it, `ReschedKeeps` that the invariant holds after it and that it
  took the highest thread; the steps that only make threads ready are `Readies`.
* `ThreadProofs`: creation, real time threads and ticks, and the theorems.
* `ThreadWaits`: the refinement of `WaitSpec`, with `TimersSingle`: a running thread has no timer, a timer that expires is in no
  queue, a thread that has not started has not timed out. Its mapping forgets everything of a
  thread but whether it is blocked, its result and whether a timer of its wait may still expire.

* `CbufProofs`: the source computes with remainders of wrapped differences, which the provers cannot
  follow through a loop. `DifferenceWraps` and `IncWraps` replace them once by `Distance` and `Around`, an
  addition and at most one subtraction of the length; this is where the length must divide the
  range. The model makes two passes of the loops of `cbuf_write_wo_lock()` and
  `cbuf_read_wo_lock()`, and `CbufTwoPasses` shows that the loops end there; a
  pass is shown to move one piece of the queue, and two passes their concatenation. The invariant
  `CInv` has the indexes below the length, the arguments of a transfer that is under way, that bytes
  written by software are signaled (`BytesSignaled`), and that nobody sleeps on a signaled event
  (`SleepersUnsignaled`); one lemma per call shows that it is kept and what the queue did.

The modules with proofs, and those they extend, use `Range` and an explicit `list_delete` instead
of `SequencesExt`: its bags make every obligation slow.

Only model-checked: liveness (`ReadyRuns`, `AcquisitionsEnd`, `WaitEnds`, `ConsumerServed`,
`QueuedIsCalled`), which needs ENABLED and is out of the prover's reach; deferred calls, ports, joins, stacks,
timers, watchdogs, logs, storage, memory and network. `Tcp` uses recursive operators and
cannot be proved about; for the others the invariants are checked and no strengthening has been
worked out yet.

## 5. Observed and not among the findings

Besides the violations of section 3, the models show the following. Each is a behaviour of the
code that a passing run excludes, by the constant, the condition or the history variable named.
To see one, check the named property on a small instance of the module.

| Module: property | What happens | In the passing runs |
|---|---|---|
| `Mutex` | between hand-over and run of the new owner `holder` is 0, and anybody passes the check of `mutex_destroy()`, which is made before the lock is taken | `MayDestroy` |
| `Semaphore`: `IncreaseIsSafe` without `late` | a post between a timeout and its back-out finds a negative count and an empty queue; later a waiter sleeps with a resource free, although `semaphore.c:41-43` says the count may "just" be increased | `late` |
| `Thread`: `RealtimeMaskSound` | a real time thread lowers its priority and goes on; its cpu stays in `realtime_cpus` (`thread.c:510`) | not checked |
| `Thread`: `TimerNotSetTwice` | a thread running on another cpu is made real time (`thread.c:251`); that cpu's preemption timer is later set twice, which panics (`timer.c:96`) | `RealTimeTargets = "self"` |
| `Thread`: `IdleMaskExact` without `reverted` | a starting cpu updates `idle_cpus` without the lock of which `mp.h:80` says "must be called with the thread lock held", and undoes the updates that other cpus make between its read and its write | `reverted` |
| `Thread`: `WokenAtTheEnd` | woken threads go to the head of the run queue; `event.c:135` documents the end | not checked |
| `Dpc`: `AlwaysCalledAsQueued` | an entry is in `dpc_list` before it is filled | `early` |
| `Thread`: `thread_resume` | it returns `NO_ERROR` for a thread that is not suspended, where its comment has `ERR_NOT_SUSPENDED` (`thread.c:285`) | the status is left out |
| `Join`: `JoinFindsThread` without `raced` | a joiner woken by the exit finds the thread freed by another thread's detach | `raced` |
| `Timer`: `NotEarly` | delays of more than half the clock's range fire at once; of exactly half, the assertion at `timer.c:278` fails | `Delays` |
| `Watchdog`: `HwTimerMaintained` | a cpu disables the watchdog while another's `timer_tick()` has its timer | `raced` |
| `DelayedFree`: `StackKept` on two cpus | another cpu's `malloc()` frees the stack an exiting thread still runs on | `cpus = 1` |
| `Debuglog` | `dlog_get_item()` follows the thread pointer of a record; the thread may be gone | the text is left out |
| `Klog`: `KlogKept` with `CharIsSigned` | where `char` is signed, `klog.c:373` adds other values to the checksum than recovery sums up | `CharIsSigned = FALSE` |
| `Klog`: `RecoversAgain` | a log taken by `klog_recover()` ("everything checks out", `klog.c:228`) whose first write had been interrupted is not taken after another reset | `unchecked` |
| `Klog`: `ReadRemoves` with `Others` | a read of another log than the current one moves the tail of the current one (`klog.c:316-318`, `335-337`) | `Others = FALSE` |
| `Cbuf`: `ImplementsQueue` with lengths such as 3 | `cbuf_write_char()` overwrites a full buffer whose length is no power of two, of which `cbuf.c:56` says only that it is slower | `LenMax`, `Lens` |
| `Cbuf`: `NullFillsZeros` | `cbuf_write_char()` leaves `is_reset` set, and a write of NULL then skips bytes that are not zero | not checked |
| `Bcache`: `BlockOnOneList` | a block that could not be filled is put on a second list | `fault` |
| `Bio` | a read error in `partition_publish()` leaks a reference; `geo` of `bio_publish_subdevice()` is not NULL after a search without success | `MaxLeaks` |
| `Fs`: `OneMountPerPath` | two mounts race past the check of `fs.c:131`, and the list is linked without `mount_lock` (`fs.c:162`); `fs_format_device()` never closes its device; `find_mount()` takes the first prefix, not the longest | `raced` |
| `Fs`: `MountsCounted` with `Unmounts = "any"` | two unmounts of one mount | `Unmounts = "once"` |
| `Deblock`: `TransfersExact` with `SharedBlocks` | two writes to one block: read, change, write | `SharedBlocks = FALSE` |
| `Path` | "/../a" becomes "a", "/" becomes "" | part of the reference |
| `Norfs`: `HeadersKept`, `PreviousOverwritten`, `InodeHeld`, `InterruptionHarmless` | a collection that fills its target leaves the write pointer in the next block's header; a version computed before a collection ties with a copy, and the previous object returns after a mount (`norfs.h`: "Previous versions of the object will be overwritten"); a collection frees the inode of a tombstone that the put holds; power that fails between the erase of a collected block and the next header loses the copies (`norfs.c:70`) | `hurt` |
| `Spifs`: `RetriesKept` | a write that succeeds after one that failed with a device error may leave a page unwritten | `failed` |
| `Miniheap`: `RangeCovers` | base and length of the heap change outside its lock and may miss a piece; `low_watermark` starts at 0 | not checked |
| `Vm`: `ArenasWalked` | `goto done` (`pmm.c:142-143`) leaves the walk of the arenas its comment promises (`pmm.c:137`) | not checked |
| `VirtioNet`: `FullRingReturns`, `NotRescheduledInIrq` | a full ring leaves the function with the spin lock held; `pktbuf_free(p, false)` in the interrupt handler reschedules | `hurt` |
| `VirtioNet`: `NicNotStuck` with a pool of 8 | all buffers are in the rings and with senders that wait for one | pool of at least 2(RX-1) + 3 per thread + 1 |
| `Tcp`: `OffsetAsserted` with `CutAnew` | a segment that begins before the window fails the assertion of `handle_data()` | `Loads` |
| `Tcp`: `WriteFailsWhenClosed` | `tcp_write()` returns `ERR_CHANNEL_CLOSED` on a socket accepted in SYN_RCVD | not checked |
| `TcpListen`: `AcceptorsWoken` | `tcp_close()` of a listening socket wakes nobody in `tcp_accept()` (`tcp.c:1209`) | not checked |
| `Tcp` | SYN\|ACK and FIN are never retransmitted; CLOSING is not reachable; a second `tcp_close()` of one handle leaves `s->lock` held (`tcp.c:1204`) | left out |

Documentation that differs: `norfs_wipe()` "leaves filesystem unmounted" and mounts it; reading a
norfs object documents `ERR_TOO_BIG` and `ERR_CRC_FAIL`, and truncates; the comment of
`cbuf_trash` and its condition differ (`cbuf.c:342-345`).

## 6. Not modelled

* `thread_block()` and `thread_unblock()`; names, stacks, TLS and statistics of threads; the fixed
  tick of platforms without dynamic timers; timers cancelled from another cpu, except for waits
  and watchdogs; the build of `lib/dpc` that takes entries from the heap.
* Memory reuse: a freed structure is marked, not overwritten.
* Context switch, memory ordering and spin locks of the architectures are taken to work; critical
  sections are atomic.
* Norfs: lengths are whole words, an erase is one step, versions do not wrap within the bounds, the
  source has 8 blocks. Spifs: checksums are perfect, the generation does not wrap, no file is
  removed while open. Device write errors are modelled in Spifs, Bcache and Deblock only.
* Vm: errors of `arch_mmu_map()`, page tables, which address space is active. Miniheap: realloc's
  copy of the wrong length, which its comment marks.
* TCP: options, checksums, lookup among several sockets, liveness. VirtioNet: configuration; rings
  are 16 and the pool 256 in the source. The virtio block driver, ARP, DHCP and UDP listeners were
  read and have no model.
* Other drivers, platforms, on-disk formats, graphics, libraries of pure functions and imported
  code: register accesses, I/O or data without a protocol of their own. Init levels and boot are a
  straight line of calls; what the cpus do to each other at boot is in `Thread`.
