# A TLA+ verification of the kernel

This directory holds TLA+ models of the RTOS kernel under `src/kernel`, the
TLC configurations that check them on small instances and machine-checked
proofs, for every instance, of the scheduler and of the objects that rest on it. The rest of
`src/` (architectures, drivers, networking, Bluetooth, file systems, samples)
uses this kernel; it is listed in `PROJECT.json` and not modelled.

## 1. The system

The kernel runs on one CPU. It keeps one record `_kernel` (the running thread,
the ready queue with its bitmap and its cache of the next thread to run, the
interrupt nesting), one `struct k_thread` per thread (priority, state flags,
scheduler-lock depth, timeout, list node), one delta list `_timeout_q`, and one
structure per kernel object, each with a priority-sorted wait queue. All of it
is shared by threads and interrupt handlers and protected by `irq_lock()`, in a
few places only by the scheduler lock.

| part | state | operations | what is hard | what makes it correct |
|---|---|---|---|---|
| ready queue, context switch (`sched.c`, `ksched.h`) | queues, bitmap, cache, current, lock depth | add, remove, move, reschedule, lock, unlock | three redundant summaries of one fact; switches owed under a lock | the queue holds exactly the ready threads; cache and bitmap agree with it; no switch is forgotten |
| threads (`thread.c`, `arch/arm/core/thread_abort.c`) | state flags, priority | create, start, cancel, suspend, resume, abort, sleep, wakeup, priority, yield | any order of calls by any thread | the same, after any sequence |
| clock (`sys_clock.c`) | `_handling_timeouts`, slice counters | tick announcement | enables interrupts between two timeouts; nested interrupts see half-expired waiters | an expired waiter is never given anything; slices are shared |
| timeout queue (`timeout_q.h`) | delta list | add, abort, expire | relative deltas, reversal of order, a local list | each timeout fires on its tick, in order |
| semaphore (`sem.c`) | count, wait queue | take, give, reset | gives from interrupts against timeouts, aborts, suspension | no unit lost, doubled or given to the wrong thread |
| mutex (`mutex.c`) | owner, count, saved priority, wait queue | lock, unlock | runs under the scheduler lock, so waiters time out in the middle | exclusion, inheritance, restoration, handover |
| interrupt return (`exc_exit.S`, `irq_handler.c`, `swap.c`) | nesting | enter, exit | return value of a preempted `_Swap()` | only the outermost return switches, and only a preemptible thread |
| start-up (`init.c`) | initial threads | once | nothing concurrent yet | the initial state of the models |
| message queue (`msg_q.c`) | ring buffer, one wait queue | put, get, purge | readers and writers share the queue | a bounded FIFO |
| stack (`stack.c`), slab (`mem_slab.c`) | array, free list, counter | push, pop; alloc, free | direct handover to a waiter that may time out or die | each word and block in one place |
| memory pool (`mempool.c`) | free lists and bits per level | alloc, free | splits and merges one lock region at a time | the free and the allocated blocks partition the pool |
| mailbox (`mailbox.c`) | two wait queues | put, get, dispose | a sender off every queue while its data are read | sender and receiver are paired once |
| pipe (`pipes.c`) | circular buffer, two wait queues | put, get | requests served in parts while waiters time out | bytes in order, none lost |
| queue, fifo, lifo (`queue.c`, `slist.h`) | linked list, wait queue | append, prepend, lists, get, cancel | the tail is read outside the lock | no item lost, no waiter beside an item |
| work queue (`work_q.c`) | PENDING bits, a queue, a thread | submit, delayed submit, cancel, run | bit and queue change separately | a pending item reaches its handler once |
| alert (`alert.c`) | send count, work item, semaphore | send, deliver, receive | count and loop race | one deliverer while alerts are due |
| timer (`timer.c`) | period, status, one waiter | start, stop, status, expiry | an expiry handler with interrupts enabled | the waiter is woken once and not stranded |
| poll (`poll.c`) | registrations, a flag | poll, signal | events registered one by one | no signal missed, no registration left |
| pthread layer (`posix/`) | semaphores | condition variables, barriers, mutexes | section 7 | not modelled |

Interactions: every object calls `_pend_current_thread()`,
`_unpend_first_thread()`, `_abort_thread_timeout()`, `_ready_thread()` and
`_Swap()`; the clock interrupt calls `_ready_thread()` for timed-out threads and
expiry functions for timers and delayed work; device interrupts call the
objects' non-blocking operations and may preempt the clock interrupt.

## 2. Modules

| module | models | state |
|---|---|---|
| `KernelOps` | the internal functions of `sched.c`, `ksched.h`, `timeout_q.h` and the context switch, as operators on a kernel record | none |
| `Sched` (extends `KernelOps`) | the thread API, the clock interrupt, device interrupts | `k` (the record), `isr` (stack of active interrupts), `clk` (progress of the clock handler), `slice` |
| `Sem` (extends `Sched`), `AbsSem` | the semaphore on the scheduler; what it promises | `count`, `taking` (which threads are inside `k_sem_take`) |
| `Mutex` (extends `Sched`) | mutexes on the scheduler | `owner`, `lock_count`, `orig_prio`, `pc`, `held`, `fault` |
| `TimeoutQ`, `AbsTimeouts` | the delta list and the expiry loop with ticks; what they promise | `tq`, `delta`, `clk`, `expired`, `next`, ghosts `order`, `outcome` |
| `Objects` (extends `Sched`) | what the objects below have in common: being inside a blocking call, handing over through `swap_data`, the other threads that disturb a waiter | `use`, `call`, `data`, `held` |
| `MsgQ`, `AbsMsgQ` | the message queue; what it promises | `msgq` |
| `Stack`, `MemSlab`, `MemPool`, `Mailbox`, `Pipe` (extend `Objects`) | one object each | `stack`, `slab`, `pool`, `syncing`, `pipe` |
| `DataPassing` (extends the six above) | their composition on one scheduler | none |
| `Queue` (extends `Objects`) | k_queue on the singly linked list | `data_q` |
| `WorkQ` (extends `Queue`), `Alert` (extends `WorkQ`) | the workqueue on the queue, alerts on the workqueue | `pending`, `attached`; `alert` |
| `Timer`, `Poll` (extend `Objects`) | one object each | `timer`, `poll` |
| `Services` (extends `Alert`, `Timer`, `Poll`) | their composition on one scheduler | none |
| `ListProofs`, `SchedProofs`, `WaitProofs`, `SemProofs`, `TimeoutQProofs`, `MutexProofs`, `DataProofs`, `ServicesProofs` | lemmas and theorems (section 5) | none |
| `MCSched`, `MCSem`, `MCMutex`, `MCTimeoutQ`, `MCData`, `MCServices` | instances for TLC | none |

Definitions keep the C names without the leading underscore or `_impl_`.
`PROJECT.json` maps each to its lines.

**Granularity.** A function that holds `irq_lock()` throughout is one step, up
to the `_Swap()` that blocks it; what the thread does when it runs again is
another step (`k_sem_take_return`, `lock_got`, `lock_timed_out`). The clock
interrupt is one step per timeout, because it enables interrupts there.
`mutex.c` holds only the scheduler lock over most of its code: each stretch
between two places where an interrupt matters is a step and `pc` says where a
thread is. An interrupt may come between any two steps. So it is in the objects:
`k_queue_append()` is two steps because it reads the tail before it locks,
`k_work_submit()` three, an allocation from the pool one per level searched and
split, `k_poll()` one per event, the timer's expiry handler one per line that an
interrupt could split (its `_unpend_thread()`, which nothing locks, is two: it
loads the neighbours of the thread's node, then joins them and clears the flag),
a pipe call two (the choice of its peers under the lock, and all copies under
the scheduler lock, during which waiters time out but no thread runs). Where an
interrupt makes such a call it is one step if nothing it could meet in between
differs from what it meets before or after.

**Objects.** Objects share nothing but the scheduler, so a behaviour exercises one
of them: `use` is chosen in Init and never changes, and `Uses` says which ones a
run covers. `Patience` is the set of timeouts each thread waits with, `Victims`
the threads that others suspend, resume and abort inside a call, and `Rest` a
thread that sleeps between two calls. When a call returns, its return value and
its `swap_data` are dead and are reset (`Returns`), and so are slots of buffers
that have been read: this keeps states that differ only in dead data together.
A thread is not aborted inside a call of several steps (`Unfinished`): the code
has no answer to that, and leaves the object half changed.

**Abstractions.**
- A thread's flags are the four that stop it from running. `POLLING` is a field
  of `poll`; `DUMMY` threads (asynchronous mailbox and pipe calls) are left out.
- The 16-bit field that overlays priority and lock depth is two fields;
  `is_preempt` is the comparison with its threshold.
- In `Sched`, `Sem` and `Mutex` a timeout is INACTIVE, ACTIVE or EXPIRED, and the
  clock may expire any active one on any tick. `TimeoutQ` has the ticks.
- The per-level bitmap words are one set of priorities; lists are sequences,
  except the pool's free lists.
- `swap` puts `-EAGAIN` in the outgoing thread's return value as `_Swap()` does;
  `rv` holds `0`, `-EAGAIN` and the `-ENOMSG` of a purged message queue.
- Messages, words, blocks and list nodes are `Items`. A queue item has its next
  pointer, because a stale one is what goes wrong. A byte in a pipe is its writer
  and its number modulo `Wrap`, two more than the buffer holds, so that lost,
  doubled and reordered bytes are told apart; the count starts again when all of
  a writer's bytes have been read (`recount`).
- A pool block is its level and number; sizes are levels, and `TooLarge` stands
  for a request that exceeds the largest block. A free list is a set: an
  allocation takes any block of its level.
- A timer's period and status are zero or not; its durations are positive.
- Work handlers return without blocking, or submit their own item again.
- `isr_exit_swap` differs between the two ports modelled: ARM restarts the time
  slice and keeps the preempted thread's return value; native_posix calls
  `__swap()`. `Port` selects one.

**Callers' obligations that are guards.** A thread object is created anew only
when dead; the main thread is not aborted (it is essential: a fatal error);
unlocks are balanced; a mutex is unlocked by its owner (an assertion in the
code); a thread inside a call makes no other call; no thread that is ready is
resumed (`resume_doc` shows why); the timer driver does not announce more ticks
than the first timeout has left; a word is pushed by whoever popped it, a slab's
block freed by its owner, in a thread, and a pool's block by anyone, once; one
thread polls and one synchronises with a timer at a time (as the documentation
asks); interrupts neither stop, start nor cancel a timeout that has expired and
is not handled yet, and free no pool block while such a waiter stands in the
pool's queue (section 4 says why); no interrupt stops a timer while its handler
takes a thread off the wait queue (`NestedStops` FALSE; `timer_doc` shows why).

**Configuration.** One CPU, `CONFIG_MULTITHREADING`, preemptible and cooperative
priorities, `CONFIG_TIMESLICING`, `CONFIG_SYS_CLOCK_EXISTS`, no
`CONFIG_TICKLESS_KERNEL`, no user mode; `CONFIG_POLL` in `Poll` only.

## 3. Runs that pass

| run | instance | checks |
|---|---|---|
| `sched` | three threads and idle; priorities -1, 0 and idle's; both interrupts; slicing on and off; lock depth 2 | `TypeOK`, `ReadyQueueExact`, `CacheIsNext`, `NoMissedPreemption`, `NonPreemptibleKeepsCpu` |
| `sem` | three threads, one cooperative; limit 2; both interrupts | `WaitQueueExact`, `NoLostWakeup`, `ForeverTakesSucceed`, `ExpiredNotGiven`, `GivenToMostUrgent`, `Refines` (`AbsSem`) |
| `live` | two threads with changing priorities and scheduler locks, slices of two ticks | `TimedTakeEnds`, `SlicesShared` |
| `mutex` | a cooperative thread (-1) above the ceiling (1) and preemptible ones at 1 and 2, one mutex, nesting 2, all timeout kinds | `Exclusive`, `Inherited`, `PriorityRestored`, `NoStrandedWaiter`, `OwnerNeverDemoted`, `NewOwnerMostUrgent` |
| `mutex_live` | three preemptible threads without timeouts | `WaiterServed` |
| `timeoutq` | four timeouts of up to three ticks | `LinkedAsMarked`, `NothingOverdue`, `Refines` (`AbsTimeouts`), `EventuallyOff` |
| `data` | two preemptible threads and a cooperative one, two items, a ring buffer of 2, a pool of one block of three levels from which threads and an interrupt allocate, a pipe of 2 bytes with requests of 1 and 3; both interrupts; one thread waits with timeouts and is suspended, resumed and aborted | `DataTypeOK`, `WaitersMatchBuffer`, `MsgQRefines` (`AbsMsgQ`), `StackKeepsWords`, `SlabBlocksOwned`, `PoolPartitioned`, `Rendezvous`, `PipeKeepsBytes`, `PipeWaitersJustified` |
| `services` | two cooperative threads, one of them the workqueue's, and a preemptible one; three items, one of them delayed work; a timer; two polled signals; both interrupts; `NestedStops` FALSE | `QueueKeepsItems`, `WorkNotLost`, `AlertsCarried`, `SyncNotStranded`, `ReadyAfterExpiry`, `PollSeesSignals`, `PollCleansUp` |

Every property has a mutant of the code (a dropped guard, a stale cache, a
missing reset, ...) that violates it; the mutants stand next to the definitions
they mutate.

**Bounds.** Three threads at a cooperative and a preemptible priority, in front
of idle, meet every case of the ready-queue code, removal from the middle of a
queue and two waiters that pass each other included. Two interrupt sources nest
in both orders. Depth 2 tells "still locked" from "unlocked". Three ticks and
four timeouts give equal, smaller and larger deltas on both sides of an
insertion. A pipe request of 3 bytes exceeds the buffer of 2, so that calls are
served in parts by buffer and waiter; one request of 1 byte makes the indices
wrap at odd places. Three levels of pool blocks let a merge go on from one level
to the next, with allocations and frees in between; each thread asks for other
sizes, one of them too large (`PoolLevels`). Three queue items are needed for a
predecessor, a stale tail and a successor. `MaxSends` 3 lets alerts arrive
before, in and after a round of delivery, and `MaxPended` 1 brings their
semaphore to its limit. `MaxLock`, `MaxCount`, `MaxTicks`, `MaxSends` and
`MaxBlocks` (the pool blocks that users have or calls are taking) are the only
artificial bounds and stand in guards.

`QueueKeepsItems` and `WorkNotLost` depend on who calls: appenders that no other
thread preempts (cooperative `Appenders`) and interrupts that only put items in
(`IsrGets` FALSE). This is how the system workqueue is used, and outside it the
property fails: that is `fifo_doc`. A cancellation of delayed work also takes
the tail out, but clears its next pointer (`slist.h` 460), so an insertion
behind it becomes an append: threads submit plain work beside delayed work, and
nothing is lost.

**Fairness.** `Sem` and `Mutex`: the clock keeps ticking, interrupt handlers
end, the clock's handler is not kept off the CPU for ever by other interrupts,
and a timeout eventually reaches its tick (SF of `ClockExpire`, which stands for
the ticks that this level abstracts from). Nothing is assumed of threads:
`SlicesShared` is about behaviours in which none goes on holding the scheduler
lock. `Mutex` adds that a thread that runs inside a mutex call or with a mutex
held takes its next step: the model says nothing of critical sections that never
end. `TimeoutQ`: the clock ticks while a timeout is queued.

## 4. Runs that show a disagreement

Each checks one sentence of the documentation, or of a comment, that the code
does not keep; `PROJECT.json` quotes it.

| run | what happens |
|---|---|
| `resume_doc` | `k_thread_resume()` of a ready thread links it into the ready queue a second time |
| `timer_doc` | `k_timer_stop()` in an interrupt, while the timer's expiry handler takes the waiter off the queue without a lock: the thread is made ready twice and linked twice |
| `fifo_doc` | `k_queue_append()` behind a tail that an interrupt has taken out meanwhile: the item is lost |
| `delayed_doc` | cancelling queued delayed work leaves it marked pending: its next submission is dropped |

The models behave as the code does in more places where a document or a comment
says otherwise; the properties of section 3 are worded, or the callers
restricted, so that they hold there:

- `k_wakeup()` starts a thread whose start is delayed (`kernel.h` 721: "no
  effect" on a thread that is not sleeping);
- the end of a slice moves a thread that has locked the scheduler behind its
  equals (`scheduling.rst` 137: only a preemptible thread yields);
- a thread above the slicing ceiling that changes its own priority goes behind
  its equals, and the next interrupt's return preempts it (`scheduling.rst` 144);
- a timeout on a mutex lowers an owner whose own priority is above
  `CONFIG_PRIORITY_CEILING` to the ceiling (`mutexes.rst` 74);
- a waiter that inherits a priority through a second mutex, or whose priority is
  set while it waits, keeps its place in the queue, so a less urgent thread is
  served first (`mutex.c` 242, `semaphores.rst` 37; `NewPrios` is empty where
  `GivenToMostUrgent` is checked);
- with `Port` native_posix a `k_sem_take(K_FOREVER)` that was given the semaphore
  reports `-EAGAIN` when an interrupt preempts the taker before it returns,
  because `__swap()` replaces the value (`irq_handler.c` 102), and a waiter served
  by a stack or a slab loses its item in the same way; the objects are checked with
  `Port` arm;
- a timed-out `k_mutex_lock()` dereferences the owner of a mutex that was
  unlocked meanwhile, NULL (`mutex.c` 188). `Mutex` records it in `fault`, which TLC
  reaches, and stops there: nothing is said of what follows;
- `mutexes.rst` 76 says of `CONFIG_PRIORITY_CEILING` that "the default value of 0
  permits unlimited elevation", while `_get_new_prio_with_ceiling()` (`ksched.h`
  309-322) does not elevate above it, 0 included: an owner is not raised to the
  priority of a cooperative waiter. `Inherited` says "up to the ceiling", for any
  ceiling;
- timeouts of one tick are said to be "processed in the _reverse order_" of their
  insertion (`timeout_q.h` 199-209); the expiry loop prepends each to its local
  list (`sys_clock.c` 213-220), which turns them round again. `AbsTimeouts` runs
  them oldest first, as the code does;
- aborting a timeout that is on the list of expired ones (`timeout_q.h` 145-152)
  adds its delta, the mark `_EXPIRED`, to its successor's, which is then no longer
  recognised as expired, or, when it is the last, to the memory behind the local
  list head; and the loop of `sys_clock.c`, which may have saved it as the next
  one, handles it all the same. `_abort_thread_timeout()` and its callers do not
  ask. No module models what follows: guards in `Sched`, `Timer`, `WorkQ` and
  `MemPool` leave such aborts out;
- `k_msgq_purge()` wakes waiting readers as well as writers with `-ENOMSG`
  (`msg_q.c` 209 speaks of writers only): as they wait only while the buffer is
  empty, nothing is lost;
- `k_mem_pool_alloc()` returns the `-EAGAIN` that "isn't for propagation to the
  caller" (`mempool.c` 295) when it loses a race for the last block;
- `k_mem_pool_alloc()` decides to wait after its search, with interrupts enabled
  in between: a free in that window wakes nobody, and a K_FOREVER allocation may
  sleep beside a free block;
- `k_timer_stop()` in an interrupt between the expiry handler's look at its wait
  queue and the loads of `_unpend_thread()` makes the handler unpend a thread that
  is ready, against the assertion at `ksched.h` 737 (`timer_doc` is about the
  stop after the loads, which no assertion notices);
- a timer restarted between the expiry and the handler's own restart is linked
  twice, and one stopped there is started again (guards in `Timer`);
- a mailbox sender whose message has been taken is off every queue and not
  marked pending: it looks ready to `k_thread_suspend()` or
  `k_thread_priority_set()`, and a receiver aborted before it disposes of the
  message leaves it blocked for ever (`Mailbox` has no such calls);
- several pollers of one signal are not refused; the signal reaches one of them,
  and none if that one has just timed out.

## 5. What is proved

Every theorem is for every set of threads, every number of priorities, every
initial priority, every slice setting and both ports, unless it says otherwise.
The assumptions are those of the modules: idle and main are two threads,
priorities are as configured, idle alone has the lowest one, new priorities and
slice settings are within range; for the data-passing objects and the services,
there are finitely many threads, and for the former finitely many items. TLC evaluates them in every run.

### The scheduler (`SchedProofs`, `WaitProofs`)

- `TypeCorrect`: `SchedSpec => []TypeOK`;
- `ReadyQueueCorrect`: `SchedSpec => []ReadyQueueExact`;
- `CacheCorrect`: `SchedSpec => []CacheIsNext`;
- `PreemptionNeverMissed`: `SchedSpec => []NoMissedPreemption`;
- `CooperativeKeepsCpu`: `SchedSpec => NonPreemptibleKeepsCpu`.

`SchedSpec` is the specification in which no ready thread is resumed. Without that
obligation `ReadyQueueExact` is false: that is `resume_doc` (`ResumeAnySpec`).

They follow from one inductive invariant (`SchedInvariant`):

    IInv == TypeOK /\ Live(k) /\ (isr = <<>> => Settled(k))

`Live` says that the ready queue is exact, cache and bitmap agree with it, the
idle thread is always ready at its own priority and the running thread is ready.
The idle part is what makes the bitmap non-empty after any removal, so that
`_get_ready_q_head()` is defined. `Settled` says that a preemptible running
thread is not less urgent than the cache. It is false inside an interrupt, where
a switch may be owed, and re-established by the outermost return: hence the
implication. Cooperative and locked threads owe nothing until they unlock, yield
or block.

The argument has two layers, the two parts of `SchedProofs`. The first proves of each operator what it
does to a record with such a queue: lists first (`ListRemove`, `ListAppend`,
`ListHead`), then add, remove and move (`AddHolds`, `RemoveHolds`, `MoveHolds`),
where between a removal and its addition the thread is neither ready nor queued
(`Off`), then composite operations, then the switches (`SwapSettled`,
`RescheduleSettled`, `IsrExitSettled`). The second has one lemma per action
that composes these. The minimum of the bitmap needs the least-number principle
(`NatMin`).

### Wait queues (`ListProofs`, `WaitProofs`)

What the objects' proofs share. `ListProofs` is about `InsertAt`, `RemoveAt`,
`RemoveFirst` and lists without duplicates. `WaitProofs` says what linking a
thread (`LinkedEffect`, `PendPosition`), picking one (`FirstWaiter`) and waking
one (`WokenLive`) do, that both keep a queue sorted (`SortedInserted`,
`SortedRemoved`), and sorts the steps of every other call and interrupt into
four kinds: nobody who waits is concerned (`Undisturbed`), a timeout expires
(`Expired`), an expired one is handled (`Handled`), a thread is aborted
(`Aborted`). `WaitsExact` is what all of them keep: the wait queues hold exactly
the threads marked `PENDING`, each once and in one queue.

### The semaphore (`SemProofs`)

- `WaitQueueCorrect`: `Spec => []WaitQueueExact`;
- `NoWakeupLost`: `Spec => []NoLostWakeup`;
- `ExpiredNeverGiven`: `Spec => ExpiredNotGiven`;
- `SemRefines`: `Spec => Refines`, the semaphore implements `AbsSem`;
- `ForeverNeverFails`: `Spec => []ForeverTakesSucceed` on ARM. (The return from
  an interrupt on the posix port replaces a return value that was already set: see
  section 4.)
- `MostUrgentFirst`: `Spec => GivenToMostUrgent` when no priority changes. (A
  queued thread whose priority changes keeps its place, so without the hypothesis
  it is false.)

`SemInv` adds to `IInv` and `WaitsExact`: a timeout is marked expired only while
`_handling_timeouts` is set (`ClockInv`: without it `NoLostWakeup` is not
inductive, as a give skips expired waiters only then); a unit and a
waiter that could take it never coexist; who waits is taking. The refinement maps
the threads marked pending and not expired to the abstract waiters.

### The timeout queue (`TimeoutQProofs`)

For any number of timeouts, any ticks:

- `LinkedCorrect`: `Spec => []LinkedAsMarked`;
- `NeverOverdue`: `Spec => []NothingOverdue`;
- `TimeoutsRefine`: `Spec => Refines`, the delta list implements `AbsTimeouts`, in
  which every timeout has its own countdown.

`QInv` says that the queue and the expired list hold exactly the timeouts marked
as such. `OInv` adds the order: timeouts that fall due together stand on the queue
youngest first (`_add_timeout()` inserts before an equal) and on the expired list,
which prepending turns round, oldest first. It is what makes the refinement work
for the handlers, which the abstract specification runs oldest first. The heart of it is that
inserting into or removing from a delta list leaves the sum of the deltas up to
every other timeout as it was. The sums are a recursive function, whose existence
is proved by the least-number principle on the positions (`SumsExist`).

### The mutex (`MutexProofs`)

For any number of mutexes:

- `MutualExclusion`: `Spec => []Exclusive`;
- `NobodyStranded`: `Spec => []NoStrandedWaiter`.

The functions lock the scheduler and not the interrupts, so the mutex goes through
states in which owner, count and wait queue disagree. `MInv` says what each of
those states is: only the running thread is inside a call without waiting, and
has locked the scheduler once (`PcInv`); an owner was told so, or has been granted
the mutex and has not run since, or is giving it up (`OwnerInv`); the next owner
is off the wait queue and has not been told yet (`ReleaseInv`); a mutex that is
free is wanted by nobody whose timeout has not expired (`FreeInv`).

For any number of mutexes, if no thread locks a second mutex while it owns one
(`OneAtATime`) and none changes priorities (`NewPrios = {}`):

- `InheritanceWorks`: `Spec /\ []OneAtATime => []Inherited`;
- `PriorityComesBack`: `... => []PriorityRestored`;
- `OwnerKeepsPriority`: `... => []OwnerNeverDemoted`;
- `MostUrgentServed`: `... => NewOwnerMostUrgent`.

`OneAtATime` is what `doc/kernel/synchronization/mutexes.rst` recommends: with
nested mutexes the kernel "does *not* fully support priority inheritance". A
program with one mutex satisfies it trivially. `PInv` is the invariant: the wait
queues are sorted, because a waiter owns nothing and so is never boosted in its
place; the priority recorded in a mutex is its owner's own; between the moment a
thread that timed out computes the owner's new priority and the moment it sets it,
that priority remains enough for those who still wait, since only the clock
interrupt gets in between and only takes waiters away (`AdjustInv`); the next
owner, chosen but not recorded, is as urgent as those who go on waiting
(`HandInv`). TLC checked `MInv` and `PInv` on the instances of `MCMutex` and on
one with two mutexes before they were proved.

### Stack and memory slab (`DataProofs`)

For any number of threads and items, on ARM, for every behaviour of `DataPassing`
that exercises the object:

- `StackWordsKept`: `Spec => []StackKeepsWords`;
- `SlabBlocksKept`: `Spec => []SlabBlocksOwned`.

On the posix port they are false: the return from an interrupt replaces the value
that tells a served waiter to look at its `swap_data` (section 4), and the item is
lost.

Both objects hand an item to a waiter that has not run yet, so the proof is about
three kinds of places and not two: `OwnInv(F, o)` says that an item is in the
object's list (`F`), with one holder, or on its way to one thread that was served
in the call `o` and has not returned; that these exclude each other; and that
nobody who can be served waits while `F` is not empty. One lemma for each way an
item moves (`OwnTake`, `OwnPut`, `OwnGive`, `OwnReturn`, `OwnPass`) preserves it.
Who was served is told by the return value alone. So `ObjWaits` says that the wait
queue holds exactly the callers marked `PENDING`, that each of them is inside one of
the object's calls and still has the `-EAGAIN` that `_Swap()` starts with, and that a
timeout is expired only while `_handling_timeouts` is set.
`EnvironmentStays` shows that ticks, nested interrupts, suspensions, resumptions
and aborts preserve that and serve nobody; `BlockStays`, `WakeStays` and
`ReturnStays` do the same for the calls. `UseFixed` shows that a behaviour stays with
its object.

### Message queue (`DataProofs`)

For any number of threads, any messages and any capacity, on ARM:

- `QueueUnambiguous`: `Spec => []WaitersMatchBuffer`;
- `MsgQImplementsFifo`: `Spec => MsgQRefines`, the queue implements `AbsMsgQ`.

`MsgQInv` says that the ring is well formed (`RingOK`: the write pointer is
`used_msgs` slots after the read pointer, modulo the capacity), that readers who
can be served wait only while it is empty and writers only while it is full, and
`ObjWaits`. The ring lemmas say what one write and one read do to the sequence
of messages the pointers delimit, the wrap included. A purge wakes as many
threads as there are: `wake_purged` is a function of the number woken so far, and
what it has done after the i-th, that the first i waiters are awake with `-ENOMSG`
and the others untouched, is proved by the least-number principle on i, as
are the sums of the delta list. The refinement maps the slots to the abstract
buffer and the waiters who can be served to the abstract readers and writers; a
get that lets a writer in is one step of `AbsMsgQ`. In a behaviour that exercises
another object no thread is inside a call of the message queue, which stays empty
(`Elsewhere`), so that the refinement holds of every behaviour of `DataPassing`.

TLC checked `DInv` (the invariants of the three objects together) on the instance
of `MCData` before it was proved.

### Mailbox (`DataProofs`)

For any number of threads, every pattern of targets and sources, both ports:

- `MailboxInvariant`: `Spec => []MailboxInv`;
- `MailboxRendezvous`: `Spec => []Rendezvous`.

Once `k_mbox_get()` has found its sender it makes it look ready without adding it
to the ready queue: until the message is disposed of, by a later call, the
sender is in no list while its state says that it could run, so the scheduler's
invariant is false of the kernel's record over whole calls. `MailboxInv` states
it of another record `p`, equal to the kernel's but with the senders in
`_syncing_thread` suspended (`Parks`). Every primitive the mailbox and the
interrupts use does to `p` what it does to the kernel's record (the lemmas
`ParksAdd` to the context switch), except where a sender is set aside
(`SetAside`) and where it is made ready again (`MboxDispose`): there `Parks`
gains and loses one thread. The rest of the invariant is about the two queues:
putters wait in one and getters in the other, no waiting putter matches a
waiting getter, no thread is the sender of two receivers, and a thread inside a
call that does not wait has no timeout running, a sender set aside included.
`Mailbox` has no suspension, priority change or abort: section 4 says what these
would do to a sender that is set aside.

### Polling and timers (`ServicesProofs`)

For any number of threads, items and signals, both ports and every behaviour of
`Services`:

- `PollNoticesSignals`: `Spec => []PollSeesSignals`;
- `PollLeavesNothing`: `Spec => []PollCleansUp`;
- `SyncNeverStranded`: if `~NestedStops`, `Spec => []SyncNotStranded`;
- `ReadyWhenExpired`: if `~NestedStops`, `Spec => []ReadyAfterExpiry`.

With `NestedStops` the last one is false: that is `timer_doc`.

All follow from `ServicesInv`. In a behaviour that exercises the timer it says
`TimerInv` without `NestedStops`, and in any case which calls the threads are in
(`TimerCalls`): that is all the theorems on polling need of the timer. Its common part is `KernelInv`: `IInv`, `ClockInv`
and `WaitsExact`. Queues, workqueues and alerts keep it in every step, whatever
becomes of their items (`QueueKept`, `WorkQKept`, `DelayedKept`, `AlertKept`),
because each step is made of the primitives of `WaitProofs`: waking the first
waiter, blocking, returning, starting and stopping a timeout that no thread owns.

`PollInv` says where the one poller is. During the scan the registered events are
among those before the last one registered, and all those before the scan's
position as long as the flag `polling` is set, which then also means that none of
those signals is raised (`Scans`); in the wait and in the removal they are among
those up to the last one (`Waits`, `Clears`). The flag carries what happened
before the thread blocks, the return value what happened after.

`TimerInv` follows the expiry handler. Only the thread inside
`k_timer_status_sync()` waits, without a timeout (`Waiter`), and it is the
handler's target (`Target`). While the handler takes it off the wait queue, it
stays pending, and the links that the handler has loaded are those of the wait
queue (`Linking`): the clock's other steps wait for the handler, and a stop that
would move the thread does not come there. Between the handler's last two
steps `KernelInv` is false: the thread is in no list. What
holds there is `Live(Done(k, t))`: the record will be consistent when the rest of
the handler has run (`Unlinked`). Starting and stopping the timer and nesting a
device interrupt commute with the rest of the handler (`DoneTimeout`,
`NestedKept`), so the promise is kept until `timer_ready` redeems it.

## 6. Only model-checked

- Liveness (`SlicesShared`, `TimedTakeEnds`, `WaiterServed`, `EventuallyOff`):
  fairness and ENABLED are outside the prover's reach.
- `QueueKeepsItems`, `WorkNotLost`, `AlertsCarried`: which items the list holds is
  what a walk along its next pointers reaches, and the places of an item are
  counted; both are inductions over data. They also rest on appenders that nobody
  preempts between two steps. `ServicesProofs` proves the scheduler's part.
- `PoolPartitioned`: blocks of levels and their buddies are nonlinear arithmetic
  (powers of four), which the SMT backend does not decide.
- `PipeKeepsBytes`, `PipeWaitersJustified`: a transfer is a fold over the list of
  waiters whose amounts add up, modulo the buffer's size.
- `DataTypeOK`: the parts that concern the kernel, the stack, the slab, the
  message queue and the mailbox are conjuncts of `DInv` and `MailboxInv`; the
  others come with the objects above.

## 7. Not modelled

- The pthread layer. `pthread_cond_wait()` sets the mutex semaphore's count to 1
  and makes one of its waiters ready without a return value; that waiter's
  `pthread_mutex_lock()` ignores the result and runs on as the owner while the
  count lets another thread in. There is no intended behaviour left to state.
- Asynchronous mailbox and pipe calls (dummy threads), data in memory blocks,
  `k_malloc()`; poll events of semaphores and queues, and queues that wait
  through `k_poll()`; several workqueues.
- Tickless operation; user mode and memory domains (checks in front of the same
  calls); stacks, registers and the other architectures; power management; the
  wrap of the 8-bit lock depth; timeouts of 0 ticks; timer drivers that announce
  late; calls that switch inside an interrupt (`k_mem_slab_free()`,
  `k_msgq_purge()`).
- Everything outside the kernel, listed with its reason under "components" in
  `PROJECT.json`. The repository is mostly that: vendored hardware headers,
  drivers and protocol stacks.

## 8. Plan

Done, in order: `KernelOps`, `Sched`, `Sem` with `AbsSem`, `TimeoutQ` with
`AbsTimeouts`, `Mutex`, the proofs of the scheduler, `Objects` with the data
passing objects, queues, workqueues, alerts, timers and polling, then the proofs
of the semaphore, the timeout queue, the mutex, the stack, the slab, the message
queue with its refinement, polling, the timer and the mailbox.

What could still be added to the models: events of semaphores and queues in
`Poll`, asynchronous mailbox and pipe calls.

Next theorems: the queue's list, its walk given by positions as the purge is; then
the pipe's transfers, each stated as what one pass over the waiters does.
