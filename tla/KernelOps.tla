----------------------------- MODULE KernelOps -----------------------------
(***************************************************************************)
(* The kernel's internal scheduling primitives as operators on a record k  *)
(* that holds struct _kernel and the scheduling part (struct _thread_base) *)
(* of every thread.  Each operator is one C function of kernel/sched.c,    *)
(* kernel/include/ksched.h, kernel/include/timeout_q.h or of the context   *)
(* switch; a C function that calls others is a composition of operators.   *)
(* All of these functions run with interrupts locked, so the modules that  *)
(* use them take a whole composition as one step.                          *)
(*                                                                         *)
(* Configuration: one CPU, CONFIG_MULTITHREADING, CONFIG_PREEMPT_ENABLED,  *)
(* CONFIG_COOP_ENABLED, CONFIG_TIMESLICING, CONFIG_SYS_CLOCK_EXISTS, not   *)
(* CONFIG_TICKLESS_KERNEL.                                                 *)
(*                                                                         *)
(* A thread's timeout is only INACTIVE, ACTIVE (on _timeout_q) or EXPIRED  *)
(* (on the clock interrupt's local list) here; the ticks and the delta     *)
(* list are the subject of module TimeoutQ.                                *)
(***************************************************************************)
EXTENDS Integers, FiniteSets, SequencesExt

CONSTANTS
    Threads,      \* every struct k_thread of the system
    Idle,         \* the idle thread
    Main,         \* the main thread
    NoThread,     \* the NULL thread pointer
    Timers,       \* the timeouts (struct _timeout) that belong to no thread
    WaitQs,       \* the wait queues of the kernel objects
    NumCoop,      \* CONFIG_NUM_COOP_PRIORITIES
    NumPreempt,   \* CONFIG_NUM_PREEMPT_PRIORITIES
    Port          \* the architecture port: "arm" or "posix"

ASSUME ThreadsAssumption ==
    /\ Idle \in Threads /\ Main \in Threads /\ Idle # Main
    /\ NoThread \notin Threads
ASSUME TimersAssumption == Timers \cap Threads = {}
ASSUME PriosAssumption == NumCoop \in Nat /\ NumPreempt \in Nat \ {0}
ASSUME PortAssumption == Port \in {"arm", "posix"}

\* Numerically lower is more urgent; negative priorities are cooperative.
\* The lowest one, NumPreempt, is the idle thread's alone.
Prios == (-NumCoop)..NumPreempt
AppPrios == (-NumCoop)..(NumPreempt - 1)

StateFlags == {"PENDING", "PRESTART", "DEAD", "SUSPENDED"}
AllTimeouts == Threads \cup Timers
TimeoutStates == {"INACTIVE", "ACTIVE", "EXPIRED"}

RetVals == {"0", "EAGAIN", "ENOMSG"}

KernelType ==
    [current : Threads,                     \* _kernel.current
     cache   : Threads,                     \* _kernel.ready_q.cache
     q       : [Prios -> Seq(Threads)],     \* _kernel.ready_q.q
     bmap    : SUBSET Prios,                \* _kernel.ready_q.prio_bmap
     prio    : [Threads -> Prios],          \* base.prio
     state   : [Threads -> SUBSET StateFlags], \* base.thread_state
     locked  : [Threads -> Nat],            \* -base.sched_locked: lock depth
     to      : [AllTimeouts -> TimeoutStates], \* base.timeout
     wq      : [WaitQs -> Seq(Threads)],    \* the objects' wait_q
     rv      : [Threads -> RetVals],        \* value _Swap() will return
     handling : BOOLEAN,                    \* _handling_timeouts
     elapsed : Nat]                         \* _time_slice_elapsed

(***************************************************************************)
(* Predicates on threads.                                                  *)
(***************************************************************************)
is_prio_higher(p1, p2) == p1 < p2

\* base.preempt <= 0x7f: not cooperative and the scheduler not locked
is_preempt(k, t) == k.prio[t] >= 0 /\ k.locked[t] = 0

is_thread_timeout_active(k, t) == k.to[t] # "INACTIVE"

\* POLLING and the like do not prevent a thread from running; every flag of
\* StateFlags does.
is_thread_ready(k, t) ==
    k.state[t] = {} /\ ~is_thread_timeout_active(k, t)

(***************************************************************************)
(* The ready queue.                                                        *)
(***************************************************************************)
get_highest_ready_prio(k) == Min(k.bmap)

get_ready_q_head(k) == Head(k.q[get_highest_ready_prio(k)])

\* sys_dlist_remove: the list without its (only) occurrence of t
dlist_remove(s, t) ==
    IF \E i \in 1..Len(s) : s[i] = t
    THEN RemoveAt(s, CHOOSE i \in 1..Len(s) : s[i] = t)
    ELSE s

add_thread_to_ready_q(k, t) ==
    LET p == k.prio[t] IN
    [k EXCEPT !.q[p]  = Append(@, t),
              !.bmap  = @ \cup {p},
              !.cache = IF is_prio_higher(p, k.prio[@]) THEN t ELSE @]

\* Mutant: the cache is left alone.
remove_thread_stale_cache(k, t) ==
    LET p    == k.prio[t]
        rest == dlist_remove(k.q[p], t)
    IN [k EXCEPT !.q[p] = rest, !.bmap = IF rest = <<>> THEN @ \ {p} ELSE @]

remove_thread_from_ready_q(k, t) ==
    LET p    == k.prio[t]
        rest == dlist_remove(k.q[p], t)
        k1   == [k EXCEPT !.q[p] = rest,
                          !.bmap = IF rest = <<>> THEN @ \ {p} ELSE @]
    IN [k1 EXCEPT !.cache = IF @ = t THEN get_ready_q_head(k1) ELSE @]

move_thread_to_end_of_prio_q(k, t) ==
    LET p == k.prio[t] IN
    IF Last(k.q[p]) = t
    THEN k
    ELSE LET k1 == [k EXCEPT !.q[p] = Append(dlist_remove(@, t), t)]
         IN [k1 EXCEPT !.cache = IF @ = t THEN get_ready_q_head(k1) ELSE @]

\* also starts a thread whose delayed start is over
ready_thread(k, t) ==
    LET k1 == [k EXCEPT !.state[t] = @ \ {"PRESTART"}] IN
    IF is_thread_ready(k1, t) THEN add_thread_to_ready_q(k1, t) ELSE k1

\* A waiting thread keeps its place in the wait queue.
thread_priority_set(k, t, prio) ==
    IF is_thread_ready(k, t)
    THEN add_thread_to_ready_q(
            [remove_thread_from_ready_q(k, t) EXCEPT !.prio[t] = prio], t)
    ELSE [k EXCEPT !.prio[t] = prio]

(***************************************************************************)
(* Context switch.  _Swap() leaves -EAGAIN as the outgoing thread's return *)
(* value, which _set_thread_return_value() may replace until it runs       *)
(* again, and restarts the time slice.                                     *)
(***************************************************************************)
swap(k) ==
    [k EXCEPT !.rv[k.current] = "EAGAIN", !.current = k.cache, !.elapsed = 0]

must_switch_threads(k) ==
    /\ is_preempt(k, k.current)
    /\ is_prio_higher(get_highest_ready_prio(k), k.prio[k.current])

reschedule_threads(k) == IF must_switch_threads(k) THEN swap(k) ELSE k

\* Mutant: the preemptibility of the interrupted thread is not checked.
isr_exit_swap_always(k) ==
    IF k.cache # k.current
    THEN [k EXCEPT !.current = k.cache, !.elapsed = 0] ELSE k

\* Return from the outermost interrupt.  The ARM exception exit restarts the
\* time slice and keeps the swap return value of the preempted thread;
\* native_posix calls __swap(), which does neither.
isr_exit_swap(k) ==
    IF is_preempt(k, k.current) /\ k.cache # k.current
    THEN IF Port = "arm"
         THEN [k EXCEPT !.current = k.cache, !.elapsed = 0]
         ELSE [k EXCEPT !.rv[k.current] = "EAGAIN", !.current = k.cache]
    ELSE k

sched_lock(k) == [k EXCEPT !.locked[k.current] = @ + 1]
sched_unlock_no_reschedule(k) == [k EXCEPT !.locked[k.current] = @ - 1]

(***************************************************************************)
(* Timeouts and wait queues.                                               *)
(***************************************************************************)
add_thread_timeout(k, t) == [k EXCEPT !.to[t] = "ACTIVE"]
abort_thread_timeout(k, t) == [k EXCEPT !.to[t] = "INACTIVE"]

\* Mutant: first come, first served.
pend_position_fifo(k, t, w) == Len(k.wq[w]) + 1

\* before the first waiter of strictly lower priority
pend_position(k, t, w) ==
    LET lower == {i \in 1..Len(k.wq[w]) :
                    is_prio_higher(k.prio[t], k.prio[k.wq[w][i]])}
    IN IF lower = {} THEN Len(k.wq[w]) + 1 ELSE Min(lower)

\* timed = FALSE is K_FOREVER
pend_thread(k, t, w, timed) ==
    LET k1 == [k EXCEPT !.wq[w] = InsertAt(@, pend_position(k, t, w), t),
                        !.state[t] = @ \cup {"PENDING"}]
    IN IF timed THEN add_thread_timeout(k1, t) ELSE k1

pend_current_thread(k, w, timed) ==
    pend_thread(remove_thread_from_ready_q(k, k.current), k.current, w, timed)

\* Mutant: off the queue but still marked pending.
unpend_thread_marked(k, t) ==
    [k EXCEPT !.wq = [w \in WaitQs |-> dlist_remove(k.wq[w], t)]]

unpend_thread(k, t) ==
    [k EXCEPT !.wq = [w \in WaitQs |-> dlist_remove(k.wq[w], t)],
              !.state[t] = @ \ {"PENDING"}]

\* Mutant: expired waiters are served like any other.
find_first_ignoring_expiry(k, w) ==
    IF k.wq[w] = <<>> THEN NoThread ELSE Head(k.wq[w])

\* Mutant: gives up at an expired waiter instead of skipping it.
find_first_no_skip(k, w) ==
    IF k.wq[w] = <<>> \/ (k.handling /\ k.to[Head(k.wq[w])] = "EXPIRED")
    THEN NoThread ELSE Head(k.wq[w])

\* While the clock interrupt handles timeouts, expired waiters are skipped.
find_first_thread_to_unpend(k, w) ==
    LET eligible == {i \in 1..Len(k.wq[w]) :
                        ~(k.handling /\ k.to[k.wq[w][i]] = "EXPIRED")}
    IN IF eligible = {} THEN NoThread ELSE k.wq[w][Min(eligible)]

\* Mutant: a timed-out waiter stays on its wait queue.
handle_one_still_pending(k, t) == ready_thread([k EXCEPT !.to[t] = "INACTIVE"], t)

handle_one_expired_timeout(k, t) ==
    LET k1 == [k EXCEPT !.to[t] = "INACTIVE"]
        k2 == IF "PENDING" \in k1.state[t] THEN unpend_thread(k1, t) ELSE k1
    IN ready_thread(k2, t)

\* Mutant: the return value is forgotten.
wake_waiter_no_value(k, t) ==
    ready_thread(abort_thread_timeout(unpend_thread(k, t), t), t)

\* unpend the waiter, cancel its timeout, ready it and hand it the result:
\* how every kernel object passes something to its first waiter
wake_waiter(k, t) ==
    [ready_thread(abort_thread_timeout(unpend_thread(k, t), t), t)
        EXCEPT !.rv[t] = "0"]

(***************************************************************************)
(* Time slicing.  duration and ceiling: k_sched_time_slice_set().          *)
(***************************************************************************)

\* Mutant: off by one in "more than one node".
is_thread_time_slicing_three(k, t, duration, ceiling) ==
    /\ duration > 0
    /\ t # Idle
    /\ ~is_prio_higher(k.prio[t], ceiling)
    /\ Len(k.q[k.prio[t]]) > 2

is_thread_time_slicing(k, t, duration, ceiling) ==
    /\ duration > 0
    /\ t # Idle
    /\ ~is_prio_higher(k.prio[t], ceiling)
    /\ Len(k.q[k.prio[t]]) > 1

handle_time_slicing(k, duration, ceiling) ==
    IF ~is_thread_time_slicing(k, k.current, duration, ceiling)
    THEN k
    ELSE IF k.elapsed + 1 >= duration
         THEN move_thread_to_end_of_prio_q([k EXCEPT !.elapsed = 0], k.current)
         ELSE [k EXCEPT !.elapsed = @ + 1]

(***************************************************************************)
(* Consistency of the ready queue, stated of any kernel record.            *)
(***************************************************************************)
ReadyThreads(k) == {t \in Threads : is_thread_ready(k, t)}

\* each ready thread is linked exactly once, at its own priority
ready_q_exact(k) ==
    \A p \in Prios :
        /\ IsInjective(k.q[p])
        /\ ToSet(k.q[p]) = {t \in ReadyThreads(k) : k.prio[t] = p}

cache_is_next(k) ==
    /\ k.bmap = {p \in Prios : k.q[p] # <<>>}
    /\ k.bmap # {}
    /\ k.cache = get_ready_q_head(k)

=============================================================================
