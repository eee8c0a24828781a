------------------------------- MODULE Sched -------------------------------
(***************************************************************************)
(* The thread scheduler: the thread API of kernel/thread.c, kernel/sched.c *)
(* and arch/arm/core/thread_abort.c, the system clock interrupt of         *)
(* kernel/sys_clock.c, and device interrupts, which may preempt the clock  *)
(* interrupt and be preempted by it.                                       *)
(*                                                                         *)
(* One CPU runs either the thread k.current or, when isr is not empty, the *)
(* interrupt at the top of the stack isr.  An API call holds irq_lock()    *)
(* from its first access to shared state to its last, so it is one step.   *)
(* The clock interrupt releases the lock between any two timeouts and is   *)
(* one step per timeout.                                                   *)
(***************************************************************************)
EXTENDS KernelOps

CONSTANTS
    InitPrio,      \* priority each thread is defined with
    NewPrios,      \* priorities k_thread_create/_priority_set are called with
    SliceSettings, \* <<duration in ticks, ceiling>> of time_slice_set calls
    MaxLock,       \* bound: nesting of k_sched_lock (255 in the code)
    Sources        \* interrupt sources that are enabled: "clk", "dev"

ASSUME SchedAssumption ==
    /\ InitPrio \in [Threads -> Prios]
    /\ InitPrio[Idle] = NumPreempt
    /\ \A t \in Threads \ {Idle} : InitPrio[t] \in AppPrios
    /\ NewPrios \subseteq AppPrios
    /\ SliceSettings \subseteq Nat \X (0..(NumPreempt - 1))
    /\ SliceSettings # {}
    /\ MaxLock \in Nat
    /\ Sources \subseteq {"clk", "dev"}

VARIABLES
    k,      \* the kernel record of KernelOps
    isr,    \* stack of active interrupts, innermost first
    clk,    \* where the clock interrupt is: "off", "expire" or "handle"
    slice   \* <<_time_slice_duration, _time_slice_prio_ceiling>>

schedVars == <<k, isr, clk, slice>>

Apps == Threads \ {Idle}
StartDelays == {"NONE", "TICKS", "FOREVER"}

\* After prepare_multithreading(), the switch to the main thread and
\* _init_static_threads(): main runs, idle is ready, every other thread is a
\* static one that is to start after a delay or has the delay K_FOREVER.
SchedInit ==
    /\ \E delayed \in SUBSET (Threads \ {Main, Idle}) :
       k = [current |-> Main,
            cache   |-> Main,
            q       |-> [p \in Prios |-> IF p = InitPrio[Main] THEN <<Main>>
                                    ELSE IF p = NumPreempt THEN <<Idle>>
                                    ELSE <<>>],
            bmap    |-> {InitPrio[Main], NumPreempt},
            prio    |-> InitPrio,
            state   |-> [t \in Threads |-> IF t \in {Main, Idle} THEN {}
                                           ELSE {"PRESTART"}],
            locked  |-> [t \in Threads |-> 0],
            to      |-> [t \in AllTimeouts |-> IF t \in delayed THEN "ACTIVE"
                                               ELSE "INACTIVE"],
            wq      |-> [w \in WaitQs |-> <<>>],
            rv      |-> [t \in Threads |-> "EAGAIN"],
            handling |-> FALSE,
            elapsed |-> 0]
    /\ isr = <<>>
    /\ clk = "off"
    /\ slice \in SliceSettings

(***************************************************************************)
(* The thread API, called by the running thread.                           *)
(***************************************************************************)
InThread == isr = <<>> /\ k.current # Idle

\* A thread API call that changes only the kernel record.
Call(newK) == /\ k' = newK
              /\ UNCHANGED <<isr, clk, slice>>

start(kk, t) ==
    IF "PRESTART" \notin kk.state[t]
    THEN kk
    ELSE LET k1 == [kk EXCEPT !.state[t] = @ \ {"PRESTART"}] IN
         IF is_thread_ready(k1, t)
         THEN reschedule_threads(add_thread_to_ready_q(k1, t))
         ELSE k1

k_thread_start(t) == InThread /\ Call(start(k, t))

\* The thread object must not be in use: only a dead one is created anew.
k_thread_create(t, prio, delay) ==
    /\ InThread
    /\ "DEAD" \in k.state[t]
    /\ LET k1 == [k EXCEPT !.state[t]  = {"PRESTART"},
                           !.prio[t]   = prio,
                           !.locked[t] = 0,
                           !.to[t]     = "INACTIVE"]
       IN Call(CASE delay = "FOREVER" -> k1
                 [] delay = "TICKS"   -> add_thread_timeout(k1, t)
                 [] delay = "NONE"    -> start(k1, t))

k_thread_cancel(t) ==
    /\ InThread
    /\ "PRESTART" \in k.state[t] /\ is_thread_timeout_active(k, t)
    /\ Call(abort_thread_timeout(k, t))

k_yield ==
    /\ InThread
    /\ LET k1 == move_thread_to_end_of_prio_q(k, k.current) IN
       Call(IF k.current = k1.cache THEN k1 ELSE swap(k1))

k_sleep ==
    /\ InThread
    /\ Call(swap(add_thread_timeout(
                    remove_thread_from_ready_q(k, k.current), k.current)))

\* Nothing happens to a thread that waits for an object or has no timeout.
wakeup(kk, t) == ready_thread(abort_thread_timeout(kk, t), t)

k_wakeup(t) ==
    /\ InThread
    /\ "PENDING" \notin k.state[t] /\ is_thread_timeout_active(k, t)
    /\ Call(reschedule_threads(wakeup(k, t)))

k_thread_priority_set(t, prio) ==
    InThread /\ Call(reschedule_threads(thread_priority_set(k, t, prio)))

\* Mutant: a suspended thread is left in the ready queue.
k_thread_suspend_queued(t) ==
    /\ InThread
    /\ LET k2 == [k EXCEPT !.state[t] = @ \cup {"SUSPENDED"}]
       IN Call(IF t = k.current THEN swap(k2) ELSE k2)

k_thread_suspend(t) ==
    /\ InThread
    /\ LET k1 == IF is_thread_ready(k, t)
                 THEN remove_thread_from_ready_q(k, t) ELSE k
           k2 == [k1 EXCEPT !.state[t] = @ \cup {"SUSPENDED"}]
       IN Call(IF t = k.current THEN swap(k2) ELSE k2)

resume(kk, t) ==
    LET k1 == [kk EXCEPT !.state[t] = @ \ {"SUSPENDED"}] IN
    reschedule_threads(IF is_thread_ready(k1, t)
                       THEN add_thread_to_ready_q(k1, t) ELSE k1)

\* The code does not ask whether t is suspended.  A ready thread is appended
\* to its queue a second time, which stands for the relinking of a node that
\* is in a list already: what follows such a step is not modelled.
k_thread_resume(t) == InThread /\ Call(resume(k, t))

\* The discipline of the callers that the other specifications assume: no
\* thread that is ready is resumed.  Any other thread may be, suspended or not.
resume_not_ready(t) == ~is_thread_ready(k, t) /\ k_thread_resume(t)

single_abort(kk, t) ==
    LET k1 == IF is_thread_ready(kk, t)
              THEN remove_thread_from_ready_q(kk, t)
              ELSE abort_thread_timeout(
                     IF "PENDING" \in kk.state[t]
                     THEN unpend_thread(kk, t) ELSE kk, t)
    IN [k1 EXCEPT !.state[t] = @ \cup {"DEAD"}]

\* The main thread is essential: aborting it is a fatal error.
k_thread_abort(t) ==
    /\ InThread
    /\ t # Main
    /\ LET k1 == single_abort(k, t) IN
       Call(IF t = k.current THEN swap(k1) ELSE reschedule_threads(k1))

k_sched_lock ==
    /\ InThread
    /\ k.locked[k.current] < MaxLock
    /\ Call(sched_lock(k))

\* Mutant: an unlock without a lock.
k_sched_unlock_unbalanced ==
    InThread /\ Call(reschedule_threads(sched_unlock_no_reschedule(k)))

\* Mutant: no reschedule after the unlock.
k_sched_unlock_no_reschedule ==
    /\ InThread
    /\ k.locked[k.current] > 0
    /\ Call(sched_unlock_no_reschedule(k))

k_sched_unlock ==
    /\ InThread
    /\ k.locked[k.current] > 0
    /\ Call(reschedule_threads(sched_unlock_no_reschedule(k)))

k_sched_time_slice_set(s) ==
    /\ InThread
    /\ s # slice
    /\ slice' = s
    /\ k' = [k EXCEPT !.elapsed = 0]
    /\ UNCHANGED <<isr, clk>>

ThreadApi ==
    \/ k_yield \/ k_sleep \/ k_sched_lock \/ k_sched_unlock
    \/ \E t \in Apps :
          \/ k_thread_start(t) \/ k_thread_cancel(t) \/ k_wakeup(t)
          \/ k_thread_suspend(t) \/ resume_not_ready(t)
          \/ k_thread_abort(t)
          \/ \E p \in NewPrios :
                \/ k_thread_priority_set(t, p)
                \/ \E d \in StartDelays : k_thread_create(t, p, d)
    \/ \E s \in SliceSettings : k_sched_time_slice_set(s)

(***************************************************************************)
(* Interrupts.                                                             *)
(***************************************************************************)
Active(source) == isr # <<>> /\ Head(isr) = source

IsrEnter(source) ==
    /\ source \in Sources
    /\ ~Contains(isr, source)
    /\ isr' = <<source>> \o isr

\* Only the return of the outermost interrupt switches threads.
IsrExit(newK) ==
    /\ isr' = Tail(isr)
    /\ k' = IF Tail(isr) = <<>> THEN isr_exit_swap(newK) ELSE newK

DevEnter == IsrEnter("dev") /\ UNCHANGED <<k, clk, slice>>
DevExit  == Active("dev") /\ IsrExit(k) /\ UNCHANGED <<clk, slice>>

\* k_wakeup() from a device interrupt.  A thread the clock interrupt has
\* already marked EXPIRED is left out: stopping such a timeout corrupts the
\* list of expired ones (timeout_q.h:145-152, see README).
isr_wakeup(t) ==
    /\ Active("dev")
    /\ "PENDING" \notin k.state[t] /\ k.to[t] = "ACTIVE"
    /\ k' = wakeup(k, t)
    /\ UNCHANGED <<isr, clk, slice>>

\* handle_timeouts(): with an empty _timeout_q it returns at once
ClockEnter ==
    /\ IsrEnter("clk")
    /\ IF \E t \in AllTimeouts : k.to[t] = "ACTIVE"
       THEN clk' = "expire" /\ k' = [k EXCEPT !.handling = TRUE]
       ELSE clk' = "handle" /\ k' = k
    /\ UNCHANGED slice

\* one timeout of this tick is moved to the expired list
ClockExpire(t) ==
    /\ Active("clk") /\ clk = "expire"
    /\ k.to[t] = "ACTIVE"
    /\ k' = [k EXCEPT !.to[t] = "EXPIRED"]
    /\ UNCHANGED <<isr, clk, slice>>

ClockExpired ==
    /\ Active("clk") /\ clk = "expire"
    /\ clk' = "handle"
    /\ UNCHANGED <<k, isr, slice>>

ClockHandle(t) ==
    /\ Active("clk") /\ clk = "handle"
    /\ k.to[t] = "EXPIRED"
    /\ k' = handle_one_expired_timeout(k, t)
    /\ UNCHANGED <<isr, clk, slice>>

ClockExit ==
    /\ Active("clk") /\ clk = "handle"
    /\ \A t \in AllTimeouts : k.to[t] # "EXPIRED"
    /\ clk' = "off"
    /\ IsrExit(handle_time_slicing([k EXCEPT !.handling = FALSE],
                                   slice[1], slice[2]))
    /\ UNCHANGED slice

Clock == \/ ClockEnter \/ ClockExpired \/ ClockExit
         \/ \E t \in AllTimeouts : ClockExpire(t)
         \/ \E t \in Threads : ClockHandle(t)

Device == DevEnter \/ DevExit \/ \E t \in Apps : isr_wakeup(t)

SchedNext == ThreadApi \/ Clock \/ Device

SchedSpec == SchedInit /\ [][SchedNext]_schedVars

\* The same with callers that may resume a ready thread too, which
\* kernel.h:1115 allows: "If @a thread is not currently suspended, the routine
\* has no effect."
ResumeAnyNext == SchedNext \/ \E t \in Apps \ {k.current} : k_thread_resume(t)
ResumeAnySpec == SchedInit /\ [][ResumeAnyNext]_schedVars

(***************************************************************************)
(* Properties.                                                             *)
(***************************************************************************)
TypeOK ==
    /\ k \in KernelType
    /\ isr \in {<<>>, <<"clk">>, <<"dev">>, <<"clk", "dev">>, <<"dev", "clk">>}
    /\ clk \in {"off", "expire", "handle"}
    /\ slice \in SliceSettings

\* The ready queue holds exactly the ready threads, each once and at its own
\* priority, whatever order of suspensions, wakeups, timeouts, aborts and
\* priority changes led here (sched.c's add, remove and move are the only
\* writers; a thread linked twice corrupts the list).  SchedSpec keeps it, as
\* long as no ready thread is resumed; ResumeAnySpec does not.
ReadyQueueExact == ready_q_exact(k)

\* _ready_q.cache "always contains next thread to run" (kernel_structs.h):
\* it is the head of the most urgent non-empty queue, and the bitmap
\* summarises the queues, though each is updated separately.
CacheIsNext == cache_is_next(k)

\* At thread level a preemptible thread runs only while no ready thread is
\* more urgent: no path through the API or an interrupt's return forgets to
\* reschedule.  The running thread is always ready.
NoMissedPreemption ==
    /\ is_thread_ready(k, k.current)
    /\ isr = <<>> /\ is_preempt(k, k.current) =>
          \A t \in Threads : is_thread_ready(k, t) =>
              ~is_prio_higher(k.prio[t], k.prio[k.current])

\* A thread that is cooperative or holds the scheduler lock loses the CPU
\* only by giving it up: it stops being ready or calls k_yield.
NonPreemptibleKeepsCpu ==
    [][LET c == k.current IN
         /\ k'.current # c
         /\ ~is_preempt(k, c) /\ ~is_preempt(k', c)
         => ~is_thread_ready(k', c) \/ k_yield]_schedVars

\* Time slicing: a thread that stays ready at the most urgent level, with
\* slicing on for that level, gets the CPU again and again even if the others
\* there never yield, as long as nobody holds the scheduler lock: _update_
\* time_slice_before_swap() and the end of a slice restart the count.
SlicesShared ==
    \A t \in Apps :
        <>[](/\ is_thread_ready(k, t) /\ k.prio[t] = get_highest_ready_prio(k)
             /\ slice[1] > 0 /\ ~is_prio_higher(k.prio[t], slice[2])
             /\ \A u \in Threads : k.locked[u] = 0)
        => []<>(k.current = t)

=============================================================================
