-------------------------------- MODULE Sem --------------------------------
(***************************************************************************)
(* A counting semaphore (kernel/sem.c) used by threads and by a device     *)
(* interrupt on top of the scheduler, while the clock interrupt times      *)
(* waiters out.  CONFIG_POLL is off.                                       *)
(***************************************************************************)
EXTENDS Sched

CONSTANTS
    Limit,       \* k_sem.limit
    InitCount,   \* initial count
    SemQ         \* k_sem.wait_q

ASSUME SemAssumption ==
    /\ Limit \in Nat \ {0} /\ InitCount \in 0..Limit
    /\ SemQ \in WaitQs

VARIABLES
    count,   \* k_sem.count
    taking   \* per thread: "no", or the timeout argument of the k_sem_take it
             \* is blocked in, "TIMED" or "FOREVER"

semVars == <<count, taking>>
vars == <<k, isr, clk, slice, count, taking>>

Init ==
    /\ SchedInit
    /\ count = InitCount
    /\ taking = [t \in Threads |-> "no"]

\* k_sem_take(), count > 0; an interrupt may take too
k_sem_take ==
    /\ \/ InThread /\ taking[k.current] = "no"
       \/ Active("dev")
    /\ count > 0
    /\ count' = count - 1
    /\ UNCHANGED <<k, isr, clk, slice, taking>>

\* k_sem_take(), count = 0, up to its _Swap().  K_NO_WAIT changes nothing.
k_sem_take_wait(timeout) ==
    /\ InThread /\ taking[k.current] = "no"
    /\ count = 0
    /\ taking' = [taking EXCEPT ![k.current] = timeout]
    /\ Call(swap(pend_current_thread(k, SemQ, timeout = "TIMED")))
    /\ UNCHANGED count

\* The thread runs again: interrupts are enabled, _Swap() returns its value.
k_sem_take_return ==
    /\ InThread /\ taking[k.current] # "no"
    /\ taking' = [taking EXCEPT ![k.current] = "no"]
    /\ UNCHANGED <<k, isr, clk, slice, count>>

\* Mutant: the limit is ignored.
increment_count(c) == c + 1

increment_count_up_to_limit(c) == IF c # Limit THEN c + 1 ELSE c

\* Mutant: the unit is handed to a waiter and kept as well.
do_sem_give_twice(inThread) ==
    LET t  == find_first_thread_to_unpend(k, SemQ)
        k1 == IF t = NoThread THEN k ELSE wake_waiter(k, t)
    IN /\ k' = IF inThread THEN reschedule_threads(k1) ELSE k1
       /\ count' = increment_count_up_to_limit(count)

do_sem_give(inThread) ==
    LET t  == find_first_thread_to_unpend(k, SemQ)
        k1 == wake_waiter(k, t)
    IN IF t = NoThread
       THEN k' = k /\ count' = increment_count_up_to_limit(count)
       ELSE /\ k' = IF inThread THEN reschedule_threads(k1) ELSE k1
            /\ count' = count

k_sem_give ==
    /\ InThread /\ taking[k.current] = "no"
    /\ do_sem_give(TRUE)
    /\ UNCHANGED <<isr, clk, slice, taking>>

isr_k_sem_give ==
    /\ Active("dev")
    /\ do_sem_give(FALSE)
    /\ UNCHANGED <<isr, clk, slice, taking>>

k_sem_reset ==
    /\ InThread /\ taking[k.current] = "no"
    /\ count # 0
    /\ count' = 0
    /\ UNCHANGED <<k, isr, clk, slice, taking>>

\* The part of the thread API that can disturb a waiting thread.  A thread
\* inside k_sem_take makes no other call.
ThreadCalls ==
    /\ taking[k.current] = "no"
    /\ \/ k_sleep \/ k_sched_lock \/ k_sched_unlock
       \/ \E t \in Apps :
            \/ k_thread_start(t) \/ k_wakeup(t) \/ k_thread_suspend(t)
            \/ resume_not_ready(t) \/ k_thread_abort(t)
            \/ \E p \in NewPrios : k_thread_priority_set(t, p)

SemOps == \/ k_sem_take \/ k_sem_take_return \/ k_sem_give \/ isr_k_sem_give
          \/ k_sem_reset
          \/ \E timeout \in {"TIMED", "FOREVER"} : k_sem_take_wait(timeout)

Next == \/ SemOps
        \/ (ThreadCalls \/ Clock \/ Device) /\ UNCHANGED semVars

Spec == Init /\ [][Next]_vars

(***************************************************************************)
(* Fairness: the clock keeps ticking, an interrupt handler runs to its     *)
(* end, and no interrupt storm keeps the clock handler off the CPU; a      *)
(* timeout eventually reaches its tick.                                    *)
(***************************************************************************)
ClockFairness ==
    /\ SF_vars(DevExit /\ UNCHANGED semVars)
    /\ SF_vars(Clock /\ UNCHANGED semVars)
    /\ \A t \in Apps : SF_vars(ClockExpire(t) /\ UNCHANGED semVars)

FairSpec == Spec /\ ClockFairness

(***************************************************************************)
(* Properties.                                                             *)
(***************************************************************************)
\* A wait queue holds exactly the pending threads, each once; a waiter is
\* never in the ready queue as well, where its one list node would be
\* linked into two lists.
WaitQueueExact ==
    /\ \A t \in Threads :
        Cardinality({i \in 1..Len(k.wq[SemQ]) : k.wq[SemQ][i] = t})
            = IF "PENDING" \in k.state[t] THEN 1 ELSE 0
    /\ ReadyQueueExact

\* No lost wakeup: a unit is available only when every thread still queued
\* has already timed out and merely waits for the clock interrupt to say so.
NoLostWakeup ==
    count > 0 => \A t \in Threads :
                    "PENDING" \in k.state[t] => k.to[t] = "EXPIRED"

\* "an ISR preempting us and releasing an object on which a thread was timing
\* out and expired will not give the object to that thread" (sys_clock.c).
ExpiredNotGiven ==
    [][\A t \in Threads :
         "PENDING" \in k.state[t] /\ k.to[t] = "EXPIRED" => k'.rv[t] = k.rv[t]]_vars

\* A thread blocked in k_sem_take(K_FOREVER) leaves the wait queue only by
\* being given the semaphore (or by being aborted): its _Swap() will return 0.
ForeverTakesSucceed ==
    \A t \in Threads :
        taking[t] = "FOREVER" /\ k.state[t] \cap {"PENDING", "DEAD"} = {}
        => k.rv[t] = "0"

\* A timed waiter does not stay queued for ever: it is given the semaphore,
\* times out or is aborted.
TimedTakeEnds ==
    \A t \in Threads :
        (taking[t] = "TIMED" /\ "PENDING" \in k.state[t])
            ~> ("PENDING" \notin k.state[t])

\* "When the semaphore is given, it is taken by the highest priority thread
\* that has waited longest" (semaphores.rst): no waiter that is passed over
\* is more urgent than the one served.
GivenToMostUrgent ==
    [][\A t, u \in Threads :
         /\ "PENDING" \in k.state[t] /\ "PENDING" \in k.state[u]
         /\ k.to[u] # "EXPIRED"
         /\ k.rv[t] # "0" /\ k'.rv[t] = "0"
         => ~is_prio_higher(k.prio[u], k.prio[t])]_vars

(***************************************************************************)
(* Refinement.  A waiter gives up at the instant the clock interrupt marks *)
(* its timeout expired, though it leaves the wait queue later.             *)
(***************************************************************************)
waitersMap == {t \in Threads : "PENDING" \in k.state[t] /\ k.to[t] # "EXPIRED"}
grantedMap == {t \in Threads : /\ taking[t] # "no"
                               /\ "PENDING" \notin k.state[t]
                               /\ k.rv[t] = "0"}

Abs == INSTANCE AbsSem WITH waiters <- waitersMap, granted <- grantedMap

\* The semaphore implements AbsSem, with waiters timing out, being suspended
\* and aborted, and interrupts giving in the middle of the clock interrupt.
Refines == Abs!Spec

=============================================================================
