------------------------------- MODULE Mutex -------------------------------
(***************************************************************************)
(* Mutexes with priority inheritance (kernel/mutex.c) on top of the        *)
(* scheduler.  The functions lock the scheduler, not interrupts, around    *)
(* most of their work, so the clock interrupt may time waiters out in the  *)
(* middle of a lock or unlock: each stretch of code between two interrupt  *)
(* windows is a step, and pc says where a thread is.                       *)
(***************************************************************************)
EXTENDS Sched

CONSTANTS
    Mutexes,     \* the mutexes; each is its own wait queue
    Ceiling,     \* CONFIG_PRIORITY_CEILING
    Timeouts,    \* timeout arguments used: of "NO_WAIT", "TIMED", "FOREVER"
    MaxCount     \* bound: recursive locking of one mutex

ASSUME MutexAssumption ==
    /\ Mutexes \subseteq WaitQs
    /\ Timeouts \subseteq {"NO_WAIT", "TIMED", "FOREVER"}
    /\ Ceiling \in Prios /\ MaxCount \in Nat \ {0}

VARIABLES
    owner,      \* k_mutex.owner
    lock_count, \* k_mutex.lock_count
    orig_prio,  \* k_mutex.owner_orig_prio
    pc,         \* per thread: what it is doing
    held,       \* per thread: the mutexes it was told it holds, with depth
    fault       \* a NULL owner was dereferenced: the model stops there

mtxVars == <<owner, lock_count, orig_prio, pc, held, fault>>
vars == <<k, isr, clk, slice, owner, lock_count, orig_prio, pc, held, fault>>

\* at: the point reached; m: the mutex; arg: the timeout of a lock, the new
\* priority about to be set, or the new owner about to be recorded
Idling == [at |-> "idle"]
At(point, m, arg) == [at |-> point, m |-> m, arg |-> arg]

Init ==
    /\ SchedInit
    /\ owner = [m \in Mutexes |-> NoThread]
    /\ lock_count = [m \in Mutexes |-> 0]
    /\ orig_prio = [m \in Mutexes |-> 0]
    /\ pc = [t \in Threads |-> Idling]
    /\ held = [t \in Threads |-> [m \in Mutexes |-> 0]]
    /\ fault = FALSE

cur == k.current
Running(point) == InThread /\ ~fault /\ pc[cur].at = point
Goto(p) == pc' = [pc EXCEPT ![cur] = p]

is_under_prio_ceiling(prio) == prio >= Ceiling

new_prio_for_inheritance(target, limit) ==
    LET p == IF is_prio_higher(target, limit) THEN target ELSE limit
    IN IF is_under_prio_ceiling(p) THEN p ELSE Ceiling

\* adjust_owner_prio() of a mutex owned by thread o
adjust_owner_prio(kk, o, prio) ==
    IF kk.prio[o] # prio THEN thread_priority_set(kk, o, prio) ELSE kk

unlock_sched(kk) == reschedule_threads(sched_unlock_no_reschedule(kk))

(***************************************************************************)
(* k_mutex_lock()                                                          *)
(***************************************************************************)
k_mutex_lock(m, timeout) ==
    /\ Running("idle")
    /\ held[cur][m] < MaxCount
    /\ Call(sched_lock(k))
    /\ Goto(At("lock", m, timeout))
    /\ UNCHANGED <<owner, lock_count, orig_prio, held, fault>>

\* Mutant: anyone may re-lock.
lock_free_any ==
    /\ Running("lock")
    /\ LET m == pc[cur].m IN
       /\ lock_count[m] < MaxCount
       /\ lock_count' = [lock_count EXCEPT ![m] = @ + 1]
       /\ owner' = [owner EXCEPT ![m] = cur]
       /\ held' = [held EXCEPT ![cur][m] = @ + 1]
    /\ Call(unlock_sched(k))
    /\ Goto(Idling)
    /\ UNCHANGED <<orig_prio, fault>>

lock_free ==
    /\ Running("lock")
    /\ LET m == pc[cur].m IN
       /\ lock_count[m] = 0 \/ owner[m] = cur
       /\ orig_prio' = [orig_prio EXCEPT ![m] =
                           IF lock_count[m] = 0 THEN k.prio[cur] ELSE @]
       /\ lock_count' = [lock_count EXCEPT ![m] = @ + 1]
       /\ owner' = [owner EXCEPT ![m] = cur]
       /\ held' = [held EXCEPT ![cur][m] = @ + 1]
    /\ Call(unlock_sched(k))
    /\ Goto(Idling)
    /\ UNCHANGED fault

Conflict(m) == lock_count[m] # 0 /\ owner[m] # cur

lock_busy ==
    /\ Running("lock") /\ pc[cur].arg = "NO_WAIT" /\ Conflict(pc[cur].m)
    /\ Call(unlock_sched(k))
    /\ Goto(Idling)
    /\ UNCHANGED <<owner, lock_count, orig_prio, held, fault>>

\* Mutant: no priority inheritance.
lock_wait_no_boost ==
    /\ Running("lock") /\ pc[cur].arg # "NO_WAIT" /\ Conflict(pc[cur].m)
    /\ Call(swap(pend_current_thread(k, pc[cur].m, pc[cur].arg = "TIMED")))
    /\ Goto([pc[cur] EXCEPT !.at = "wait"])
    /\ UNCHANGED <<owner, lock_count, orig_prio, held, fault>>

lock_wait ==
    /\ Running("lock") /\ pc[cur].arg # "NO_WAIT" /\ Conflict(pc[cur].m)
    /\ LET m == pc[cur].m
           o == owner[m]
           new_prio == new_prio_for_inheritance(k.prio[cur], k.prio[o])
           k1 == IF is_prio_higher(new_prio, k.prio[o])
                 THEN adjust_owner_prio(k, o, new_prio) ELSE k
       IN Call(swap(pend_current_thread(k1, m, pc[cur].arg = "TIMED")))
    /\ Goto([pc[cur] EXCEPT !.at = "wait"])
    /\ UNCHANGED <<owner, lock_count, orig_prio, held, fault>>

lock_got ==
    /\ Running("wait") /\ k.rv[cur] = "0"
    /\ held' = [held EXCEPT ![cur][pc[cur].m] = @ + 1]
    /\ Call(unlock_sched(k))
    /\ Goto(Idling)
    /\ UNCHANGED <<owner, lock_count, orig_prio, fault>>

\* Mutant: the remaining waiter's priority, even if lower than the owner's own.
lock_timed_out_to_waiter ==
    /\ Running("wait") /\ k.rv[cur] = "EAGAIN"
    /\ LET m == pc[cur].m
       IN Goto(At("adjust", m, IF k.wq[m] = <<>> THEN orig_prio[m]
                               ELSE k.prio[Head(k.wq[m])]))
    /\ UNCHANGED <<k, isr, clk, slice, owner, lock_count, orig_prio, held, fault>>

\* timed out: find the priority the owner should now have ...
lock_timed_out ==
    /\ Running("wait") /\ k.rv[cur] = "EAGAIN"
    /\ LET m == pc[cur].m
           new_prio == IF k.wq[m] = <<>> THEN orig_prio[m]
                       ELSE new_prio_for_inheritance(k.prio[Head(k.wq[m])],
                                                     orig_prio[m])
       IN Goto(At("adjust", m, new_prio))
    /\ UNCHANGED <<k, isr, clk, slice, owner, lock_count, orig_prio, held, fault>>

\* ... and give it to the owner, whoever that is by now.  There may be none: the
\* owner unlocked while this thread was already off the wait queue and had not
\* run yet.  The code then reads and writes a priority through NULL; what
\* follows is undefined and not modelled.
lock_adjust ==
    /\ Running("adjust")
    /\ LET m == pc[cur].m IN
       IF owner[m] = NoThread
       THEN /\ fault' = TRUE
            /\ UNCHANGED <<k, isr, clk, slice, pc>>
       ELSE /\ Call(unlock_sched(adjust_owner_prio(k, owner[m], pc[cur].arg)))
            /\ Goto(Idling)
            /\ UNCHANGED fault
    /\ UNCHANGED <<owner, lock_count, orig_prio, held>>

(***************************************************************************)
(* k_mutex_unlock()                                                        *)
(***************************************************************************)

k_mutex_unlock(m) ==
    /\ Running("idle")
    /\ owner[m] = cur /\ lock_count[m] > 0
    /\ held' = [held EXCEPT ![cur][m] = @ - 1]
    /\ lock_count' = [lock_count EXCEPT ![m] = @ - 1]
    /\ IF lock_count[m] = 1
       THEN Call(sched_lock(k)) /\ Goto(At("release", m, "none"))
       ELSE Call(unlock_sched(sched_lock(k))) /\ Goto(Idling)
    /\ UNCHANGED <<owner, orig_prio, fault>>

\* Mutant: the owner keeps the priority it inherited.
unlock_release_boosted ==
    /\ Running("release")
    /\ LET m == pc[cur].m
           t == find_first_thread_to_unpend(k, m)
       IN /\ Call(IF t = NoThread THEN k
                  ELSE ready_thread(
                         abort_thread_timeout(unpend_thread(k, t), t), t))
          /\ Goto(At("handover", m, t))
    /\ UNCHANGED <<owner, lock_count, orig_prio, held, fault>>

\* Mutant: nobody is taken off the wait queue.
unlock_release_nobody ==
    /\ Running("release")
    /\ LET m == pc[cur].m IN
       /\ Call(adjust_owner_prio(k, owner[m], orig_prio[m]))
       /\ Goto(At("handover", m, NoThread))
    /\ UNCHANGED <<owner, lock_count, orig_prio, held, fault>>

unlock_release ==
    /\ Running("release")
    /\ LET m  == pc[cur].m
           k1 == adjust_owner_prio(k, owner[m], orig_prio[m])
           t  == find_first_thread_to_unpend(k1, m)
       IN /\ Call(IF t = NoThread THEN k1
                  ELSE ready_thread(
                         abort_thread_timeout(unpend_thread(k1, t), t), t))
          /\ Goto(At("handover", m, t))
    /\ UNCHANGED <<owner, lock_count, orig_prio, held, fault>>

unlock_handover ==
    /\ Running("handover")
    /\ LET m == pc[cur].m
           t == pc[cur].arg
       IN /\ owner' = [owner EXCEPT ![m] = t]
          /\ IF t = NoThread
             THEN /\ Call(unlock_sched(k))
                  /\ UNCHANGED <<lock_count, orig_prio>>
             ELSE /\ lock_count' = [lock_count EXCEPT ![m] = @ + 1]
                  /\ orig_prio' = [orig_prio EXCEPT ![m] = k.prio[t]]
                  /\ Call(unlock_sched([k EXCEPT !.rv[t] = "0"]))
    /\ Goto(Idling)
    /\ UNCHANGED <<held, fault>>

\* The steps that a thread inside a mutex call, or holding a mutex, takes by
\* itself when it runs.
Progress == \/ lock_free \/ lock_busy \/ lock_wait \/ lock_got
            \/ lock_timed_out \/ lock_adjust
            \/ unlock_release \/ unlock_handover
            \/ \E m \in Mutexes : k_mutex_unlock(m)

\* Other calls of a thread that is in no mutex call.
ThreadCalls ==
    /\ Running("idle")
    /\ \/ k_sleep
       \/ \E t \in Apps : k_thread_start(t)
       \/ \E t \in Apps, p \in NewPrios : k_thread_priority_set(t, p)

Next ==
    \/ Progress
    \/ \E m \in Mutexes, timeout \in Timeouts :
            k_mutex_lock(m, timeout)
    \/ ThreadCalls /\ UNCHANGED mtxVars
    \/ ~fault /\ (Clock \/ Device) /\ UNCHANGED mtxVars
    \/ fault /\ UNCHANGED vars

Spec == Init /\ [][Next]_vars

(***************************************************************************)
(* Fairness: a thread that runs inside a mutex call or with a mutex held   *)
(* eventually takes its next step, however often interrupts borrow the     *)
(* CPU; the clock ticks, handlers end, timeouts fall due.  Nothing is      *)
(* assumed of a thread that merely computes: it may spin for ever.         *)
(***************************************************************************)
FairSpec ==
    /\ Spec
    /\ SF_vars(Progress)
    /\ SF_vars(DevExit /\ UNCHANGED mtxVars)
    /\ SF_vars(Clock /\ UNCHANGED mtxVars)
    /\ \A t \in Apps : SF_vars(ClockExpire(t) /\ UNCHANGED mtxVars)

(***************************************************************************)
(* Properties.                                                             *)
(***************************************************************************)
Waiting(t, m) == Contains(k.wq[m], t) /\ k.to[t] # "EXPIRED"

\* What threads were told agrees with the mutex: a thread that returned from
\* k_mutex_lock with 0 and has not unlocked since is the owner and the lock
\* count is its nesting depth, so no two threads are inside together.
Exclusive ==
    \A m \in Mutexes, t \in Threads :
        held[t][m] > 0 => owner[m] = t /\ lock_count[m] = held[t][m]

\* Priority inheritance: the owner of a locked mutex is at least as urgent as
\* every thread still waiting for it, up to the ceiling.  A ceiling of 0 is no
\* exception in the code (ksched.h:309-322): the owner stops at priority 0 for
\* a cooperative waiter, although mutexes.rst:76 says that "the default value
\* of 0 permits unlimited elevation".
Inherited ==
    \A m \in Mutexes, t \in Threads :
        lock_count[m] > 0 /\ Waiting(t, m) =>
            k.prio[owner[m]] <= new_prio_for_inheritance(k.prio[t], k.prio[t])

\* "the unlocking thread resets its priority to the level it had before
\* locking that mutex" (mutexes.rst): a thread that owns no mutex runs at its
\* own priority, whichever waiters came, timed out or were served meanwhile.
PriorityRestored ==
    \A t \in Threads :
        (\A m \in Mutexes : owner[m] # t) => k.prio[t] = InitPrio[t]

\* No unlock is lost: a free mutex has no waiter that could have had it.
NoStrandedWaiter ==
    \A m \in Mutexes :
        lock_count[m] = 0 /\ (\A t \in Threads : pc[t].at # "release")
        /\ (\A t \in Threads : pc[t].at # "handover")
        => \A t \in Threads : ~Waiting(t, m)

\* Bounded priority inversion: the most urgent thread gets the mutex it waits
\* for even if a less urgent one, perhaps more urgent than the owner was when
\* it locked the mutex, never gives up the CPU.
WaiterServed ==
    \A t \in Apps :
        (\A u \in Apps \ {t} : is_prio_higher(InitPrio[t], InitPrio[u]))
        => (pc[t].at = "wait" ~> pc[t].at # "wait")

\* "new owner is already of higher or equal prio than first waiter since the
\* wait queue is priority-based" (mutex.c), at the moment of the handover.
NewOwnerMostUrgent ==
    [][\A m \in Mutexes, t \in Threads :
         owner'[m] # owner[m] /\ owner'[m] # NoThread
         /\ Contains(k'.wq[m], t) /\ k'.to[t] # "EXPIRED"
         => k'.prio[owner'[m]] <= k'.prio[t]]_vars

\* Inheritance only ever raises the owner: while it holds the mutex it is
\* never less urgent than when it locked it, whoever waits and times out.  (An
\* owner that is itself above CONFIG_PRIORITY_CEILING is not protected: the
\* timeout path of k_mutex_lock() may lower it to the ceiling.)
OwnerNeverDemoted ==
    \A m \in Mutexes :
        lock_count[m] > 0 =>
            k.prio[owner[m]] <= IF is_under_prio_ceiling(orig_prio[m])
                                THEN orig_prio[m] ELSE Ceiling

=============================================================================
