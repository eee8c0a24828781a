----------------------------- MODULE SemProofs -----------------------------
(***************************************************************************)
(* Proofs about the counting semaphore, for any number of threads, any     *)
(* limit and initial count, either port and any interrupt sources.         *)
(*                                                                         *)
(* None of the properties is inductive.  No unit is lost because a waiter  *)
(* that is passed over has timed out; that it is only passed over then     *)
(* rests on _handling_timeouts being set whenever a timeout is EXPIRED,    *)
(* which in turn rests on the clock interrupt's own progress; and all of   *)
(* it on the wait queue holding exactly the threads marked PENDING, which  *)
(* needs the scheduler's invariant.                                        *)
(***************************************************************************)
EXTENDS Sem, WaitProofs

\* the wait queue and the flags agree, and nobody waits for anything else
WaitInv ==
    /\ WaitsExact(k)
    /\ \A w \in WaitQs \ {SemQ} : Waiters(k, w) = {}

\* a waiting thread is inside k_sem_take() and would so far return -EAGAIN;
\* K_FOREVER starts no timeout
TakeInv ==
    /\ taking \in [Threads -> {"no", "TIMED", "FOREVER"}]
    /\ \A t \in Threads :
          /\ "PENDING" \in k.state[t] => taking[t] # "no" /\ k.rv[t] = "EAGAIN"
          /\ taking[t] = "FOREVER" => k.to[t] = "INACTIVE"

SemInv ==
    /\ IInv
    /\ WaitInv
    /\ ClockInv
    /\ TakeInv
    /\ count \in 0..Limit
    /\ NoLostWakeup

(***************************************************************************)
(* The kinds of steps that are not the semaphore's own: a call or an       *)
(* interrupt that concerns no waiter, a waiter aborted by another thread,  *)
(* a waiter's timeout expiring and being handled.                          *)
(***************************************************************************)
Quiet ==
    /\ Undisturbed(k, k')
    /\ taking[k.current] # "no" =>
          /\ \A t \in Threads : k'.to[t] \in {k.to[t], "INACTIVE"}
          /\ Port = "arm" => k'.rv = k.rv

Abort(t) == Aborted(k, k', t) /\ taking[k.current] = "no"

OtherStep ==
    /\ UNCHANGED semVars
    /\ \/ Quiet
       \/ \E t \in Threads : \/ Abort(t)
                             \/ Expired(k, k', t) \/ Handled(k, k', t)

\* the calls of a thread that is not inside k_sem_take()
LEMMA CallsQuiet ==
    ASSUME SemInv, ThreadCalls, UNCHANGED semVars
    PROVE  IInv' /\ ClockInv' /\ OtherStep
<1>0. IInv /\ ClockInv /\ WaitsExact(k) /\ taking[k.current] = "no"
  BY DEF SemInv, WaitInv, ThreadCalls
<1>1. ASSUME IInv', Calm(k, k'), clk' = clk
      PROVE  ClockInv' /\ OtherStep
  BY <1>0, <1>1 DEF ClockInv, Calm, Undisturbed, Quiet, OtherStep
<1>2. clk' = clk
  BY DEF ThreadCalls, k_sleep, k_sched_lock, k_sched_unlock, k_thread_start,
         k_wakeup, k_thread_suspend, resume_not_ready, k_thread_resume, k_thread_abort,
         k_thread_priority_set, Call
<1>3. CASE k_sleep
  BY <1>0, <1>1, <1>2, <1>3, SleepStays, SleepCalm
<1>4. CASE k_sched_lock
  BY <1>0, <1>1, <1>2, <1>4, LockStays, LockCalm
<1>5. CASE k_sched_unlock
  BY <1>0, <1>1, <1>2, <1>5, UnlockStays, UnlockCalm
<1>6. ASSUME NEW t \in Apps, k_thread_start(t) PROVE IInv' /\ ClockInv' /\ OtherStep
  BY <1>0, <1>1, <1>2, <1>6, ThreadStartStays, StartCalm
<1>7. ASSUME NEW t \in Apps, k_wakeup(t) PROVE IInv' /\ ClockInv' /\ OtherStep
  BY <1>0, <1>1, <1>2, <1>7, WakeupStays, WakeupCalm
<1>8. ASSUME NEW t \in Apps, k_thread_suspend(t) PROVE IInv' /\ ClockInv' /\ OtherStep
  BY <1>0, <1>1, <1>2, <1>8, SuspendStays, SuspendCalm
<1>9. ASSUME NEW t \in Apps, resume_not_ready(t) PROVE IInv' /\ ClockInv' /\ OtherStep
  BY <1>0, <1>1, <1>2, <1>9, ResumeStays, ResumeCalm
<1>10. ASSUME NEW t \in Apps, k_thread_abort(t) PROVE IInv' /\ ClockInv' /\ OtherStep
  <2>1. IInv' /\ Aborted(k, k', t)
    BY <1>0, <1>10, AbortStays, AbortAborts
  <2>2. t \in Threads
    BY DEF Apps
  <2>3. ClockInv'
    BY <1>0, <1>2, <2>1, <2>2 DEF ClockInv, Aborted
  <2> QED BY <1>0, <2>1, <2>2, <2>3 DEF OtherStep, Abort
<1>11. ASSUME NEW t \in Apps, NEW p \in NewPrios, k_thread_priority_set(t, p)
       PROVE  IInv' /\ ClockInv' /\ OtherStep
  BY <1>0, <1>1, <1>2, <1>11, PrioritySetStays, PrioritySetCalm
<1> QED BY <1>3, <1>4, <1>5, <1>6, <1>7, <1>8, <1>9, <1>10, <1>11 DEF ThreadCalls

\* interrupts
LEMMA InterruptsQuiet ==
    ASSUME SemInv, Clock \/ Device, UNCHANGED semVars
    PROVE  IInv' /\ ClockInv' /\ OtherStep
<1>0. IInv /\ ClockInv /\ WaitsExact(k)
  BY DEF SemInv, WaitInv
<1>1. Passed(k, k') => Quiet
  BY DEF Passed, Quiet
<1>2. CASE Clock
  BY <1>0, <1>1, <1>2, ClockStays, ClockEffect DEF OtherStep
<1>3. CASE Device
  BY <1>0, <1>1, <1>3, DeviceStays, DevicePassed DEF OtherStep
<1> QED BY <1>2, <1>3

\* the running thread waits for nothing
LEMMA CurrentNotPending ==
    ASSUME IInv
    PROVE  k.current \in Threads /\ "PENDING" \notin k.state[k.current]
           /\ k.to[k.current] = "INACTIVE"
BY DEF IInv, TypeOK, Live, KernelType, is_thread_ready, is_thread_timeout_active

\* none of these steps breaks the invariant
LEMMA OtherStays ==
    ASSUME SemInv, IInv', ClockInv', OtherStep
    PROVE  SemInv'
<1>0. /\ k.current \in Threads /\ "PENDING" \notin k.state[k.current]
      /\ k.to[k.current] = "INACTIVE"
  BY CurrentNotPending DEF SemInv
<1>1. count' = count /\ taking' = taking
  BY DEF OtherStep, semVars
<1>2. /\ WaitsExact(k) /\ \A w \in WaitQs \ {SemQ} : Waiters(k, w) = {}
      /\ taking \in [Threads -> {"no", "TIMED", "FOREVER"}]
      /\ \A t \in Threads :
          /\ "PENDING" \in k.state[t] => taking[t] # "no" /\ k.rv[t] = "EAGAIN"
          /\ taking[t] = "FOREVER" => k.to[t] = "INACTIVE"
      /\ count \in 0..Limit
      /\ count > 0 => \A t \in Threads : "PENDING" \in k.state[t] => k.to[t] = "EXPIRED"
  BY DEF SemInv, WaitInv, TakeInv, NoLostWakeup
<1>3. CASE Quiet
  <2>1. /\ k'.wq = k.wq
        /\ \A t \in Threads :
            /\ "PENDING" \in k'.state[t] <=> "PENDING" \in k.state[t]
            /\ \/ k'.to[t] = k.to[t]
               \/ "PENDING" \notin k.state[t] /\ k'.to[t] = "INACTIVE"
               \/ t = k.current /\ k'.to[t] = "ACTIVE"
            /\ \/ k'.rv[t] = k.rv[t]
               \/ t = k.current /\ k'.rv[t] = "EAGAIN"
        /\ taking[k.current] # "no" =>
              \A t \in Threads : k'.to[t] \in {k.to[t], "INACTIVE"}
    <3>1. /\ Undisturbed(k, k')
          /\ taking[k.current] # "no" =>
                \A t \in Threads : k'.to[t] \in {k.to[t], "INACTIVE"}
      BY <1>3 DEF Quiet
    <3> QED BY <3>1 DEF Undisturbed
  <2>2. /\ WaitsExact(k') /\ Pending(k') = Pending(k)
        /\ \A w \in WaitQs : Waiters(k', w) = Waiters(k, w)
    BY <1>2, <2>1, WaitsFrame
  <2>3. WaitInv'
    BY <1>2, <2>2 DEF WaitInv
  <2>4. TakeInv'
    BY <1>0, <1>1, <1>2, <2>1 DEF TakeInv
  <2>5. NoLostWakeup'
    BY <1>0, <1>1, <1>2, <2>1 DEF NoLostWakeup
  <2> QED BY <1>1, <1>2, <2>3, <2>4, <2>5 DEF SemInv
<1>4. ASSUME NEW x \in Threads, Abort(x) PROVE SemInv'
  <2>1. /\ WaitsExact(k') /\ Pending(k') = Pending(k) \ {x}
        /\ \A w \in WaitQs : Waiters(k', w) = Waiters(k, w) \ {x}
        /\ k'.to[x] = "INACTIVE"
        /\ \A t \in Threads \ {x} : k'.state[t] = k.state[t] /\ k'.to[t] = k.to[t]
        /\ \A t \in Threads : \/ k'.rv[t] = k.rv[t]
                              \/ t = k.current /\ k'.rv[t] = "EAGAIN"
    BY <1>4 DEF Abort, Aborted
  <2>2. "PENDING" \notin k'.state[x]
    BY <2>1 DEF Pending
  <2>3. WaitInv'
    BY <1>2, <2>1 DEF WaitInv
  <2>4. TakeInv'
    BY <1>0, <1>1, <1>2, <2>1, <2>2 DEF TakeInv
  <2>5. NoLostWakeup'
    BY <1>1, <1>2, <2>1, <2>2 DEF NoLostWakeup
  <2> QED BY <1>1, <1>2, <2>3, <2>4, <2>5 DEF SemInv
<1>5. ASSUME NEW x \in Threads, Expired(k, k', x) PROVE SemInv'
  <2>1. /\ k.to[x] = "ACTIVE" /\ k'.to[x] = "EXPIRED"
        /\ \A u \in Threads \ {x} : k'.to[u] = k.to[u]
        /\ k'.wq = k.wq /\ k'.state = k.state /\ k'.rv = k.rv
    BY <1>5 DEF Expired
  <2>2. /\ WaitsExact(k') /\ \A w \in WaitQs : Waiters(k', w) = Waiters(k, w)
    BY <1>2, <2>1, WaitsFrame
  <2>3. WaitInv'
    BY <1>2, <2>2 DEF WaitInv
  <2>4. TakeInv'
    BY <1>1, <1>2, <2>1 DEF TakeInv
  <2>5. NoLostWakeup'
    BY <1>1, <1>2, <2>1 DEF NoLostWakeup
  <2> QED BY <1>1, <1>2, <2>3, <2>4, <2>5 DEF SemInv
<1>6. ASSUME NEW x \in Threads, Handled(k, k', x) PROVE SemInv'
  <2>1. /\ WaitsExact(k') /\ Pending(k') = Pending(k) \ {x}
        /\ \A w \in WaitQs : Waiters(k', w) = Waiters(k, w) \ {x}
        /\ k'.to[x] = "INACTIVE" /\ k'.rv = k.rv
        /\ \A t \in Threads \ {x} : k'.state[t] = k.state[t] /\ k'.to[t] = k.to[t]
    BY <1>6 DEF Handled
  <2>2. "PENDING" \notin k'.state[x]
    BY <2>1 DEF Pending
  <2>3. WaitInv'
    BY <1>2, <2>1 DEF WaitInv
  <2>4. TakeInv'
    BY <1>1, <1>2, <2>1, <2>2 DEF TakeInv
  <2>5. NoLostWakeup'
    BY <1>1, <1>2, <2>1, <2>2 DEF NoLostWakeup
  <2> QED BY <1>1, <1>2, <2>3, <2>4, <2>5 DEF SemInv
<1> QED BY <1>3, <1>4, <1>5, <1>6 DEF OtherStep

(***************************************************************************)
(* The semaphore's own steps.  k_sem_take() with a unit to take, its       *)
(* return, and k_sem_reset() leave the scheduler alone.                    *)
(***************************************************************************)
LEMMA QuickStays ==
    ASSUME SemInv, k_sem_take \/ k_sem_take_return \/ k_sem_reset
    PROVE  SemInv'
<1>0. /\ k.current \in Threads /\ "PENDING" \notin k.state[k.current]
      /\ Limit \in Nat
  BY CurrentNotPending, SemAssumption DEF SemInv
<1>1. k' = k /\ isr' = isr /\ clk' = clk /\ slice' = slice
  BY DEF k_sem_take, k_sem_take_return, k_sem_reset
<1>2. IInv' /\ WaitInv' /\ ClockInv'
  BY <1>1 DEF SemInv, IInv, TypeOK, WaitInv, ClockInv
<1>3. count' \in 0..Limit /\ (count' > 0 => count > 0)
  BY <1>0 DEF SemInv, k_sem_take, k_sem_take_return, k_sem_reset
<1>4. NoLostWakeup'
  BY <1>1, <1>3 DEF SemInv, NoLostWakeup
<1>5. taking' = taking \/ taking' = [taking EXCEPT ![k.current] = "no"]
  BY DEF k_sem_take, k_sem_take_return, k_sem_reset
<1>6. TakeInv'
  BY <1>0, <1>1, <1>5 DEF SemInv, TakeInv
<1> QED BY <1>2, <1>3, <1>4, <1>6 DEF SemInv

\* what k_sem_take() does to the record when it has to wait
LEMMA WaitIs ==
    ASSUME NEW timeout \in {"TIMED", "FOREVER"}, k_sem_take_wait(timeout)
    PROVE  \/ timeout = "TIMED" /\ k' = PendedTimed(k, SemQ)
           \/ timeout = "FOREVER" /\ k' = PendedForever(k, SemQ)
<1>1. k' = swap(pend_current_thread(k, SemQ, timeout = "TIMED"))
  BY DEF k_sem_take_wait, Call
<1>2. CASE timeout = "TIMED"
  BY <1>1, <1>2 DEF PendedTimed, pend_current_thread, pend_thread, Linked
<1>3. CASE timeout = "FOREVER"
  BY <1>1, <1>3 DEF PendedForever, pend_current_thread, pend_thread, Linked
<1> QED BY <1>2, <1>3

\* k_sem_take() of a semaphore with no unit, by the running thread c
LEMMA WaitEffect ==
    ASSUME SemInv, NEW timeout \in {"TIMED", "FOREVER"}, k_sem_take_wait(timeout),
           NEW c, c = k.current
    PROVE  /\ Live(k') /\ Settled(k')
           /\ c \in Threads /\ c \notin Pending(k) /\ taking[c] = "no" /\ count = 0
           /\ WaitsExact(k') /\ Pending(k') = Pending(k) \cup {c}
           /\ k'.wq[SemQ] = InsertAt(k.wq[SemQ], pend_position(k, c, SemQ), c)
           /\ \A v \in WaitQs \ {SemQ} : Waiters(k', v) = Waiters(k, v)
           /\ k'.prio = k.prio /\ k'.handling = k.handling
           /\ k'.state[c] = {"PENDING"} /\ k'.rv[c] = "EAGAIN"
           /\ \A u \in Threads \ {c} : /\ k'.state[u] = k.state[u]
                                       /\ k'.to[u] = k.to[u]
                                       /\ k'.rv[u] = k.rv[u]
           /\ k'.to[c] # "EXPIRED"
           /\ timeout = "FOREVER" => k'.to[c] = "INACTIVE"
           /\ taking' = [taking EXCEPT ![c] = timeout]
           /\ count' = count /\ clk' = clk /\ isr' = isr /\ slice' = slice
<1>1. /\ InThread /\ taking[c] = "no" /\ count = 0
      /\ taking' = [taking EXCEPT ![c] = timeout]
      /\ count' = count /\ clk' = clk /\ isr' = isr /\ slice' = slice
  BY DEF k_sem_take_wait, Call
<1>2. Good(k) /\ is_thread_ready(k, c) /\ c # Idle /\ WaitsExact(k) /\ SemQ \in WaitQs
  BY <1>1, InThreadFacts, SemAssumption DEF SemInv, WaitInv
<1>3. /\ Live(k') /\ Settled(k')
      /\ c \in Threads /\ c \notin Pending(k)
      /\ WaitsExact(k') /\ Pending(k') = Pending(k) \cup {c}
      /\ k'.wq[SemQ] = InsertAt(k.wq[SemQ], pend_position(k, c, SemQ), c)
      /\ \A v \in WaitQs \ {SemQ} : k'.wq[v] = k.wq[v]
      /\ k'.prio = k.prio /\ k'.handling = k.handling
      /\ k'.state[c] = {"PENDING"} /\ k'.rv[c] = "EAGAIN"
      /\ \A u \in Threads \ {c} : /\ k'.state[u] = k.state[u]
                                  /\ k'.to[u] = k.to[u]
                                  /\ k'.rv[u] = k.rv[u]
      /\ k' = PendedForever(k, SemQ) => k'.to[c] = "INACTIVE"
      /\ k' = PendedTimed(k, SemQ) => k'.to[c] = "ACTIVE"
  <2>1. k' = PendedForever(k, SemQ) \/ k' = PendedTimed(k, SemQ)
    BY WaitIs
  <2>2. c # Idle /\ c = k.current /\ Good(k) /\ is_thread_ready(k, c) /\ SemQ \in WaitQs
    BY <1>2
  <2>3. Live(k') /\ Settled(k') /\ c \in Threads /\ c \notin Pending(k)
    BY ONLY <1>2, <2>1, <2>2, PendSettled
  <2>4. WaitsExact(k') /\ Pending(k') = Pending(k) \cup {c}
    BY ONLY <1>2, <2>1, <2>2, PendSettled
  <2>5. k'.wq[SemQ] = InsertAt(k.wq[SemQ], pend_position(k, c, SemQ), c)
    BY ONLY <1>2, <2>1, <2>2, PendSettled
  <2>6. \A v \in WaitQs \ {SemQ} : k'.wq[v] = k.wq[v]
    BY ONLY <1>2, <2>1, <2>2, PendSettled
  <2>7. /\ k'.prio = k.prio /\ k'.handling = k.handling
        /\ k'.state[c] = {"PENDING"} /\ k'.rv[c] = "EAGAIN"
    <3>1. k'.prio = k.prio /\ k'.handling = k.handling
      BY ONLY <1>2, <2>1, <2>2, PendSettled
    <3>2. k'.state[c] = {"PENDING"} /\ k'.rv[c] = "EAGAIN"
      BY ONLY <1>2, <2>1, <2>2, PendSettled
    <3> QED BY ONLY <3>1, <3>2
  <2>8. \A u \in Threads \ {c} : /\ k'.state[u] = k.state[u]
                                  /\ k'.to[u] = k.to[u]
                                  /\ k'.rv[u] = k.rv[u]
    BY ONLY <1>2, <2>1, <2>2, PendSettled
  <2>9. /\ k' = PendedForever(k, SemQ) => k'.to[c] = "INACTIVE"
        /\ k' = PendedTimed(k, SemQ) => k'.to[c] = "ACTIVE"
    BY ONLY <1>2, <2>1, <2>2, PendSettled
  <2> QED BY <2>3, <2>4, <2>5, <2>6, <2>7, <2>8, <2>9
<1>4. \A v \in WaitQs \ {SemQ} : Waiters(k', v) = Waiters(k, v)
  BY <1>3 DEF Waiters
<1>5. k'.to[c] # "EXPIRED" /\ (timeout = "FOREVER" => k'.to[c] = "INACTIVE")
  BY <1>3, WaitIs
<1> QED BY <1>1, <1>3, <1>4, <1>5

\* which keeps the invariant
LEMMA WaitStays ==
    ASSUME SemInv, NEW timeout \in {"TIMED", "FOREVER"}, k_sem_take_wait(timeout)
    PROVE  SemInv'
<1> DEFINE c == k.current
<1>1. /\ Live(k') /\ Settled(k')
      /\ c \in Threads /\ c \notin Pending(k) /\ count = 0
      /\ WaitsExact(k') /\ Pending(k') = Pending(k) \cup {c}
      /\ \A v \in WaitQs \ {SemQ} : Waiters(k', v) = Waiters(k, v)
      /\ k'.handling = k.handling
      /\ k'.state[c] = {"PENDING"} /\ k'.rv[c] = "EAGAIN"
      /\ \A u \in Threads \ {c} : /\ k'.state[u] = k.state[u]
                                  /\ k'.to[u] = k.to[u]
                                  /\ k'.rv[u] = k.rv[u]
      /\ k'.to[c] # "EXPIRED"
      /\ timeout = "FOREVER" => k'.to[c] = "INACTIVE"
      /\ taking' = [taking EXCEPT ![c] = timeout]
      /\ count' = count /\ clk' = clk /\ isr' = isr /\ slice' = slice
  BY WaitEffect
<1> HIDE DEF c
<1>2. IInv'
  <2>1. slice' \in SliceSettings
    BY <1>1 DEF SemInv, IInv, TypeOK
  <2> QED BY <1>1, <2>1, CallStays DEF SemInv
<1>3. WaitInv'
  BY <1>1 DEF SemInv, WaitInv
<1>4. ClockInv'
  BY <1>1 DEF SemInv, ClockInv
<1>5. TakeInv'
  BY <1>1 DEF SemInv, TakeInv
<1>6. NoLostWakeup' /\ count' \in 0..Limit
  BY <1>1, SemAssumption DEF SemInv, NoLostWakeup
<1> QED BY <1>2, <1>3, <1>4, <1>5, <1>6 DEF SemInv

(***************************************************************************)
(* k_sem_give() either finds no thread that still wants the unit, and      *)
(* keeps it, or hands it to the thread at position n of the wait queue,    *)
(* the first whose timeout has not expired.                                *)
(***************************************************************************)
Kept ==
    /\ k' = k /\ count' = increment_count_up_to_limit(count)
    /\ \A u \in Pending(k) : k.to[u] = "EXPIRED"

Granted(t) ==
    /\ count' = count
    /\ t \in Pending(k) /\ k.to[t] # "EXPIRED"
    /\ \E n \in 1..Len(k.wq[SemQ]) :
          /\ k.wq[SemQ][n] = t
          /\ \A i \in 1..Len(k.wq[SemQ]) :
                k.to[k.wq[SemQ][i]] # "EXPIRED" => n <= i
    /\ WaitsExact(k') /\ Pending(k') = Pending(k) \ {t}
    /\ \A w \in WaitQs : /\ Waiters(k', w) = Waiters(k, w) \ {t}
                         /\ k'.wq[w] = dlist_remove(k.wq[w], t)
    /\ k'.prio = k.prio /\ k'.handling = k.handling
    /\ k'.rv[t] = "0" /\ k'.to[t] = "INACTIVE"
    /\ \A u \in Threads \ {t} :
          /\ k'.state[u] = k.state[u] /\ k'.to[u] = k.to[u]
          /\ \/ k'.rv[u] = k.rv[u]
             \/ u = k.current /\ taking[u] = "no" /\ k'.rv[u] = "EAGAIN"

\* a record the unit is handed over in, with or without a switch of threads
LEMMA HandedOver ==
    ASSUME SemInv, NEW t \in Pending(k), k.to[t] # "EXPIRED", count' = count,
           \E n \in 1..Len(k.wq[SemQ]) :
              /\ k.wq[SemQ][n] = t
              /\ \A i \in 1..Len(k.wq[SemQ]) :
                    k.to[k.wq[SemQ][i]] # "EXPIRED" => n <= i,
           NEW k1, k1 = wake_waiter(k, t),
           \/ k' = k1
           \/ Switched(k1, k') /\ taking[k.current] = "no"
    PROVE  Granted(t) /\ Live(k1)
<1>1. Live(k) /\ WaitsExact(k)
  BY DEF SemInv, IInv, WaitInv
<1>2. /\ Live(k1) /\ t \in Threads /\ t # k.current
      /\ WaitsExact(k1) /\ Pending(k1) = Pending(k) \ {t}
      /\ \A w \in WaitQs : /\ Waiters(k1, w) = Waiters(k, w) \ {t}
                           /\ k1.wq[w] = dlist_remove(k.wq[w], t)
      /\ k1.current = k.current /\ k1.prio = k.prio /\ k1.handling = k.handling
      /\ k1.rv[t] = "0" /\ k1.to[t] = "INACTIVE"
      /\ \A u \in Threads \ {t} : /\ k1.state[u] = k.state[u]
                                  /\ k1.to[u] = k.to[u]
                                  /\ k1.rv[u] = k.rv[u]
  BY <1>1, WakeLive
<1>3. CASE k' = k1
  BY <1>2, <1>3 DEF Granted
<1>4. CASE Switched(k1, k') /\ taking[k.current] = "no"
  <2>1. /\ k'.prio = k1.prio /\ k'.state = k1.state /\ k'.to = k1.to
        /\ k'.wq = k1.wq /\ k'.handling = k1.handling
        /\ \A u \in Threads : \/ k'.rv[u] = k1.rv[u]
                              \/ u = k1.current /\ k'.rv[u] = "EAGAIN"
    BY <1>4 DEF Switched
  <2>2. /\ WaitsExact(k') /\ Pending(k') = Pending(k1)
        /\ \A w \in WaitQs : Waiters(k', w) = Waiters(k1, w)
    BY <1>2, <2>1, WaitsFrame
  <2>3. k'.rv[t] = "0"
    BY <1>2, <2>1
  <2>4. \A u \in Threads \ {t} :
          /\ k'.state[u] = k.state[u] /\ k'.to[u] = k.to[u]
          /\ \/ k'.rv[u] = k.rv[u]
             \/ u = k.current /\ taking[u] = "no" /\ k'.rv[u] = "EAGAIN"
    BY <1>2, <1>4, <2>1
  <2>5. \A w \in WaitQs : /\ Waiters(k', w) = Waiters(k, w) \ {t}
                          /\ k'.wq[w] = dlist_remove(k.wq[w], t)
    BY <1>2, <2>1, <2>2
  <2> QED BY <1>2, <2>1, <2>2, <2>3, <2>4, <2>5 DEF Granted
<1> QED BY <1>2, <1>3, <1>4

\* k_sem_give() either counts the unit or grants it to one waiter
LEMMA GiveEffect ==
    ASSUME SemInv, k_sem_give \/ isr_k_sem_give
    PROVE  /\ IInv' /\ ClockInv' /\ taking' = taking
           /\ Kept \/ \E t \in Threads : Granted(t)
<1> DEFINE t  == find_first_thread_to_unpend(k, SemQ)
           k1 == wake_waiter(k, t)
<1>1. /\ isr' = isr /\ clk' = clk /\ slice' = slice /\ taking' = taking
  BY DEF k_sem_give, isr_k_sem_give
<1>2. /\ Live(k) /\ WaitsExact(k) /\ k \in KernelType /\ SemQ \in WaitQs
      /\ \A u \in Threads : k.to[u] = "EXPIRED" => k.handling
      /\ \A w \in WaitQs \ {SemQ} : Waiters(k, w) = {}
  BY SemAssumption DEF SemInv, IInv, TypeOK, WaitInv, ClockInv
<1>3. Waiters(k, SemQ) = Pending(k)
  BY <1>2 DEF WaitsExact
<1>4. \A u \in Threads : TimedOut(k, u) <=> k.to[u] = "EXPIRED"
  BY <1>2 DEF TimedOut
<1>5. CASE t = NoThread
  <2>1. k' = k /\ count' = increment_count_up_to_limit(count)
    BY <1>5 DEF k_sem_give, isr_k_sem_give, do_sem_give
  <2>2. \A u \in Pending(k) : k.to[u] = "EXPIRED"
    <3> HIDE DEF t
    <3>1. t = find_first_thread_to_unpend(k, SemQ)
      BY DEF t
    <3>2. \A u \in Waiters(k, SemQ) : TimedOut(k, u)
      BY <1>2, <1>5, <3>1, FirstWaiter
    <3> QED BY <1>3, <1>4, <3>2 DEF Pending
  <2>3. IInv' /\ ClockInv'
    BY <1>1, <2>1 DEF SemInv, IInv, TypeOK, ClockInv
  <2> QED BY <1>1, <2>1, <2>2, <2>3 DEF Kept
<1>6. CASE t # NoThread
  <2>1. /\ count' = count
        /\ \/ k' = k1 /\ isr # <<>>
           \/ k' = reschedule_threads(k1) /\ taking[k.current] = "no"
    BY <1>6 DEF k_sem_give, isr_k_sem_give, do_sem_give, Active
  <2>2. PICK n \in 1..Len(k.wq[SemQ]) :
              /\ k.wq[SemQ][n] = t /\ ~TimedOut(k, t)
              /\ t \in Waiters(k, SemQ) /\ t \in Threads
              /\ \A i \in 1..Len(k.wq[SemQ]) :
                    ~TimedOut(k, k.wq[SemQ][i]) => n <= i
    <3> HIDE DEF t
    <3>1. t = find_first_thread_to_unpend(k, SemQ)
      BY DEF t
    <3> QED BY <1>2, <1>6, <3>1, FirstWaiter
  <2>3. \A i \in 1..Len(k.wq[SemQ]) : k.wq[SemQ][i] \in Threads
    BY <1>2 DEF KernelType
  <2>4. /\ t \in Pending(k) /\ t \in Threads /\ k.to[t] # "EXPIRED"
        /\ k.wq[SemQ][n] = t
        /\ \A i \in 1..Len(k.wq[SemQ]) : k.to[k.wq[SemQ][i]] # "EXPIRED" => n <= i
    BY <1>3, <1>4, <2>2, <2>3
  <2>5. k1 = wake_waiter(k, t)
    OBVIOUS
  <2> HIDE DEF t, k1
  <2>6. Live(k1)
    BY <1>2, <2>4, <2>5, WakeLive
  <2>7. k1 \in KernelType
    BY <2>6 DEF Live, Good, Holds
  <2>8. CASE k' = k1 /\ isr # <<>>
    <3>1. Granted(t)
      BY <2>1, <2>4, <2>5, <2>8, HandedOver
    <3>2. IInv'
      BY <1>1, <2>6, <2>8 DEF SemInv, IInv, TypeOK, Live, Good, Holds
    <3>3. ClockInv'
      BY <1>1, <2>4, <3>1 DEF SemInv, ClockInv, Granted
    <3> QED BY <1>1, <2>4, <3>1, <3>2, <3>3
  <2>9. CASE k' = reschedule_threads(k1) /\ taking[k.current] = "no"
    <3>1. Granted(t)
      <4>1. Switched(k1, k')
        BY <2>7, <2>9, RescheduleSwitched
      <4> QED BY <2>1, <2>4, <2>5, <2>9, <4>1, HandedOver
    <3>2. IInv'
      <4>1. Live(k') /\ Settled(k') /\ slice' \in SliceSettings
        BY <1>1, <2>6, <2>9, RescheduleSettled DEF SemInv, IInv, TypeOK
      <4> QED BY <1>1, <4>1, CallStays DEF SemInv
    <3>3. ClockInv'
      BY <1>1, <2>4, <3>1 DEF SemInv, ClockInv, Granted
    <3> QED BY <1>1, <2>4, <3>1, <3>2, <3>3
  <2> QED BY <2>1, <2>8, <2>9
<1> QED BY <1>5, <1>6

\* either of which keeps the invariant
LEMMA GiveStays ==
    ASSUME SemInv, k_sem_give \/ isr_k_sem_give
    PROVE  SemInv'
<1>1. IInv' /\ ClockInv' /\ taking' = taking /\ (Kept \/ \E t \in Threads : Granted(t))
  BY GiveEffect
<1>2. CASE Kept
  <2>1. k' = k /\ count' = increment_count_up_to_limit(count)
        /\ \A u \in Pending(k) : k.to[u] = "EXPIRED"
    BY <1>2 DEF Kept
  <2>2. count' \in 0..Limit
    BY <2>1, SemAssumption DEF SemInv, increment_count_up_to_limit
  <2>3. NoLostWakeup'
    BY <2>1 DEF NoLostWakeup, Pending
  <2>4. WaitInv' /\ TakeInv'
    BY <1>1, <2>1 DEF SemInv, WaitInv, TakeInv
  <2> QED BY <1>1, <2>2, <2>3, <2>4 DEF SemInv
<1>3. ASSUME NEW t \in Threads, Granted(t) PROVE SemInv'
  <2>1. /\ count' = count /\ t \in Pending(k) /\ k.to[t] # "EXPIRED"
        /\ WaitsExact(k') /\ Pending(k') = Pending(k) \ {t}
        /\ \A w \in WaitQs : Waiters(k', w) = Waiters(k, w) \ {t}
        /\ k'.to[t] = "INACTIVE"
        /\ \A u \in Threads \ {t} :
              /\ k'.state[u] = k.state[u] /\ k'.to[u] = k.to[u]
              /\ \/ k'.rv[u] = k.rv[u]
                 \/ u = k.current /\ taking[u] = "no" /\ k'.rv[u] = "EAGAIN"
    BY <1>3 DEF Granted
  <2>2. "PENDING" \notin k'.state[t] /\ "PENDING" \in k.state[t]
    BY <2>1 DEF Pending
  <2>3. WaitInv'
    BY <2>1 DEF SemInv, WaitInv
  <2>4. TakeInv'
    BY <1>1, <2>1, <2>2 DEF SemInv, TakeInv
  <2>5. NoLostWakeup' /\ count' \in 0..Limit
    BY <2>1, <2>2 DEF SemInv, NoLostWakeup
  <2> QED BY <1>1, <2>3, <2>4, <2>5 DEF SemInv
<1> QED BY <1>1, <1>2, <1>3

\* nobody waits at start-up
LEMMA InitSem == Init => SemInv
<1> SUFFICES ASSUME Init PROVE SemInv
  OBVIOUS
<1>1. /\ SchedInit /\ count = InitCount /\ taking = [t \in Threads |-> "no"]
  BY DEF Init
<1>2. IInv
  BY <1>1, InitInv
<1>3. /\ k.wq = [w \in WaitQs |-> <<>>] /\ k.handling = FALSE /\ clk = "off"
      /\ \A t \in Threads : "PENDING" \notin k.state[t] /\ k.to[t] # "EXPIRED"
  BY <1>1 DEF SchedInit, AllTimeouts
<1>4. Pending(k) = {} /\ \A w \in WaitQs : IsInjective(k.wq[w]) /\ Waiters(k, w) = {}
  BY <1>3, ShortLists DEF Pending, Waiters, IsList
<1>5. WaitInv
  BY <1>4 DEF WaitInv, WaitsExact
<1>6. ClockInv /\ TakeInv /\ NoLostWakeup
  BY <1>1, <1>3 DEF ClockInv, TakeInv, NoLostWakeup
<1> QED BY <1>1, <1>2, <1>5, <1>6, SemAssumption DEF SemInv

(***************************************************************************)
(* Every step preserves the invariant.                                     *)
(***************************************************************************)
LEMMA NextSem == SemInv /\ [Next]_vars => SemInv'
<1> SUFFICES ASSUME SemInv, [Next]_vars PROVE SemInv'
  OBVIOUS
<1>1. CASE SemOps
  BY <1>1, QuickStays, GiveStays, WaitStays DEF SemOps
<1>2. CASE ThreadCalls /\ UNCHANGED semVars
  BY <1>2, CallsQuiet, OtherStays
<1>3. CASE (Clock \/ Device) /\ UNCHANGED semVars
  BY <1>3, InterruptsQuiet, OtherStays
<1>4. CASE UNCHANGED vars
  BY <1>4 DEF vars, SemInv, IInv, TypeOK, WaitInv, ClockInv, TakeInv, NoLostWakeup
<1> QED BY <1>1, <1>2, <1>3, <1>4 DEF Next

(***************************************************************************)
(* SemInv is an invariant of the semaphore.                                *)
(***************************************************************************)
THEOREM SemInvariant == Spec => []SemInv
<1> QED BY InitSem, NextSem, PTL DEF Spec

(***************************************************************************)
(* Every thread marked PENDING is linked in the wait queue exactly once,   *)
(* no other thread is, and none is in the ready queue as well, whatever    *)
(* timeouts, aborts and suspensions hit the waiters.                       *)
(***************************************************************************)
THEOREM WaitQueueCorrect == Spec => []WaitQueueExact
<1>1. SemInv => WaitQueueExact
  <2> SUFFICES ASSUME SemInv PROVE WaitQueueExact
    OBVIOUS
  <2> DEFINE s == k.wq[SemQ]
             at(t) == {i \in 1..Len(s) : s[i] = t}
  <2>1. /\ WaitsExact(k) /\ k \in KernelType /\ SemQ \in WaitQs
        /\ \A w \in WaitQs \ {SemQ} : Waiters(k, w) = {}
    BY SemAssumption DEF SemInv, IInv, TypeOK, WaitInv
  <2>2. Waiters(k, SemQ) = Pending(k)
    BY <2>1 DEF WaitsExact
  <2>3. IsList(s, Pending(k))
    BY <2>1, <2>2, WaitersList
  <2> HIDE DEF s
  <2>4. /\ s \in Seq(Threads) /\ DOMAIN s = 1..Len(s)
        /\ Pending(k) = {s[i] : i \in DOMAIN s}
        /\ \A i, j \in DOMAIN s : s[i] = s[j] => i = j
    BY <2>3 DEF IsList, ToSet, IsInjective
  <2>5. ASSUME NEW t \in Threads
        PROVE  Cardinality(at(t)) = IF "PENDING" \in k.state[t] THEN 1 ELSE 0
    <3>1. CASE "PENDING" \in k.state[t]
      <4>1. t \in Pending(k)
        BY <3>1 DEF Pending
      <4>2. PICK n \in 1..Len(s) : s[n] = t
        BY <2>4, <4>1
      <4>3. at(t) = {n}
        BY <2>4, <4>2
      <4> QED BY <3>1, <4>3, FS_Singleton
    <3>2. CASE "PENDING" \notin k.state[t]
      <4>1. t \notin Pending(k)
        BY <3>2 DEF Pending
      <4>2. at(t) = {}
        BY <2>4, <4>1
      <4> QED BY <3>2, <4>2, FS_EmptySet
    <3> QED BY <3>1, <3>2
  <2>6. ReadyQueueExact
    BY DEF SemInv, IInv, Live, Good, Holds, IsList, ReadyQueueExact, ready_q_exact
  <2> QED BY <2>5, <2>6 DEF WaitQueueExact, s
<1> QED BY <1>1, SemInvariant, PTL

(***************************************************************************)
(* No unit is kept while a thread that still wants one is queued: giving   *)
(* never overlooks a waiter, and no waiter queues past a kept unit.        *)
(***************************************************************************)
THEOREM NoWakeupLost == Spec => []NoLostWakeup
<1>1. SemInv => NoLostWakeup
  BY DEF SemInv
<1> QED BY <1>1, SemInvariant, PTL

(***************************************************************************)
(* What the semaphore's other actions are, for the step-wise arguments     *)
(* below: every step of Next is one of these.                              *)
(***************************************************************************)
LEMMA StepKinds ==
    ASSUME SemInv, [Next]_vars
    PROVE  \/ UNCHANGED vars \/ k_sem_take \/ k_sem_take_return \/ k_sem_reset
           \/ taking' = taking /\ (Kept \/ \E t \in Threads : Granted(t))
           \/ \E timeout \in {"TIMED", "FOREVER"} : k_sem_take_wait(timeout)
           \/ OtherStep
<1>1. CASE SemOps
  BY <1>1, GiveEffect DEF SemOps
<1>2. CASE (ThreadCalls \/ Clock \/ Device) /\ UNCHANGED semVars
  BY <1>2, CallsQuiet, InterruptsQuiet
<1> QED BY <1>1, <1>2 DEF Next

(***************************************************************************)
(* A device interrupt that gives in the middle of the clock interrupt      *)
(* never changes the result of a waiter whose timeout has expired.         *)
(***************************************************************************)
THEOREM ExpiredNeverGiven == Spec => ExpiredNotGiven
<1> DEFINE A == \A t \in Threads :
         "PENDING" \in k.state[t] /\ k.to[t] = "EXPIRED" => k'.rv[t] = k.rv[t]
<1>1. SemInv /\ [Next]_vars => [A]_vars
  <2> SUFFICES ASSUME SemInv, [Next]_vars,
                      NEW t \in Threads, "PENDING" \in k.state[t], k.to[t] = "EXPIRED"
               PROVE  k'.rv[t] = k.rv[t]
    OBVIOUS
  <2>1. t # k.current
    BY CurrentNotPending DEF SemInv
  <2>2. CASE UNCHANGED vars \/ k_sem_take \/ k_sem_take_return \/ k_sem_reset \/ Kept
    BY <2>2 DEF vars, k_sem_take, k_sem_take_return, k_sem_reset, Kept
  <2>3. ASSUME NEW u \in Threads, Granted(u) PROVE k'.rv[t] = k.rv[t]
    BY <2>1, <2>3 DEF Granted
  <2>4. ASSUME NEW timeout \in {"TIMED", "FOREVER"}, k_sem_take_wait(timeout)
        PROVE  k'.rv[t] = k.rv[t]
    <3> DEFINE c == k.current
    <3>1. \A u \in Threads \ {c} : k'.rv[u] = k.rv[u]
      BY <2>4, WaitEffect
    <3> QED BY <2>1, <3>1
  <2>5. CASE OtherStep
    <3>1. CASE Quiet
      BY <2>1, <3>1 DEF Quiet, Undisturbed
    <3>2. ASSUME NEW u \in Threads, Abort(u) \/ Expired(k, k', u) \/ Handled(k, k', u)
          PROVE  k'.rv[t] = k.rv[t]
      BY <2>1, <3>2 DEF Abort, Aborted, Expired, Handled
    <3> QED BY <2>5, <3>1, <3>2 DEF OtherStep
  <2> QED BY <2>2, <2>3, <2>4, <2>5, StepKinds
<1> QED BY <1>1, SemInvariant, PTL DEF Spec, ExpiredNotGiven

(***************************************************************************)
(* On the ARM port k_sem_take(K_FOREVER) never returns -EAGAIN.  (On the   *)
(* POSIX port the return from an interrupt clears the result of the thread *)
(* it switches from.)                                                      *)
(***************************************************************************)
THEOREM ForeverNeverFails ==
    ASSUME Port = "arm"
    PROVE  Spec => []ForeverTakesSucceed
<1>1. Init => ForeverTakesSucceed
  BY DEF Init, ForeverTakesSucceed
<1>2. SemInv /\ ForeverTakesSucceed /\ [Next]_vars => ForeverTakesSucceed'
  <2> SUFFICES ASSUME SemInv, ForeverTakesSucceed, [Next]_vars,
                      NEW t \in Threads, taking'[t] = "FOREVER",
                      k'.state[t] \cap {"PENDING", "DEAD"} = {}
               PROVE  k'.rv[t] = "0"
    BY DEF ForeverTakesSucceed
  <2>1. /\ taking \in [Threads -> {"no", "TIMED", "FOREVER"}]
        /\ taking[t] = "FOREVER" => k.to[t] # "EXPIRED"
        /\ k.current \in Threads
    BY CurrentNotPending DEF SemInv, TakeInv
  <2>2. /\ "PENDING" \notin k'.state[t] /\ "DEAD" \notin k'.state[t]
        /\ taking[t] = "FOREVER" /\ "PENDING" \notin k.state[t] /\ "DEAD" \notin k.state[t]
              => k.rv[t] = "0"
    BY DEF ForeverTakesSucceed
  <2>3. CASE UNCHANGED vars \/ k_sem_take \/ k_sem_take_return \/ k_sem_reset
    BY <2>1, <2>2, <2>3 DEF vars, k_sem_take, k_sem_take_return, k_sem_reset
  <2>4. CASE taking' = taking /\ Kept
    BY <2>2, <2>4 DEF Kept
  <2>5. ASSUME NEW u \in Threads, Granted(u), taking' = taking PROVE k'.rv[t] = "0"
    BY <2>2, <2>5 DEF Granted
  <2>6. ASSUME NEW timeout \in {"TIMED", "FOREVER"}, k_sem_take_wait(timeout)
        PROVE  k'.rv[t] = "0"
    <3> DEFINE c == k.current
    <3>1. /\ k'.state[c] = {"PENDING"} /\ taking' = [taking EXCEPT ![c] = timeout]
          /\ \A u \in Threads \ {c} : k'.state[u] = k.state[u] /\ k'.rv[u] = k.rv[u]
      BY <2>6, WaitEffect
    <3> QED BY <2>1, <2>2, <3>1
  <2>7. CASE OtherStep
    <3>1. taking' = taking
      BY <2>7 DEF OtherStep, semVars
    <3>2. CASE Quiet
      <4>1. k'.rv[t] = k.rv[t]
        BY <2>1, <3>1, <3>2 DEF Quiet, Undisturbed
      <4>2. /\ "PENDING" \in k'.state[t] <=> "PENDING" \in k.state[t]
            /\ "DEAD" \in k'.state[t] <=> "DEAD" \in k.state[t]
        BY <3>2 DEF Quiet, Undisturbed
      <4> QED BY <2>2, <3>1, <4>1, <4>2
    <3>3. ASSUME NEW u \in Threads, Abort(u) PROVE k'.rv[t] = "0"
      BY <2>2, <3>1, <3>3 DEF Abort, Aborted
    <3>4. ASSUME NEW u \in Threads, Expired(k, k', u) PROVE k'.rv[t] = "0"
      BY <2>2, <3>1, <3>4 DEF Expired
    <3>5. ASSUME NEW u \in Threads, Handled(k, k', u) PROVE k'.rv[t] = "0"
      BY <2>1, <2>2, <3>1, <3>5 DEF Handled
    <3> QED BY <2>7, <3>2, <3>3, <3>4, <3>5 DEF OtherStep
  <2> QED BY <2>3, <2>4, <2>5, <2>6, <2>7, StepKinds
<1> QED BY <1>1, <1>2, SemInvariant, PTL DEF Spec

(***************************************************************************)
(* A step that changes count and taking in neither way, and the result or  *)
(* the wait of a single thread, maps to a step of AbsSem or to none.       *)
(***************************************************************************)
LEMMA OtherRefines ==
    ASSUME SemInv, OtherStep
    PROVE  [Abs!Next]_<<count, waitersMap, grantedMap>>
<1>0. count' = count /\ taking' = taking
  BY DEF OtherStep, semVars
<1>1. /\ k.current \in Threads /\ "PENDING" \notin k.state[k.current]
      /\ \A t \in Threads :
            "PENDING" \in k.state[t] => taking[t] # "no" /\ k.rv[t] = "EAGAIN"
  BY CurrentNotPending DEF SemInv, TakeInv
<1>2. CASE Quiet
  <2> DEFINE c == k.current
  <2>1. \A t \in Threads :
            /\ "PENDING" \in k'.state[t] <=> "PENDING" \in k.state[t]
            /\ \/ k'.to[t] = k.to[t]
               \/ "PENDING" \notin k.state[t]
               \/ t = c
            /\ \/ k'.rv[t] = k.rv[t]
               \/ t = c /\ k'.rv[t] = "EAGAIN"
    BY <1>2 DEF Quiet, Undisturbed
  <2>2. waitersMap' = waitersMap
    BY <1>0, <1>1, <2>1 DEF waitersMap
  <2>3. grantedMap' = grantedMap \/ (c \in grantedMap /\ grantedMap' = grantedMap \ {c})
    <3>1. CASE k'.rv[c] = k.rv[c]
      BY <1>0, <1>1, <2>1, <3>1 DEF grantedMap
    <3>2. CASE k'.rv[c] # k.rv[c] /\ c \notin grantedMap
      BY <1>0, <1>1, <2>1, <3>2 DEF grantedMap
    <3>3. CASE k'.rv[c] # k.rv[c] /\ c \in grantedMap
      BY <1>0, <1>1, <2>1, <3>3 DEF grantedMap
    <3> QED BY <3>1, <3>2, <3>3
  <2> QED BY <1>0, <1>1, <2>2, <2>3 DEF Abs!Next, Abs!Return
<1>3. ASSUME NEW x \in Threads, Abort(x) \/ Expired(k, k', x) \/ Handled(k, k', x)
      PROVE  [Abs!Next]_<<count, waitersMap, grantedMap>>
  <2>1. /\ \A t \in Threads \ {x} :
              /\ "PENDING" \in k'.state[t] <=> "PENDING" \in k.state[t]
              /\ k'.to[t] = k.to[t]
        /\ \A t \in Threads : k'.rv[t] = k.rv[t] \/ taking[t] = "no"
        /\ "PENDING" \in k'.state[x] => "PENDING" \in k.state[x]
        /\ "PENDING" \notin k'.state[x] \/ k'.to[x] = "EXPIRED"
    <3>1. CASE Abort(x)
      <4>1. "PENDING" \notin k'.state[x]
        BY <3>1 DEF Abort, Aborted, Pending
      <4> QED BY <3>1, <4>1 DEF Abort, Aborted
    <3>2. CASE Expired(k, k', x)
      BY <3>2 DEF Expired
    <3>3. CASE Handled(k, k', x)
      <4>1. "PENDING" \notin k'.state[x]
        BY <3>3 DEF Handled, Pending
      <4> QED BY <3>3, <4>1 DEF Handled
    <3> QED BY <1>3, <3>1, <3>2, <3>3
  <2>2. waitersMap' = waitersMap \ {x}
    BY <2>1 DEF waitersMap
  <2>3. grantedMap' = grantedMap
    BY <1>0, <1>1, <2>1 DEF grantedMap
  <2>4. CASE x \in waitersMap
    BY <1>0, <2>2, <2>3, <2>4 DEF Abs!Next, Abs!GiveUp
  <2>5. CASE x \notin waitersMap
    BY <1>0, <2>2, <2>3, <2>5
  <2> QED BY <2>4, <2>5
<1> QED BY <1>2, <1>3 DEF OtherStep

\* the semaphore's own operations map to those of AbsSem
LEMMA OpsRefine ==
    ASSUME SemInv,
           \/ k_sem_take \/ k_sem_take_return \/ k_sem_reset
           \/ taking' = taking /\ (Kept \/ \E t \in Threads : Granted(t))
           \/ \E timeout \in {"TIMED", "FOREVER"} : k_sem_take_wait(timeout)
    PROVE  [Abs!Next]_<<count, waitersMap, grantedMap>>
<1> DEFINE c == k.current
<1>1. /\ c \in Threads /\ "PENDING" \notin k.state[c] /\ count \in 0..Limit
      /\ taking \in [Threads -> {"no", "TIMED", "FOREVER"}]
      /\ \A t \in Threads :
            "PENDING" \in k.state[t] => taking[t] # "no" /\ k.rv[t] = "EAGAIN"
  BY CurrentNotPending DEF SemInv, TakeInv
<1>2. CASE k_sem_take
  <2>1. count > 0 /\ count' = count - 1 /\ k' = k /\ taking' = taking
    BY <1>2 DEF k_sem_take
  <2>2. waitersMap' = waitersMap /\ grantedMap' = grantedMap
    BY <2>1 DEF waitersMap, grantedMap
  <2> QED BY <2>1, <2>2 DEF Abs!Next, Abs!Take
<1>3. CASE k_sem_take_return
  <2>1. k' = k /\ count' = count /\ taking' = [taking EXCEPT ![c] = "no"]
    BY <1>3 DEF k_sem_take_return
  <2>2. waitersMap' = waitersMap
    BY <2>1 DEF waitersMap
  <2>3. grantedMap' = grantedMap \ {c}
    BY <1>1, <2>1 DEF grantedMap
  <2> QED BY <1>1, <2>1, <2>2, <2>3 DEF Abs!Next, Abs!Return
<1>4. CASE k_sem_reset
  <2>1. count' = 0 /\ k' = k /\ taking' = taking
    BY <1>4 DEF k_sem_reset
  <2>2. waitersMap' = waitersMap /\ grantedMap' = grantedMap
    BY <2>1 DEF waitersMap, grantedMap
  <2> QED BY <2>1, <2>2 DEF Abs!Next, Abs!Reset
<1>5. CASE taking' = taking /\ Kept
  <2>1. /\ k' = k /\ count' = increment_count_up_to_limit(count)
        /\ \A u \in Pending(k) : k.to[u] = "EXPIRED"
    BY <1>5 DEF Kept
  <2>2. waitersMap' = waitersMap /\ grantedMap' = grantedMap /\ waitersMap = {}
    BY <1>5, <2>1 DEF waitersMap, grantedMap, Pending
  <2>3. CASE count = Limit
    BY <2>1, <2>2, <2>3 DEF increment_count_up_to_limit
  <2>4. CASE count # Limit
    <3>1. count' = count + 1 /\ count < Limit
      BY <1>1, <2>1, <2>4, SemAssumption DEF increment_count_up_to_limit
    <3> QED BY <2>2, <3>1 DEF Abs!Next, Abs!GiveKept
  <2> QED BY <2>3, <2>4
<1>6. ASSUME NEW t \in Threads, Granted(t), taking' = taking
      PROVE  [Abs!Next]_<<count, waitersMap, grantedMap>>
  <2>1. /\ count' = count /\ t \in Pending(k) /\ k.to[t] # "EXPIRED"
        /\ Pending(k') = Pending(k) \ {t} /\ k'.rv[t] = "0"
        /\ \A u \in Threads \ {t} :
              /\ k'.state[u] = k.state[u] /\ k'.to[u] = k.to[u]
              /\ k'.rv[u] = k.rv[u] \/ taking[u] = "no"
    BY <1>6 DEF Granted
  <2>2. "PENDING" \in k.state[t] /\ "PENDING" \notin k'.state[t]
    BY <2>1 DEF Pending
  <2>3. t \in waitersMap /\ waitersMap' = waitersMap \ {t}
    BY <2>1, <2>2 DEF waitersMap
  <2>4. grantedMap' = grantedMap \cup {t}
    BY <1>1, <1>6, <2>1, <2>2 DEF grantedMap
  <2> QED BY <2>1, <2>3, <2>4 DEF Abs!Next, Abs!GiveToWaiter
<1>7. ASSUME NEW timeout \in {"TIMED", "FOREVER"}, k_sem_take_wait(timeout)
      PROVE  [Abs!Next]_<<count, waitersMap, grantedMap>>
  <2>1. /\ taking[c] = "no" /\ count = 0 /\ count' = count
        /\ k'.state[c] = {"PENDING"} /\ k'.to[c] # "EXPIRED"
        /\ taking' = [taking EXCEPT ![c] = timeout]
        /\ \A u \in Threads \ {c} : /\ k'.state[u] = k.state[u]
                                    /\ k'.to[u] = k.to[u]
                                    /\ k'.rv[u] = k.rv[u]
    BY <1>7, WaitEffect
  <2> HIDE DEF c
  <2>2. c \notin waitersMap \cup grantedMap
    BY <1>1, <2>1 DEF waitersMap, grantedMap
  <2>3. waitersMap' = waitersMap \cup {c}
    BY <1>1, <2>1 DEF waitersMap
  <2>4. grantedMap' = grantedMap
    BY <1>1, <2>1 DEF grantedMap
  <2> QED BY <1>1, <2>1, <2>2, <2>3, <2>4 DEF Abs!Next, Abs!Wait
<1> QED BY <1>2, <1>3, <1>4, <1>5, <1>6, <1>7

(***************************************************************************)
(* The semaphore implements AbsSem: initial states map to initial states,  *)
(* every step to a step of AbsSem or to none.                              *)
(***************************************************************************)
THEOREM SemRefines == Spec => Refines
<1>1. Init => Abs!Init
  <2> SUFFICES ASSUME Init PROVE Abs!Init
    OBVIOUS
  <2>1. count = InitCount /\ \A t \in Threads : taking[t] = "no"
    BY DEF Init
  <2>2. \A t \in Threads : "PENDING" \notin k.state[t]
    BY DEF Init, SchedInit
  <2> QED BY <2>1, <2>2 DEF Abs!Init, waitersMap, grantedMap
<1>2. SemInv /\ [Next]_vars => [Abs!Next]_<<count, waitersMap, grantedMap>>
  <2> SUFFICES ASSUME SemInv, [Next]_vars
               PROVE  [Abs!Next]_<<count, waitersMap, grantedMap>>
    OBVIOUS
  <2>1. CASE UNCHANGED vars
    BY <2>1 DEF vars, waitersMap, grantedMap
  <2> QED BY <2>1, StepKinds, OpsRefine, OtherRefines
<1> QED BY <1>1, <1>2, SemInvariant, PTL DEF Spec, Refines, Abs!Spec

(***************************************************************************)
(* As long as nobody changes a priority the semaphore's queue is sorted.   *)
(***************************************************************************)
SortInv == Sorted(k, k.wq[SemQ])

\* priorities fixed, every step keeps the semaphore's queue sorted
LEMMA StaysSorted ==
    ASSUME NewPrios = {}, SemInv, SortInv, [Next]_vars
    PROVE  SortInv'
<1> DEFINE s == k.wq[SemQ]
<1>1. k \in KernelType /\ SemQ \in WaitQs /\ s \in Seq(Threads) /\ Sorted(k, s)
  BY SemAssumption DEF SemInv, IInv, TypeOK, KernelType, SortInv
<1>2. ASSUME k'.prio = k.prio,
             \/ k'.wq[SemQ] = s
             \/ \E t \in Threads : \/ k'.wq[SemQ] = dlist_remove(s, t)
                                   \/ k'.wq[SemQ] = InsertAt(s, pend_position(k, t, SemQ), t)
      PROVE  SortInv'
  <2>1. Sorted(k, k'.wq[SemQ])
    BY <1>1, <1>2, SortedRemoved, SortedInserted
  <2> QED BY <1>2, <2>1 DEF SortInv, Sorted
<1>3. CASE UNCHANGED vars \/ k_sem_take \/ k_sem_take_return \/ k_sem_reset \/ Kept
  BY <1>2, <1>3 DEF vars, k_sem_take, k_sem_take_return, k_sem_reset, Kept
<1>4. ASSUME NEW t \in Threads, Granted(t) PROVE SortInv'
  BY <1>1, <1>2, <1>4 DEF Granted
<1>5. ASSUME NEW timeout \in {"TIMED", "FOREVER"}, k_sem_take_wait(timeout)
      PROVE  SortInv'
  <2> DEFINE c == k.current
  <2>1. /\ c \in Threads /\ k'.prio = k.prio
        /\ k'.wq[SemQ] = InsertAt(s, pend_position(k, c, SemQ), c)
    BY <1>5, WaitEffect
  <2> QED BY <1>2, <2>1
<1>6. CASE OtherStep
  <2>1. CASE Quiet
    BY <1>2, <2>1 DEF Quiet, Undisturbed
  <2>2. ASSUME NEW x \in Threads, Abort(x) \/ Expired(k, k', x) \/ Handled(k, k', x)
        PROVE  SortInv'
    <3>1. /\ k'.prio = k.prio
          /\ k'.wq[SemQ] = s \/ k'.wq[SemQ] = dlist_remove(s, x)
      BY <1>1, <2>2 DEF Abort, Aborted, Expired, Handled
    <3> QED BY <1>2, <3>1
  <2> QED BY <1>6, <2>1, <2>2 DEF OtherStep
<1> QED BY <1>3, <1>4, <1>5, <1>6, StepKinds

(***************************************************************************)
(* With fixed priorities a unit goes to no thread while a more urgent one  *)
(* waits, whatever expires, is aborted or joins the queue meanwhile.       *)
(* (k_thread_priority_set() does not move a queued thread: with NewPrios   *)
(* not empty the property is false.)                                       *)
(***************************************************************************)
THEOREM MostUrgentFirst ==
    ASSUME NewPrios = {}
    PROVE  Spec => GivenToMostUrgent
<1> DEFINE A == \A t, u \in Threads :
         /\ "PENDING" \in k.state[t] /\ "PENDING" \in k.state[u]
         /\ k.to[u] # "EXPIRED"
         /\ k.rv[t] # "0" /\ k'.rv[t] = "0"
         => ~is_prio_higher(k.prio[u], k.prio[t])
<1>1. Init => SortInv
  BY SemAssumption DEF Init, SchedInit, SortInv, Sorted
<1>2. SemInv /\ SortInv /\ [Next]_vars => SortInv'
  BY StaysSorted
<1>3. SemInv /\ SortInv /\ [Next]_vars => [A]_vars
  <2> SUFFICES ASSUME SemInv, SortInv, [Next]_vars,
                      NEW t \in Threads, NEW u \in Threads,
                      "PENDING" \in k.state[t], "PENDING" \in k.state[u],
                      k.to[u] # "EXPIRED", k.rv[t] # "0", k'.rv[t] = "0"
               PROVE  ~is_prio_higher(k.prio[u], k.prio[t])
    OBVIOUS
  <2> DEFINE s == k.wq[SemQ]
  <2>1. t # k.current
    BY CurrentNotPending DEF SemInv
  <2>2. ~(UNCHANGED vars \/ k_sem_take \/ k_sem_take_return \/ k_sem_reset \/ Kept)
    BY DEF vars, k_sem_take, k_sem_take_return, k_sem_reset, Kept
  <2>3. ~OtherStep
    <3>1. ~Quiet
      BY <2>1 DEF Quiet, Undisturbed
    <3>2. \A x \in Threads : ~(Abort(x) \/ Expired(k, k', x) \/ Handled(k, k', x))
      BY <2>1 DEF Abort, Aborted, Expired, Handled
    <3> QED BY <3>1, <3>2 DEF OtherStep
  <2>4. ASSUME NEW timeout \in {"TIMED", "FOREVER"}, k_sem_take_wait(timeout)
        PROVE  FALSE
    <3> DEFINE c == k.current
    <3>1. \A x \in Threads \ {c} : k'.rv[x] = k.rv[x]
      BY <2>4, WaitEffect
    <3> QED BY <2>1, <3>1
  <2>5. Granted(t)
    <3>1. PICK x \in Threads : Granted(x)
      BY <2>2, <2>3, <2>4, StepKinds
    <3>2. x = t
      BY <2>1, <3>1 DEF Granted
    <3> QED BY <3>1, <3>2
  <2>6. PICK n \in 1..Len(s) : /\ s[n] = t
                               /\ \A i \in 1..Len(s) : k.to[s[i]] # "EXPIRED" => n <= i
    BY <2>5 DEF Granted
  <2>7. /\ WaitsExact(k) /\ k \in KernelType /\ SemQ \in WaitQs
        /\ \A w \in WaitQs \ {SemQ} : Waiters(k, w) = {}
    BY SemAssumption DEF SemInv, IInv, TypeOK, WaitInv
  <2>8. u \in Waiters(k, SemQ) /\ s \in Seq(Threads)
    <3>1. u \in Pending(k)
      BY DEF Pending
    <3>2. u \in Waiters(k, SemQ)
      BY <2>7, <3>1 DEF WaitsExact
    <3> QED BY <2>7, <3>2 DEF KernelType
  <2>9. PICK i \in 1..Len(s) : s[i] = u
    BY <2>8 DEF Waiters, ToSet
  <2>10. n <= i
    BY <2>6, <2>9
  <2>11. k.prio[t] \in Int /\ k.prio[u] \in Int
    BY <2>7, PriosAssumption DEF KernelType, Prios
  <2>12. n = i \/ n < i
    BY <2>8, <2>10
  <2>13. k.prio[t] <= k.prio[u]
    BY <2>6, <2>9, <2>11, <2>12 DEF SortInv, Sorted
  <2> QED BY <2>11, <2>13 DEF is_prio_higher
<1> QED BY <1>1, <1>2, <1>3, SemInvariant, PTL DEF Spec, GivenToMostUrgent

=============================================================================
